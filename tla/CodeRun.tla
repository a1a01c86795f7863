------------------------------- MODULE CodeRun -------------------------------
(***************************************************************************)
(* Whole programs of emitted functions on an RV32 machine with one stack:  *)
(* what emitFunc, emitCall and emitEpilogue promise each other.  `frames`  *)
(* records, at every call, what the caller relies on; the program never    *)
(* reads it.  Execution starts at the first function and ends when that    *)
(* one returns.                                                            *)
(***************************************************************************)
EXTENDS Naive

CONSTANTS Programs,      \* programs, each a sequence of units
          Globals,       \* initial values of the globals
          StackTop       \* words of stack

VARIABLES prog,          \* the program that runs, an index of Programs
          init,          \* the globals at the start
          text,          \* its assembly, empty until it has been compiled
          pos, st,       \* the instruction and the machine
          frames         \* one record per activation, innermost first

codeVars == <<prog, init, text, pos, st, frames>>

(* generateAsm: run of one back end or of the other.  A unit that has no   *)
(* allocation is for the naive one.                                        *)
IsNaive(u) == u.al = NoAllocation

UnitCode(u) == IF IsNaive(u) THEN NaiveFunc(u) ELSE FuncCode(u)

Code == [p \in DOMAIN Programs |->
           Concat([k \in DOMAIN Programs[p] |-> UnitCode(Programs[p][k])])]

(* The position of a function or of a label.                               *)
Find(op, n) == CHOOSE k \in DOMAIN text : text[k].op = op /\ text[k].n = n

CallerSaved == {5, 6, 7, 28, 29}
CalleeSaved == {8, 9} \cup 18 .. 27
Branches == {"blt", "bge", "beq", "bne"}
Halt == 0

Here == text[pos]
Running == pos # Halt /\ text # << >>
Top == frames[1]

-----------------------------------------------------------------------------
(* The programs.  An allocation is what allocateRegisters returns (see     *)
(* RegAlloc: TypeOK, HomesPacked, ParamsApart): homes come from the pools, *)
(* spill slots are those counted, callee-saved registers in use are        *)
(* listed, a leaf calls nothing, and parameters have homes of their own.   *)
HomeIn(al, v) == IF al.reg[v] # NoReg THEN <<"reg", al.reg[v]>> ELSE <<"slot", al.spillSlot[v]>>

IsAllocation(f, al) ==
  /\ al.reg \in [Vregs(f) -> CallerSaved \cup CalleeSaved \cup {NoReg}]
  /\ al.numSpills \in Nat /\ al.isLeaf \in BOOLEAN
  /\ al.usedCallee \in Seq(CalleeSaved)
  /\ \A v \in Vregs(f) :
       /\ al.reg[v] = NoReg => al.spillSlot[v] \in 0 .. al.numSpills - 1
       /\ al.reg[v] \in CalleeSaved => \E k \in DOMAIN al.usedCallee : al.usedCallee[k] = al.reg[v]
  /\ al.isLeaf => Calls(f) = {}
  /\ \A i, j \in DOMAIN f.params :
       HomeIn(al, f.params[i]) = HomeIn(al, f.params[j]) => i = j

(* Globals and callees exist, a constant divisor of a division marked      *)
(* unsigned is positive, and the optimizing back end divides by no         *)
(* constant 0.                                                             *)
Gids == UNION {DOMAIN g : g \in Globals}

IsInstOf(p, u, in) ==
  /\ in.op \in {"LoadGlobal", "StoreGlobal"} => in.gid \in Gids
  /\ in.op = "Call" => in.callee \in DOMAIN Programs[p]
  /\ ByUnsigned(in) => in.b.n > 0
  /\ ~IsNaive(u) => ~Faults(Gen(u), in)

FrameSize(u) == IF IsNaive(u) THEN NaiveFrame(u.fn).frameSize ELSE Layout(u).frameSize

IsUnit(p, u) ==
  /\ IsIRFunc(u.fn)
  /\ IsNaive(u) \/ IsAllocation(u.fn, u.al)
  /\ \A b \in Blocks(u.fn) : \A k \in DOMAIN u.fn.blocks[b].insts :
       IsInstOf(p, u, u.fn.blocks[b].insts[k])
  /\ FrameSize(u) + Len(u.fn.params) =< Half \div 2

ASSUME ProgramsAssumption ==
  \A p \in DOMAIN Programs :
    /\ DOMAIN Programs[p] = 1 .. Len(Programs[p])
    /\ Len(Programs[p]) \in Nat \ {0}
    /\ \A k \in DOMAIN Programs[p] : Programs[p][k].id = k /\ IsUnit(p, Programs[p][k])

ASSUME GlobalsAssumption == \A g \in Globals : g \in [Gids -> Words]

(* A position of the text is a word; so is whatever the machine holds at   *)
(* the start.                                                              *)
ASSUME TextAssumption == \A p \in DOMAIN Programs : Len(Code[p]) < Half

ASSUME StackAssumption == StackTop \in Nat /\ StackTop % 4 = 0 /\ StackTop + 40 =< Half

-----------------------------------------------------------------------------
(* What the activation that begins may rely on and must keep.              *)
Frame(s, from) ==
  [sp |-> s.r[SP], ra |-> s.r[RA], saved |-> [x \in CalleeSaved |-> s.r[x]],
   args |-> [i \in 0 .. 7 |-> s.r[A0 + i]], mem |-> s.m, unit |-> from]

Compile ==
  /\ text = << >>
  /\ text' = Code[prog]
  /\ UNCHANGED <<prog, init, pos, st, frames>>

Mark ==
  /\ Running /\ Here.op \in {"func", "label"}
  /\ pos' = pos + 1
  /\ UNCHANGED <<prog, init, text, st, frames>>

(* An access outside the stack traps: the machine goes no further.         *)
Traps == Here.op \in {"lw", "sw"} /\ st.r[Here.rs] + Here.n \notin 0 .. StackTop

Straight ==
  /\ Running /\ Here.op \notin {"func", "label", "j", "call", "ret"} \cup Branches
  /\ ~Traps
  /\ st' = After(Here, st)
  /\ pos' = pos + 1
  /\ UNCHANGED <<prog, init, text, frames>>

Taken(in, r) ==
  CASE in.op = "blt" -> r[in.rs] < r[in.rt]
    [] in.op = "bge" -> r[in.rs] >= r[in.rt]
    [] in.op = "beq" -> r[in.rs] = r[in.rt]
    [] in.op = "bne" -> r[in.rs] # r[in.rt]

ConditionalJump ==
  /\ Running /\ Here.op \in Branches
  /\ pos' = IF Taken(Here, st.r) THEN Find("label", Here.n) ELSE pos + 1
  /\ UNCHANGED <<prog, init, text, st, frames>>

Jumps ==
  /\ Running /\ Here.op = "j"
  /\ pos' = Find("label", Here.n)
  /\ UNCHANGED <<prog, init, text, st, frames>>

Enter ==
  /\ Running /\ Here.op = "call"
  /\ st' = [st EXCEPT !.r[RA] = pos + 1]
  /\ pos' = Find("func", Here.n)
  /\ frames' = <<Frame(st', Here.n)>> \o frames
  /\ UNCHANGED <<prog, init, text>>

Leave ==
  /\ Running /\ Here.op = "ret"
  /\ st.r[RA] \in DOMAIN text \cup {Halt}
  /\ pos' = st.r[RA]
  /\ frames' = Tail(frames)
  /\ UNCHANGED <<prog, init, text, st>>

-----------------------------------------------------------------------------
(* Registers and stack hold different values everywhere at the start.      *)
Fresh(g) ==
  [r |-> [x \in 0 .. 31 |-> CASE x = SP -> StackTop [] x \in {ZERO, RA} -> 0 [] OTHER -> -x],
   m |-> [k \in 0 .. StackTop |-> -40 - k],
   g |-> g]

CodeInit ==
  /\ prog \in DOMAIN Programs /\ init \in Globals
  /\ text = << >> /\ pos = 1
  /\ st = Fresh(init)
  /\ frames = <<Frame(st, 1)>>

CodeNext == Compile \/ Mark \/ Straight \/ ConditionalJump \/ Jumps \/ Enter \/ Leave

CodeSpec == CodeInit /\ [][CodeNext]_codeVars /\ WF_codeVars(CodeNext)

-----------------------------------------------------------------------------
(* The machine holds words, instructions name registers, and control stays *)
(* in the text: OptCodeGen never prints an operand it has not computed.    *)
CodeTypeOK ==
  /\ text # << >> => pos \in DOMAIN text \cup {Halt}
  /\ st.r \in [0 .. 31 -> Words] /\ st.m \in [0 .. StackTop -> Words]
  /\ Running => {Here.rd, Here.rs, Here.rt} \subseteq 0 .. 31

(* A function returns to the instruction after the call that entered it,   *)
(* with the stack pointer and every callee-saved register as it found them *)
(* (prologue and epilogue agree, and ra is saved unless nothing calls),    *)
(* and the stack pointer is a multiple of 16 bytes at every call.          *)
KeepsPromises ==
  /\ Running /\ Here.op = "ret" =>
       /\ st.r[SP] = Top.sp /\ st.r[RA] = Top.ra
       /\ \A x \in CalleeSaved : st.r[x] = Top.saved[x]
  /\ Running /\ Here.op = "call" => st.r[SP] % 4 = 0

(* What the callers hold in the stack stays as it was at the call, however *)
(* deep the calls go, and no store goes below the stack pointer.           *)
CallersKept ==
  Running =>
    /\ \A k \in 0 .. StackTop : k >= Top.sp => st.m[k] = Top.mem[k]
    /\ Here.op = "sw" => st.r[Here.rs] + Here.n >= st.r[SP]

(* When the first block of a function begins, every parameter is in its    *)
(* home with the value the caller passed, the ninth and later from the     *)
(* caller's frame.                                                         *)
Passed(i) == IF i < 8 THEN Top.args[i] ELSE Top.mem[Top.sp + i - 8]

ParamsArrive ==
  Running /\ Here.op = "label" /\ Here.n = LabelOf([id |-> Top.unit], 0) =>
    LET u == Programs[prog][Top.unit]
    IN  \A i \in 0 .. Len(u.fn.params) - 1 :
          LET v == u.fn.params[i + 1]
          IN  Passed(i) = CASE IsNaive(u) -> st.m[st.r[SP] + SlotOff(u.fn, v)]
                            [] ~IsNaive(u) /\ u.al.reg[v] # NoReg -> st.r[u.al.reg[v]]
                            [] OTHER -> st.m[st.r[SP] + SpillOff(Gen(u), v)]

(* The program ends, and so without leaving the stack or losing its way:   *)
(* every program given here does by the meaning of its IR.                 *)
Ends == <>(pos = Halt)
=============================================================================
