-------------------------------- MODULE Emit --------------------------------
(***************************************************************************)
(* One IR instruction, under an allocation, becomes a sequence of machine  *)
(* instructions, which then runs.  The hazards are in the interplay:       *)
(* operands, result and scratch registers may coincide, be spilled near or *)
(* far, be zero, or hold a magic number made elsewhere.                    *)
(***************************************************************************)
EXTENDS Select

CONSTANT Cases           \* sets of instructions with generator and operands

(* Calls are emitted elsewhere; only a store has no result; a division is  *)
(* marked unsigned for a positive divisor only, which may have gone to a   *)
(* vreg since; sp is nobody's home, and a slot's offset is a word.         *)
IsCase(c) ==
  /\ c.in.op \in Ops \ {"Call"}
  /\ c.in.op # "StoreGlobal" => c.in.dst # NoReg
  /\ ~IsReg(c.in.b) => c.in.b = Imm(c.in.b.n) /\ c.in.b.n \in Words
  /\ c.in.unsignedDiv \in BOOLEAN
  /\ ByUnsigned(c.in) => c.in.b.n > 0
  /\ c.cg.dstOverride # SP
  /\ c.in.dst # NoReg => /\ c.cg.reg[c.in.dst] # SP
                         /\ \/ c.cg.reg[c.in.dst] # NoReg
                            \/ SpillOff(c.cg, c.in.dst) \in Words

ASSUME CasesAssumption == \A family \in Cases : \A c \in family : IsCase(c)

Scratch == {A6, A7, T5, T6}
Homes == 0 .. 31 \ (Scratch \cup {ZERO, SP})

(* The contents of v's home in machine state s.                            *)
Home(gen, v, s) == IF gen.reg[v] # NoReg THEN s.r[gen.reg[v]] ELSE s.m[SpillOff(gen, v)]

(* The machine with every vreg in its home: the zero register, and sp at   *)
(* the bottom of the frame; whatever else there is holds Junk.             *)
Junk == Half - 1

OneOf(held, vs) == IF vs = {} THEN Junk ELSE held[CHOOSE v \in vs : TRUE]

Holding(gen, held) ==
  LET inReg(r) == OneOf(held, {v \in DOMAIN held : gen.reg[v] = r})
      inSlot(k) == OneOf(held, {v \in DOMAIN held : gen.reg[v] = NoReg /\ SpillOff(gen, v) = k})
  IN  [r |-> [r \in 0 .. 31 |-> IF r \in {ZERO, SP} THEN 0 ELSE inReg(r)],
       m |-> [k \in 0 .. Half - 1 |-> inSlot(k)],
       g |-> [x \in {0, 1} |-> x - 2]]

(* Everything named has a home: a register the allocator gives out, or a   *)
(* slot.  A magic number made elsewhere is the one the division needs.     *)
IsPlaced(c) ==
  LET vs == DOMAIN c.held
      Named(val) == IF IsReg(val) THEN val.n \in vs ELSE val.n \in Words
      magical == /\ c.in.op \in {"Div", "Mod"} /\ ~c.in.unsignedDiv /\ ~IsReg(c.in.b)
                 /\ NeedsMagic(c.in.b.n) /\ c.in.magic # NoReg
  IN  /\ \A v \in vs : /\ c.held[v] \in Words
                      /\ \/ c.cg.reg[v] \in Homes
                         \/ c.cg.reg[v] = NoReg /\ SpillOff(c.cg, v) \in 0 .. Half - 1
      /\ Named(c.in.a) /\ Named(c.in.b) /\ c.in.dst \in vs \cup {NoReg}
      /\ c.in.gid \in {0, 1} /\ c.cg.dstOverride \in Homes \cup {NoReg}
      /\ magical => /\ c.in.magic \in vs
                    /\ Home(c.cg, c.in.magic, Holding(c.cg, c.held)) = SignedMagic[c.in.b.n].M

ASSUME PlacedAssumption == \A family \in Cases : \A c \in family : IsPlaced(c)

VARIABLES in,            \* the instruction
          cg,            \* the code generator, as in Select
          start,         \* the machine before the instruction
          stage,         \* "emit", "run", "fault": the compiler stopped
          code, at, st   \* the sequence, the next instruction, the machine

emitVars == <<in, cg, start, stage, code, at, st>>

-----------------------------------------------------------------------------
Emit ==
  /\ stage = "emit" /\ ~Faults(cg, in)
  /\ code' = InstCode(cg, in)
  /\ stage' = "run"
  /\ UNCHANGED <<in, cg, start, at, st>>

EmitFaults ==
  /\ stage = "emit" /\ Faults(cg, in)
  /\ stage' = "fault"
  /\ UNCHANGED <<in, cg, start, code, at, st>>

Execute ==
  /\ stage = "run" /\ at =< Len(code)
  /\ st' = After(code[at], st)
  /\ at' = at + 1
  /\ UNCHANGED <<in, cg, start, stage, code>>

EmitInit ==
  \E family \in Cases : \E c \in family :
    /\ in = c.in /\ cg = c.cg
    /\ stage = "emit" /\ code = << >> /\ at = 1
    /\ start = Holding(c.cg, c.held) /\ st = start

EmitNext == Emit \/ EmitFaults \/ Execute

EmitSpec == EmitInit /\ [][EmitNext]_emitVars

-----------------------------------------------------------------------------
Done == stage = "run" /\ at > Len(code)

(* The contents of v's home in machine state s, of an operand at the start.*)
HomeOf(v, s) == Home(cg, v, s)
Value(val) == IF IsReg(val) THEN HomeOf(val.n, start) ELSE val.n

Expected ==
  CASE in.op \in BinaryOps -> EvalBinary(in.op, Value(in.a), Value(in.b))
    [] in.op \in UnaryOps -> EvalUnary(in.op, Value(in.a))
    [] in.op = "LoadGlobal" -> start.g[in.gid]
    [] in.op = "StoreGlobal" -> Value(in.a)

Produced ==
  CASE in.op = "StoreGlobal" -> st.g[in.gid]
    [] in.op # "StoreGlobal" /\ cg.dstOverride # NoReg -> st.r[cg.dstOverride]
    [] OTHER -> HomeOf(in.dst, st)

(* Registers and slots the sequence may write besides the scratch ones.    *)
OwnRegs == {cg.dstOverride} \cup (IF in.dst = NoReg THEN {} ELSE {cg.reg[in.dst]})
OwnSlots == IF in.dst = NoReg \/ cg.dstOverride # NoReg \/ cg.reg[in.dst] # NoReg
            THEN {} ELSE {SpillOff(cg, in.dst)}

-----------------------------------------------------------------------------
(* However the instruction was selected, wherever its operands and result  *)
(* live, running the sequence leaves the value of the operator there.  A   *)
(* division by a constant that is marked unsigned is left out: its code is *)
(* right for dividends that are not negative (ComputesUnsigned).           *)
ComputesOp == Done /\ ~ByUnsigned(in) => Produced = Expected

(* No instruction of a sequence writes a register or a slot that is not    *)
(* the result's, the scratch registers apart: values of other vregs, the   *)
(* operands among them, and sp survive.                                    *)
LeavesOthers ==
  /\ \A r \in 0 .. 31 \ (Scratch \cup OwnRegs) : st.r[r] = start.r[r]
  /\ \A k \in DOMAIN st.m \ OwnSlots : st.m[k] = start.m[k]
  /\ \A x \in DOMAIN st.g : st.g[x] = start.g[x] \/ (in.op = "StoreGlobal" /\ x = in.gid)

(* A division marked unsigned has a non-negative dividend and a positive   *)
(* divisor, for which the shorter sequence is to give the same quotient.   *)
UnsignedDivides == Done /\ ByUnsigned(in) => Produced = Expected

(* Every instruction the passes hand over can be selected.                 *)
AlwaysSelects == stage # "fault"
=============================================================================
