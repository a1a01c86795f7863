------------------------------- MODULE Codegen -------------------------------
(***************************************************************************)
(* emitFunc of codegen/OptCodeGen.cpp: from an IR function and its         *)
(* Allocation to assembly, with frame, prologue, parameter moves, blocks   *)
(* in index order, fused terminators, calls and epilogue.  A unit u has    *)
(* the function fn, the allocation al and a number id that serves as its   *)
(* name.  Frame offsets and sizes are in words; 16 bytes are 4 of them.    *)
(***************************************************************************)
EXTENDS Select

CONSTANT Opt             \* the -opt flag

F == INSTANCE FiniteSetsExt

(* The concatenation of a sequence of sequences.                           *)
Concat(codes) ==
  LET upTo[k \in 0 .. Len(codes)] == IF k = 0 THEN << >> ELSE upTo[k - 1] \o codes[k]
  IN  upTo[Len(codes)]

-----------------------------------------------------------------------------
(* The frame: outgoing arguments, spill slots, callee-saved registers, ra. *)

Align_Exact(n) == n                     \* mutant: the size is not rounded up

Align(n) == 4 * ((n + 3) \div 4)

Calls(f) == {f.blocks[x[1]].insts[x[2]] :
               x \in {y \in UNION {{b} \X DOMAIN f.blocks[b].insts : b \in Blocks(f)} :
                        f.blocks[y[1]].insts[y[2]].op = "Call"}}

Layout_NoRa(u) ==                       \* mutant: no word is counted for ra
  LET out == F!Max({0} \cup {Len(in.args) - 8 : in \in Calls(u.fn)})
      calleeBase == out + u.al.numSpills
      raOff == calleeBase + Len(u.al.usedCallee)
  IN  [spillBase |-> out, calleeBase |-> calleeBase, raOff |-> raOff,
       frameSize |-> Align(raOff)]

Layout(u) ==
  LET out == F!Max({0} \cup {Len(in.args) - 8 : in \in Calls(u.fn)})
      calleeBase == out + u.al.numSpills
      raOff == calleeBase + Len(u.al.usedCallee)
  IN  [spillBase |-> out, calleeBase |-> calleeBase, raOff |-> raOff,
       frameSize |-> Align(raOff + (IF u.al.isLeaf THEN 0 ELSE 1))]

Gen(u) == [reg |-> u.al.reg, spillSlot |-> u.al.spillSlot, opt |-> Opt,
           spillBase |-> Layout(u).spillBase, dstOverride |-> NoReg]

Descend(n) ==
  CASE n = 0 -> << >>
    [] n > 0 /\ Fits(-n) -> <<RRI("addi", SP, SP, -n)>>
    [] OTHER -> <<LI(T6, n), RRR("sub", SP, SP, T6)>>

Ascend(n) ==
  CASE n = 0 -> << >>
    [] n > 0 /\ Fits(n) -> <<RRI("addi", SP, SP, n)>>
    [] OTHER -> <<LI(T6, n), RRR("add", SP, SP, T6)>>

Prologue(u) ==
  LET l == Layout(u)
  IN  Descend(l.frameSize)
        \o (IF u.al.isLeaf THEN << >> ELSE StoreOff(RA, l.raOff))
        \o Concat([k \in DOMAIN u.al.usedCallee |->
                     StoreOff(u.al.usedCallee[k], l.calleeBase + k - 1)])

MoveParam_NoFrame(u, i) ==              \* mutant: the caller's frame is not skipped
  LET p == u.al.reg[u.fn.params[i + 1]]
  IN  IF i < 8 THEN MoveTo(p, A0 + i) ELSE LoadOff(p, i - 8)

(* Parameter i, counted from 0, from its register or the caller's frame.   *)
MoveParam(u, i) ==
  LET v == u.fn.params[i + 1]
      p == u.al.reg[v]
      slot == SpillOff(Gen(u), v)
      incoming == Layout(u).frameSize + i - 8
  IN  CASE i < 8 /\ p # NoReg -> MoveTo(p, A0 + i)
        [] i < 8 /\ p = NoReg -> StoreOff(A0 + i, slot)
        [] i >= 8 /\ p # NoReg -> LoadOff(p, incoming)
        [] OTHER -> LoadOff(T5, incoming) \o StoreOff(T5, slot)

Entry(u) == Prologue(u) \o Concat([k \in DOMAIN u.fn.params |-> MoveParam(u, k - 1)])

Epilogue_SpFirst(u) ==                  \* mutant: sp is restored too early
  LET l == Layout(u)
  IN  Ascend(l.frameSize)
        \o Concat([k \in DOMAIN u.al.usedCallee |->
                     LoadOff(u.al.usedCallee[k], l.calleeBase + k - 1)])
        \o (IF u.al.isLeaf THEN << >> ELSE LoadOff(RA, l.raOff))
        \o <<RR("ret", ZERO, RA)>>

Epilogue(u) ==
  LET l == Layout(u)
  IN  Concat([k \in DOMAIN u.al.usedCallee |->
                LoadOff(u.al.usedCallee[k], l.calleeBase + k - 1)])
        \o (IF u.al.isLeaf THEN << >> ELSE LoadOff(RA, l.raOff))
        \o Ascend(l.frameSize)
        \o <<RR("ret", ZERO, RA)>>

-----------------------------------------------------------------------------
(* emitCall: stack arguments from the last to the ninth, then the          *)
(* registers, then the call and its result.                                *)

CallCode(cg, in) ==
  LET n == Len(in.args)
      stacked == IF n > 8 THEN n - 8 ELSE 0
      push(k) == LET i == n + 1 - k
                 IN  Materialize(cg, in.args[i], T5) \o StoreOff(T5, i - 9)
      result == CASE in.dst = NoReg -> << >>
                  [] in.dst # NoReg /\ cg.dstOverride # NoReg -> MoveTo(cg.dstOverride, A0)
                  [] in.dst # NoReg /\ cg.dstOverride = NoReg ->
                       IF cg.reg[in.dst] # NoReg THEN MoveTo(cg.reg[in.dst], A0)
                       ELSE StoreOff(A0, SpillOff(cg, in.dst))
  IN  Concat([k \in 1 .. stacked |-> push(k)])
        \o Concat([k \in 1 .. n - stacked |-> Materialize(cg, in.args[k], A0 + k - 1)])
        \o <<RRI("call", ZERO, ZERO, in.callee)>> \o result

AnyInst(cg, in) == IF in.op = "Call" THEN CallCode(cg, in) ELSE InstCode(cg, in)

-----------------------------------------------------------------------------
(* Terminators.  A label is named after its function and its block.        *)

LabelOf(u, b) == <<u.id, b>>
Goto(op, s, t, u, b) == [RRR(op, ZERO, s, t) EXCEPT !.n = LabelOf(u, b)]

InvertCmp(op) == CASE op = "Lt" -> "Ge" [] op = "Ge" -> "Lt" [] op = "Gt" -> "Le"
                   [] op = "Le" -> "Gt" [] op = "Eq" -> "Ne" [] op = "Ne" -> "Eq"

(* To block b if the comparison in holds, or, negated, if it does not.     *)
BranchCmp(u, in, b, negate) ==
  LET x == InReg(Gen(u), in.a, T5)
      y == InReg(Gen(u), in.b, T6)
      e == IF negate THEN InvertCmp(in.op) ELSE in.op
  IN  ToReg(Gen(u), in.a, T5) \o ToReg(Gen(u), in.b, T6)
        \o <<CASE e = "Lt" -> Goto("blt", x, y, u, b)
               [] e = "Ge" -> Goto("bge", x, y, u, b)
               [] e = "Gt" -> Goto("blt", y, x, u, b)
               [] e = "Le" -> Goto("bge", y, x, u, b)
               [] e = "Eq" -> Goto("beq", x, y, u, b)
               [] e = "Ne" -> Goto("bne", x, y, u, b)>>

BranchVal(u, val, b, negate) ==
  ToReg(Gen(u), val, T5)
    \o <<Goto(IF negate THEN "beq" ELSE "bne", InReg(Gen(u), val, T5), ZERO, u, b)>>

BranchIf(u, bb, in, b, negate) ==
  IF in = << >> THEN BranchVal(u, bb.cond, b, negate) ELSE BranchCmp(u, in[1], b, negate)

J(u, b) == <<Goto("j", ZERO, ZERO, u, b)>>

TwoWay_NotNegated(u, bb, next, in) ==   \* mutant: to succ1 on the same test
  CASE bb.succ1 = next -> BranchIf(u, bb, in, bb.succ0, FALSE)
    [] bb.succ1 # next /\ bb.succ0 = next -> BranchIf(u, bb, in, bb.succ1, FALSE)
    [] OTHER -> BranchIf(u, bb, in, bb.succ0, FALSE) \o J(u, bb.succ1)

(* Control falls through to the block emitted next where it can; `in` is   *)
(* the comparison fused into the branch, or nothing.                       *)
TwoWay(u, bb, next, in) ==
  CASE bb.succ1 = next -> BranchIf(u, bb, in, bb.succ0, FALSE)
    [] bb.succ1 # next /\ bb.succ0 = next -> BranchIf(u, bb, in, bb.succ1, TRUE)
    [] OTHER -> BranchIf(u, bb, in, bb.succ0, FALSE) \o J(u, bb.succ1)

(* computeUseCounts finds one use of v, the terminator's.                  *)
UsedOnlyIn(f, v, b) ==
  /\ \A k \in Blocks(f) : \A m \in DOMAIN f.blocks[k].insts :
       v \notin InstUses(f.blocks[k].insts[m])
  /\ \A k \in Blocks(f) \ {b} : v \notin TermUses(f.blocks[k])

(* emitBlock and emitTerm.                                                 *)
BlockCode(u, b, next) ==
  LET bb == u.fn.blocks[b]
      n == Len(bb.insts)
      last == bb.insts[n]
      feeds(val) == n > 0 /\ IsReg(val) /\ last.dst = val.n /\ UsedOnlyIn(u.fn, val.n, b)
      fused == bb.term = "Br" /\ feeds(bb.cond) /\ last.op \in CmpOps
      retFuse == bb.term = "Ret" /\ bb.hasVal /\ feeds(bb.ret)
      value == CASE retFuse -> AnyInst([Gen(u) EXCEPT !.dstOverride = A0], last)
                 [] ~retFuse /\ bb.hasVal -> Materialize(Gen(u), bb.ret, A0)
                 [] OTHER -> << >>
      term == CASE bb.term = "Jmp" -> IF bb.succ0 # next THEN J(u, bb.succ0) ELSE << >>
                [] bb.term = "Br" -> TwoWay(u, bb, next, IF fused THEN <<last>> ELSE << >>)
                [] OTHER -> value \o Epilogue(u)
  IN  <<RRI("label", ZERO, ZERO, LabelOf(u, b))>>
        \o Concat([k \in 1 .. (IF fused \/ retFuse THEN n - 1 ELSE n) |->
                     AnyInst(Gen(u), bb.insts[k])])
        \o term

Reachable(f) ==
  LET reach[n \in Nat] ==
        IF n = 0 THEN {0}
        ELSE LET near == reach[n - 1] IN near \cup UNION {Succs(f.blocks[b]) : b \in near}
  IN  reach[f.nb]

(* The block emitted after block b: the next one that is reachable.        *)
Following(f, b) ==
  LET later == {c \in Blocks(f) : c > b /\ c \in Reachable(f)}
  IN  IF later = {} THEN NoReg ELSE F!Min(later)

FuncCode(u) ==
  <<RRI("func", ZERO, ZERO, u.id)>> \o Entry(u)
    \o Concat([k \in 1 .. u.fn.nb |->
                 IF k - 1 \in Reachable(u.fn) THEN BlockCode(u, k - 1, Following(u.fn, k - 1))
                 ELSE << >>])
=============================================================================
