------------------------------- MODULE Passes -------------------------------
(***************************************************************************)
(* The passes of opt/Passes.cpp that rewrite one function in place and do  *)
(* not look for loops, as operators from functions to functions.  What a   *)
(* pass returns, whether it changed anything, is whether the result        *)
(* differs.                                                                *)
(***************************************************************************)
EXTENDS Select, FiniteSets

At(f, p) == f.blocks[p[1]].insts[p[2]]

(* The places of instructions, and their order in the loops of the passes. *)
Sites(f) ==
  UNION {{<<b, k>> : k \in DOMAIN f.blocks[b].insts} : b \in Blocks(f)}

Before(p, q) == p[1] < q[1] \/ (p[1] = q[1] /\ p[2] < q[2])

LastOf(S) == CHOOSE p \in S : \A q \in S : q = p \/ Before(q, p)

(* Every vreg is assigned in one place, if at all, parameters in none, and *)
(* no path reads another before it has been assigned.  So it is where a    *)
(* function neither assigns to a local nor uses && or || for a value,      *)
(* which the generator assigns in two blocks (IRGen.cpp:226-232).          *)
AssignedOnce(f) ==
  /\ \A p, q \in Sites(f) : At(f, p).dst = At(f, q).dst => p = q \/ At(f, p).dst = NoReg
  /\ \A p \in Sites(f) : \A k \in DOMAIN f.params : At(f, p).dst # f.params[k]
  /\ \A v \in Vregs(f) \ {f.params[k] : k \in DOMAIN f.params} : DeadSet(f, v, Unwritten(f, v))

(* f with every instruction replaced by what `new` makes of its place.     *)
Rewritten(f, new) ==
  [f EXCEPT !.blocks =
     [b \in Blocks(f) |-> [f.blocks[b] EXCEPT !.insts =
        [k \in DOMAIN @ |-> new[<<b, k>>]]]]]

(* step applied n times, k being the turn.                                 *)
Iterated(step(_, _), base, n) ==
  LET upTo[k \in 0 .. n] == IF k = 0 THEN base ELSE step(upTo[k - 1], k)
  IN  upTo[n]

(* The instructions at positions ks, in order.                             *)
Only(insts, ks) ==
  Iterated(LAMBDA is, k : IF k \in ks THEN Append(is, insts[k]) ELSE is, << >>, Len(insts))

-----------------------------------------------------------------------------
(* Constant folding and algebraic identities.                              *)

Moved(in, val)   == [in EXCEPT !.op = "Mv", !.a = val, !.b = Imm(0)]
Negated(in, val) == [in EXCEPT !.op = "Neg", !.a = val, !.b = Imm(0)]

FoldConstants(in) ==
  IF in.op \in {"Div", "Mod"} /\ in.b = Imm(0) THEN in
  ELSE Moved(in, Imm(EvalBinary(in.op, in.a.n, in.b.n)))

(* x op x, and constants that leave the other operand or decide alone.  At *)
(* most one operand is an immediate here.                                  *)
Identity(in) ==
  LET a == in.a
      b == in.b
      same == IsReg(a) /\ a = b
  IN  CASE in.op = "Add" /\ a = Imm(0) -> Moved(in, b)
        [] in.op \in {"Add", "Sub"} /\ b = Imm(0) -> Moved(in, a)
        [] in.op = "Sub" /\ a = Imm(0) -> Negated(in, b)
        [] in.op = "Mul" /\ Imm(0) \in {a, b} -> Moved(in, Imm(0))
        [] in.op = "Mul" /\ a = Imm(1) -> Moved(in, b)
        [] in.op = "Mul" /\ a = Imm(-1) -> Negated(in, b)
        [] in.op \in {"Mul", "Div"} /\ b = Imm(1) -> Moved(in, a)
        [] in.op \in {"Mul", "Div"} /\ b = Imm(-1) -> Negated(in, a)
        [] in.op = "Mod" /\ b \in {Imm(1), Imm(-1)} -> Moved(in, Imm(0))
        [] same /\ in.op \in {"Sub", "Mod", "Lt", "Gt", "Ne"} -> Moved(in, Imm(0))
        [] same /\ in.op \in {"Div", "Le", "Ge", "Eq"} -> Moved(in, Imm(1))
        [] OTHER -> in

Fold(in) ==
  CASE in.op \in BinaryOps /\ ~IsReg(in.a) /\ ~IsReg(in.b) -> FoldConstants(in)
    [] in.op \in BinaryOps /\ (IsReg(in.a) \/ IsReg(in.b)) -> Identity(in)
    [] in.op \in {"Neg", "Not"} /\ ~IsReg(in.a) ->
         Moved(in, Imm(EvalUnary(in.op, in.a.n)))
    [] OTHER -> in

ConstFold(f) == Rewritten(f, [p \in Sites(f) |-> Fold(At(f, p))])

-----------------------------------------------------------------------------
(* Copy and constant propagation: maps made of every move in the function, *)
(* the last one to a vreg counting, whatever path control takes.           *)

(* Instructions other than moves, and terminators, with operands through   *)
(* subst, a map from vregs to values.                                      *)
Substitute(f, subst) ==
  LET via(val) == IF IsReg(val) /\ val.n \in DOMAIN subst THEN subst[val.n] ELSE val
      inst(in) == IF in.op = "Mv" THEN in
                  ELSE [in EXCEPT !.a = via(@), !.b = via(@),
                                  !.args = [k \in DOMAIN @ |-> via(@[k])]]
      g == Rewritten(f, [p \in Sites(f) |-> inst(At(f, p))])
  IN  [g EXCEPT !.blocks = [b \in Blocks(f) |-> [g.blocks[b] EXCEPT
         !.cond = IF f.blocks[b].term = "Br" THEN via(@) ELSE @,
         !.ret = IF f.blocks[b].term = "Ret" /\ f.blocks[b].hasVal THEN via(@) ELSE @]]]

(* The source of the last of the moves at ps to each vreg.                 *)
Sources(f, ps) ==
  [v \in {At(f, p).dst : p \in ps} |-> At(f, LastOf({p \in ps : At(f, p).dst = v})).a]

ChainBound == 64

CopyMap(f) == Sources(f, {p \in Sites(f) : IsMove(At(f, p))})

(* resolve: along a chain of copies, at most ChainBound of them.           *)
Resolve(copies, v) ==
  Iterated(LAMBDA val, k : IF val.n \in DOMAIN copies THEN copies[val.n] ELSE val,
           Reg(v), ChainBound)

CopyProp(f) ==
  LET copies == CopyMap(f)
  IN  Substitute(f, [v \in DOMAIN copies |-> Resolve(copies, v)])

ConstProp(f) ==
  Substitute(f, Sources(f, {p \in Sites(f) : LET in == At(f, p) IN
                              in.op = "Mv" /\ ~IsReg(in.a) /\ Fits(in.a.n)}))

-----------------------------------------------------------------------------
(* Common subexpressions of a block.  A fact says that the vreg dst holds  *)
(* what this operator on these operands computes.                          *)

Fact(in) == [op |-> in.op, a |-> in.a, b |-> in.b, gid |-> in.gid, dst |-> in.dst]

States(fact, in) ==
  fact.op = in.op /\ fact.a = in.a /\ fact.b = in.b /\ fact.gid = in.gid

Reusable(in) ==
  \/ in.op = "LoadGlobal"
  \/ in.op \in {"Neg", "Not"} /\ IsReg(in.a)
  \/ in.op \in BinaryOps /\ (IsReg(in.a) \/ IsReg(in.b))

(* killDef for the vregs vs.                                               *)
Kill(facts, vs) ==
  {x \in facts : IF x.op = "LoadGlobal" THEN x.dst \notin vs
                 ELSE vs \cap (OperandRegs(x.a) \cup OperandRegs(x.b)) = {}}

Surviving_Stores(facts, in) ==          \* mutant: a store keeps what was loaded before
  Kill(facts, IF in.op = "StoreGlobal" THEN OperandRegs(in.a) ELSE InstUses(in))

(* What is still known after an instruction that is kept.                  *)
Surviving(facts, in) ==
  CASE in.op = "StoreGlobal" ->
         Kill({x \in facts : x.op # "LoadGlobal" \/ x.gid # in.gid}, OperandRegs(in.a))
    [] in.op = "Call" ->
         Kill({x \in facts : x.op # "LoadGlobal"}, OpUses(in) \cup {in.dst})
    [] OTHER -> Kill(facts, {in.dst})

CseInst(s, in) ==
  LET known == {x \in s.facts : Reusable(in) /\ States(x, in)}
      reuse == Unary("Mv", in.dst, Reg((CHOOSE x \in known : TRUE).dst))
  IN  [facts |-> Surviving(s.facts, in)
                   \cup (IF Reusable(in) /\ known = {} THEN {Fact(in)} ELSE {}),
       out |-> Append(s.out, IF known = {} THEN in ELSE reuse)]

CseBlock(insts) ==
  Iterated(LAMBDA s, k : CseInst(s, insts[k]), [facts |-> {}, out |-> << >>],
           Len(insts)).out

Cse(f) ==
  [f EXCEPT !.blocks = [b \in Blocks(f) |-> [f.blocks[b] EXCEPT !.insts = CseBlock(@)]]]

-----------------------------------------------------------------------------
(* Peephole: a move to itself goes; Neg of Neg and Not of Not become moves *)
(* when the last definition of the operand before them in the block is one.*)

PeepInst(out, in) ==
  LET defs == {k \in DOMAIN out : IsReg(in.a) /\ out[k].dst = in.a.n}
      last == out[CHOOSE k \in defs : \A j \in defs : j =< k]
  IN  CASE in.op = "Mv" /\ in.a = Reg(in.dst) -> out
        [] in.op \in {"Neg", "Not"} /\ defs # {} /\ last.op = in.op /\ IsReg(last.a) ->
             Append(out, Unary("Mv", in.dst, last.a))
        [] OTHER -> Append(out, in)

PeepBlock(insts) ==
  Iterated(LAMBDA out, k : PeepInst(out, insts[k]), << >>, Len(insts))

Peephole(f) ==
  [f EXCEPT !.blocks = [b \in Blocks(f) |-> [f.blocks[b] EXCEPT !.insts = PeepBlock(@)]]]

-----------------------------------------------------------------------------
(* Control flow.                                                           *)

Threaded(bb) ==
  IF bb.term = "Br" /\ ~IsReg(bb.cond)
  THEN [bb EXCEPT !.term = "Jmp", !.succ0 = IF bb.cond.n # 0 THEN bb.succ0 ELSE bb.succ1,
                  !.succ1 = NoReg, !.cond = Imm(0)]
  ELSE bb

JumpThreading(f) == [f EXCEPT !.blocks = [b \in Blocks(f) |-> Threaded(f.blocks[b])]]

(* The blocks that walks from block 0 meet.                                *)
Reachable(f) ==
  Iterated(LAMBDA bs, k : bs \cup UNION {Succs(f.blocks[b]) : b \in bs}, {0}, f.nb)

(* Unreachable blocks are emptied; they keep their terminators.            *)
UnreachableElim(f) ==
  LET reached == Reachable(f)
  IN  [f EXCEPT !.blocks = [b \in Blocks(f) |->
         IF b \in reached THEN f.blocks[b] ELSE [f.blocks[b] EXCEPT !.insts = << >>]]]

-----------------------------------------------------------------------------
(* Dead code: results that no instruction and no terminator reads.         *)

Read_NoMagic(f) ==                      \* mutant: magicVreg is not counted as a use
  UNION {OpUses(At(f, p)) : p \in Sites(f)} \cup UNION {TermUses(f.blocks[b]) : b \in Blocks(f)}

Read(f) ==
  UNION {InstUses(At(f, p)) : p \in Sites(f)} \cup UNION {TermUses(f.blocks[b]) : b \in Blocks(f)}

HasEffect(in) == in.op \in {"Call", "StoreGlobal"}

(* The positions of instructions that stay.                                *)
Kept(insts, read) == {k \in DOMAIN insts : HasEffect(insts[k]) \/ insts[k].dst \in read}

SweepDead(f) ==
  LET read == Read(f)
  IN  [f EXCEPT !.blocks =
         [b \in Blocks(f) |-> [f.blocks[b] EXCEPT !.insts = Only(@, Kept(@, read))]]]

DeadCodeElim(f) ==
  Iterated(LAMBDA g, k : SweepDead(g), f, Cardinality(Sites(f)))

-----------------------------------------------------------------------------
(* Divisions whose dividend is taken to be non-negative.  A vreg counts    *)
(* as non-negative when one of its definitions is.                         *)

NonNegResult(in, vs) ==
  LET nn(val) == IF IsReg(val) THEN val.n \in vs ELSE val.n >= 0
  IN  \/ in.op = "Mv" /\ nn(in.a)
      \/ in.op \in {"Add", "Mul"} /\ nn(in.a) /\ nn(in.b)
      \/ in.op = "Sub" /\ nn(in.a) /\ in.b = Imm(0)
      \/ in.op \in CmpOps \cup {"Not"}

NonNeg(f) ==
  LET more(vs, k) == LET ps == {p \in Sites(f) : NonNegResult(At(f, p), vs)}
                     IN  vs \cup ({At(f, p).dst : p \in ps} \ {NoReg})
  IN  Iterated(more, {}, f.numVregs)

Marked_AnyDividend(in, vs) ==           \* mutant: the dividend is not looked at
  IF in.op \in {"Div", "Mod"} /\ ~IsReg(in.b) /\ in.b.n > 0 /\ NeedsMagic(in.b.n)
  THEN [in EXCEPT !.unsignedDiv = TRUE] ELSE in

Marked(in, vs) ==
  IF /\ in.op \in {"Div", "Mod"} /\ ~IsReg(in.b) /\ in.b.n > 0 /\ NeedsMagic(in.b.n)
     /\ IF IsReg(in.a) THEN in.a.n \in vs ELSE in.a.n >= 0
  THEN [in EXCEPT !.unsignedDiv = TRUE] ELSE in

MarkUnsignedDiv(f) ==
  LET vs == NonNeg(f) IN Rewritten(f, [p \in Sites(f) |-> Marked(At(f, p), vs)])
=============================================================================
