------------------------------ MODULE IRMeaning ------------------------------
(***************************************************************************)
(* What a program of IR functions that call each other computes, as a      *)
(* recursive evaluator: the reference for the assembly that CodeRun        *)
(* executes.  It models no code.  A program is a sequence of functions; a  *)
(* call names its callee by the place in the sequence.                     *)
(***************************************************************************)
EXTENDS IR

Operand(val, vs) == IF IsReg(val) THEN vs[val.n] ELSE val.n

ValueOf(in, vs, g) ==
  CASE in.op \in BinaryOps  -> EvalBinary(in.op, Operand(in.a, vs), Operand(in.b, vs))
    [] in.op \in UnaryOps   -> EvalUnary(in.op, Operand(in.a, vs))
    [] in.op = "LoadGlobal" -> g[in.gid]

(* The result and the globals after function k has run on args; a function *)
(* that returns no value answers 0.  s is where it has come to: the block, *)
(* the instruction, the vregs and the globals.                             *)
RECURSIVE RunFrom(_, _, _)

Meaning(prog, k, args, g) ==
  LET f == prog[k]
      param(v) == {i \in DOMAIN f.params : f.params[i] = v}
      vs == [v \in Vregs(f) |-> IF param(v) = {} THEN 0 ELSE args[CHOOSE i \in param(v) : TRUE]]
  IN  RunFrom(prog, k, [b |-> 0, i |-> 1, vs |-> vs, g |-> g])

RunFrom(prog, k, s) ==
  LET bb == prog[k].blocks[s.b]
      in == bb.insts[s.i]
      goto(b) == RunFrom(prog, k, [s EXCEPT !.b = b, !.i = 1])
      on(t) == RunFrom(prog, k, [t EXCEPT !.i = s.i + 1])
      call == Meaning(prog, in.callee, [j \in DOMAIN in.args |-> Operand(in.args[j], s.vs)], s.g)
  IN  CASE s.i =< Len(bb.insts) /\ in.op = "StoreGlobal" ->
             on([s EXCEPT !.g[in.gid] = Operand(in.a, s.vs)])
        [] s.i =< Len(bb.insts) /\ in.op = "Call" ->
             on([s EXCEPT !.g = call.g,
                          !.vs = IF in.dst = NoReg THEN @ ELSE [@ EXCEPT ![in.dst] = call.val]])
        [] s.i =< Len(bb.insts) /\ in.op \notin {"StoreGlobal", "Call"} ->
             on([s EXCEPT !.vs[in.dst] = ValueOf(in, s.vs, s.g)])
        [] s.i > Len(bb.insts) /\ bb.term = "Jmp" -> goto(bb.succ0)
        [] s.i > Len(bb.insts) /\ bb.term = "Br" ->
             goto(IF Operand(bb.cond, s.vs) # 0 THEN bb.succ0 ELSE bb.succ1)
        [] OTHER -> [val |-> IF bb.hasVal THEN Operand(bb.ret, s.vs) ELSE 0, g |-> s.g]
=============================================================================
