---------------------------- MODULE PassMeaning ----------------------------
(***************************************************************************)
(* What one function does in an environment: the reference by which a      *)
(* function and its rewritten form are compared.  It models no code.  An   *)
(* environment gives the parameters, the globals, the word every other     *)
(* vreg holds at entry and, call by call, the result and the globals the   *)
(* callee leaves.                                                          *)
(***************************************************************************)
EXTENDS IRMeaning

(* Where a run is (b = NoReg after the return), what it has done, and what *)
(* has happened on the way: a division by zero, after `sure` events, and a *)
(* sum or product that did not fit a word.  `seen` are the divisions that  *)
(* have been executed: instruction, dividend and the vreg `magic` names.   *)
Begin(f, env) ==
  LET arg(v) == {k \in DOMAIN f.params : f.params[k] = v}
  IN  [b |-> 0, i |-> 1, g |-> env.g, log |-> << >>, calls |-> 0,
       vs |-> [v \in Vregs(f) |-> IF arg(v) = {} THEN env.junk
                                  ELSE env.params[CHOOSE k \in arg(v) : TRUE]],
       byZero |-> FALSE, sure |-> 0, wrapped |-> FALSE, seen |-> {}]

Reply(env, k) == env.replies[((k - 1) % Len(env.replies)) + 1]

Does(s, ev) == [s EXCEPT !.log = Append(@, ev), !.sure = IF s.byZero THEN @ ELSE @ + 1]

(* What a computation tells about itself.                                  *)
Noted(s, in) ==
  LET x == Operand(in.a, s.vs)
      y == Operand(in.b, s.vs)
      exact == IF in.op = "Add" THEN x + y ELSE x * y
      divides == in.op \in {"Div", "Mod"}
      magic == IF in.magic = NoReg THEN 0 ELSE s.vs[in.magic]
  IN  [s EXCEPT !.byZero = @ \/ (divides /\ y = 0),
                !.wrapped = @ \/ (in.op \in {"Add", "Mul"} /\ exact \notin Words),
                !.seen = IF divides THEN @ \cup {<<in, x, magic>>} ELSE @]

Along(f, env, s) ==
  LET bb == f.blocks[s.b]
      in == bb.insts[s.i]
      on(t) == [t EXCEPT !.i = s.i + 1]
      answer == Reply(env, s.calls + 1)
  IN  CASE s.i > Len(bb.insts) /\ bb.term = "Jmp" -> [s EXCEPT !.b = bb.succ0, !.i = 1]
        [] s.i > Len(bb.insts) /\ bb.term = "Br" ->
             [s EXCEPT !.i = 1,
                       !.b = IF Operand(bb.cond, s.vs) # 0 THEN bb.succ0 ELSE bb.succ1]
        [] s.i > Len(bb.insts) /\ bb.term \notin {"Jmp", "Br"} ->
             Does([s EXCEPT !.b = NoReg],
                  <<"return", IF bb.hasVal THEN Operand(bb.ret, s.vs) ELSE 0>>)
        [] s.i =< Len(bb.insts) /\ in.op = "StoreGlobal" ->
             LET x == Operand(in.a, s.vs)
             IN  Does(on([s EXCEPT !.g[in.gid] = x]), <<"store", in.gid, x>>)
        [] s.i =< Len(bb.insts) /\ in.op = "Call" ->
             Does(on([s EXCEPT !.calls = @ + 1, !.g = answer.g,
                               !.vs = IF in.dst = NoReg THEN @
                                      ELSE [@ EXCEPT ![in.dst] = answer.val]]),
                  <<"call", in.callee, [j \in DOMAIN in.args |-> Operand(in.args[j], s.vs)]>>)
        [] s.i =< Len(bb.insts) /\ in.op \notin {"StoreGlobal", "Call"} ->
             on(Noted([s EXCEPT !.vs[in.dst] = ValueOf(in, s.vs, s.g)], in))

(* The run after at most n steps.                                          *)
RECURSIVE Follow(_, _, _, _)
Follow(f, env, s, n) ==
  IF n = 0 \/ s.b = NoReg THEN s ELSE Follow(f, env, Along(f, env, s), n - 1)

Trace(f, env, n) == Follow(f, env, Begin(f, env), n)

(* The run `got` does what the run `want` does, up to the first division   *)
(* by zero and as far as both have been followed.                          *)
Agrees(want, got) ==
  /\ \A k \in 1 .. want.sure : k \in DOMAIN got.log => got.log[k] = want.log[k]
  /\ want.b = NoReg /\ ~want.byZero => got.log = want.log
=============================================================================
