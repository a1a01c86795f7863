--------------------------- MODULE SourceMeaning ---------------------------
(***************************************************************************)
(* What a function means in the source language: a big-step evaluator of   *)
(* the syntax tree by C's rules, which the language specification under   *)
(* doc/ adopts.  It is the reference the lowering of IRGen is compared     *)
(* with, and models no code.                                               *)
(*                                                                         *)
(* A state st holds the locals, the globals, the events the environment    *)
(* has seen, how control is moving, and the loop iterations left.          *)
(* `answers` is the environment: the k-th call returns answers[k] and      *)
(* leaves answers[k+1] in every global, k counted cyclically.              *)
(***************************************************************************)
EXTENDS Ast

CONSTANT MaxEvents       \* events after which a run is cut off

Event(ev, data) == [ev |-> ev, data |-> data]

Answer0(answers, k) == answers[1 + ((k - 1) % Len(answers))]

NumCalls(log) == Len(SelectSeq(log, LAMBDA e : e.ev = "call"))

Cut(st) == Len(st.log) >= MaxEvents \/ st.fuel = 0
Going(st) == st.mode = "go" /\ ~Cut(st)

Set(sym, v, st) ==
  CASE ~Going(st) -> st
    [] Going(st) /\ ~IsGlobal(sym) -> [st EXCEPT !.env[sym.id] = v]
    [] Going(st) /\ IsGlobal(sym) ->
         [st EXCEPT !.glob[sym.id] = v, !.log = Append(@, Event("store", <<sym.id, v>>))]

Leave(data, st) ==
  IF Going(st) THEN [st EXCEPT !.mode = "return", !.log = Append(@, Event("return", data))]
  ELSE st

RECURSIVE Eval(_, _, _), EvalArgs(_, _, _, _), Exec(_, _, _), ExecSeq(_, _, _, _)

(* The value of e and the state after evaluating it.                       *)
Eval(e, st, answers) ==
  LET kid(k) == Eval(e.kids[k], st, answers)
  IN  CASE ~Going(st) -> [v |-> 0, st |-> st]
        [] Going(st) /\ e.kind = "Number" -> [v |-> e.constValue, st |-> st]
        [] Going(st) /\ e.kind = "Var" ->
             [v |-> IF IsGlobal(e.sym) THEN st.glob[e.sym.id] ELSE st.env[e.sym.id],
              st |-> st]
        [] Going(st) /\ e.kind = "Unary" ->
             [kid(1) EXCEPT !.v = IF e.op = "Plus" THEN @ ELSE EvalUnary(e.op, @)]
        [] Going(st) /\ e.kind = "Binary" ->
             LET l == kid(1)
                 r == Eval(e.kids[2], l.st, answers)
             IN  [v |-> EvalBinary(e.op, l.v, r.v), st |-> r.st]
        [] Going(st) /\ e.kind = "Logical" ->
             LET l == kid(1)
                 r == Eval(e.kids[2], l.st, answers)
             IN  IF (l.v # 0) = (e.op = "Or")
                 THEN [v |-> Truth(e.op = "Or"), st |-> l.st]
                 ELSE [v |-> Truth(r.v # 0), st |-> r.st]
        [] Going(st) /\ e.kind = "Call" ->
             LET as == EvalArgs(e.kids, << >>, st, answers)
                 k == NumCalls(as.st.log) + 1
             IN  IF ~Going(as.st) THEN [v |-> 0, st |-> as.st]
                 ELSE [v |-> IF e.op = "void" THEN 0 ELSE Answer0(answers, k),
                       st |-> [as.st EXCEPT
                                 !.log = Append(@, Event("call", as.vs)),
                                 !.glob = [x \in DOMAIN @ |-> Answer0(answers, k + 1)]]]

(* Arguments are evaluated from the left; vs are those already known.      *)
EvalArgs(es, vs, st, answers) ==
  IF es = << >> THEN [vs |-> vs, st |-> st]
  ELSE LET x == Eval(Head(es), st, answers)
       IN  EvalArgs(Tail(es), Append(vs, x.v), x.st, answers)

Exec(s, st, answers) ==
  LET x == Eval(s.e, st, answers)
      after == x.st
  IN  CASE ~Going(st) -> st
        [] Going(st) /\ s.kind \in {"Block", "Empty"} -> ExecSeq(s.kids, 1, st, answers)
        [] Going(st) /\ s.kind = "Break" -> [st EXCEPT !.mode = "break"]
        [] Going(st) /\ s.kind = "Continue" -> [st EXCEPT !.mode = "continue"]
        [] Going(st) /\ s.kind = "ExprStmt" -> after
        [] Going(st) /\ s.kind \in {"VarDecl", "Assign"} -> Set(s.sym, x.v, after)
        [] Going(st) /\ s.kind = "Return" ->
             IF s.hasE THEN Leave(<<x.v>>, after) ELSE Leave(<< >>, st)
        [] Going(st) /\ s.kind = "If" ->
             LET arm == IF x.v # 0 THEN 1 ELSE 2
             IN  IF arm =< Len(s.kids) THEN Exec(s.kids[arm], after, answers) ELSE after
        [] Going(st) /\ s.kind = "While" ->
             IF x.v = 0 \/ ~Going(after) THEN after
             ELSE LET body == Exec(s.kids[1], [after EXCEPT !.fuel = @ - 1], answers)
                      again == [body EXCEPT !.mode = "go"]
                  IN  CASE body.mode \in {"go", "continue"} -> Exec(s, again, answers)
                        [] body.mode = "break" -> again
                        [] body.mode = "return" -> body

ExecSeq(ss, k, st, answers) ==
  IF k > Len(ss) \/ ~Going(st) THEN st
  ELSE ExecSeq(ss, k + 1, Exec(ss[k], st, answers), answers)

(* The events of a call of function a, and whether they are all there are. *)
(* An int function that falls off its end returns the default 0.           *)
Meaning(a, params, globals, answers, fuel) ==
  LET end == Exec(a.body,
                  [env |-> [s \in 0 .. a.numSyms - 1 |->
                              IF s < a.numParams THEN params[s + 1] ELSE 0],
                   glob |-> globals, log |-> << >>, mode |-> "go", fuel |-> fuel],
                  answers)
      fell == Event("return", IF a.returnsVoid THEN << >> ELSE <<0>>)
  IN  [log |-> IF end.mode = "go" /\ ~Cut(end) THEN Append(end.log, fell) ELSE end.log,
       whole |-> end.mode = "return" \/ ~Cut(end)]
=============================================================================
