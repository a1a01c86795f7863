------------------------------ MODULE Optimizer ------------------------------
(***************************************************************************)
(* optimizeIR of opt/Passes.cpp on a module: inlining first, then the      *)
(* passes on one function after the other.  What the module computes is    *)
(* compared with what it computed before.                                  *)
(***************************************************************************)
EXTENDS Inline, OptimizeMeaning

CONSTANT Globals         \* initial values of the globals to run main with

VARIABLE opted           \* the functions the passes are done with

optimizerVars == <<inlineVars, optVars, opted>>

Turn == Len(opted) + 1

InlineStep ==
  /\ Opt /\ InlineNext
  /\ UNCHANGED <<optVars, opted>>

(* The next function of the module comes to the passes.                    *)
NextTurn ==
  /\ Opt => pass = Sweeps
  /\ phase = "waiting" /\ Turn =< Len(mod)
  /\ orig' = mod[Turn] /\ fn' = mod[Turn]
  /\ phase' = IF Opt THEN "first" ELSE "plain"
  /\ next' = 1 /\ iter' = 0 /\ changed' = FALSE
  /\ UNCHANGED <<inlineVars, opted>>

PassStep ==
  /\ phase # "waiting" /\ OptNext
  /\ UNCHANGED <<inlineVars, opted>>

EndTurn ==
  /\ phase = "done"
  /\ opted' = Append(opted, fn)
  /\ phase' = "waiting"
  /\ UNCHANGED <<inlineVars, orig, fn, next, iter, changed>>

OptimizerInit ==
  /\ InlineInit
  /\ orig = mod[1] /\ fn = mod[1] /\ phase = "waiting"
  /\ next = 1 /\ iter = 0 /\ changed = FALSE
  /\ opted = << >>

OptimizerNext == InlineStep \/ NextTurn \/ PassStep \/ EndTurn

OptimizerSpec == OptimizerInit /\ [][OptimizerNext]_optimizerVars

-----------------------------------------------------------------------------
(* The module as it stands: functions behind, the one at hand, those ahead. *)
Current ==
  [k \in DOMAIN mod |-> CASE k < Turn -> opted[k]
                          [] k = Turn /\ phase # "waiting" -> fn
                          [] OTHER -> mod[k]]

Wanted == [m \in Modules |-> IF m.funcs[m.main].params # << >> THEN << >>
                             ELSE [g \in Globals |-> Meaning(m.funcs, m.main, << >>, g)]]

(* The passes have been at work on functions they are right about only.    *)
AllHandled == \A k \in DOMAIN mod : k < Turn \/ (k = Turn /\ phase # "waiting") => Handled(mod[k])

(* After every call that is inlined and every pass on every function, main *)
(* returns what it returned before and leaves the globals as it left them: *)
(* whichever functions have been changed so far, whichever call each       *)
(* other, and in whichever order.                                          *)
SameMeaning ==
  /\ Current # given.funcs /\ given.funcs[given.main].params = << >>
  /\ AllHandled
  => \A g \in Globals : Meaning(Current, given.main, << >>, g) = Wanted[given][g]
=============================================================================
