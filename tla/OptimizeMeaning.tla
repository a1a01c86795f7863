-------------------------- MODULE OptimizeMeaning --------------------------
(***************************************************************************)
(* What a function does while optimizeIR is at work on it, compared with   *)
(* what it did before.                                                     *)
(***************************************************************************)
EXTENDS Optimize, PassMeaning

CONSTANTS Envs,          \* environments to compare the runs in
          Steps          \* steps a run is followed for

(* What the function does, before any pass and now.  Hoisting may add a    *)
(* few steps to a run.                                                     *)
Unchanged ==
  \A env \in Envs : Agrees(Trace(orig, env, Steps), Trace(fn, env, 2 * Steps))

(* What two of the passes are right about: copyProp about vregs that are   *)
(* assigned once, peephole about a function that has no Not of a Not.      *)
Handled(f) ==
  /\ AssignedOnce(f)
  /\ \A p, q \in Sites(f) : At(f, p).op = "Not" /\ At(f, q).op = "Not" => p = q

(* The divisions executed with a hint of the passes: vreg or kind.         *)
Hinted == \E p \in Sites(fn) : At(fn, p).magic # NoReg \/ At(fn, p).unsignedDiv
HintedRuns == IF Hinted THEN {Trace(fn, env, 2 * Steps) : env \in Envs} ELSE {}

(* After every pass the function makes the calls, the stores and the       *)
(* return it made before the first, with the same values: no pass, and no  *)
(* pass on what another has left, changes what the program does.           *)
SameBehaviour == fn # orig /\ Handled(orig) => Unchanged

(* The same of every function, at the end.                                 *)
KeepsSemantics == phase = "done" => Unchanged

(* A division that is to use a magic number made elsewhere finds in that   *)
(* vreg, whenever it is executed, the number of its divisor and its kind.  *)
MagicHeld ==
  \A run \in HintedRuns : \A d \in run.seen :
    d[1].magic # NoReg /\ ~IsReg(d[1].b) => d[3] = MagicOf(d[1])

(* A division marked unsigned never meets a negative dividend, in runs in  *)
(* which no sum and no product is out of range.                            *)
UnsignedRight ==
  \A run \in HintedRuns : ~run.wrapped =>
    \A d \in run.seen : d[1].unsignedDiv => d[2] >= 0
=============================================================================
