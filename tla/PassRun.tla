------------------------------ MODULE PassRun ------------------------------
(***************************************************************************)
(* A pass at work: the function `given` is rewritten once, by a pass that  *)
(* puts one instruction in the place of another, and the result, `made`,   *)
(* runs.  Such a pass keeps its promise if what runs is a run of `given`:  *)
(* vreg by vreg, global by global, event by event.                         *)
(***************************************************************************)
EXTENDS Passes

CONSTANTS Funcs,         \* functions that may be given
          Gids           \* identifiers of the global variables

VARIABLES given, made,   \* the function before and after the pass
          blk, idx, vreg, glob, obs

runVars == <<blk, idx, vreg, glob, obs>>

Runnable(f) ==
  IsIRFunc(f) /\ \A p \in Sites(f) : At(f, p).op \in {"LoadGlobal", "StoreGlobal"} =>
                                       At(f, p).gid \in Gids

(* What the passes that work in place make of f.  Of the last three, that  *)
(* replace what is read, it is said for code that assigns a vreg once:     *)
(* copyProp is wrong about other code (WrongPasses.cfg).                   *)
Rewritings(f) ==
  {ConstFold(f), MarkUnsignedDiv(f), JumpThreading(f), UnreachableElim(f)}
    \cup (IF AssignedOnce(f) THEN {Cse(f), CopyProp(f), ConstProp(f)} ELSE {})

Run == INSTANCE VregMachine
         WITH fn <- made, Funcs <- UNION {Rewritings(f) : f \in Funcs}, Inputs <- Words
Given == INSTANCE LooseMachine WITH fn <- given, Inputs <- Words

PassRunInit ==
  /\ given \in Funcs /\ Runnable(given) /\ made \in Rewritings(given)
  /\ Run!MachineInit

PassRunNext == Run!MachineNext /\ UNCHANGED given

PassRunSpec == PassRunInit /\ [][PassRunNext]_<<given, made, runVars>>

-----------------------------------------------------------------------------
(* What runs after the pass is a run of the function it was given.         *)
MeansGiven == Given!LooseSpec
=============================================================================
