------------------------------ MODULE Optimize ------------------------------
(***************************************************************************)
(* optimizeIR of opt/Passes.cpp on one function, one action per pass: the  *)
(* order of the passes, the two phases that are repeated until nothing     *)
(* changes or a bound is reached, and what the passes make of each other's *)
(* results.  Inlining, which comes first, is module Inline, and the loop   *)
(* over the functions of a module is Optimizer.                            *)
(***************************************************************************)
EXTENDS LoopPasses

CONSTANTS Sources0,      \* functions to optimize
          Opt            \* the -opt flag

(* IR generation marks no division unsigned.                               *)
ASSUME SourcesAssumption ==
  \A f \in Sources0 :
    /\ IsIRFunc(f)
    /\ \A b \in Blocks(f) : \A k \in DOMAIN f.blocks[b].insts :
         ~f.blocks[b].insts[k].unsignedDiv

VARIABLES orig,          \* the function as it was
          fn,            \* the function as it is
          phase, next,   \* the phase, and the place of the pass to run in it
          iter, changed  \* of the repeated phases

optVars == <<orig, fn, phase, next, iter, changed>>

-----------------------------------------------------------------------------
LastPasses_NoSweep == <<"deadCodeElim", "unreachableElim">>  \* mutant: the last sweep is left out

LastPasses == <<"deadCodeElim", "unreachableElim", "deadCodeElim">>

PassesOf(ph) ==
  CASE ph = "plain"  -> <<"deadCodeElim", "deadCodeElim">>
    [] ph = "first"  -> <<"constFold", "deadCodeElim", "markUnsignedDiv">>
    [] ph = "structural" -> <<"constFold", "cse", "copyProp", "constProp", "peephole",
                              "jumpThreading">>
    [] ph = "loops"  -> <<"deadCodeElim", "licm", "hoistLoopConstants", "markUnsignedDiv",
                          "hoistMagicDiv", "hoistDivModConstants", "deadCodeElim">>
    [] ph = "cleanup" -> <<"constFold", "constProp", "copyProp", "peephole">>
    [] ph = "last"   -> LastPasses
    [] ph = "done"   -> << >>

Follower(ph) ==
  CASE ph = "first" -> "structural"
    [] ph = "structural" -> "loops"
    [] ph = "loops" -> "cleanup"
    [] ph = "cleanup" -> "last"
    [] ph \in {"last", "plain"} -> "done"

(* How often a phase runs at most.                                         *)
Rounds(ph) == CASE ph = "structural" -> 12 [] ph = "cleanup" -> 4 [] OTHER -> 1

Pass(name, f) ==
  CASE name = "constFold" -> ConstFold(f)
    [] name = "deadCodeElim" -> DeadCodeElim(f)
    [] name = "markUnsignedDiv" -> MarkUnsignedDiv(f)
    [] name = "cse" -> Cse(f)
    [] name = "copyProp" -> CopyProp(f)
    [] name = "constProp" -> ConstProp(f)
    [] name = "peephole" -> Peephole(f)
    [] name = "jumpThreading" -> JumpThreading(f)
    [] name = "licm" -> Licm(f)
    [] name = "hoistLoopConstants" -> HoistLoopConstants(f)
    [] name = "hoistMagicDiv" -> HoistMagicDiv(f)
    [] name = "hoistDivModConstants" -> HoistDivModConstants(f)
    [] name = "unreachableElim" -> UnreachableElim(f)

-----------------------------------------------------------------------------
RunPass ==
  /\ next =< Len(PassesOf(phase))
  /\ \E g \in {Pass(PassesOf(phase)[next], fn)} :
       /\ fn' = g
       /\ changed' = (changed \/ g # fn)
  /\ next' = next + 1
  /\ UNCHANGED <<orig, phase, iter>>

RoundOver == phase # "done" /\ next > Len(PassesOf(phase))

(* Dead code goes after every round of the structural phase that changed   *)
(* something.                                                              *)
Swept == IF phase = "structural" /\ changed THEN DeadCodeElim(fn) ELSE fn

AnotherRound ==
  /\ RoundOver /\ changed /\ iter + 1 < Rounds(phase)
  /\ fn' = Swept
  /\ next' = 1 /\ iter' = iter + 1 /\ changed' = FALSE
  /\ UNCHANGED <<orig, phase>>

EndPhase ==
  /\ RoundOver
  /\ ~changed \/ iter + 1 = Rounds(phase)
  /\ fn' = Swept
  /\ phase' = Follower(phase)
  /\ next' = 1 /\ iter' = 0 /\ changed' = FALSE
  /\ UNCHANGED orig

OptInit ==
  /\ orig \in Sources0 /\ fn = orig
  /\ phase = IF Opt THEN "first" ELSE "plain"
  /\ next = 1 /\ iter = 0 /\ changed = FALSE

OptNext == RunPass \/ AnotherRound \/ EndPhase

OptSpec == OptInit /\ [][OptNext]_optVars

-----------------------------------------------------------------------------
(* Every pass leaves a well-formed function with the blocks and the        *)
(* parameters it had.                                                      *)
StaysFunction == IsIRFunc(fn) /\ fn.nb = orig.nb /\ fn.params = orig.params

(* It stays one in which no path reads a vreg before it is written: what   *)
(* the register allocator is handed has parameters alone live at entry.    *)
(* Of a vreg assigned twice copyProp may make a read of one not written.   *)
StaysWellFormed ==
  /\ StaysFunction
  /\ AssignedOnce(orig) =>
       \A v \in Vregs(fn) \ {fn.params[k] : k \in DOMAIN fn.params} :
         DeadSet(fn, v, Unwritten(fn, v))

(* At the end every result is read and no unreachable block has code.      *)
NothingLeft ==
  phase = "done" =>
    /\ \A p \in Sites(fn) : HasEffect(At(fn, p)) \/ At(fn, p).dst \in Read(fn)
    /\ Opt => \A p \in Sites(fn) : p[1] \in Reachable(fn)
=============================================================================
