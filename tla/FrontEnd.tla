------------------------------ MODULE FrontEnd ------------------------------
(***************************************************************************)
(* Lowering a function and running the result: once genFunc has finished,  *)
(* the abstract machine of the intermediate representation runs its        *)
(* output, and the calls, stores and the return it makes are compared with *)
(* what the source means.                                                  *)
(***************************************************************************)
EXTENDS IRGen, SourceMeaning

CONSTANTS Gids, Inputs,
          Fuel           \* loop iterations the source is followed for

VARIABLES blk, idx, vreg, glob, obs,    \* of VregMachine
          answers,                      \* what calls will return
          want,                         \* what the source means
          log                           \* what the lowered code has done

M == INSTANCE VregMachine WITH fn <- out, Funcs <- {}

runVars == <<blk, idx, vreg, glob, obs, answers, want, log>>

Idle == [log |-> << >>, whole |-> FALSE]
Started == want # Idle

FrontInit ==
  /\ GenInit
  /\ blk = 0 /\ idx = 1 /\ vreg = << >> /\ glob = << >> /\ obs = M!Silent
  /\ answers = << >>
  /\ want = Idle /\ log = << >>

(* A call of the function, its other vregs holding anything.  A function   *)
(* that declares outside blocks has no meaning in C, and is not called.    *)
Enter ==
  /\ out # NoFunc /\ ~Started /\ DeclaresInBlocks
  /\ \E params \in [1 .. ast.numParams -> Inputs], globals \in [Gids -> Inputs],
        replies \in Inputs \X Inputs, junk \in Inputs :
       /\ vreg' = [v \in Vregs(out) |-> IF v < ast.numParams THEN params[v + 1] ELSE junk]
       /\ glob' = globals /\ answers' = replies
       /\ want' = Meaning(ast, params, globals, replies, Fuel)
  /\ UNCHANGED <<genVars, blk, idx, obs, log>>

(* A step of the lowered code in the environment the source had.           *)
Run ==
  /\ Started /\ Len(log) < MaxEvents
  /\ M!MachineNext
  /\ obs'.ev = "call" =>
       LET k == NumCalls(log) + 1
       IN  /\ M!Current.dst # NoReg => vreg'[M!Current.dst] = Answer0(answers, k)
           /\ glob' = [x \in Gids |-> Answer0(answers, k + 1)]
  /\ log' = IF obs'.ev = "silent" THEN log ELSE Append(log, obs')
  /\ UNCHANGED <<genVars, answers, want>>

Lower == GenNext /\ UNCHANGED runVars

FrontNext == Lower \/ Enter \/ Run

(* A sequential program keeps running until it returns.                    *)
FrontSpec == FrontInit /\ [][FrontNext]_<<genVars, runVars>> /\ WF_runVars(Run)

-----------------------------------------------------------------------------
(* The lowered code makes the calls, does the stores and returns the value *)
(* that the source denotes, in that order and with those arguments.        *)
SameEvents ==
  Started =>
    /\ \A k \in DOMAIN log :
         k \in DOMAIN want.log => log[k] = want.log[k]
    /\ want.whole => Len(log) =< Len(want.log)

(* It also does all of them: when the source returns, so does its code.    *)
SameEnd == (Started /\ want.whole) ~> (log = want.log)
=============================================================================
