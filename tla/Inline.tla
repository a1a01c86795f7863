-------------------------------- MODULE Inline --------------------------------
(***************************************************************************)
(* inlineFunctions of opt/Passes.cpp: the first thing optimizeIR does, and *)
(* the only pass that looks at more than one function.  Functions are      *)
(* changed in place, so a callee may have been changed before its callers  *)
(* are met, or after.                                                      *)
(***************************************************************************)
EXTENDS IR

CONSTANTS Modules,       \* [funcs, main]: functions, and which of them is main
          MaxInsts,      \* the size up to which a function is inlined
          Sweeps         \* how often the module is gone through at most

(* A function calls functions of the module only, and gives each as many   *)
(* arguments as it has parameters.                                         *)
CallsKnown(f, ks) ==
  \A b \in Blocks(f) : \A i \in DOMAIN f.blocks[b].insts :
    f.blocks[b].insts[i].op = "Call" => f.blocks[b].insts[i].callee \in ks

CallsOf(f) ==
  {in \in UNION {{f.blocks[b].insts[i] : i \in DOMAIN f.blocks[b].insts} : b \in Blocks(f)} :
     in.op = "Call"}

ArgsFit(m) ==
  \A k \in DOMAIN m.funcs : \A in \in CallsOf(m.funcs[k]) :
    Len(in.args) = Len(m.funcs[in.callee].params)

ASSUME ModulesAssumption ==
  \A m \in Modules : /\ m.funcs \in Seq({m.funcs[k] : k \in DOMAIN m.funcs})
                     /\ m.funcs # << >>
                     /\ \A k \in DOMAIN m.funcs : IsIRFunc(m.funcs[k])
                     /\ \A k \in DOMAIN m.funcs : CallsKnown(m.funcs[k], DOMAIN m.funcs)
                     /\ ArgsFit(m)

(* What the front end promises of the functions it makes (LowersToIR of    *)
(* IRGen): none reads a vreg before it has written it, and no constant     *)
(* divided by is in a vreg yet.                                            *)
Initialised(f) ==
  \A v \in Vregs(f) \ {f.params[j] : j \in DOMAIN f.params} : DeadSet(f, v, Unwritten(f, v))

ASSUME FreshAssumption ==
  \A m \in Modules : \A k \in DOMAIN m.funcs :
    /\ Initialised(m.funcs[k])
    /\ \A b \in Blocks(m.funcs[k]) : \A i \in DOMAIN m.funcs[k].blocks[b].insts :
         m.funcs[k].blocks[b].insts[i].magic = NoReg

ASSUME LimitsAssumption == MaxInsts \in Nat /\ Sweeps \in Nat \ {0}

VARIABLES given,          \* the module as it was
          mod,           \* its functions now
          cur, blk, ix,  \* the function, block and instruction reached
          any,           \* a call has been inlined in this sweep
          pass           \* sweeps finished; Sweeps when no more will follow

inlineVars == <<given, mod, cur, blk, ix, any, pass>>

-----------------------------------------------------------------------------
(* cloneVal and cloneInst: a copy's vregs are numbered from base.          *)
Renamed(val, base) == IF IsReg(val) THEN Reg(val.n + base) ELSE val

Clone(in, base) ==
  [in EXCEPT !.dst = IF in.dst = NoReg THEN NoReg ELSE in.dst + base,
             !.a = Renamed(in.a, base), !.b = Renamed(in.b, base),
             !.args = [k \in DOMAIN in.args |-> Renamed(in.args[k], base)]]

OneBlock(f) == f.nb = 1 /\ f.blocks[0].term = "Ret"

Inlinable(k) ==
  /\ OneBlock(mod[k])
  /\ k # given.main
  /\ Len(mod[k].blocks[0].insts) =< MaxInsts

(* What replaces a call of function h: the arguments are moved into the    *)
(* copy's parameters, the copy runs, its result is moved to the call's.    *)
ParamMoves_Reversed(in, h, base) ==     \* mutant: last argument, first parameter
  [k \in DOMAIN h.params |-> Unary("Mv", h.params[k] + base, in.args[Len(in.args) + 1 - k])]

ParamMoves(in, h, base) ==
  [k \in DOMAIN h.params |-> Unary("Mv", h.params[k] + base, in.args[k])]

Body(h, base) ==
  [k \in DOMAIN h.blocks[0].insts |-> Clone(h.blocks[0].insts[k], base)]

ResultMove_Never(in, h, base) == << >>  \* mutant: the result is dropped

ResultMove(in, h, base) ==
  IF in.dst # NoReg /\ h.blocks[0].hasVal
  THEN <<Unary("Mv", in.dst, Renamed(h.blocks[0].ret, base))>> ELSE << >>

Expansion(in, h, base) ==
  ParamMoves(in, h, base) \o Body(h, base) \o ResultMove(in, h, base)

-----------------------------------------------------------------------------
F == mod[cur]
Insts0 == F.blocks[blk].insts
Busy == pass < Sweeps
AtInst == Busy /\ ix =< Len(Insts0)
In == Insts0[ix]

Takes(in) == /\ in.op = "Call" /\ in.callee # cur
             /\ Inlinable(in.callee)
             /\ Len(in.args) = Len(mod[in.callee].params)

InlineCall_SameRegs ==                  \* mutant: numVregs does not grow
  /\ AtInst /\ Takes(In)
  /\ LET new == Expansion(In, mod[In.callee], F.numVregs)
     IN  /\ mod' = [mod EXCEPT ![cur].blocks[blk].insts =
                      SubSeq(@, 1, ix - 1) \o new \o SubSeq(@, ix + 1, Len(@))]
         /\ ix' = ix + Len(new)
  /\ any' = TRUE
  /\ UNCHANGED <<given, cur, blk, pass>>

InlineCall_AsWritten ==                 \* mutant: callees are copied as they were at first
  /\ AtInst /\ Takes(In)
  /\ LET h == given.funcs[In.callee]
         new == Expansion(In, h, F.numVregs)
     IN  /\ mod' = [mod EXCEPT ![cur].numVregs = @ + h.numVregs,
                               ![cur].blocks[blk].insts =
                                 SubSeq(@, 1, ix - 1) \o new \o SubSeq(@, ix + 1, Len(@))]
         /\ ix' = ix + Len(new)
  /\ any' = TRUE
  /\ UNCHANGED <<given, cur, blk, pass>>

InlineCall ==
  /\ AtInst /\ Takes(In)
  /\ LET h == mod[In.callee]
         new == Expansion(In, h, F.numVregs)
     IN  /\ mod' = [mod EXCEPT ![cur].numVregs = @ + h.numVregs,
                               ![cur].blocks[blk].insts =
                                 SubSeq(@, 1, ix - 1) \o new \o SubSeq(@, ix + 1, Len(@))]
         /\ ix' = ix + Len(new)
  /\ any' = TRUE
  /\ UNCHANGED <<given, cur, blk, pass>>

KeepInst ==
  /\ AtInst /\ ~Takes(In)
  /\ ix' = ix + 1
  /\ UNCHANGED <<given, mod, cur, blk, any, pass>>

BlockDone == Busy /\ ix > Len(Insts0)

NextBlock ==
  /\ BlockDone /\ blk + 1 < F.nb
  /\ blk' = blk + 1 /\ ix' = 1
  /\ UNCHANGED <<given, mod, cur, any, pass>>

NextFunction ==
  /\ BlockDone /\ blk + 1 = F.nb /\ cur < Len(mod)
  /\ cur' = cur + 1 /\ blk' = 0 /\ ix' = 1
  /\ UNCHANGED <<given, mod, any, pass>>

EndSweep ==
  /\ BlockDone /\ blk + 1 = F.nb /\ cur = Len(mod)
  /\ pass' = IF any THEN pass + 1 ELSE Sweeps
  /\ cur' = 1 /\ blk' = 0 /\ ix' = 1 /\ any' = FALSE
  /\ UNCHANGED <<given, mod>>

InlineInit ==
  /\ given \in Modules /\ mod = given.funcs
  /\ cur = 1 /\ blk = 0 /\ ix = 1
  /\ any = FALSE /\ pass = 0

InlineNext == InlineCall \/ KeepInst \/ NextBlock \/ NextFunction \/ EndSweep

InlineSpec == InlineInit /\ [][InlineNext]_inlineVars

-----------------------------------------------------------------------------
(* Every function stays well formed: an instruction copied into it names   *)
(* vregs that it has, and the position is one in its code.                 *)
InlineTypeOK ==
  /\ cur \in DOMAIN mod /\ blk \in Blocks(F)
  /\ ix \in 1 .. Len(Insts0) + 1
  /\ any \in BOOLEAN /\ pass \in 0 .. Sweeps
  /\ Len(mod) = Len(given.funcs)
  /\ \A k \in DOMAIN mod : IsIRFunc(mod[k])

(* That a function whose result is kept gives one: the analysis leaves it  *)
(* to the program, which may have `return;` in a function of type int.     *)
ResultsGiven(m) ==
  \A k \in DOMAIN m.funcs : \A in \in CallsOf(m.funcs[k]) :
    in.dst # NoReg /\ OneBlock(m.funcs[in.callee]) => m.funcs[in.callee].blocks[0].hasVal

(* No function comes to read a vreg on a path on which nothing has written *)
(* it: copies bring their own vregs, and write them first.  A result that  *)
(* is kept but not given is no longer written when its call is inlined.    *)
InlineInitialised ==
  ResultsGiven(given) => \A k \in DOMAIN mod : Initialised(mod[k])

(* Functions call only functions before them, or themselves when they have *)
(* a branch to end the recursion.                                          *)
GoesBack(k, in) == in.callee < k \/ (in.callee = k /\ ~OneBlock(given.funcs[k]))

Backward ==
  \A k \in DOMAIN given.funcs : \A in \in CallsOf(given.funcs[k]) : GoesBack(k, in)

(* When all calls go backward, as the comment at opt/Passes.cpp:54 takes   *)
(* them to, one sweep is enough: every callee is finished when its callers *)
(* are met, and no call that could be inlined is left.                     *)
OneSweep ==
  pass > 0 /\ Backward =>
    \A k \in DOMAIN mod : \A in \in CallsOf(mod[k]) : ~Inlinable(in.callee)
=============================================================================
