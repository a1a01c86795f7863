---------------------------- MODULE VregMachine ----------------------------
(***************************************************************************)
(* What a function in the intermediate representation means: the abstract  *)
(* machine every virtual register of which is a variable of its own, each  *)
(* instruction doing what its line of enum Op in ir/IR.h says.  It is the  *)
(* promise the back end must keep: CompiledRun implements it.              *)
(*                                                                         *)
(* The environment supplies the parameters, the initial globals and, at    *)
(* each call, the result and the globals as the callee left them.  `obs`   *)
(* is what the environment sees of the last step: a call with its          *)
(* arguments, a store, or the function's return.                           *)
(***************************************************************************)
EXTENDS IR

CONSTANTS Funcs,         \* the functions that may be run
          Gids,          \* identifiers of the global variables
          Inputs         \* words the environment may supply

VARIABLES fn, blk, idx, vreg, glob, obs
machineVars == <<fn, blk, idx, vreg, glob, obs>>

Halted == -1             \* value of blk after the return

Silent == [ev |-> "silent", data |-> << >>]
Called(xs) == [ev |-> "call", data |-> xs]
Stored(g, x) == [ev |-> "store", data |-> <<g, x>>]
Returned(x) == [ev |-> "return", data |-> <<x>>]
ReturnedVoid == [ev |-> "return", data |-> << >>]

BB == fn.blocks[blk]
Current == BB.insts[idx]
InBody == blk # Halted /\ idx =< Len(BB.insts)
AtTerm == blk # Halted /\ idx = Len(BB.insts) + 1

(* The value of an operand, the vregs holding vs.                          *)
Operand(val, vs) == IF IsReg(val) THEN vs[val.n] ELSE val.n

(* The value a side-effect-free instruction computes.                      *)
Result(in, vs, gs) ==
  CASE in.op \in BinaryOps -> EvalBinary(in.op, Operand(in.a, vs), Operand(in.b, vs))
    [] in.op \in UnaryOps  -> EvalUnary(in.op, Operand(in.a, vs))
    [] in.op = "LoadGlobal" -> gs[in.gid]

Arguments(in, vs) == [k \in DOMAIN in.args |-> Operand(in.args[k], vs)]

Goto(t) == blk' = t /\ idx' = 1

Compute ==
  /\ InBody /\ Current.op \notin {"StoreGlobal", "Call"}
  /\ vreg' = [vreg EXCEPT ![Current.dst] = Result(Current, vreg, glob)]
  /\ idx' = idx + 1 /\ obs' = Silent
  /\ UNCHANGED <<fn, blk, glob>>

StoreGlobal ==
  /\ InBody /\ Current.op = "StoreGlobal"
  /\ glob' = [glob EXCEPT ![Current.gid] = Operand(Current.a, vreg)]
  /\ idx' = idx + 1 /\ obs' = Stored(Current.gid, Operand(Current.a, vreg))
  /\ UNCHANGED <<fn, blk, vreg>>

CallFunction ==
  /\ InBody /\ Current.op = "Call"
  /\ \E r \in Inputs :
       vreg' = IF Current.dst = NoReg THEN vreg
               ELSE [vreg EXCEPT ![Current.dst] = r]
  /\ glob' \in [Gids -> Inputs]
  /\ idx' = idx + 1 /\ obs' = Called(Arguments(Current, vreg))
  /\ UNCHANGED <<fn, blk>>

TakeJump ==
  /\ AtTerm /\ BB.term = "Jmp"
  /\ Goto(BB.succ0) /\ obs' = Silent
  /\ UNCHANGED <<fn, vreg, glob>>

TakeBranch ==
  /\ AtTerm /\ BB.term = "Br"
  /\ Goto(IF Operand(BB.cond, vreg) # 0 THEN BB.succ0 ELSE BB.succ1)
  /\ obs' = Silent
  /\ UNCHANGED <<fn, vreg, glob>>

ReturnToCaller ==
  /\ AtTerm /\ BB.term \in {"Ret", "None"}
  /\ blk' = Halted
  /\ obs' = IF BB.term = "Ret" /\ BB.hasVal
            THEN Returned(Operand(BB.ret, vreg)) ELSE ReturnedVoid
  /\ UNCHANGED <<fn, idx, vreg, glob>>

MachineInit ==
  /\ fn \in Funcs
  /\ blk = 0 /\ idx = 1 /\ obs = Silent
  /\ vreg \in [Vregs(fn) -> Inputs]
  /\ glob \in [Gids -> Inputs]

MachineNext ==
  \/ Compute \/ StoreGlobal \/ CallFunction
  \/ TakeJump \/ TakeBranch \/ ReturnToCaller

MachineSpec == MachineInit /\ [][MachineNext]_machineVars
=============================================================================
