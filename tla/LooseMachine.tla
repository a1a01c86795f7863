---------------------------- MODULE LooseMachine ----------------------------
(***************************************************************************)
(* VregMachine where C promises less than the processor does: a divisor    *)
(* must not be zero (doc/任务要求.md:126), so that a program which divides *)
(* by zero may go on with any word as the result.  This is what a pass has *)
(* to respect: constFold makes x / x the constant 1.                       *)
(***************************************************************************)
EXTENDS VregMachine

DivideByZero ==
  /\ InBody /\ Current.op \in {"Div", "Mod"} /\ Operand(Current.b, vreg) = 0
  /\ \E x \in Inputs : vreg' = [vreg EXCEPT ![Current.dst] = x]
  /\ idx' = idx + 1 /\ obs' = Silent
  /\ UNCHANGED <<fn, blk, glob>>

LooseNext == MachineNext \/ DivideByZero

LooseSpec == MachineInit /\ [][LooseNext]_machineVars
=============================================================================
