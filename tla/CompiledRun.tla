---------------------------- MODULE CompiledRun ----------------------------
(***************************************************************************)
(* The default back end end to end: allocateRegisters of opt/RegAlloc.cpp  *)
(* computes the homes of the virtual registers, and the code that          *)
(* codegen/OptCodeGen.cpp emits from them runs.  `phys` is the machine the *)
(* code runs on: allocatable registers, a0 and the spill slots of the      *)
(* frame.  Every value an action uses is read from phys; `vreg` only       *)
(* records what the abstract machine would hold, so that                   *)
(*     RunSpec => M!MachineSpec                                            *)
(* says that the emitted code takes the branches, makes the calls, does    *)
(* the stores and returns the values that the intermediate code denotes.   *)
(***************************************************************************)
EXTENDS RegAlloc

CONSTANTS Gids, Inputs,  \* as in VregMachine
          A0             \* the register of the first argument and the result

VARIABLES blk, idx, vreg, glob, obs,   \* the abstract machine's variables
          phys,                        \* contents of registers and slots
          moved                        \* parameters moved so far, -1 before

M == INSTANCE VregMachine

ASSUME RunInputsAssumption == Inputs \subseteq Words /\ Inputs # {}
ASSUME RunGidsAssumption ==
  \A f \in Funcs : \A k \in Blocks(f) : \A m \in DOMAIN f.blocks[k].insts :
    f.blocks[k].insts[m].op \in {"LoadGlobal", "StoreGlobal"} =>
      f.blocks[k].insts[m].gid \in Gids
ASSUME A0Assumption == A0 \in Nat \ Bodies

(* Code never reads a vreg that no path has written: what is live into the *)
(* entry block is a parameter.                                             *)
ASSUME InitialisedAssumption ==
  \A f \in Funcs : \A v \in Vregs(f) \ PoolRegs(f.params) : DeadInto(f, v, 0)

runVars == <<vars, blk, idx, vreg, glob, obs, phys, moved>>

Result0 == <<"reg", A0>>
Locs == {<<"reg", r>> : r \in Bodies \cup {A0}}
          \cup {<<"slot", k>> : k \in 0 .. numSpills - 1}

(* What the homes hold, as a valuation of the vregs.                       *)
Held == [v \in V |-> phys[Home(v)]]

-----------------------------------------------------------------------------
(* emitBlock leaves out the last instruction of a block when the           *)
(* terminator is the only reader of its result (computeUseCounts): a       *)
(* comparison is folded into the branch, and a returned value is computed  *)
(* into a0 directly.                                                       *)

LastInst(k) == Insns(k)[Len(Insns(k))]

OnlyReader_SameBlock(v, k) ==           \* mutant: other blocks are not counted
  \A m \in DOMAIN Insns(k) : v \notin InstUses(Insns(k)[m])

OnlyReader(v, k) ==
  /\ \A j \in Blocks(fn) : \A m \in DOMAIN Insns(j) : v \notin InstUses(Insns(j)[m])
  /\ \A j \in Blocks(fn) \ {k} : v \notin TermUses(Block(j))

BranchFused(k) ==
  /\ Block(k).term = "Br" /\ Insns(k) # << >> /\ IsReg(Block(k).cond)
  /\ LastInst(k).op \in CmpOps /\ LastInst(k).dst = Block(k).cond.n
  /\ OnlyReader(Block(k).cond.n, k)

ReturnFused(k) ==
  /\ Block(k).term = "Ret" /\ Block(k).hasVal /\ IsReg(Block(k).ret)
  /\ Insns(k) # << >> /\ LastInst(k).dst = Block(k).ret.n
  /\ OnlyReader(Block(k).ret.n, k)

(* Where the instruction about to run leaves its result x, the machine     *)
(* being in state ph: in its home unless it is the fused one.              *)
Deposit(ph, x) ==
  CASE idx = Len(Insns(blk)) /\ BranchFused(blk) -> ph
    [] idx = Len(Insns(blk)) /\ ReturnFused(blk) -> [ph EXCEPT ![Result0] = x]
    [] OTHER -> [ph EXCEPT ![Home(M!Current.dst)] = x]

-----------------------------------------------------------------------------
(* Prologue: the frame holds anything, then the parameters are moved one   *)
(* by one from the argument registers or the caller's frame.               *)

EnterFrame_OneShort ==                  \* mutant: the frame lacks a slot
  /\ pc = "done" /\ moved = -1
  /\ phys' \in [Locs \ {<<"slot", 0>>} -> Inputs]
  /\ moved' = 0
  /\ UNCHANGED <<vars, blk, idx, vreg, glob, obs>>

EnterFrame ==
  /\ pc = "done" /\ moved = -1
  /\ phys' \in [Locs -> Inputs]
  /\ moved' = 0
  /\ UNCHANGED <<vars, blk, idx, vreg, glob, obs>>

MoveParam ==
  /\ moved \in 0 .. Len(fn.params) - 1
  /\ LET p == fn.params[moved + 1]
     IN  phys' = [phys EXCEPT ![Home(p)] = vreg[p]]
  /\ moved' = moved + 1
  /\ UNCHANGED <<vars, blk, idx, vreg, glob, obs>>

InCode == moved = Len(fn.params)

RunCompute ==
  /\ InCode /\ M!InBody /\ M!Current.op \notin {"StoreGlobal", "Call"}
  /\ phys' = Deposit(phys, M!Result(M!Current, Held, glob))
  /\ vreg' = [vreg EXCEPT ![M!Current.dst] = M!Result(M!Current, vreg, glob)]
  /\ idx' = idx + 1 /\ obs' = M!Silent
  /\ UNCHANGED <<vars, blk, glob, moved>>

RunStore ==
  /\ InCode /\ M!InBody /\ M!Current.op = "StoreGlobal"
  /\ LET x == M!Operand(M!Current.a, Held)
     IN  /\ glob' = [glob EXCEPT ![M!Current.gid] = x]
         /\ obs' = M!Stored(M!Current.gid, x)
  /\ idx' = idx + 1
  /\ UNCHANGED <<vars, blk, vreg, phys, moved>>

(* The callee overwrites a0 and the caller-saved registers, and leaves the *)
(* callee-saved ones and this frame as they were.                          *)
Clobbered == {<<"reg", r>> : r \in PoolRegs(CallerPool) \cup {A0}}

RunCall ==
  /\ InCode /\ M!InBody /\ M!Current.op = "Call"
  /\ \E r \in Inputs, junk \in [Clobbered -> Inputs] :
       LET after == [l \in Locs |-> IF l \in Clobbered THEN junk[l] ELSE phys[l]]
       IN  IF M!Current.dst = NoReg
           THEN phys' = after /\ vreg' = vreg
           ELSE /\ phys' = Deposit([after EXCEPT ![Result0] = r], r)
                /\ vreg' = [vreg EXCEPT ![M!Current.dst] = r]
  /\ glob' \in [Gids -> Inputs]
  /\ obs' = M!Called(M!Arguments(M!Current, Held))
  /\ idx' = idx + 1
  /\ UNCHANGED <<vars, blk, moved>>

RunJump ==
  /\ InCode /\ M!AtTerm /\ M!BB.term = "Jmp"
  /\ M!Goto(M!BB.succ0) /\ obs' = M!Silent
  /\ UNCHANGED <<vars, vreg, glob, phys, moved>>

BranchValue ==
  IF BranchFused(blk) THEN M!Result(LastInst(blk), Held, glob)
                      ELSE M!Operand(M!BB.cond, Held)

RunBranch ==
  /\ InCode /\ M!AtTerm /\ M!BB.term = "Br"
  /\ M!Goto(IF BranchValue # 0 THEN M!BB.succ0 ELSE M!BB.succ1)
  /\ obs' = M!Silent
  /\ UNCHANGED <<vars, vreg, glob, phys, moved>>

ReturnValue ==
  IF ReturnFused(blk) THEN phys[Result0] ELSE M!Operand(M!BB.ret, Held)

RunReturn ==
  /\ InCode /\ M!AtTerm /\ M!BB.term \in {"Ret", "None"}
  /\ blk' = M!Halted
  /\ obs' = IF M!BB.term = "Ret" /\ M!BB.hasVal
            THEN M!Returned(ReturnValue) ELSE M!ReturnedVoid
  /\ UNCHANGED <<vars, idx, vreg, glob, phys, moved>>

-----------------------------------------------------------------------------
RunInit == Init /\ M!MachineInit /\ phys = << >> /\ moved = -1

RunNext ==
  \/ Next /\ UNCHANGED <<blk, idx, vreg, glob, obs, phys, moved>>
  \/ EnterFrame \/ MoveParam
  \/ RunCompute \/ RunStore \/ RunCall
  \/ RunJump \/ RunBranch \/ RunReturn

RunSpec == RunInit /\ [][RunNext]_runVars

-----------------------------------------------------------------------------
(* Types of the running state: every slot the emitted code writes lies in  *)
(* the frame that numSpills reserves.                                      *)
RunTypeOK ==
  /\ blk \in Blocks(fn) \cup {M!Halted}
  /\ idx \in Nat \ {0}
  /\ blk # M!Halted => idx =< Len(Insns(blk)) + 1
  /\ vreg \in [V -> Words] /\ glob \in [Gids -> Words]
  /\ moved \in -1 .. Len(fn.params)
  /\ moved >= 0 => pc = "done" /\ phys \in [Locs -> Words]
  /\ ~InCode => blk = 0 /\ idx = 1

AtFoldedBranch == M!AtTerm /\ BranchFused(blk)
AtFoldedReturn == M!AtTerm /\ ReturnFused(blk)

(* The registers and slots hold the abstract machine's value of every vreg *)
(* that will be read again; around a fused terminator, of its operands.    *)
Agree ==
  InCode /\ blk # M!Halted =>
    /\ ~AtFoldedReturn =>
         \A v \in LiveAt(blk, idx) \ (IF AtFoldedBranch THEN {M!BB.cond.n} ELSE {}) :
           Held[v] = vreg[v]
    /\ AtFoldedBranch =>
         /\ \A v \in InstUses(LastInst(blk)) : Held[v] = vreg[v]
         /\ vreg[M!BB.cond.n] = M!Result(LastInst(blk), vreg, glob)
    /\ AtFoldedReturn => phys[Result0] = vreg[M!BB.ret.n]

(* The emitted code does what the intermediate code denotes.               *)
ImplementsIR == M!MachineSpec
=============================================================================
