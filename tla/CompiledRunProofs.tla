------------------------- MODULE CompiledRunProofs -------------------------
(***************************************************************************)
(* Proofs about allocateRegisters for every function, every pair of        *)
(* register pools and every order of colouring vregs of equal degree; and  *)
(* that the allocator and the code emitted from its answer implement the   *)
(* abstract machine of the intermediate code, for every function whose     *)
(* reads are preceded by writes and every environment.                     *)
(***************************************************************************)
EXTENDS CompiledRun, IRLemmas, FiniteSetTheorems

USE DEF V, Block, Insns

-----------------------------------------------------------------------------
(* Types, and the range of the two loop counters in each phase.            *)

Bounds ==
  /\ pc = "liveness" => b \in -1 .. fn.nb - 1
  /\ pc = "block" => b \in 0 .. fn.nb
  /\ pc = "scan" => b \in Blocks(fn) /\ i \in 0 .. Len(Insns(b))

TypeInv == TypeOK /\ Bounds

(* What FuncsAssumption says of the function under allocation.             *)
LEMMA FnFacts ==
  ASSUME fn \in Funcs
  PROVE  /\ IsIRFunc(fn) /\ fn.nb \in Nat \ {0} /\ fn.numVregs \in Nat
         /\ fn.params \in Seq(V) /\ ParamRegs \subseteq V /\ 0 \in Blocks(fn)
         /\ NoReg \notin V
<1>1. IsIRFunc(fn)
  BY FuncsAssumption
<1>2. fn.nb \in Nat \ {0} /\ fn.numVregs \in Nat /\ fn.params \in Seq(V)
  BY <1>1 DEF IsIRFunc
<1>3. ParamRegs \subseteq V
  BY <1>2 DEF ParamRegs, PoolRegs
<1> QED BY <1>1, <1>2, <1>3, NoRegFresh DEF Blocks

(* A free register is a register of one of the pools.                      *)
LEMMA FreeType ==
  ASSUME NEW v
  PROVE  Free(v) \subseteq PoolRegs(Allowed(v)) /\ PoolRegs(Allowed(v)) \subseteq Bodies
<1>1. PoolRegs(CallerPool \o CalleePool) \subseteq Bodies
  BY PoolsAssumption DEF PoolRegs, Bodies
<1> QED BY <1>1 DEF Free, Allowed, Bodies

(* No allocatable register has the number that marks a spilled vreg.       *)
LEMMA BodiesFacts == Bodies \subseteq Nat /\ NoReg \notin Bodies
BY PoolsAssumption DEF Bodies, PoolRegs, NoReg

(* A block reads and writes vregs of the function.                         *)
LEMMA UseDefType == \A k : UseB(k) \subseteq V /\ DefB(k) \subseteq V
BY DEF UseB, DefB

(* What is live out of a block are vregs of the function.                  *)
LEMMA LiveOutOfType ==
  ASSUME TypeOK, NEW k \in Blocks(fn)
  PROVE  LiveOutOf(k) \subseteq V /\ LiveInOf(k) \subseteq V
<1>1. Succs(Block(k)) \subseteq Blocks(fn)
  BY FnFacts, BlockFacts DEF TypeOK
<1>2. \A s \in Succs(Block(k)) : liveIn[s] \subseteq V
  BY <1>1 DEF TypeOK
<1> QED BY <1>2, UseDefType DEF LiveOutOf, LiveInOf

(* The facts about the instruction under the scan.                         *)
LEMMA ScanFacts ==
  ASSUME TypeInv, pc = "scan", i > 0
  PROVE  /\ i \in DOMAIN Insns(b) /\ b \in Blocks(fn)
         /\ Insns(b)[i].dst \in V \cup {NoReg}
         /\ InstUses(Insns(b)[i]) \subseteq V
         /\ IsMove(Insns(b)[i]) => Insns(b)[i].a.n \in V /\ Insns(b)[i].dst \in V
<1>1. fn \in Funcs /\ b \in Blocks(fn) /\ i \in 1 .. Len(Insns(b))
  BY DEF TypeInv, TypeOK, Bounds
<1>2. i \in DOMAIN Insns(b)
  BY <1>1, FnFacts, BlockFacts
<1> QED BY <1>1, <1>2, FnFacts, InstFacts

(* Adding edges and move pairs between vregs keeps the graphs typed.       *)
LEMMA LinkedType ==
  ASSUME TypeOK, NEW d \in V \cup {NoReg}, NEW vs \in SUBSET V,
         d = NoReg => vs = {}
  PROVE  Linked(d, vs) \in [V -> SUBSET V]
<1> SUFFICES ASSUME NEW v \in V PROVE Linked(d, vs)[v] \subseteq V
  BY DEF Linked
<1>1. adj[v] \subseteq V
  BY DEF TypeOK
<1>2. v \in vs => d \in V
  OBVIOUS
<1> QED BY <1>1, <1>2 DEF Linked

(* Move pairs are recorded among vregs of the function.                    *)
LEMMA PairsType ==
  ASSUME TypeOK, NEW d \in V, NEW s \in V
  PROVE  [[movePartner EXCEPT ![d] = Append(@, s)] EXCEPT ![s] = Append(@, d)]
           \in [V -> Seq(V)]
<1> DEFINE one == [movePartner EXCEPT ![d] = Append(@, s)]
<1>1. one \in [V -> Seq(V)]
  BY DEF TypeOK
<1>2. [one EXCEPT ![s] = Append(@, d)] \in [V -> Seq(V)]
  <2> HIDE DEF one
  <2> QED BY <1>1
<1> QED BY <1>2

(* The types hold at the start.                                            *)
LEMMA TypeInit == Init => TypeInv
<1> SUFFICES ASSUME NEW f \in Funcs, Start(f) PROVE TypeInv
  BY DEF Init
<1>1. fn = f /\ fn \in Funcs
  BY DEF Start
<1>2. fn.nb \in Nat \ {0}
  BY <1>1, FnFacts
<1>3. TypeOK
  <2>1. changed \in BOOLEAN /\ isLeaf \in BOOLEAN
    BY Zenon DEF Start
  <2>2. liveIn \in [Blocks(fn) -> SUBSET V] /\ liveOut \in [Blocks(fn) -> SUBSET V]
    BY <1>1 DEF Start
  <2>3. adj \in [V -> SUBSET V] /\ movePartner \in [V -> Seq(V)]
    BY <1>1 DEF Start
  <2>4. reg \in [V -> Bodies \cup {NoReg}] /\ spillSlot \in [V -> Nat \cup {NoReg}]
    BY <1>1 DEF Start
  <2>5. live \subseteq V /\ callCross \subseteq V /\ todo \subseteq V
        /\ numSpills \in Nat /\ usedCallee \subseteq PoolRegs(CalleePool)
        /\ i \in Nat /\ pc = "liveness" /\ b \in -1 .. fn.nb
    BY <1>1, <1>2 DEF Start
  <2> QED BY <1>1, <2>1, <2>2, <2>3, <2>4, <2>5 DEF TypeOK
<1>4. Bounds
  BY <1>1, <1>2 DEF Start, Bounds
<1> QED BY <1>3, <1>4 DEF TypeInv

(* Every step keeps the types.                                             *)
LEMMA TypeStep == TypeInv /\ [Next]_vars => TypeInv'
<1> SUFFICES ASSUME TypeInv, [Next]_vars PROVE TypeInv'
  OBVIOUS
<1> USE DEF TypeInv
<1>0. fn \in Funcs /\ fn.nb \in Nat \ {0} /\ IsIRFunc(fn) /\ NoReg \notin V
  BY FnFacts DEF TypeOK
<1>1. CASE SweepBlock
  <2>1. b \in Blocks(fn)
    BY <1>0, <1>1 DEF SweepBlock, Bounds, Blocks
  <2>2. LiveOutOf(b) \subseteq V /\ LiveInOf(b) \subseteq V
    BY <2>1, LiveOutOfType
  <2>3. TypeOK'
    BY <1>0, <1>1, <2>1, <2>2
    DEF SweepBlock, TypeOK, graphVars, colourVars, Blocks
  <2>4. Bounds'
    BY <1>0, <1>1, <2>1 DEF SweepBlock, Bounds, Blocks
  <2> QED BY <2>3, <2>4
<1>2. CASE SweepAgain
  <2>1. changed' \in BOOLEAN
    BY <1>2, Zenon DEF SweepAgain
  <2>2. pc = "liveness" /\ b' = fn.nb - 1
        /\ UNCHANGED <<fn, pc, liveIn, liveOut, graphVars, colourVars, usedCallee>>
    BY <1>2 DEF SweepAgain
  <2> QED BY <1>0, <2>1, <2>2 DEF TypeOK, Bounds, graphVars, colourVars
<1>3. CASE SweepsEnd
  BY <1>0, <1>3 DEF SweepsEnd, TypeOK, Bounds, liveVars, graphVars, colourVars
<1>4. CASE BlockStart
  <2>1. b \in Blocks(fn)
    BY <1>0, <1>4 DEF BlockStart, Bounds, Blocks
  <2>2. Len(Insns(b)) \in Nat /\ TermUses(Block(b)) \subseteq V
    BY <1>0, <2>1, BlockFacts
  <2>3. liveOut[b] \subseteq V
    BY <2>1 DEF TypeOK
  <2> QED
    BY <1>0, <1>4, <2>1, <2>2, <2>3
    DEF BlockStart, TypeOK, Bounds, liveVars, colourVars
<1>5. CASE ScanInst
  <2> DEFINE in == Insns(b)[i]
  <2>1. /\ b \in Blocks(fn) /\ in.dst \in V \cup {NoReg} /\ InstUses(in) \subseteq V
        /\ IsMove(in) => in.a.n \in V /\ in.dst \in V
    BY <1>5, ScanFacts DEF ScanInst
  <2>2. Foes(in, live) \subseteq V /\ Crossing(in, live) \subseteq V
    BY DEF TypeOK, Foes, Crossing
  <2>3. adj' \in [V -> SUBSET V]
    <3>1. in.dst = NoReg => Foes(in, live) = {}
      BY DEF Foes
    <3>2. adj' = Linked(in.dst, Foes(in, live))
      BY <1>5 DEF ScanInst
    <3> QED BY <2>1, <2>2, <3>1, <3>2, LinkedType
  <2>4. movePartner' \in [V -> Seq(V)]
    <3>1. movePartner' = Paired(in)
      BY <1>5 DEF ScanInst
    <3>2. ASSUME IsMove(in) PROVE Paired(in) \in [V -> Seq(V)]
      BY <2>1, <3>2, PairsType DEF Paired
    <3> QED BY <3>1, <3>2 DEF Paired, TypeOK
  <2>5. live' \subseteq V /\ callCross' \subseteq V /\ isLeaf' \in BOOLEAN
    BY <1>5, <2>1, <2>2 DEF ScanInst, TypeOK
  <2>6. pc = "scan" /\ i' \in 0 .. Len(Insns(b)) /\ i' \in Nat
    BY <1>5, <1>0, <2>1, BlockFacts DEF ScanInst, Bounds
  <2>7. UNCHANGED <<fn, pc, b, liveVars, colourVars, usedCallee>>
    BY <1>5 DEF ScanInst
  <2> QED
    BY <1>0, <2>1, <2>3, <2>4, <2>5, <2>6, <2>7
    DEF TypeOK, Bounds, liveVars, colourVars
<1>6. CASE BlockEnd
  BY <1>0, <1>6
  DEF BlockEnd, TypeOK, Bounds, Blocks, liveVars, graphVars, colourVars
<1>7. CASE GraphEnd
  BY <1>0, <1>7 DEF GraphEnd, TypeOK, Bounds, liveVars, graphVars, colourVars
<1>8. CASE LinkParams
  <2>1. \A v \in V : EntryFoes(v) \subseteq V
    BY DEF EntryFoes
  <2> QED
    BY <1>0, <1>8, <2>1 DEF LinkParams, TypeOK, Bounds, liveVars, colourVars
<1>9. ASSUME NEW v \in todo,
             ColourLikePartner(v) \/ ColourByPreference(v) \/ Spill(v)
      PROVE  TypeInv'
  <2>1. v \in V /\ Free(v) \subseteq Bodies
    BY FreeType DEF TypeOK
  <2>2. CASE ColourLikePartner(v)
    <3>1. PICK r : r \in Free(v) /\ Give(v, r) /\ pc = "colour"
      BY <2>2 DEF ColourLikePartner, FirstIn
    <3> QED
      BY <1>0, <2>1, <3>1 DEF Give, TypeOK, Bounds, liveVars, graphVars
  <2>3. CASE ColourByPreference(v)
    <3>1. PICK r : r \in Free(v) /\ Give(v, r) /\ pc = "colour"
      BY <2>3 DEF ColourByPreference, FirstIn
    <3> QED
      BY <1>0, <2>1, <3>1 DEF Give, TypeOK, Bounds, liveVars, graphVars
  <2>4. CASE Spill(v)
    BY <1>0, <2>1, <2>4 DEF Spill, TypeOK, Bounds, liveVars, graphVars
  <2> QED BY <1>9, <2>2, <2>3, <2>4
<1>10. CASE Finish
  BY <1>0, <1>10
  DEF Finish, TypeOK, Bounds, liveVars, graphVars, colourVars
<1>11. CASE UNCHANGED vars
  BY <1>11 DEF vars, TypeOK, Bounds, liveVars, graphVars, colourVars
<1> QED
  BY <1>1, <1>2, <1>3, <1>4, <1>5, <1>6, <1>7, <1>8, <1>9, <1>10, <1>11 DEF Next

(* Every state of the allocator is well typed, and its counters stay in    *)
(* range: no block or instruction outside the function is ever looked at.  *)
THEOREM TypeCorrect == Spec => []TypeInv
<1>1. Init => TypeInv
  BY TypeInit
<1>2. TypeInv /\ [Next]_vars => TypeInv'
  BY TypeStep
<1> QED BY <1>1, <1>2, PTL DEF Spec

(* What the runs check of them: every variable keeps its type.             *)
THEOREM TypeOKCorrect == Spec => []TypeOK
<1>1. TypeInv => TypeOK
  BY DEF TypeInv
<1> QED BY <1>1, TypeCorrect, PTL

-----------------------------------------------------------------------------
(* Liveness.  From below: no sweep ever marks a vreg live into a block of  *)
(* one of its dead sets.  From above: the blocks visited since the flag    *)
(* was cleared satisfy the data-flow equations as long as it stays clear.  *)

DeadStaysOut ==
  \A v \in V : \A D \in SUBSET Blocks(fn) :
    DeadSet(fn, v, D) => \A k \in D : v \notin liveIn[k]

SolvedAt(k) == liveOut[k] = LiveOutOf(k) /\ liveIn[k] = LiveInOf(k)

SweptSolved ==
  pc = "liveness" /\ ~changed => \A k \in Blocks(fn) : k > b => SolvedAt(k)

AllSolved == pc # "liveness" => \A k \in Blocks(fn) : SolvedAt(k)

LivenessInv == DeadStaysOut /\ SweptSolved /\ AllSolved

(* The two halves of liveness hold at the start.                           *)
LEMMA LivenessInit == Init => LivenessInv
<1> SUFFICES ASSUME NEW f \in Funcs, Start(f) PROVE LivenessInv
  BY DEF Init
<1>1. fn = f /\ pc = "liveness" /\ b = f.nb - 1 /\ fn.nb \in Nat
      /\ liveIn = [k \in Blocks(f) |-> {}]
  BY FnFacts DEF Start
<1>2. DeadStaysOut
  BY <1>1 DEF DeadStaysOut
<1>3. SweptSolved
  BY <1>1 DEF SweptSolved, Blocks
<1>4. AllSolved
  BY <1>1 DEF AllSolved
<1> QED BY <1>2, <1>3, <1>4 DEF LivenessInv

(* The steps outside the sweeps do not touch what the invariant is about.  *)
LEMMA LivenessFrame ==
  ASSUME LivenessInv, pc # "liveness", pc' # "liveness",
         UNCHANGED <<fn, liveIn, liveOut>>
  PROVE  LivenessInv'
<1>1. DeadStaysOut'
  BY DEF LivenessInv, DeadStaysOut
<1>2. AllSolved'
  BY DEF LivenessInv, AllSolved, SolvedAt, LiveOutOf, LiveInOf, UseB, DefB
<1>3. SweptSolved'
  BY DEF SweptSolved
<1> QED BY <1>1, <1>2, <1>3 DEF LivenessInv

(* Every step keeps both halves of liveness.                               *)
LEMMA LivenessStep == TypeInv /\ LivenessInv /\ [Next]_vars => LivenessInv'
<1> SUFFICES ASSUME TypeInv, LivenessInv, [Next]_vars PROVE LivenessInv'
  OBVIOUS
<1>0. fn \in Funcs /\ fn.nb \in Nat \ {0} /\ IsIRFunc(fn)
  BY FnFacts DEF TypeInv, TypeOK
<1>1. CASE SweepBlock
  <2>1. b \in Blocks(fn)
    BY <1>0, <1>1 DEF SweepBlock, TypeInv, Bounds, Blocks
  <2>2. /\ pc = "liveness" /\ UNCHANGED <<fn, pc>> /\ b' = b - 1
        /\ liveOut' = [liveOut EXCEPT ![b] = LiveOutOf(b)]
        /\ liveIn' = [liveIn EXCEPT ![b] = LiveInOf(b)]
        /\ changed' = (changed \/ LiveOutOf(b) # liveOut[b] \/ LiveInOf(b) # liveIn[b])
        /\ liveIn \in [Blocks(fn) -> SUBSET V] /\ liveOut \in [Blocks(fn) -> SUBSET V]
    BY <1>1 DEF SweepBlock, TypeInv, TypeOK
  <2>3. DeadStaysOut'
    <3> SUFFICES ASSUME NEW v \in V, NEW D \in SUBSET Blocks(fn),
                        DeadSet(fn, v, D), NEW k \in D
                 PROVE  v \notin liveIn'[k]
      BY <2>2 DEF DeadStaysOut
    <3>1. \A j \in D : v \notin liveIn[j]
      BY DEF LivenessInv, DeadStaysOut
    <3>2. CASE k # b
      BY <2>2, <3>1, <3>2
    <3>3. CASE k = b
      <4>1. v \notin UseB(b) /\ (v \in DefB(b) \/ Succs(Block(b)) \subseteq D)
        BY <3>3 DEF DeadSet, UseB, DefB
      <4>2. Succs(Block(b)) \subseteq D => v \notin LiveOutOf(b)
        BY <3>1 DEF LiveOutOf
      <4>3. v \notin LiveInOf(b)
        BY <4>1, <4>2 DEF LiveInOf
      <4> QED BY <2>1, <2>2, <3>3, <4>3
    <3> QED BY <3>2, <3>3
  <2>4. SweptSolved'
    <3> SUFFICES ASSUME ~changed', NEW k \in Blocks(fn), k > b'
                 PROVE  SolvedAt(k)'
      BY <2>2 DEF SweptSolved
    <3>1. ~changed /\ LiveOutOf(b) = liveOut[b] /\ LiveInOf(b) = liveIn[b]
      BY <2>2
    <3>2. liveIn' = liveIn /\ liveOut' = liveOut
      BY <2>1, <2>2, <3>1
    <3>3. k = b \/ k > b
      BY <2>1, <2>2 DEF Blocks
    <3>4. SolvedAt(k)
      BY <2>2, <3>1, <3>3 DEF SolvedAt, LivenessInv, SweptSolved
    <3> QED
      BY <2>2, <3>2, <3>4 DEF SolvedAt, LiveOutOf, LiveInOf, UseB, DefB
  <2>5. AllSolved'
    BY <2>2 DEF AllSolved
  <2> QED BY <2>3, <2>4, <2>5 DEF LivenessInv
<1>2. CASE SweepAgain
  <2>1. pc = "liveness" /\ b' = fn.nb - 1 /\ UNCHANGED <<fn, pc, liveIn, liveOut>>
    BY <1>2 DEF SweepAgain
  <2>2. DeadStaysOut' /\ AllSolved'
    BY <2>1 DEF LivenessInv, DeadStaysOut, AllSolved
  <2>3. SweptSolved'
    BY <1>0, <2>1 DEF SweptSolved, Blocks
  <2> QED BY <2>2, <2>3 DEF LivenessInv
<1>3. CASE SweepsEnd
  <2>1. /\ pc = "liveness" /\ ~changed /\ b < 0 /\ b \in Int /\ pc' = "block"
        /\ UNCHANGED <<fn, liveIn, liveOut>>
    BY <1>3 DEF SweepsEnd, liveVars, TypeInv, TypeOK
  <2>2. \A k \in Blocks(fn) : SolvedAt(k)
    BY <1>0, <2>1 DEF LivenessInv, SweptSolved, Blocks
  <2>3. AllSolved'
    BY <2>1, <2>2 DEF AllSolved, SolvedAt, LiveOutOf, LiveInOf, UseB, DefB
  <2>4. DeadStaysOut' /\ SweptSolved'
    BY <2>1 DEF LivenessInv, DeadStaysOut, SweptSolved
  <2> QED BY <2>3, <2>4 DEF LivenessInv
<1>4. CASE BlockStart \/ ScanInst \/ BlockEnd \/ GraphEnd \/ LinkParams
  <2>1. pc # "liveness" /\ pc' # "liveness" /\ UNCHANGED <<fn, liveIn, liveOut>>
    BY <1>4
    DEF BlockStart, ScanInst, BlockEnd, GraphEnd, LinkParams, liveVars
  <2> QED BY <2>1, LivenessFrame
<1>5. ASSUME NEW v \in todo,
             ColourLikePartner(v) \/ ColourByPreference(v) \/ Spill(v)
      PROVE  LivenessInv'
  <2>1. pc # "liveness" /\ pc' # "liveness" /\ UNCHANGED <<fn, liveIn, liveOut>>
    BY <1>5
    DEF ColourLikePartner, ColourByPreference, Spill, Give, liveVars
  <2> QED BY <2>1, LivenessFrame
<1>6. CASE Finish
  <2>1. pc # "liveness" /\ pc' # "liveness" /\ UNCHANGED <<fn, liveIn, liveOut>>
    BY <1>6 DEF Finish, liveVars
  <2> QED BY <2>1, LivenessFrame
<1>7. CASE UNCHANGED vars
  BY <1>7
  DEF vars, liveVars, LivenessInv, DeadStaysOut, SweptSolved, AllSolved, SolvedAt,
      LiveOutOf, LiveInOf, UseB, DefB
<1> QED BY <1>1, <1>2, <1>3, <1>4, <1>5, <1>6, <1>7 DEF Next

(* At the fixpoint, liveIn is the complement of being dead.                *)
LEMMA LivenessMeaning ==
  ASSUME TypeInv, LivenessInv
  PROVE  LivenessExact
<1> SUFFICES ASSUME pc # "liveness", NEW k \in Blocks(fn), NEW v \in V
             PROVE  v \in liveIn[k] <=> ~DeadInto(fn, v, k)
  BY DEF LivenessExact
<1>1. ASSUME v \in liveIn[k] PROVE ~DeadInto(fn, v, k)
  BY <1>1 DEF DeadInto, LivenessInv, DeadStaysOut
<1>2. ASSUME v \notin liveIn[k] PROVE DeadInto(fn, v, k)
  <2> DEFINE D == {j \in Blocks(fn) : v \notin liveIn[j]}
  <2>1. \A j \in D : v \notin LiveInOf(j)
    BY DEF LivenessInv, AllSolved, SolvedAt
  <2>2. \A j \in D : v \notin UseB(j) /\ (v \in DefB(j) \/ v \notin LiveOutOf(j))
    BY <2>1 DEF LiveInOf
  <2>3. \A j \in D : v \notin LiveOutOf(j) => Succs(Block(j)) \subseteq D
    <3> SUFFICES ASSUME NEW j \in D, v \notin LiveOutOf(j), NEW s \in Succs(Block(j))
                 PROVE  s \in D
      OBVIOUS
    <3>1. s \in Blocks(fn)
      BY FnFacts, BlockFacts DEF TypeInv, TypeOK
    <3> QED BY <3>1 DEF LiveOutOf
  <2>4. DeadSet(fn, v, D)
    BY <2>2, <2>3 DEF DeadSet, UseB, DefB
  <2> QED BY <1>2, <2>4 DEF DeadInto
<1> QED BY <1>1, <1>2

(* The sweeps compute liveness exactly, whatever the control-flow graph.   *)
THEOREM LivenessCorrect == Spec => []LivenessExact
<1>1. Init => TypeInv /\ LivenessInv
  BY TypeInit, LivenessInit
<1>2. TypeInv /\ LivenessInv /\ [Next]_vars => (TypeInv /\ LivenessInv)'
  BY TypeStep, LivenessStep
<1>3. TypeInv /\ LivenessInv => LivenessExact
  BY LivenessMeaning
<1> QED BY <1>1, <1>2, <1>3, PTL DEF Spec

-----------------------------------------------------------------------------
(* Interference.  Scanning a block backwards, `live` is what is live after *)
(* the instructions still to scan.                                         *)

(* Before the terminator, live is what leaves the block and what it reads. *)
LEMMA LiveAtEnd ==
  ASSUME TypeInv, NEW k \in Blocks(fn)
  PROVE  LiveAt(k, Len(Insns(k)) + 1) = liveOut[k] \cup TermUses(Block(k))
<1>1. Len(Insns(k)) \in Nat /\ TermUses(Block(k)) \subseteq V /\ liveOut[k] \subseteq V
  BY FnFacts, BlockFacts DEF TypeInv, TypeOK
<1> QED BY <1>1 DEF LiveAt

(* LiveAt one instruction earlier is the scan's update of live.            *)
LEMMA LiveAtStep ==
  ASSUME TypeInv, NEW k \in Blocks(fn), NEW m \in DOMAIN Insns(k)
  PROVE  LiveAt(k, m) = (LiveAt(k, m + 1) \ {Insns(k)[m].dst}) \cup InstUses(Insns(k)[m])
<1> DEFINE len == Len(Insns(k))
<1>1. len \in Nat /\ m \in 1 .. len /\ InstUses(Insns(k)[m]) \subseteq V
  BY FnFacts, BlockFacts, InstFacts DEF TypeInv, TypeOK
<1> SUFFICES ASSUME NEW v \in V
             PROVE  v \in LiveAt(k, m) <=>
                      \/ v \in LiveAt(k, m + 1) /\ Insns(k)[m].dst # v
                      \/ v \in InstUses(Insns(k)[m])
  BY <1>1 DEF LiveAt
<1> DEFINE Read(n) == v \in InstUses(Insns(k)[n])
           Kept(n) == Insns(k)[n].dst # v
           Out == v \in TermUses(Block(k)) \cup liveOut[k]
<1>2. \A p \in Nat : v \in LiveAt(k, p) <=>
        \/ \E n \in p .. len : Read(n) /\ \A j \in p .. n - 1 : Kept(j)
        \/ Out /\ \A j \in p .. len : Kept(j)
  BY DEF LiveAt
<1> HIDE DEF Read, Kept, Out, len
<1>3. v \in LiveAt(k, m) <=>
        \/ \E n \in m .. len : Read(n) /\ \A j \in m .. n - 1 : Kept(j)
        \/ Out /\ \A j \in m .. len : Kept(j)
  BY <1>1, <1>2
<1>4. v \in LiveAt(k, m + 1) <=>
        \/ \E n \in m + 1 .. len : Read(n) /\ \A j \in m + 1 .. n - 1 : Kept(j)
        \/ Out /\ \A j \in m + 1 .. len : Kept(j)
  <2>1. m + 1 \in Nat
    BY <1>1
  <2> QED BY <1>2, <2>1
<1>5. (\A j \in m .. len : Kept(j)) <=> Kept(m) /\ \A j \in m + 1 .. len : Kept(j)
  BY <1>1
<1>6. (\E n \in m .. len : Read(n) /\ \A j \in m .. n - 1 : Kept(j)) <=>
        \/ Read(m)
        \/ Kept(m) /\ \E n \in m + 1 .. len :
                         Read(n) /\ \A j \in m + 1 .. n - 1 : Kept(j)
  <2>1. \A n \in m + 1 .. len :
          (\A j \in m .. n - 1 : Kept(j)) <=> Kept(m) /\ \A j \in m + 1 .. n - 1 : Kept(j)
    BY <1>1
  <2>2. m .. m - 1 = {} /\ m .. len = {m} \cup (m + 1 .. len)
    BY <1>1
  <2> QED BY <2>1, <2>2
<1> QED BY <1>3, <1>4, <1>5, <1>6 DEF Read, Kept

(* Instruction m of block k has left its mark on the graph.                *)
LinkedAt(k, m) ==
  LET in == Insns(k)[m]
  IN  /\ \A v \in Foes(in, LiveAt(k, m + 1)) : v \in adj[in.dst]
      /\ Crossing(in, LiveAt(k, m + 1)) \subseteq callCross

Scanned(k, m) ==
  \/ pc \in {"params", "colour", "done"}
  \/ pc \in {"block", "scan"} /\ k < b
  \/ pc = "scan" /\ k = b /\ m > i

Symmetric == \A v, w \in V : w \in adj[v] => v \in adj[w]
Irreflexive == \A v \in V : v \notin adj[v]

GraphInv ==
  /\ Symmetric /\ Irreflexive
  /\ pc = "scan" => live = LiveAt(b, i + 1)
  /\ \A k \in Blocks(fn) : \A m \in DOMAIN Insns(k) : Scanned(k, m) => LinkedAt(k, m)
  /\ pc \in {"colour", "done"} => \A v \in V : EntryFoes(v) \subseteq adj[v]

(* The graph invariant holds at the start.                                 *)
LEMMA GraphInit == Init => GraphInv
<1> SUFFICES ASSUME NEW f \in Funcs, Start(f) PROVE GraphInv
  BY DEF Init
<1>1. fn = f /\ pc = "liveness" /\ \A v \in V : adj[v] = {}
  BY DEF Start
<1>2. \A k, m : ~Scanned(k, m)
  BY <1>1 DEF Scanned
<1> QED BY <1>1, <1>2 DEF GraphInv, Symmetric, Irreflexive

(* More edges and more call-crossing vregs undo nothing.                   *)
LEMMA LinkedGrows ==
  ASSUME NEW k \in Blocks(fn), NEW m \in DOMAIN Insns(k), LinkedAt(k, m), TypeInv,
         UNCHANGED <<fn, liveOut>>, \A v \in V : adj[v] \subseteq adj'[v],
         callCross \subseteq callCross'
  PROVE  LinkedAt(k, m)'
<1> DEFINE in == Insns(k)[m]
<1>1. in.dst \in V \cup {NoReg}
  BY FnFacts, InstFacts DEF TypeInv, TypeOK
<1>2. LiveAt(k, m + 1)' = LiveAt(k, m + 1)
  BY DEF LiveAt
<1>3. \A v \in Foes(in, LiveAt(k, m + 1)) : v \in adj'[in.dst]
  BY <1>1 DEF LinkedAt, Foes
<1> QED BY <1>2, <1>3 DEF LinkedAt

(* Steps that leave the graph and the scanned part alone.                  *)
LEMMA GraphFrame ==
  ASSUME GraphInv, TypeInv, UNCHANGED <<fn, liveIn, liveOut, adj, callCross>>,
         pc' = "scan" => live' = LiveAt(b, i + 1)',
         \A k \in Blocks(fn) : \A m \in DOMAIN Insns(k) : Scanned(k, m)' => Scanned(k, m),
         pc' \in {"colour", "done"} => pc \in {"colour", "done"}
  PROVE  GraphInv'
<1>1. Symmetric' /\ Irreflexive'
  BY DEF GraphInv, Symmetric, Irreflexive
<1>2. \A k \in Blocks(fn) : \A m \in DOMAIN Insns(k) : Scanned(k, m)' => LinkedAt(k, m)'
  BY LinkedGrows DEF GraphInv
<1>3. pc' \in {"colour", "done"} => \A v \in V : EntryFoes(v)' \subseteq adj'[v]
  BY DEF GraphInv, EntryFoes, ParamRegs
<1> QED BY <1>1, <1>2, <1>3 DEF GraphInv

(* Scanning an instruction keeps the graph invariant.                      *)
LEMMA GraphScanStep == TypeInv /\ GraphInv /\ ScanInst => GraphInv'
<1> SUFFICES ASSUME TypeInv, GraphInv, ScanInst PROVE GraphInv'
  OBVIOUS
<1> DEFINE in == Insns(b)[i]
           foes == Foes(in, live)
<1>1. /\ b \in Blocks(fn) /\ i \in DOMAIN Insns(b) /\ i \in Nat \ {0}
      /\ in.dst \in V \cup {NoReg} /\ NoReg \notin V /\ live \subseteq V
      /\ pc = "scan" /\ live = LiveAt(b, i + 1)
  BY ScanFacts, FnFacts DEF ScanInst, TypeInv, TypeOK, GraphInv
<1>2. /\ adj' = Linked(in.dst, foes) /\ callCross' = callCross \cup Crossing(in, live)
      /\ live' = (live \ {in.dst}) \cup InstUses(in) /\ i' = i - 1
      /\ UNCHANGED <<fn, pc, b, liveIn, liveOut>>
  BY DEF ScanInst, liveVars
<1>3. foes \subseteq V /\ in.dst \notin foes /\ (in.dst = NoReg => foes = {})
  BY <1>1 DEF Foes
<1>4. \A v, w \in V : w \in adj'[v] <=>
        \/ w \in adj[v]
        \/ v = in.dst /\ w \in foes
        \/ v \in foes /\ w = in.dst
  <2> HIDE DEF in, foes
  <2> QED BY <1>2 DEF Linked
<1>5. Symmetric'
  BY <1>2, <1>4 DEF GraphInv, Symmetric
<1>6. Irreflexive'
  <2> HIDE DEF in, foes
  <2> QED BY <1>2, <1>3, <1>4 DEF GraphInv, Irreflexive
<1>7. \A v \in V : adj[v] \subseteq adj'[v]
  <2> HIDE DEF in, foes
  <2> QED BY <1>2 DEF Linked
<1>8. live' = LiveAt(b, i + 1)'
  <2>1. live' = LiveAt(b, i)
    BY <1>1, <1>2, LiveAtStep
  <2>2. i' + 1 = i
    BY <1>1, <1>2
  <2> QED BY <1>2, <2>1, <2>2 DEF LiveAt
<1>9. ASSUME NEW k \in Blocks(fn), NEW m \in DOMAIN Insns(k), Scanned(k, m)'
      PROVE  LinkedAt(k, m)'
  <2>1. m \in Nat /\ k \in Int
    <3>1. fn.nb \in Nat /\ IsIRFunc(fn)
      BY FnFacts DEF TypeInv, TypeOK
    <3>2. DOMAIN Insns(k) = 1 .. Len(Insns(k)) /\ Len(Insns(k)) \in Nat
      BY <3>1, BlockFacts
    <3> QED BY <3>1, <3>2 DEF Blocks
  <2>2. CASE Scanned(k, m)
    <3>1. LinkedAt(k, m)
      BY <2>2 DEF GraphInv
    <3>2. callCross \subseteq callCross' /\ UNCHANGED <<fn, liveOut>>
      BY <1>2
    <3> QED BY <1>7, <3>1, <3>2, LinkedGrows
  <2>3. CASE ~Scanned(k, m)
    <3>1. k = b /\ m = i
      BY <1>1, <1>2, <1>9, <2>1, <2>3 DEF Scanned
    <3>2. LiveAt(k, m + 1)' = live
      <4> HIDE DEF in, foes
      <4>1. LiveAt(k, m + 1)' = LiveAt(k, m + 1)
        BY <1>2 DEF LiveAt
      <4> QED BY <1>1, <3>1, <4>1
    <3>3. \A v \in foes : v \in adj'[in.dst]
      <4> HIDE DEF in, foes
      <4> QED BY <1>1, <1>3, <1>4
    <3>4. Crossing(in, live) \subseteq callCross'
      BY <1>2
    <3> QED BY <1>2, <3>1, <3>2, <3>3, <3>4 DEF LinkedAt
  <2> QED BY <2>2, <2>3
<1> QED
  BY <1>1, <1>2, <1>5, <1>6, <1>8, <1>9 DEF GraphInv

(* Every step keeps the graph invariant.                                   *)
LEMMA GraphStep ==
  TypeInv /\ LivenessInv /\ GraphInv /\ [Next]_vars => GraphInv'
<1> SUFFICES ASSUME TypeInv, GraphInv, [Next]_vars PROVE GraphInv'
  OBVIOUS
<1>0. fn \in Funcs /\ fn.nb \in Nat \ {0} /\ Blocks(fn) \subseteq Int /\ b \in Int
  BY FnFacts DEF TypeInv, TypeOK, Blocks
<1>00. \A k \in Blocks(fn) : \A m \in DOMAIN Insns(k) :
         m \in Nat \ {0} /\ Len(Insns(k)) \in Nat /\ m =< Len(Insns(k))
  BY <1>0, FnFacts, BlockFacts
<1>1. CASE SweepBlock \/ SweepAgain
  <2>1. pc' = "liveness" /\ UNCHANGED <<fn, adj>>
    BY <1>1 DEF SweepBlock, SweepAgain, graphVars, TypeInv, TypeOK
  <2>2. \A k, m : ~Scanned(k, m)'
    BY <2>1 DEF Scanned
  <2> QED BY <2>1, <2>2 DEF GraphInv, Symmetric, Irreflexive
<1>2. CASE SweepsEnd
  <2>1. /\ pc' = "block" /\ b' = 0
        /\ UNCHANGED <<fn, liveIn, liveOut, adj, callCross>>
    BY <1>2 DEF SweepsEnd, liveVars, graphVars
  <2>2. \A k \in Blocks(fn) : \A m : ~Scanned(k, m)'
    BY <2>1 DEF Scanned, Blocks
  <2> QED BY <2>1, <2>2, GraphFrame
<1>3. CASE BlockStart
  <2>1. /\ pc = "block" /\ pc' = "scan" /\ i' = Len(Insns(b))
        /\ live' = liveOut[b] \cup TermUses(Block(b)) /\ b \in Blocks(fn)
        /\ UNCHANGED <<fn, b, liveIn, liveOut, adj, callCross>>
    BY <1>0, <1>3 DEF BlockStart, liveVars, TypeInv, Bounds, Blocks
  <2>2. live' = LiveAt(b, Len(Insns(b)) + 1)
    BY <2>1, LiveAtEnd
  <2>3. live' = LiveAt(b, i + 1)'
    BY <2>1, <2>2 DEF LiveAt
  <2>4. \A k \in Blocks(fn) : \A m \in DOMAIN Insns(k) :
          Scanned(k, m)' => Scanned(k, m)
    BY <1>00, <2>1 DEF Scanned
  <2> QED BY <2>1, <2>3, <2>4, GraphFrame
<1>4. CASE ScanInst
  BY <1>4, GraphScanStep
<1>5. CASE BlockEnd
  <2>1. /\ pc = "scan" /\ i = 0 /\ pc' = "block" /\ b' = b + 1
        /\ UNCHANGED <<fn, liveIn, liveOut, adj, callCross>>
    BY <1>5 DEF BlockEnd, liveVars, graphVars
  <2>2. \A k \in Blocks(fn) : \A m \in DOMAIN Insns(k) :
          Scanned(k, m)' => Scanned(k, m)
    BY <1>0, <1>00, <2>1 DEF Scanned
  <2> QED BY <2>1, <2>2, GraphFrame
<1>6. CASE GraphEnd
  <2>1. /\ pc = "block" /\ b = fn.nb /\ pc' = "params"
        /\ UNCHANGED <<fn, liveIn, liveOut, adj, callCross>>
    BY <1>6 DEF GraphEnd, liveVars, graphVars
  <2>2. \A k \in Blocks(fn) : \A m \in DOMAIN Insns(k) : Scanned(k, m)
    BY <1>0, <2>1 DEF Scanned, Blocks
  <2> QED BY <2>1, <2>2, GraphFrame
<1>7. CASE LinkParams
  <2>1. /\ pc = "params" /\ pc' = "colour" /\ adj' = [v \in V |-> adj[v] \cup EntryFoes(v)]
        /\ UNCHANGED <<fn, liveIn, liveOut, callCross>>
    BY <1>7 DEF LinkParams, liveVars
  <2>2. \A v, w \in V : w \in EntryFoes(v) => v \in EntryFoes(w) /\ v # w
    BY DEF EntryFoes
  <2>3. Symmetric' /\ Irreflexive'
    BY <2>1, <2>2 DEF GraphInv, Symmetric, Irreflexive, EntryFoes
  <2>4. ASSUME NEW k \in Blocks(fn), NEW m \in DOMAIN Insns(k) PROVE LinkedAt(k, m)'
    <3>1. LinkedAt(k, m)
      BY <2>1 DEF GraphInv, Scanned
    <3>2. \A v \in V : adj[v] \subseteq adj'[v]
      BY <2>1
    <3> QED BY <2>1, <3>1, <3>2, LinkedGrows
  <2>5. \A v \in V : EntryFoes(v)' \subseteq adj'[v]
    BY <2>1 DEF EntryFoes, ParamRegs
  <2> QED BY <2>1, <2>3, <2>4, <2>5 DEF GraphInv
<1>8. ASSUME NEW v \in todo,
             ColourLikePartner(v) \/ ColourByPreference(v) \/ Spill(v)
      PROVE  GraphInv'
  <2>1. /\ pc = "colour" /\ pc' = "colour"
        /\ UNCHANGED <<fn, b, i, liveIn, liveOut, adj, callCross>>
    BY <1>8
    DEF ColourLikePartner, ColourByPreference, Spill, Give, liveVars, graphVars
  <2> QED BY <2>1, GraphFrame DEF Scanned
<1>9. CASE Finish
  <2>1. /\ pc = "colour" /\ pc' = "done"
        /\ UNCHANGED <<fn, liveIn, liveOut, adj, callCross>>
    BY <1>9 DEF Finish, liveVars, graphVars
  <2> QED BY <2>1, GraphFrame DEF Scanned
<1>10. CASE UNCHANGED vars
  <2>1. UNCHANGED <<fn, pc, b, i, live, liveIn, liveOut, adj, callCross>>
    BY <1>10 DEF vars, liveVars, graphVars
  <2>2. pc' = "scan" => live' = LiveAt(b, i + 1)'
    BY <2>1 DEF GraphInv, LiveAt
  <2> QED BY <2>1, <2>2, GraphFrame DEF Scanned
<1> QED
  BY <1>1, <1>2, <1>3, <1>4, <1>5, <1>6, <1>7, <1>8, <1>9, <1>10 DEF Next

-----------------------------------------------------------------------------
(* Colouring: neighbours differ, a register is one the vreg is allowed, a  *)
(* slot is inside the spill area and nobody else's.                        *)

ColourInv ==
  /\ pc \notin {"colour", "done"} => todo = V
  /\ pc = "done" => todo = {}
  /\ \A v \in todo : reg[v] = NoReg
  /\ \A v \in V \ todo :
       \/ reg[v] \in PoolRegs(Allowed(v))
       \/ reg[v] = NoReg /\ spillSlot[v] \in 0 .. numSpills - 1
  /\ \A v \in V : \A w \in adj[v] : reg[v] # NoReg => reg[v] # reg[w]
  /\ \A v, w \in V \ todo :
       reg[v] = NoReg /\ reg[w] = NoReg /\ v # w => spillSlot[v] # spillSlot[w]

(* The colouring invariant holds at the start.                             *)
LEMMA ColourInit == Init => ColourInv
<1> SUFFICES ASSUME NEW f \in Funcs, Start(f) PROVE ColourInv
  BY DEF Init
<1>1. fn = f /\ pc = "liveness" /\ todo = V /\ reg = [v \in V |-> NoReg]
  BY DEF Start
<1> QED BY <1>1 DEF ColourInv

(* Giving a vreg a register none of its neighbours has.                    *)
LEMMA ColourGive ==
  ASSUME TypeInv, GraphInv, ColourInv, pc = "colour",
         NEW v \in todo, NEW r \in Free(v), Give(v, r)
  PROVE  ColourInv'
<1>1. /\ v \in V /\ r \in PoolRegs(Allowed(v)) /\ r \in Bodies /\ r # NoReg
      /\ \A w \in adj[v] : reg[w] # r
  BY FreeType, BodiesFacts DEF TypeInv, TypeOK, Free
<1>2. /\ reg' = [reg EXCEPT ![v] = r] /\ todo' = todo \ {v} /\ pc' = "colour"
      /\ UNCHANGED <<fn, adj, callCross, spillSlot, numSpills>>
      /\ reg \in [V -> Bodies \cup {NoReg}] /\ adj \in [V -> SUBSET V]
  BY DEF Give, graphVars, TypeInv, TypeOK
<1>3. \A w \in V : Allowed(w)' = Allowed(w)
  BY <1>2 DEF Allowed
<1>4. \A u \in V : \A w \in adj[u] : reg'[u] # NoReg => reg'[u] # reg'[w]
  <2> SUFFICES ASSUME NEW u \in V, NEW w \in adj[u], reg'[u] # NoReg
               PROVE  reg'[u] # reg'[w]
    OBVIOUS
  <2>1. w \in V /\ u # w /\ u \in adj[w]
    BY <1>2 DEF GraphInv, Symmetric, Irreflexive
  <2>2. CASE u = v
    BY <1>1, <1>2, <2>1, <2>2
  <2>3. CASE w = v
    BY <1>1, <1>2, <2>1, <2>3
  <2>4. CASE u # v /\ w # v
    BY <1>2, <2>1, <2>4 DEF ColourInv
  <2> QED BY <2>2, <2>3, <2>4
<1>5. \A u \in V \ todo' :
        \/ reg'[u] \in PoolRegs(Allowed(u))'
        \/ reg'[u] = NoReg /\ spillSlot'[u] \in 0 .. numSpills' - 1
  BY <1>1, <1>2, <1>3 DEF ColourInv, PoolRegs
<1>6. \A u, w \in V \ todo' :
        reg'[u] = NoReg /\ reg'[w] = NoReg /\ u # w => spillSlot'[u] # spillSlot'[w]
  BY <1>1, <1>2 DEF ColourInv
<1>7. \A u \in todo' : reg'[u] = NoReg
  BY <1>1, <1>2 DEF ColourInv
<1> QED BY <1>2, <1>4, <1>5, <1>6, <1>7 DEF ColourInv

(* Spilling a vreg keeps the colouring invariant.                          *)
LEMMA ColourSpill ==
  ASSUME TypeInv, ColourInv, NEW v \in todo, Spill(v)
  PROVE  ColourInv'
<1>1. /\ v \in V /\ reg[v] = NoReg /\ numSpills \in Nat
      /\ spillSlot' = [spillSlot EXCEPT ![v] = numSpills]
      /\ numSpills' = numSpills + 1 /\ todo' = todo \ {v}
      /\ pc = "colour" /\ pc' = "colour" /\ UNCHANGED <<fn, adj, callCross, reg>>
      /\ spillSlot \in [V -> Nat \cup {NoReg}]
  BY DEF Spill, graphVars, TypeInv, TypeOK, ColourInv
<1>2. \A w \in V : Allowed(w)' = Allowed(w)
  BY <1>1 DEF Allowed
<1>3. \A u \in V \ todo' :
        \/ reg'[u] \in PoolRegs(Allowed(u))'
        \/ reg'[u] = NoReg /\ spillSlot'[u] \in 0 .. numSpills' - 1
  <2> SUFFICES ASSUME NEW u \in V, u \notin todo'
               PROVE \/ reg'[u] \in PoolRegs(Allowed(u))'
                     \/ reg'[u] = NoReg /\ spillSlot'[u] \in 0 .. numSpills' - 1
    OBVIOUS
  <2>1. CASE u = v
    BY <1>1, <2>1
  <2>2. CASE u # v
    BY <1>1, <1>2, <2>2 DEF ColourInv, PoolRegs
  <2> QED BY <2>1, <2>2
<1>4. \A u, w \in V \ todo' :
        reg'[u] = NoReg /\ reg'[w] = NoReg /\ u # w => spillSlot'[u] # spillSlot'[w]
  <2>1. \A u \in V \ todo : reg[u] = NoReg => spillSlot[u] \in 0 .. numSpills - 1
    BY BodiesFacts, FreeType DEF ColourInv
  <2> QED BY <1>1, <2>1 DEF ColourInv
<1> QED BY <1>1, <1>3, <1>4 DEF ColourInv

(* Every step keeps the colouring invariant.                               *)
LEMMA ColourStep ==
  TypeInv /\ GraphInv /\ ColourInv /\ [Next]_vars => ColourInv'
<1> SUFFICES ASSUME TypeInv, GraphInv, ColourInv, [Next]_vars PROVE ColourInv'
  OBVIOUS
<1>1. CASE SweepBlock \/ SweepAgain \/ SweepsEnd \/ BlockStart \/ ScanInst
           \/ BlockEnd \/ GraphEnd \/ LinkParams
  <2>1. /\ pc \notin {"colour", "done"} /\ pc' # "done"
        /\ UNCHANGED <<fn, todo, reg, spillSlot, numSpills>>
    BY <1>1
    DEF SweepBlock, SweepAgain, SweepsEnd, BlockStart, ScanInst, BlockEnd,
        GraphEnd, LinkParams, colourVars
  <2>2. todo = V /\ \A v \in V : reg[v] = NoReg
    BY <2>1 DEF ColourInv
  <2> QED BY <2>1, <2>2 DEF ColourInv
<1>2. ASSUME NEW v \in todo,
             ColourLikePartner(v) \/ ColourByPreference(v) \/ Spill(v)
      PROVE  ColourInv'
  <2>1. CASE ColourLikePartner(v)
    <3>1. PICK r : r \in Free(v) /\ Give(v, r) /\ pc = "colour"
      BY <2>1 DEF ColourLikePartner, FirstIn
    <3> QED BY <3>1, ColourGive
  <2>2. CASE ColourByPreference(v)
    <3>1. PICK r : r \in Free(v) /\ Give(v, r) /\ pc = "colour"
      BY <2>2 DEF ColourByPreference, FirstIn
    <3> QED BY <3>1, ColourGive
  <2>3. CASE Spill(v)
    BY <2>3, ColourSpill
  <2> QED BY <1>2, <2>1, <2>2, <2>3
<1>3. CASE Finish
  BY <1>3 DEF Finish, ColourInv, colourVars, graphVars, Allowed
<1>4. CASE UNCHANGED vars
  BY <1>4 DEF vars, ColourInv, colourVars, graphVars, Allowed
<1> QED BY <1>1, <1>2, <1>3, <1>4 DEF Next

-----------------------------------------------------------------------------
(* The inductive invariant of the allocator, and what it means at the end. *)

AllocInv == TypeInv /\ LivenessInv /\ GraphInv /\ ColourInv

(* The allocator's inductive invariant holds in every reachable state.     *)
THEOREM AllocInvariant == Spec => []AllocInv
<1>1. Init => AllocInv
  BY TypeInit, LivenessInit, GraphInit, ColourInit DEF AllocInv
<1>2. AllocInv /\ [Next]_vars => AllocInv'
  BY TypeStep, LivenessStep, GraphStep, ColourStep DEF AllocInv
<1> QED BY <1>1, <1>2, PTL DEF Spec

(* Two vregs that interfere never share a home.                            *)
LEMMA NeighboursApart ==
  ASSUME AllocInv, pc = "done", NEW v \in V, NEW w \in adj[v]
  PROVE  Home(v) # Home(w)
<1>1. todo = {} /\ w \in V /\ v # w
  BY DEF AllocInv, ColourInv, GraphInv, Irreflexive, TypeInv, TypeOK
<1>2. CASE reg[v] # NoReg
  BY <1>1, <1>2 DEF Home, AllocInv, ColourInv
<1>3. CASE reg[v] = NoReg
  BY <1>1, <1>3 DEF Home, AllocInv, ColourInv
<1> QED BY <1>2, <1>3

(* The invariant implies that no result lands on a live value.             *)
LEMMA NoClobberHolds == ASSUME AllocInv PROVE NoClobber
<1> SUFFICES ASSUME pc = "done", NEW k \in Blocks(fn), NEW m \in DOMAIN Insns(k),
                    Insns(k)[m].dst # NoReg,
                    NEW v \in LiveAt(k, m + 1) \ {Insns(k)[m].dst},
                    Home(v) = Home(Insns(k)[m].dst)
             PROVE  IsMove(Insns(k)[m]) /\ v = Insns(k)[m].a.n
  BY DEF NoClobber
<1>1. Insns(k)[m].dst \in V
  BY FnFacts, InstFacts DEF AllocInv, TypeInv, TypeOK
<1>2. v \notin adj[Insns(k)[m].dst]
  BY <1>1, NeighboursApart
<1>3. v \notin Foes(Insns(k)[m], LiveAt(k, m + 1))
  BY <1>2 DEF AllocInv, GraphInv, Scanned, LinkedAt
<1> QED BY <1>3 DEF Foes

(* The invariant implies that values live across calls survive them.       *)
LEMMA SurvivesCallsHolds == ASSUME AllocInv PROVE SurvivesCalls
<1> SUFFICES ASSUME pc = "done", NEW k \in Blocks(fn), NEW m \in DOMAIN Insns(k),
                    Insns(k)[m].op = "Call",
                    NEW v \in LiveAt(k, m + 1) \ {Insns(k)[m].dst}
             PROVE  reg[v] \notin PoolRegs(CallerPool)
  BY DEF SurvivesCalls
<1>1. v \in callCross
  BY DEF AllocInv, GraphInv, Scanned, LinkedAt, Crossing
<1>2. v \in V /\ todo = {}
  BY DEF AllocInv, ColourInv, LiveAt
<1>3. reg[v] \in PoolRegs(CalleePool) \/ reg[v] = NoReg
  BY <1>1, <1>2 DEF AllocInv, ColourInv, Allowed
<1> QED BY <1>3, PoolsAssumption, BodiesFacts DEF Bodies

(* The invariant implies that parameters do not collide at entry.          *)
LEMMA ParamsApartHolds == ASSUME AllocInv PROVE ParamsApart
<1> SUFFICES ASSUME pc = "done", NEW v \in ParamRegs,
                    NEW w \in ParamRegs \cup liveIn[0], v # w
             PROVE  Home(v) # Home(w)
  BY DEF ParamsApart
<1>1. v \in V /\ w \in V
  BY FnFacts DEF AllocInv, TypeInv, TypeOK
<1>2. w \in EntryFoes(v)
  BY <1>1 DEF EntryFoes
<1>3. w \in adj[v]
  BY <1>1, <1>2 DEF AllocInv, GraphInv
<1> QED BY <1>1, <1>3, NeighboursApart

(* No instruction overwrites a value that will still be read.              *)
THEOREM NoClobberCorrect == Spec => []NoClobber
BY AllocInvariant, NoClobberHolds, PTL

(* Values that outlive a call are kept where the callee preserves them.    *)
THEOREM SurvivesCallsCorrect == Spec => []SurvivesCalls
BY AllocInvariant, SurvivesCallsHolds, PTL

(* The prologue may move the parameters one by one.                        *)
THEOREM ParamsApartCorrect == Spec => []ParamsApart
BY AllocInvariant, ParamsApartHolds, PTL
-----------------------------------------------------------------------------
(* The spill area of allocateRegisters, for every function and every pair  *)
(* of register pools: its slots are all in use, by one vreg each, and only *)
(* vregs with too many neighbours are in it.                               *)

(* A vreg spills when its neighbours have all the registers it may have,   *)
(* and they keep them.                                                     *)
Crowded(v) == PoolRegs(Allowed(v)) \subseteq {reg[w] : w \in adj[v]}

SpillInv ==
  /\ \A s \in 0 .. numSpills - 1 : \E v \in V \ todo : reg[v] = NoReg /\ spillSlot[v] = s
  /\ \A v \in V \ todo : reg[v] = NoReg => Crowded(v)

(* Nothing has spilled at the start.                                       *)
LEMMA SpillInit == Init => SpillInv
<1> SUFFICES ASSUME NEW f \in Funcs, Start(f) PROVE SpillInv
  BY DEF Init
<1>1. fn = f /\ todo = V /\ numSpills = 0
  BY DEF Start
<1> QED BY <1>1 DEF SpillInv

LEMMA SpillGive ==
  ASSUME TypeInv, ColourInv, SpillInv, NEW v \in todo, NEW r \in Free(v), Give(v, r)
  PROVE  SpillInv'
<1>1. /\ v \in V /\ reg[v] = NoReg /\ r # NoReg
      /\ reg \in [V -> Bodies \cup {NoReg}] /\ adj \in [V -> SUBSET V]
  BY FreeType, BodiesFacts DEF TypeInv, TypeOK, ColourInv
<1>2. /\ reg' = [reg EXCEPT ![v] = r] /\ todo' = todo \ {v}
      /\ UNCHANGED <<fn, adj, callCross, spillSlot, numSpills>>
  BY DEF Give, graphVars
<1>3. ASSUME NEW s \in 0 .. numSpills - 1
      PROVE  \E u \in V \ todo' : reg'[u] = NoReg /\ spillSlot[u] = s
  <2>1. PICK u \in V \ todo : reg[u] = NoReg /\ spillSlot[u] = s
    BY DEF SpillInv
  <2>2. u # v /\ u \in V \ todo' /\ reg'[u] = reg[u]
    BY <1>1, <1>2
  <2> QED BY <2>1, <2>2
<1>4. ASSUME NEW u \in V \ todo', reg'[u] = NoReg
      PROVE  Crowded(u)'
  <2>1. u # v /\ reg[u] = NoReg /\ u \in V \ todo
    BY <1>1, <1>2, <1>4
  <2>2. Crowded(u)
    BY <2>1 DEF SpillInv
  <2>3. Allowed(u)' = Allowed(u) /\ PoolRegs(Allowed(u)) \subseteq Bodies
    <3>1. Allowed(u)' = Allowed(u)
      BY <1>2 DEF Allowed
    <3> QED BY <3>1, FreeType
  <2>4. ASSUME NEW x \in PoolRegs(Allowed(u))
        PROVE  \E w \in adj[u] : x = reg'[w]
    <3>1. PICK w \in adj[u] : x = reg[w]
      BY <2>2 DEF Crowded
    <3>2. x # NoReg /\ w \in V
      BY <1>1, <2>1, <2>3, BodiesFacts
    <3>3. w # v
      BY <1>1, <3>1, <3>2
    <3> QED BY <1>1, <1>2, <3>1, <3>2, <3>3
  <2> QED BY <1>2, <2>3, <2>4 DEF Crowded, PoolRegs
<1> QED BY <1>2, <1>3, <1>4 DEF SpillInv

LEMMA SpillSpill ==
  ASSUME TypeInv, ColourInv, SpillInv, NEW v \in todo, Spill(v)
  PROVE  SpillInv'
<1>1. /\ v \in V /\ reg[v] = NoReg /\ numSpills \in Nat
      /\ spillSlot \in [V -> Nat \cup {NoReg}]
  BY DEF TypeInv, TypeOK, ColourInv
<1>2. /\ spillSlot' = [spillSlot EXCEPT ![v] = numSpills] /\ todo' = todo \ {v}
      /\ numSpills' = numSpills + 1 /\ Free(v) = {}
      /\ UNCHANGED <<fn, adj, callCross, reg>>
  BY DEF Spill, graphVars
<1>3. ASSUME NEW s \in 0 .. numSpills' - 1
      PROVE  \E u \in V \ todo' : reg[u] = NoReg /\ spillSlot'[u] = s
  <2>1. CASE s = numSpills
    BY <1>1, <1>2, <2>1
  <2>2. CASE s # numSpills
    <3>1. s \in 0 .. numSpills - 1
      BY <1>1, <1>2, <2>2
    <3>2. PICK u \in V \ todo : reg[u] = NoReg /\ spillSlot[u] = s
      BY <3>1 DEF SpillInv
    <3>3. u # v /\ u \in V \ todo' /\ spillSlot'[u] = spillSlot[u]
      BY <1>1, <1>2
    <3> QED BY <3>2, <3>3
  <2> QED BY <2>1, <2>2
<1>4. ASSUME NEW u \in V \ todo', reg[u] = NoReg
      PROVE  Crowded(u)
  <2>1. CASE u = v
    BY <1>2, <2>1 DEF Free, Crowded
  <2>2. CASE u # v
    BY <1>2, <1>4, <2>2 DEF SpillInv
  <2> QED BY <2>1, <2>2
<1>5. \A u \in V : Crowded(u)' <=> Crowded(u)
  BY <1>2 DEF Crowded, Allowed, PoolRegs
<1> QED BY <1>2, <1>3, <1>4, <1>5 DEF SpillInv

LEMMA SpillFrame ==
  ASSUME SpillInv, UNCHANGED <<fn, adj, callCross, todo, reg, spillSlot, numSpills>>
  PROVE  SpillInv'
<1>1. \A u \in V : Crowded(u)' <=> Crowded(u)
  BY DEF Crowded, Allowed, PoolRegs
<1> QED BY <1>1 DEF SpillInv

LEMMA SpillStep ==
  TypeInv /\ ColourInv /\ SpillInv /\ [Next]_vars => SpillInv'
<1> SUFFICES ASSUME TypeInv, ColourInv, SpillInv, [Next]_vars PROVE SpillInv'
  OBVIOUS
<1>1. CASE SweepBlock \/ SweepAgain \/ SweepsEnd \/ BlockStart \/ ScanInst
           \/ BlockEnd \/ GraphEnd \/ LinkParams
  <2>1. /\ pc \notin {"colour", "done"}
        /\ UNCHANGED <<fn, todo, reg, spillSlot, numSpills>>
    BY <1>1
    DEF SweepBlock, SweepAgain, SweepsEnd, BlockStart, ScanInst, BlockEnd,
        GraphEnd, LinkParams, colourVars
  <2>2. V \ todo = {}
    BY <2>1 DEF ColourInv
  <2> QED BY <2>1, <2>2 DEF SpillInv
<1>2. ASSUME NEW v \in todo,
             ColourLikePartner(v) \/ ColourByPreference(v) \/ Spill(v)
      PROVE  SpillInv'
  <2>1. CASE ColourLikePartner(v)
    <3>1. PICK r : r \in Free(v) /\ Give(v, r)
      BY <2>1 DEF ColourLikePartner, FirstIn
    <3> QED BY <3>1, SpillGive
  <2>2. CASE ColourByPreference(v)
    <3>1. PICK r : r \in Free(v) /\ Give(v, r)
      BY <2>2 DEF ColourByPreference, FirstIn
    <3> QED BY <3>1, SpillGive
  <2>3. CASE Spill(v)
    BY <2>3, SpillSpill
  <2> QED BY <1>2, <2>1, <2>2, <2>3
<1>3. CASE Finish
  BY <1>3, SpillFrame DEF Finish, colourVars, graphVars
<1>4. CASE UNCHANGED vars
  BY <1>4, SpillFrame DEF vars, colourVars, graphVars
<1> QED BY <1>1, <1>2, <1>3, <1>4 DEF Next

-----------------------------------------------------------------------------
(* No register is twice in the list a vreg chooses from.                   *)
LEMMA AllowedOnce ==
  ASSUME NEW v
  PROVE  /\ Allowed(v) \in Seq(Nat)
         /\ \A j, k \in DOMAIN Allowed(v) : Allowed(v)[j] = Allowed(v)[k] => j = k
<1> DEFINE s == CallerPool
           t == CalleePool
           u == s \o t
<1>1. s \in Seq(Nat) /\ t \in Seq(Nat)
  BY PoolsAssumption
<1>2. /\ \A j, k \in DOMAIN s : s[j] = s[k] => j = k
      /\ \A j, k \in DOMAIN t : t[j] = t[k] => j = k
      /\ \A j \in DOMAIN s, k \in DOMAIN t : s[j] # t[k]
  BY PoolsAssumption DEF PoolRegs
<1>3. /\ u \in Seq(Nat)
      /\ \A j \in DOMAIN u : \/ j \in DOMAIN s /\ u[j] = s[j]
                             \/ j - Len(s) \in DOMAIN t /\ u[j] = t[j - Len(s)]
  BY <1>1
<1>4. \A j, k \in DOMAIN u : u[j] = u[k] => j = k
  <2> HIDE DEF s, t, u
  <2> SUFFICES ASSUME NEW j \in DOMAIN u, NEW k \in DOMAIN u, u[j] = u[k] PROVE j = k
    OBVIOUS
  <2>1. j \in Int /\ k \in Int /\ Len(s) \in Int
    BY <1>1, <1>3
  <2> QED BY <1>2, <1>3, <2>1
<1> QED BY <1>1, <1>2, <1>3, <1>4 DEF Allowed

LEMMA HomesPackedHolds ==
  ASSUME AllocInv, SpillInv
  PROVE  HomesPacked
<1> SUFFICES ASSUME pc = "done" PROVE HomesPacked
  BY DEF HomesPacked
<1> DEFINE spilled == {v \in V : reg[v] = NoReg}
           slots == 0 .. numSpills - 1
<1>1. /\ todo = {} /\ numSpills \in Nat
      /\ spillSlot \in [V -> Nat \cup {NoReg}] /\ adj \in [V -> SUBSET V]
  BY DEF AllocInv, TypeInv, TypeOK, ColourInv
<1>2. \A v \in spilled : spillSlot[v] \in slots
  <2>1. \A v \in V : reg[v] \in PoolRegs(Allowed(v)) => reg[v] # NoReg
    BY FreeType, BodiesFacts
  <2> QED BY <1>1, <2>1 DEF AllocInv, ColourInv
<1>3. \A v, w \in spilled : v # w => spillSlot[v] # spillSlot[w]
  BY <1>1 DEF AllocInv, ColourInv
<1>4. \A s \in slots : \E v \in spilled : spillSlot[v] = s
  BY <1>1 DEF SpillInv
<1>5. {spillSlot[v] : v \in spilled} = slots
  BY <1>2, <1>4
<1>6. /\ IsFiniteSet(V) /\ \A S \in SUBSET V : IsFiniteSet(S)
      /\ IsFiniteSet(slots) /\ Cardinality(slots) = numSpills
  <2>1. fn.numVregs \in Nat
    BY FnFacts DEF AllocInv, TypeInv, TypeOK
  <2>2. IsFiniteSet(V)
    BY <2>1, FS_Interval DEF Vregs
  <2>3. IsFiniteSet(slots) /\ Cardinality(slots) = numSpills
    BY <1>1, FS_Interval
  <2> QED BY <2>2, <2>3, FS_Subset
<1>7. Cardinality(spilled) = numSpills
  <2> DEFINE home == [v \in spilled |-> spillSlot[v]]
  <2>1. home \in Injection(spilled, slots) /\ home \in Surjection(spilled, slots)
    BY <1>2, <1>3, <1>4 DEF Injection, IsInjective, Surjection
  <2> HIDE DEF home
  <2>2. Cardinality(spilled) = Cardinality(slots)
    BY <1>6, <2>1, FS_Injection
  <2> QED BY <1>6, <2>2
<1>8. \A v \in spilled : Degree(v) >= Len(Allowed(v))
  <2> SUFFICES ASSUME NEW v \in spilled PROVE Degree(v) >= Len(Allowed(v))
    OBVIOUS
  <2> DEFINE want == Allowed(v)
             taker == [k \in 1 .. Len(want) |-> CHOOSE w \in adj[v] : reg[w] = want[k]]
  <2>1. \A k \in 1 .. Len(want) : \E w \in adj[v] : reg[w] = want[k]
    <3>1. Crowded(v)
      BY <1>1 DEF SpillInv
    <3>2. want \in Seq(Nat)
      BY AllowedOnce
    <3> HIDE DEF want
    <3>3. \A k \in 1 .. Len(want) : want[k] \in PoolRegs(want)
      BY <3>2 DEF PoolRegs
    <3> QED BY <3>1, <3>3 DEF Crowded, want
  <2>2. \A k \in 1 .. Len(want) : taker[k] \in adj[v] /\ reg[taker[k]] = want[k]
    BY <2>1
  <2>3. taker \in [1 .. Len(want) -> adj[v]]
    BY <2>2
  <2>4. \A j, k \in 1 .. Len(want) : taker[j] = taker[k] => j = k
    <3>1. want \in Seq(Nat) /\ \A j, k \in DOMAIN want : want[j] = want[k] => j = k
      BY AllowedOnce
    <3> HIDE DEF want, taker
    <3> QED BY <2>2, <3>1
  <2>5. Len(want) \in Nat
    BY AllowedOnce
  <2> HIDE DEF taker, want
  <2>6. taker \in Injection(1 .. Len(want), adj[v])
    BY <2>3, <2>4 DEF Injection, IsInjective
  <2>7. IsFiniteSet(adj[v])
    BY <1>1, <1>6
  <2>8. Cardinality(1 .. Len(want)) =< Cardinality(adj[v])
    BY <2>6, <2>7, FS_Injection
  <2>9. Cardinality(1 .. Len(want)) = Len(want)
    <3>1. \A n \in Nat : Cardinality(1 .. n) = n
      <4>1. \A n \in Nat : Cardinality(1 .. n) = IF 1 > n THEN 0 ELSE n - 1 + 1
        BY FS_Interval
      <4> QED BY <4>1
    <3> QED BY <2>5, <3>1
  <2>10. Cardinality(adj[v]) \in Nat
    BY <2>7, FS_CardinalityType
  <2> QED BY <2>5, <2>8, <2>9, <2>10 DEF Degree, want
<1> QED BY <1>5, <1>7, <1>8 DEF HomesPacked

(* When the allocator returns, the spill slots are numbered without a gap  *)
(* and without sharing, and only a vreg with at least as many neighbours   *)
(* as registers it may have is in one.                                     *)
THEOREM HomesPackedCorrect == Spec => []HomesPacked
<1>1. Init => SpillInv
  BY SpillInit
<1>2. AllocInv /\ SpillInv /\ [Next]_vars => SpillInv'
  BY SpillStep DEF AllocInv
<1>3. AllocInv /\ SpillInv => HomesPacked
  BY HomesPackedHolds
<1> QED BY <1>1, <1>2, <1>3, AllocInvariant, PTL DEF Spec

-----------------------------------------------------------------------------
(* Two valuations that agree on what an instruction reads give its         *)
(* operands, its arguments and its result the same values.                 *)

(* An operand reads the same value in both machines' vocabularies.         *)
LEMMA OperandAgree ==
  ASSUME NEW val, NEW vs, NEW ws, \A v \in OperandRegs(val) : vs[v] = ws[v]
  PROVE  M!Operand(val, vs) = M!Operand(val, ws)
BY DEF M!Operand, M!IsReg, OperandRegs, IsReg

(* The result of an instruction on equal operands is the same for both.    *)
LEMMA ResultAgree ==
  ASSUME NEW in, NEW vs, NEW ws, NEW gs,
         in.op \in Ops \ {"StoreGlobal", "Call"},
         \A v \in InstUses(in) : vs[v] = ws[v]
  PROVE  M!Result(in, vs, gs) = M!Result(in, ws, gs)
<1>1. CASE in.op \in BinaryOps
  <2>1. in.op \notin UnaryOps \cup {"StoreGlobal", "LoadGlobal", "Call"}
    BY <1>1 DEF BinaryOps, UnaryOps
  <2>2. OperandRegs(in.a) \cup OperandRegs(in.b) \subseteq InstUses(in)
    BY <2>1 DEF InstUses, OpUses
  <2>3. M!Operand(in.a, vs) = M!Operand(in.a, ws) /\ M!Operand(in.b, vs) = M!Operand(in.b, ws)
    BY <2>2, OperandAgree
  <2> QED BY <1>1, <2>3 DEF M!Result, M!BinaryOps, BinaryOps
<1>2. CASE in.op \in UnaryOps
  <2>1. in.op \notin BinaryOps
    BY <1>2 DEF BinaryOps, UnaryOps
  <2>2. OperandRegs(in.a) \subseteq InstUses(in)
    BY <1>2 DEF InstUses, OpUses, UnaryOps
  <2>3. M!Operand(in.a, vs) = M!Operand(in.a, ws)
    BY <2>2, OperandAgree
  <2> QED BY <1>2, <2>1, <2>3
    DEF M!Result, M!BinaryOps, M!UnaryOps, BinaryOps, UnaryOps
<1>3. CASE in.op = "LoadGlobal"
  BY <1>3 DEF M!Result, M!BinaryOps, M!UnaryOps, BinaryOps, UnaryOps
<1> QED BY <1>1, <1>2, <1>3 DEF Ops

(* A call passes the same arguments in both.                               *)
LEMMA ArgumentsAgree ==
  ASSUME NEW in, NEW vs, NEW ws, in.op = "Call",
         \A v \in InstUses(in) : vs[v] = ws[v]
  PROVE  M!Arguments(in, vs) = M!Arguments(in, ws)
<1>1. \A k \in DOMAIN in.args : OperandRegs(in.args[k]) \subseteq InstUses(in)
  BY DEF InstUses, OpUses, UnaryOps
<1>2. \A k \in DOMAIN in.args : M!Operand(in.args[k], vs) = M!Operand(in.args[k], ws)
  BY <1>1, OperandAgree
<1> QED BY <1>2 DEF M!Arguments

-----------------------------------------------------------------------------
(* Types of the values.                                                    *)

(* The operators of the two machines compute the same words.               *)
LEMMA SameEval ==
  /\ \A op, x, y : M!EvalBinary(op, x, y) = EvalBinary(op, x, y)
  /\ \A op, x : M!EvalUnary(op, x) = EvalUnary(op, x)
BY DEF M!EvalBinary, M!EvalUnary, EvalBinary, EvalUnary, M!Wrap, Wrap, M!Truth, Truth,
       M!TruncDiv, TruncDiv, M!TruncRem, TruncRem, M!Magnitude, Magnitude

(* An operand is a word.                                                   *)
LEMMA OperandType ==
  ASSUME NEW vs, NEW val \in Vals(vs), NEW h \in [vs -> Words]
  PROVE  M!Operand(val, h) \in Words
BY DEF M!Operand, M!IsReg, Vals

(* The result of an instruction is a word.                                 *)
LEMMA ResultType ==
  ASSUME NEW vs, NEW in \in Insts(vs), NEW h \in [vs -> Words],
         NEW gs \in [Gids -> Words],
         in.op \notin {"StoreGlobal", "Call"},
         in.op = "LoadGlobal" => in.gid \in Gids
  PROVE  M!Result(in, h, gs) \in Words
<1>1. in.op \in Ops /\ in.a \in Vals(vs) /\ in.b \in Vals(vs)
  BY DEF Insts
<1>2. M!Operand(in.a, h) \in Words /\ M!Operand(in.b, h) \in Words
  BY <1>1, OperandType
<1>3. CASE in.op \in BinaryOps
  <2>1. M!Result(in, h, gs) = M!EvalBinary(in.op, M!Operand(in.a, h), M!Operand(in.b, h))
    BY <1>3 DEF M!Result, M!BinaryOps, M!UnaryOps, BinaryOps
  <2> QED BY <1>2, <1>3, <2>1, EvalType, SameEval
<1>4. CASE in.op \in UnaryOps
  <2>1. in.op \notin BinaryOps
    BY <1>4 DEF BinaryOps, UnaryOps
  <2> QED BY <1>2, <1>4, <2>1, EvalType, SameEval
    DEF M!Result, M!BinaryOps, M!UnaryOps, BinaryOps, UnaryOps
<1>5. CASE in.op = "LoadGlobal"
  BY <1>5 DEF M!Result, M!BinaryOps, M!UnaryOps, BinaryOps, UnaryOps
<1> QED BY <1>1, <1>3, <1>4, <1>5 DEF Ops

-----------------------------------------------------------------------------
(* The allocator's invariant lifted to the composed system, and the homes. *)

(* Every step of the allocator keeps its invariant.                        *)
LEMMA AllocStep == AllocInv /\ [Next]_vars => AllocInv'
BY TypeStep, LivenessStep, GraphStep, ColourStep DEF AllocInv

(* After allocation every home is a pool register or a slot of the frame.  *)
LEMMA HomesInFrame ==
  ASSUME AllocInv, pc = "done", NEW v \in V
  PROVE  Home(v) \in Locs /\ Home(v) # Result0
<1>1. todo = {}
  BY DEF AllocInv, ColourInv
<1>2. CASE reg[v] # NoReg
  <2>1. reg[v] \in Bodies
    BY <1>2 DEF AllocInv, TypeInv, TypeOK
  <2> QED BY <1>2, <2>1, A0Assumption DEF Home, Locs, Result0
<1>3. CASE reg[v] = NoReg
  <2>1. spillSlot[v] \in 0 .. numSpills - 1
    BY <1>1, <1>3, FreeType, BodiesFacts DEF AllocInv, ColourInv
  <2> QED BY <1>3, <2>1 DEF Home, Locs, Result0
<1> QED BY <1>2, <1>3

(* What is live before the first instruction is live into the block.       *)
LEMMA LiveAtStart ==
  ASSUME AllocInv, pc = "done", NEW k \in Blocks(fn)
  PROVE  LiveAt(k, 1) = liveIn[k]
<1>1. liveOut[k] = LiveOutOf(k) /\ liveIn[k] = LiveInOf(k)
  BY DEF AllocInv, LivenessInv, AllSolved, SolvedAt
<1>2. LiveOutOf(k) \subseteq V /\ TermUses(Block(k)) \subseteq V
      /\ DOMAIN Insns(k) = 1 .. Len(Insns(k))
  BY LiveOutOfType, FnFacts, BlockFacts DEF AllocInv, TypeInv, TypeOK
<1> SUFFICES ASSUME NEW v \in V PROVE v \in LiveAt(k, 1) <=> v \in LiveInOf(k)
  BY <1>1, <1>2, UseDefType DEF LiveAt, LiveInOf
<1>3. v \in LiveAt(k, 1) <=>
        \/ \E n \in DOMAIN Insns(k) :
             v \in InstUses(Insns(k)[n]) /\ \A j \in 1 .. n - 1 : Insns(k)[j].dst # v
        \/ /\ v \in TermUses(Block(k)) \cup LiveOutOf(k)
           /\ \A j \in DOMAIN Insns(k) : Insns(k)[j].dst # v
  BY <1>1, <1>2 DEF LiveAt
<1> QED BY <1>3 DEF LiveInOf, UseB, DefB, ReadsFirst, Writes

(* What is live into a successor is live out of the block.                 *)
LEMMA SuccessorLive ==
  ASSUME AllocInv, pc = "done", NEW k \in Blocks(fn), NEW t \in Succs(Block(k))
  PROVE  /\ t \in Blocks(fn)
         /\ LiveAt(t, 1) \subseteq LiveAt(k, Len(Insns(k)) + 1)
         /\ LiveAt(t, 1) \subseteq liveIn[t]
<1>1. t \in Blocks(fn)
  BY FnFacts, BlockFacts DEF AllocInv, TypeInv, TypeOK
<1>2. liveIn[t] \subseteq liveOut[k]
  BY DEF AllocInv, LivenessInv, AllSolved, SolvedAt, LiveOutOf
<1> QED BY <1>1, <1>2, LiveAtStart, LiveAtEnd DEF AllocInv

(* Only parameters are live into the entry block.                          *)
LEMMA EntryLive ==
  ASSUME AllocInv, pc = "done"
  PROVE  LiveAt(0, 1) \subseteq ParamRegs
<1>1. fn \in Funcs /\ 0 \in Blocks(fn)
  BY FnFacts DEF AllocInv, TypeInv, TypeOK
<1>2. LiveAt(0, 1) = liveIn[0]
  BY <1>1, LiveAtStart
<1>3. \A v \in V \ ParamRegs : v \notin liveIn[0]
  BY <1>1, InitialisedAssumption, LivenessMeaning
  DEF AllocInv, LivenessExact, ParamRegs
<1> QED BY <1>2, <1>3 DEF LiveAt

(* A vreg read by nothing but the terminator of the block that has just    *)
(* computed it is live into no block.                                      *)
LEMMA FoldedNotLive ==
  ASSUME AllocInv, pc = "done", NEW k \in Blocks(fn), NEW c \in V,
         OnlyReader(c, k), Insns(k) # << >>, LastInst(k).dst = c, NEW t \in Blocks(fn)
  PROVE  c \notin liveIn[t]
<1>1. Len(Insns(k)) \in DOMAIN Insns(k)
  BY FnFacts, BlockFacts DEF AllocInv, TypeInv, TypeOK
<1>2. \A j \in Blocks(fn) : ~ReadsFirst(Block(j), c)
  BY <1>1 DEF OnlyReader, ReadsFirst, LastInst
<1>3. \A j \in Blocks(fn) : Succs(Block(j)) \subseteq Blocks(fn)
  BY FnFacts, BlockFacts DEF AllocInv, TypeInv, TypeOK
<1>4. DeadSet(fn, c, Blocks(fn))
  BY <1>2, <1>3 DEF DeadSet
<1>5. DeadInto(fn, c, t)
  BY <1>4 DEF DeadInto
<1> QED BY <1>5, LivenessMeaning DEF AllocInv, LivenessExact

-----------------------------------------------------------------------------
(* The invariant of the composed system.                                   *)

PrologueInv ==
  ~InCode /\ moved >= 0 =>
    \A j \in 1 .. moved : phys[Home(fn.params[j])] = vreg[fn.params[j]]

RunInv == AllocInv /\ RunTypeOK /\ PrologueInv /\ Agree

(* What a state inside the running code fixes about its block.             *)
LEMMA CodeFacts ==
  ASSUME RunInv, InCode, blk # M!Halted
  PROVE  /\ pc = "done" /\ fn \in Funcs /\ IsIRFunc(fn) /\ blk \in Blocks(fn)
         /\ Len(Insns(blk)) \in Nat /\ DOMAIN Insns(blk) = 1 .. Len(Insns(blk))
         /\ idx \in 1 .. Len(Insns(blk)) + 1
         /\ M!BB = Block(blk)
         /\ phys \in [Locs -> Words] /\ vreg \in [V -> Words] /\ glob \in [Gids -> Words]
         /\ Held \in [V -> Words]
<1>1. fn \in Funcs /\ IsIRFunc(fn) /\ Len(fn.params) \in Nat
  BY FnFacts DEF RunInv, AllocInv, TypeInv, TypeOK
<1>2. moved >= 0
  BY <1>1 DEF InCode
<1>3. /\ blk \in Blocks(fn) /\ idx \in Nat \ {0} /\ idx =< Len(Insns(blk)) + 1
      /\ vreg \in [V -> Words] /\ glob \in [Gids -> Words]
      /\ pc = "done" /\ phys \in [Locs -> Words]
  BY <1>2 DEF RunInv, RunTypeOK
<1>4. Len(Insns(blk)) \in Nat /\ DOMAIN Insns(blk) = 1 .. Len(Insns(blk))
  BY <1>1, <1>3, BlockFacts
<1>5. Held \in [V -> Words]
  BY <1>3, HomesInFrame DEF Held, RunInv
<1> QED BY <1>1, <1>3, <1>4, <1>5 DEF M!BB

(* The instruction about to run, its operands and its live values.         *)
LEMMA BodyFacts ==
  ASSUME RunInv, InCode, M!InBody
  PROVE  /\ blk # M!Halted /\ idx \in DOMAIN Insns(blk) /\ idx + 1 =< Len(Insns(blk)) + 1
         /\ M!Current = Insns(blk)[idx]
         /\ Insns(blk)[idx] \in Insts(V)
         /\ Insns(blk)[idx].dst \in V \cup {NoReg}
         /\ InstUses(Insns(blk)[idx]) \subseteq LiveAt(blk, idx)
         /\ LiveAt(blk, idx + 1) \ {Insns(blk)[idx].dst} \subseteq LiveAt(blk, idx)
         /\ \A v \in LiveAt(blk, idx) : v \in V /\ Held[v] = vreg[v]
<1>1. blk # M!Halted /\ idx =< Len(M!BB.insts)
  BY DEF M!InBody
<1>2. idx \in DOMAIN Insns(blk) /\ idx \in Nat
  BY <1>1, CodeFacts
<1>3. ~M!AtTerm
  BY <1>1, <1>2, CodeFacts DEF M!AtTerm
<1>4. \A v \in LiveAt(blk, idx) : v \in V /\ Held[v] = vreg[v]
  BY <1>1, <1>3 DEF RunInv, Agree, AtFoldedBranch, AtFoldedReturn, LiveAt
<1>5. M!Current = Insns(blk)[idx]
  BY <1>1, CodeFacts DEF M!Current
<1>6. /\ Insns(blk)[idx] \in Insts(V) /\ Insns(blk)[idx].dst \in V \cup {NoReg}
  BY <1>1, <1>2, CodeFacts, InstFacts
<1>7. LiveAt(blk, idx) =
        (LiveAt(blk, idx + 1) \ {Insns(blk)[idx].dst}) \cup InstUses(Insns(blk)[idx])
  BY <1>1, <1>2, CodeFacts, LiveAtStep DEF RunInv, AllocInv
<1>8. idx + 1 =< Len(Insns(blk)) + 1
  BY <1>1, <1>2, CodeFacts
<1> QED BY <1>1, <1>2, <1>4, <1>5, <1>6, <1>7, <1>8

(* Depositing a result x when the machine is ph, the live values having    *)
(* been kept, re-establishes the agreement one instruction later.          *)
LEMMA DepositAgrees ==
  ASSUME RunInv, InCode, M!InBody, M!Current.dst # NoReg,
         NEW ph \in [Locs -> Words], NEW x \in Words,
         \A v \in LiveAt(blk, idx + 1) \ {M!Current.dst} : ph[Home(v)] = vreg[v],
         IsMove(M!Current) => ph[Home(M!Current.a.n)] = x,
         M!Current.op \in CmpOps =>
           /\ x = M!Result(M!Current, vreg, glob) /\ glob' = glob
           /\ \A v \in InstUses(M!Current) : ph[Home(v)] = vreg[v],
         UNCHANGED <<vars, blk, moved>>, idx' = idx + 1,
         phys' = Deposit(ph, x), vreg' = [vreg EXCEPT ![M!Current.dst] = x]
  PROVE  Agree' /\ phys' \in [Locs -> Words]
<1> DEFINE in == Insns(blk)[idx]
           d == in.dst
           len == Len(Insns(blk))
<1>1. /\ blk # M!Halted /\ blk \in Blocks(fn) /\ idx \in DOMAIN Insns(blk) /\ idx \in Nat
      /\ M!Current = in /\ d \in V /\ in \in Insts(V) /\ len \in Nat /\ pc = "done"
      /\ vreg \in [V -> Words] /\ idx =< len /\ InstUses(in) \subseteq V
      /\ fn \in Funcs /\ IsIRFunc(fn)
  BY BodyFacts, CodeFacts, InstUsesType
<1>2. /\ UNCHANGED <<fn, liveOut, reg, spillSlot, numSpills, blk, moved>>
      /\ idx' = idx + 1
  BY DEF vars, liveVars, colourVars
<1>3. LiveAt(blk, idx)' = LiveAt(blk, idx + 1)
  BY <1>2 DEF LiveAt
<1>4. Held' = [v \in V |-> phys'[Home(v)]]
  BY <1>2 DEF Held, Home
<1>5. LiveAt(blk, idx + 1) \subseteq V
  BY DEF LiveAt
<1>6. M!BB' = Block(blk) /\ (M!AtTerm' <=> idx = len)
  BY <1>1, <1>2 DEF M!BB, M!AtTerm, M!Halted
<1>7. BranchFused(blk)' = BranchFused(blk) /\ ReturnFused(blk)' = ReturnFused(blk)
  BY <1>2 DEF BranchFused, ReturnFused, OnlyReader, LastInst
<1>8. \A v \in V : Home(v) \in Locs /\ Home(v) # Result0
  BY <1>1, HomesInFrame DEF RunInv
<1>9. Result0 \in Locs
  BY DEF Locs, Result0
<1>10. (BranchFused(blk) => Block(blk).term = "Br") /\ (ReturnFused(blk) => Block(blk).term = "Ret")
  BY DEF BranchFused, ReturnFused
<1>11. LastInst(blk)' = LastInst(blk) /\ (idx = len => LastInst(blk) = in)
  BY <1>2 DEF LastInst
<1>12. CASE idx = len /\ BranchFused(blk)
  <2>1. phys' = ph
    BY <1>10, <1>12 DEF Deposit
  <2>2. Block(blk).cond.n = d /\ in.op \in CmpOps /\ d \notin InstUses(in)
    BY <1>1, <1>11, <1>12 DEF BranchFused, OnlyReader
  <2>3. \A v \in LiveAt(blk, idx + 1) \ {d} : Held'[v] = vreg'[v]
    BY <1>1, <1>4, <1>5, <2>1
  <2>4. \A v \in InstUses(in) : Held'[v] = vreg'[v]
    BY <1>1, <1>4, <2>1, <2>2
  <2>5. vreg'[d] = x /\ \A v \in InstUses(in) : vreg'[v] = vreg[v]
    BY <1>1, <2>2
  <2>6. in.op \in Ops \ {"StoreGlobal", "Call"}
    BY <2>2 DEF CmpOps, Ops, BinaryOps
  <2>7. M!Result(in, vreg', glob') = M!Result(in, vreg, glob')
    <3> DEFINE vs == vreg'
               gs == glob'
    <3>1. \A v \in InstUses(in) : vs[v] = vreg[v]
      BY <2>5
    <3> HIDE DEF in, vs, gs
    <3>2. M!Result(in, vs, gs) = M!Result(in, vreg, gs)
      BY <2>6, <3>1, ResultAgree
    <3> QED BY <3>2 DEF vs, gs
  <2>8. vreg'[d] = M!Result(in, vreg', glob')
    BY <1>1, <2>2, <2>5, <2>7
  <2>9. AtFoldedBranch' /\ ~AtFoldedReturn'
    BY <1>6, <1>7, <1>10, <1>12 DEF AtFoldedBranch, AtFoldedReturn
  <2>10. M!Result(LastInst(blk), vreg, glob)' = M!Result(in, vreg', glob')
    BY <1>11, <1>12
  <2>11. InstUses(LastInst(blk))' = InstUses(in)
    BY <1>11, <1>12
  <2> HIDE DEF in, d, len
  <2> QED
    BY <1>3, <1>6, <2>1, <2>2, <2>3, <2>4, <2>8, <2>9, <2>10, <2>11 DEF Agree
<1>13. CASE idx = len /\ ReturnFused(blk)
  <2>1. phys' = [ph EXCEPT ![Result0] = x]
    BY <1>10, <1>13 DEF Deposit
  <2>2. Block(blk).ret.n = d
    BY <1>11, <1>13 DEF ReturnFused
  <2>3. ~AtFoldedBranch' /\ AtFoldedReturn'
    BY <1>6, <1>7, <1>10, <1>13 DEF AtFoldedBranch, AtFoldedReturn
  <2>4. phys'[Result0] = x /\ vreg'[d] = x
    BY <1>1, <1>9, <2>1
  <2> QED BY <1>6, <1>9, <2>1, <2>2, <2>3, <2>4 DEF Agree
<1>14. CASE ~(idx = len /\ (BranchFused(blk) \/ ReturnFused(blk)))
  <2>1. phys' = [ph EXCEPT ![Home(d)] = x]
    BY <1>1, <1>14 DEF Deposit
  <2>2. ~AtFoldedBranch' /\ ~AtFoldedReturn'
    BY <1>6, <1>7, <1>14 DEF AtFoldedBranch, AtFoldedReturn
  <2>3. ASSUME NEW v \in LiveAt(blk, idx + 1) PROVE phys'[Home(v)] = vreg'[v]
    <3>1. v \in V
      BY <1>5
    <3>2. CASE v = d
      BY <1>1, <1>8, <2>1, <3>1, <3>2
    <3>3. CASE v # d /\ Home(v) # Home(d)
      BY <1>1, <1>8, <2>1, <3>1, <3>3
    <3>4. CASE v # d /\ Home(v) = Home(d)
      <4>1. IsMove(in) /\ v = in.a.n
        BY <1>1, <3>4, NoClobberHolds, FnFacts DEF RunInv, NoClobber
      <4>2. ph[Home(v)] = vreg[v] /\ ph[Home(v)] = x
        BY <1>1, <3>4, <4>1
      <4> QED BY <1>1, <1>8, <2>1, <3>1, <3>4, <4>2
    <3> QED BY <3>2, <3>3, <3>4
  <2>4. \A v \in LiveAt(blk, idx)' : Held'[v] = vreg'[v]
    BY <1>3, <1>4, <1>5, <2>3
  <2> QED BY <1>1, <1>8, <2>1, <2>2, <2>4 DEF Agree
<1>15. Locs' = Locs
  BY <1>2 DEF Locs
<1> QED BY <1>12, <1>13, <1>14, <1>15

(* An instruction with no result, after which the live values are in place.*)
LEMMA SilentAgrees ==
  ASSUME RunInv, InCode, M!InBody, M!Current.dst = NoReg, NEW ph \in [Locs -> Words],
         \A v \in LiveAt(blk, idx + 1) : ph[Home(v)] = vreg[v],
         UNCHANGED <<vars, blk, moved, vreg>>, idx' = idx + 1, phys' = ph
  PROVE  Agree'
<1>1. /\ blk # M!Halted /\ blk \in Blocks(fn) /\ idx \in DOMAIN Insns(blk)
      /\ M!Current = Insns(blk)[idx] /\ fn \in Funcs /\ IsIRFunc(fn) /\ NoReg \notin V
      /\ idx \in Nat /\ Len(Insns(blk)) \in Nat
  BY BodyFacts, CodeFacts, FnFacts
<1>2. UNCHANGED <<fn, liveOut, reg, spillSlot, numSpills, blk, moved>>
  BY DEF vars, liveVars, colourVars
<1>3. LiveAt(blk, idx)' = LiveAt(blk, idx + 1) /\ LiveAt(blk, idx + 1) \subseteq V
  BY <1>2 DEF LiveAt
<1>4. Held' = [v \in V |-> phys'[Home(v)]]
  BY <1>2 DEF Held, Home
<1>5. M!BB' = Block(blk) /\ (M!AtTerm' => idx = Len(Insns(blk)))
  BY <1>1, <1>2 DEF M!BB, M!AtTerm, M!Halted
<1>6. Block(blk).cond \in Vals(V) /\ Block(blk).ret \in Vals(V)
  BY <1>1, BlockFacts DEF BasicBlocks
<1>7. ASSUME idx = Len(Insns(blk)) PROVE ~BranchFused(blk)' /\ ~ReturnFused(blk)'
  <2>1. LastInst(blk).dst = NoReg
    BY <1>1, <1>7 DEF LastInst
  <2>2. ~BranchFused(blk) /\ ~ReturnFused(blk)
    BY <1>1, <1>6, <2>1 DEF BranchFused, ReturnFused, IsReg, Vals
  <2> QED BY <1>2, <2>2 DEF BranchFused, ReturnFused, OnlyReader, LastInst
<1>8. ~AtFoldedBranch' /\ ~AtFoldedReturn'
  BY <1>5, <1>7 DEF AtFoldedBranch, AtFoldedReturn
<1> QED BY <1>3, <1>4, <1>8 DEF Agree

-----------------------------------------------------------------------------
(* Each action of the composed system preserves the invariant and is a     *)
(* step of the abstract machine.                                           *)

(* A step that leaves the allocator alone keeps its invariant.             *)
LEMMA AllocUnchanged ==
  ASSUME RunInv, UNCHANGED vars
  PROVE  AllocInv'
BY AllocStep DEF RunInv

(* The types of the program point, the values and the machine state.       *)
LEMMA TypeNext ==
  ASSUME RunInv, InCode, blk # M!Halted, UNCHANGED <<vars, moved>>,
         blk' \in Blocks(fn) \cup {M!Halted}, idx' \in Nat \ {0},
         blk' # M!Halted => idx' =< Len(Insns(blk')) + 1,
         vreg' \in [V -> Words], glob' \in [Gids -> Words], phys' \in [Locs -> Words]
  PROVE  RunTypeOK' /\ PrologueInv' /\ InCode'
<1>1. UNCHANGED <<fn, pc, numSpills>>
  BY DEF vars, colourVars
<1>2. InCode'
  BY <1>1 DEF InCode
<1>3. Locs' = Locs
  BY <1>1 DEF Locs
<1>4. RunTypeOK'
  BY <1>1, <1>2, <1>3, CodeFacts DEF RunInv, RunTypeOK
<1> QED BY <1>2, <1>4 DEF PrologueInv

(* A computation keeps the invariant and is a computation of the IR.       *)
LEMMA ComputeStep == RunInv /\ RunCompute => RunInv' /\ M!Compute
<1> SUFFICES ASSUME RunInv, RunCompute PROVE RunInv' /\ M!Compute
  OBVIOUS
<1> DEFINE in == M!Current
           x == M!Result(in, vreg, glob)
<1>1. /\ InCode /\ M!InBody /\ in.op \notin {"StoreGlobal", "Call"}
      /\ phys' = Deposit(phys, M!Result(in, Held, glob))
      /\ vreg' = [vreg EXCEPT ![in.dst] = x]
      /\ idx' = idx + 1 /\ obs' = M!Silent /\ UNCHANGED <<vars, blk, glob, moved>>
  BY DEF RunCompute
<1>2. /\ blk # M!Halted /\ blk \in Blocks(fn) /\ in = Insns(blk)[idx] /\ in \in Insts(V)
      /\ pc = "done" /\ fn \in Funcs /\ IsIRFunc(fn) /\ idx \in DOMAIN Insns(blk)
      /\ idx \in Nat \ {0} /\ idx' =< Len(Insns(blk)) + 1
      /\ vreg \in [V -> Words] /\ glob \in [Gids -> Words] /\ phys \in [Locs -> Words]
  BY <1>1, BodyFacts, CodeFacts
<1>3. /\ in.dst \in V /\ in.op \in Ops \ {"StoreGlobal", "Call"} /\ in.dst # NoReg
      /\ IsMove(in) => in.a.n \in InstUses(in)
  <2>1. in.dst \in V /\ NoReg \notin V
    BY <1>1, <1>2, InstFacts, FnFacts
  <2>2. in.op \in Ops
    BY <1>2 DEF Insts
  <2>3. IsMove(in) => in.a.n \in InstUses(in)
    BY DEF IsMove, InstUses, OpUses, UnaryOps, OperandRegs
  <2> HIDE DEF in
  <2> QED BY <1>1, <2>1, <2>2, <2>3
<1>4. \A v \in InstUses(in) : v \in V /\ Held[v] = vreg[v]
  BY <1>1, <1>2, BodyFacts
<1>5. M!Result(in, Held, glob) = x
  <2> HIDE DEF in
  <2> QED BY <1>3, <1>4, ResultAgree
<1>6. x \in Words
  <2>1. in.op = "LoadGlobal" => in.gid \in Gids
    BY <1>2, RunGidsAssumption
  <2> HIDE DEF in
  <2> QED BY <1>1, <1>2, <2>1, ResultType
<1>7. \A v \in LiveAt(blk, idx + 1) \ {in.dst} : phys[Home(v)] = vreg[v]
  BY <1>1, <1>2, BodyFacts DEF Held
<1>8. \A v \in InstUses(in) : phys[Home(v)] = vreg[v]
  BY <1>4 DEF Held
<1>9. IsMove(in) => phys[Home(in.a.n)] = x
  <2> SUFFICES ASSUME IsMove(in) PROVE phys[Home(in.a.n)] = x
    OBVIOUS
  <2>1. x = vreg[in.a.n]
    BY DEF IsMove, IsReg, M!IsReg, M!Result, M!Operand, M!EvalUnary, M!UnaryOps, M!BinaryOps
  <2> QED BY <1>3, <1>8, <2>1
<1>10. Agree' /\ phys' \in [Locs -> Words]
  <2> HIDE DEF x
  <2>1. phys' = Deposit(phys, x)
    BY <1>1, <1>5
  <2> QED
    BY <1>1, <1>2, <1>3, <1>6, <1>7, <1>8, <1>9, <2>1, DepositAgrees DEF x
<1>11. vreg' \in [V -> Words]
  <2> HIDE DEF x, in
  <2> QED BY <1>1, <1>2, <1>3, <1>6
<1>12. RunTypeOK' /\ PrologueInv'
  <2>1. blk' \in Blocks(fn) \cup {M!Halted} /\ idx' \in Nat \ {0}
        /\ (blk' # M!Halted => idx' =< Len(Insns(blk')) + 1)
        /\ glob' \in [Gids -> Words] /\ UNCHANGED <<vars, moved>>
    BY <1>1, <1>2
  <2> QED BY <1>1, <1>2, <1>10, <1>11, <2>1, TypeNext
<1>13. AllocInv'
  BY <1>1, AllocUnchanged
<1>14. M!Compute
  BY <1>1 DEF M!Compute, vars
<1> QED BY <1>10, <1>12, <1>13, <1>14 DEF RunInv

(* A store to a global keeps the invariant and is a store of the IR.       *)
LEMMA StoreStep == RunInv /\ RunStore => RunInv' /\ M!StoreGlobal
<1> SUFFICES ASSUME RunInv, RunStore PROVE RunInv' /\ M!StoreGlobal
  OBVIOUS
<1> DEFINE in == M!Current
           x == M!Operand(in.a, Held)
<1>1. /\ InCode /\ M!InBody /\ in.op = "StoreGlobal"
      /\ glob' = [glob EXCEPT ![in.gid] = x] /\ obs' = M!Stored(in.gid, x)
      /\ idx' = idx + 1 /\ UNCHANGED <<vars, blk, vreg, phys, moved>>
  BY DEF RunStore
<1>2. /\ blk # M!Halted /\ blk \in Blocks(fn) /\ in = Insns(blk)[idx] /\ in \in Insts(V)
      /\ fn \in Funcs /\ idx \in DOMAIN Insns(blk)
      /\ idx \in Nat \ {0} /\ idx' =< Len(Insns(blk)) + 1 /\ Len(Insns(blk)) \in Nat
      /\ vreg \in [V -> Words] /\ glob \in [Gids -> Words] /\ phys \in [Locs -> Words]
      /\ Held \in [V -> Words] /\ pc = "done"
  BY <1>1, BodyFacts, CodeFacts
<1>3. x = M!Operand(in.a, vreg)
  <2>1. OperandRegs(in.a) \subseteq InstUses(in)
    BY <1>1 DEF InstUses, OpUses, UnaryOps
  <2>2. \A v \in OperandRegs(in.a) : Held[v] = vreg[v]
    BY <1>1, <1>2, <2>1, BodyFacts
  <2> QED BY <2>2, OperandAgree
<1>4. x \in Words
  BY <1>2, OperandType DEF Insts
<1>5. in.dst # NoReg => in.dst \in V
  BY <1>1, BodyFacts
<1>6. Agree'
  <2>1. in.dst = NoReg
    BY <1>1, <1>2, FnFacts, InstFacts
  <2>2. \A v \in LiveAt(blk, idx + 1) : phys[Home(v)] = vreg[v]
    BY <1>1, <1>2, <2>1, BodyFacts, FnFacts DEF Held, LiveAt
  <2> QED BY <1>1, <1>2, <2>1, <2>2, SilentAgrees
<1>7. glob' \in [Gids -> Words]
  <2> HIDE DEF x
  <2> QED BY <1>1, <1>2, <1>4
<1>8. RunTypeOK' /\ PrologueInv'
  <2>1. Locs' = Locs
    BY <1>1 DEF vars, colourVars, Locs
  <2>2. blk' \in Blocks(fn) \cup {M!Halted} /\ idx' \in Nat \ {0}
        /\ (blk' # M!Halted => idx' =< Len(Insns(blk')) + 1)
        /\ vreg' \in [V -> Words] /\ phys' \in [Locs -> Words]
    BY <1>1, <1>2
  <2> QED BY <1>1, <1>2, <1>7, <2>2, TypeNext
<1>9. AllocInv'
  BY <1>1, AllocUnchanged
<1>10. M!StoreGlobal
  <2> HIDE DEF x
  <2> QED BY <1>1, <1>3 DEF M!StoreGlobal, vars
<1> QED BY <1>6, <1>8, <1>9, <1>10 DEF RunInv

(* A call, which overwrites caller-saved registers, is a call of the IR.   *)
LEMMA CallStep == RunInv /\ RunCall => RunInv' /\ M!CallFunction
<1> SUFFICES ASSUME RunInv, RunCall PROVE RunInv' /\ M!CallFunction
  OBVIOUS
<1> DEFINE in == M!Current
           After(junk) == [l \in Locs |-> IF l \in Clobbered THEN junk[l] ELSE phys[l]]
<1>1. /\ InCode /\ M!InBody /\ in.op = "Call" /\ glob' \in [Gids -> Inputs]
      /\ obs' = M!Called(M!Arguments(in, Held)) /\ idx' = idx + 1
      /\ UNCHANGED <<vars, blk, moved>>
  BY DEF RunCall
<1>2. PICK r \in Inputs, junk \in [Clobbered -> Inputs] :
        IF in.dst = NoReg
        THEN phys' = After(junk) /\ vreg' = vreg
        ELSE /\ phys' = Deposit([After(junk) EXCEPT ![Result0] = r], r)
             /\ vreg' = [vreg EXCEPT ![in.dst] = r]
  BY DEF RunCall
<1>3. /\ blk # M!Halted /\ blk \in Blocks(fn) /\ in = Insns(blk)[idx] /\ in \in Insts(V)
      /\ fn \in Funcs /\ idx \in DOMAIN Insns(blk) /\ in.dst \in V \cup {NoReg}
      /\ idx \in Nat \ {0} /\ idx' =< Len(Insns(blk)) + 1 /\ NoReg \notin V
      /\ vreg \in [V -> Words] /\ glob \in [Gids -> Words] /\ phys \in [Locs -> Words]
      /\ Held \in [V -> Words] /\ pc = "done"
  BY <1>1, BodyFacts, CodeFacts, FnFacts
<1>4. /\ After(junk) \in [Locs -> Words]
      /\ [After(junk) EXCEPT ![Result0] = r] \in [Locs -> Words]
      /\ r \in Words /\ Result0 \in Locs
  <2>1. \A l \in Clobbered : junk[l] \in Words
    BY RunInputsAssumption
  <2>2. After(junk) \in [Locs -> Words]
    BY <1>3, <2>1
  <2>3. r \in Words /\ Result0 \in Locs
    BY RunInputsAssumption DEF Locs, Result0
  <2> HIDE DEF After
  <2> QED BY <2>2, <2>3
<1>5. \A v \in LiveAt(blk, idx + 1) \ {in.dst} :
        /\ After(junk)[Home(v)] = vreg[v]
        /\ [After(junk) EXCEPT ![Result0] = r][Home(v)] = vreg[v]
  <2> SUFFICES ASSUME NEW v \in LiveAt(blk, idx + 1), v # in.dst
               PROVE  /\ After(junk)[Home(v)] = vreg[v]
                      /\ [After(junk) EXCEPT ![Result0] = r][Home(v)] = vreg[v]
    OBVIOUS
  <2>1. v \in V /\ phys[Home(v)] = vreg[v]
    BY <1>1, <1>3, BodyFacts DEF Held
  <2>2. Home(v) \in Locs /\ Home(v) # Result0
    BY <1>3, <2>1, HomesInFrame DEF RunInv
  <2>3. reg[v] \notin PoolRegs(CallerPool)
    BY <1>1, <1>3, SurvivesCallsHolds DEF RunInv, SurvivesCalls
  <2>4. Home(v) \notin Clobbered
    BY <2>2, <2>3 DEF Clobbered, Home, Result0
  <2>5. After(junk)[Home(v)] = vreg[v]
    BY <2>1, <2>2, <2>4
  <2> HIDE DEF After
  <2> QED BY <1>4, <2>2, <2>5
<1>6. Agree' /\ phys' \in [Locs -> Words] /\ vreg' \in [V -> Words]
  <2> HIDE DEF After
  <2>1. CASE in.dst = NoReg
    <3>1. phys' = After(junk) /\ vreg' = vreg
      BY <1>2, <2>1
    <3>2. \A v \in LiveAt(blk, idx + 1) : After(junk)[Home(v)] = vreg[v]
      BY <1>3, <1>5, <2>1 DEF LiveAt
    <3> QED BY <1>1, <1>3, <1>4, <2>1, <3>1, <3>2, SilentAgrees
  <2>2. CASE in.dst # NoReg
    <3> DEFINE ph == [After(junk) EXCEPT ![Result0] = r]
    <3>1. phys' = Deposit(ph, r) /\ vreg' = [vreg EXCEPT ![in.dst] = r]
      BY <1>2, <2>2
    <3>2. ph \in [Locs -> Words] /\ r \in Words
          /\ \A v \in LiveAt(blk, idx + 1) \ {in.dst} : ph[Home(v)] = vreg[v]
      BY <1>4, <1>5
    <3>3. ~IsMove(in) /\ in.op \notin CmpOps
      BY <1>1 DEF IsMove, CmpOps
    <3>4. vreg' \in [V -> Words]
      <4> HIDE DEF in
      <4> QED BY <1>3, <1>4, <3>1
    <3> HIDE DEF ph
    <3> QED BY <1>1, <2>2, <3>1, <3>2, <3>3, <3>4, DepositAgrees
  <2> QED BY <2>1, <2>2
<1>7. glob' \in [Gids -> Words]
  BY <1>1, RunInputsAssumption
<1>8. RunTypeOK' /\ PrologueInv'
  <2>1. blk' \in Blocks(fn) \cup {M!Halted} /\ idx' \in Nat \ {0}
        /\ (blk' # M!Halted => idx' =< Len(Insns(blk')) + 1)
    BY <1>1, <1>3
  <2> QED BY <1>1, <1>3, <1>6, <1>7, <2>1, TypeNext
<1>9. AllocInv'
  BY <1>1, AllocUnchanged
<1>10. M!Arguments(in, Held) = M!Arguments(in, vreg)
  <2>1. \A v \in InstUses(in) : Held[v] = vreg[v]
    BY <1>1, <1>3, BodyFacts
  <2> HIDE DEF in
  <2> QED BY <1>1, <2>1, ArgumentsAgree
<1>11. \E s \in Inputs :
         vreg' = IF in.dst = M!NoReg THEN vreg ELSE [vreg EXCEPT ![in.dst] = s]
  BY <1>2 DEF M!NoReg, NoReg
<1>12. M!CallFunction
  BY <1>1, <1>10, <1>11 DEF M!CallFunction, vars
<1> QED BY <1>6, <1>8, <1>9, <1>12 DEF RunInv

(* What holds when control stands at a terminator.                         *)
LEMMA TermFacts ==
  ASSUME RunInv, InCode, M!AtTerm
  PROVE  /\ blk # M!Halted /\ blk \in Blocks(fn) /\ idx = Len(Insns(blk)) + 1
         /\ idx \in Nat \ {0} /\ M!BB = Block(blk) /\ pc = "done"
         /\ vreg \in [V -> Words] /\ glob \in [Gids -> Words] /\ phys \in [Locs -> Words]
         /\ TermUses(Block(blk)) \subseteq LiveAt(blk, idx)
         /\ ~BranchFused(blk) /\ ~ReturnFused(blk) =>
              \A v \in LiveAt(blk, idx) : Held[v] = vreg[v]
<1>1. blk # M!Halted /\ idx = Len(M!BB.insts) + 1
  BY DEF M!AtTerm
<1>2. M!BB = Block(blk) /\ blk \in Blocks(fn)
  BY <1>1, CodeFacts
<1>3. LiveAt(blk, idx) = liveOut[blk] \cup TermUses(Block(blk))
  BY <1>1, <1>2, LiveAtEnd DEF RunInv, AllocInv
<1>4. ~BranchFused(blk) /\ ~ReturnFused(blk) =>
        \A v \in LiveAt(blk, idx) : Held[v] = vreg[v]
  BY <1>1 DEF RunInv, Agree, AtFoldedBranch, AtFoldedReturn
<1> QED BY <1>1, <1>2, <1>3, <1>4, CodeFacts

(* Control moves to block t, and every vreg live there agrees already.     *)
LEMMA GotoAgrees ==
  ASSUME RunInv, InCode, M!AtTerm, M!BB.term \in {"Jmp", "Br"},
         NEW t \in Succs(M!BB), blk' = t, idx' = 1,
         UNCHANGED <<vars, vreg, glob, phys, moved>>
  PROVE  RunInv'
<1>1. /\ blk # M!Halted /\ blk \in Blocks(fn) /\ idx = Len(Insns(blk)) + 1
      /\ M!BB = Block(blk) /\ pc = "done" /\ fn \in Funcs /\ IsIRFunc(fn)
  BY TermFacts, CodeFacts
<1>2. /\ t \in Blocks(fn) /\ LiveAt(t, 1) \subseteq LiveAt(blk, idx)
      /\ LiveAt(t, 1) \subseteq liveIn[t]
  BY <1>1, SuccessorLive DEF RunInv
<1>3. \A v \in LiveAt(t, 1) : Held[v] = vreg[v]
  <2> SUFFICES ASSUME NEW v \in LiveAt(t, 1) PROVE Held[v] = vreg[v]
    OBVIOUS
  <2>1. ~ReturnFused(blk)
    BY <1>1 DEF ReturnFused
  <2>2. CASE BranchFused(blk)
    <3>1. Block(blk).cond.n \in TermUses(Block(blk))
      BY <2>2 DEF BranchFused, TermUses, OperandRegs
    <3>2. Block(blk).cond.n \in V
      BY <1>1, <3>1, BlockFacts
    <3>3. Block(blk).cond.n \notin liveIn[t]
      BY <1>1, <1>2, <2>2, <3>2, FoldedNotLive DEF BranchFused, RunInv
    <3> QED
      BY <1>1, <1>2, <2>1, <3>3 DEF RunInv, Agree, AtFoldedBranch, AtFoldedReturn
  <2>3. CASE ~BranchFused(blk)
    BY <1>2, <2>1, <2>3, TermFacts
  <2> QED BY <2>2, <2>3
<1>4. UNCHANGED <<fn, pc, liveOut, reg, spillSlot, numSpills>> /\ Held' = Held
  BY DEF vars, liveVars, colourVars, Held, Home
<1>5. LiveAt(blk, idx)' = LiveAt(t, 1)
  BY <1>4 DEF LiveAt
<1>6. Len(Insns(t)) \in Nat /\ t \in Int /\ t # -1
  <2>1. Len(Insns(t)) \in Nat
    BY <1>1, <1>2, BlockFacts
  <2>2. fn.nb \in Nat
    BY <1>1, FnFacts
  <2> QED BY <1>2, <2>1, <2>2 DEF Blocks
<1>7. M!AtTerm' => Insns(t) = << >>
  BY <1>1, <1>2, <1>4, <1>6, BlockFacts DEF M!AtTerm, M!BB
<1>8. Agree'
  <2>1. ~AtFoldedBranch' /\ ~AtFoldedReturn'
    BY <1>4, <1>7 DEF AtFoldedBranch, AtFoldedReturn, BranchFused, ReturnFused
  <2> QED BY <1>3, <1>4, <1>5, <2>1 DEF Agree
<1>9. RunTypeOK' /\ PrologueInv'
  <2>1. /\ blk' \in Blocks(fn) \cup {M!Halted} /\ idx' \in Nat \ {0}
        /\ blk' # M!Halted => idx' =< Len(Insns(blk')) + 1
        /\ vreg' \in [V -> Words] /\ glob' \in [Gids -> Words] /\ phys' \in [Locs -> Words]
    BY <1>2, <1>6, TermFacts
  <2> QED BY <1>1, <2>1, TypeNext
<1>10. AllocInv'
  BY AllocUnchanged
<1> QED BY <1>8, <1>9, <1>10 DEF RunInv

(* A jump keeps the invariant and is a jump of the IR.                     *)
LEMMA JumpStep == RunInv /\ RunJump => RunInv' /\ M!TakeJump
<1> SUFFICES ASSUME RunInv, RunJump PROVE RunInv' /\ M!TakeJump
  OBVIOUS
<1>1. /\ InCode /\ M!AtTerm /\ M!BB.term = "Jmp" /\ blk' = M!BB.succ0 /\ idx' = 1
      /\ obs' = M!Silent /\ UNCHANGED <<vars, vreg, glob, phys, moved>>
  BY DEF RunJump, M!Goto
<1>2. M!BB.succ0 \in Succs(M!BB)
  BY <1>1 DEF Succs
<1>3. RunInv'
  BY <1>1, <1>2, GotoAgrees
<1>4. M!TakeJump
  BY <1>1 DEF M!TakeJump, M!Goto, vars
<1> QED BY <1>3, <1>4

(* A branch, fused with its comparison or not, is a branch of the IR.      *)
LEMMA BranchStep == RunInv /\ RunBranch => RunInv' /\ M!TakeBranch
<1> SUFFICES ASSUME RunInv, RunBranch PROVE RunInv' /\ M!TakeBranch
  OBVIOUS
<1>1. /\ InCode /\ M!AtTerm /\ M!BB.term = "Br" /\ idx' = 1
      /\ blk' = IF BranchValue # 0 THEN M!BB.succ0 ELSE M!BB.succ1
      /\ obs' = M!Silent /\ UNCHANGED <<vars, vreg, glob, phys, moved>>
  BY DEF RunBranch, M!Goto
<1>2. blk' \in Succs(M!BB)
  BY <1>1 DEF Succs
<1>3. RunInv'
  <2>1. PICK t \in Succs(M!BB) : blk' = t
    BY <1>2
  <2> QED BY <1>1, <2>1, GotoAgrees
<1>4. M!BB = Block(blk) /\ blk # M!Halted /\ blk \in Blocks(fn)
  BY <1>1, TermFacts
<1>5. BranchValue = M!Operand(M!BB.cond, vreg)
  <2>1. CASE BranchFused(blk)
    <3>1. AtFoldedBranch
      BY <1>1, <2>1 DEF AtFoldedBranch
    <3>2. /\ \A v \in InstUses(LastInst(blk)) : Held[v] = vreg[v]
          /\ vreg[M!BB.cond.n] = M!Result(LastInst(blk), vreg, glob)
      BY <1>1, <1>4, <3>1 DEF RunInv, Agree
    <3>3. LastInst(blk).op \in Ops \ {"StoreGlobal", "Call"}
      BY <2>1 DEF BranchFused, CmpOps, Ops, BinaryOps
    <3>4. M!Result(LastInst(blk), Held, glob) = M!Result(LastInst(blk), vreg, glob)
      BY <3>2, <3>3, ResultAgree
    <3>5. M!Operand(M!BB.cond, vreg) = vreg[M!BB.cond.n]
      BY <1>4, <2>1 DEF BranchFused, M!Operand, M!IsReg, IsReg
    <3> QED BY <2>1, <3>2, <3>4, <3>5 DEF BranchValue
  <2>2. CASE ~BranchFused(blk)
    <3>1. ~ReturnFused(blk)
      BY <1>1, <1>4 DEF ReturnFused
    <3>2. OperandRegs(M!BB.cond) \subseteq LiveAt(blk, idx)
      BY <1>1, <1>4, TermFacts DEF TermUses
    <3>3. \A v \in OperandRegs(M!BB.cond) : Held[v] = vreg[v]
      BY <1>1, <2>2, <3>1, <3>2, TermFacts
    <3> QED BY <2>2, <3>3, OperandAgree DEF BranchValue
  <2> QED BY <2>1, <2>2
<1>6. M!TakeBranch
  BY <1>1, <1>5 DEF M!TakeBranch, M!Goto, vars
<1> QED BY <1>3, <1>6

(* A return, its value computed into a0 or not, is a return of the IR.     *)
LEMMA ReturnStep == RunInv /\ RunReturn => RunInv' /\ M!ReturnToCaller
<1> SUFFICES ASSUME RunInv, RunReturn PROVE RunInv' /\ M!ReturnToCaller
  OBVIOUS
<1>1. /\ InCode /\ M!AtTerm /\ M!BB.term \in {"Ret", "None"} /\ blk' = M!Halted
      /\ obs' = IF M!BB.term = "Ret" /\ M!BB.hasVal
                THEN M!Returned(ReturnValue) ELSE M!ReturnedVoid
      /\ UNCHANGED <<vars, idx, vreg, glob, phys, moved>>
  BY DEF RunReturn
<1>2. M!BB = Block(blk) /\ blk # M!Halted /\ blk \in Blocks(fn) /\ pc = "done"
  BY <1>1, TermFacts
<1>3. ASSUME M!BB.term = "Ret", M!BB.hasVal
      PROVE  ReturnValue = M!Operand(M!BB.ret, vreg)
  <2>1. ~BranchFused(blk)
    BY <1>2, <1>3 DEF BranchFused
  <2>2. CASE ReturnFused(blk)
    <3>1. AtFoldedReturn
      BY <1>1, <2>2 DEF AtFoldedReturn
    <3>2. phys[Result0] = vreg[M!BB.ret.n]
      BY <1>1, <1>2, <3>1 DEF RunInv, Agree
    <3>3. M!Operand(M!BB.ret, vreg) = vreg[M!BB.ret.n]
      BY <1>2, <2>2 DEF ReturnFused, M!Operand, M!IsReg, IsReg
    <3> QED BY <2>2, <3>2, <3>3 DEF ReturnValue
  <2>3. CASE ~ReturnFused(blk)
    <3>1. OperandRegs(M!BB.ret) \subseteq LiveAt(blk, idx)
      BY <1>1, <1>2, <1>3, TermFacts DEF TermUses
    <3>2. \A v \in OperandRegs(M!BB.ret) : Held[v] = vreg[v]
      BY <1>1, <2>1, <2>3, <3>1, TermFacts
    <3> QED BY <2>3, <3>2, OperandAgree DEF ReturnValue
  <2> QED BY <2>2, <2>3
<1>4. RunTypeOK' /\ PrologueInv'
  <2>1. /\ blk' \in Blocks(fn) \cup {M!Halted} /\ idx' \in Nat \ {0} /\ blk' = M!Halted
        /\ vreg' \in [V -> Words] /\ glob' \in [Gids -> Words] /\ phys' \in [Locs -> Words]
        /\ UNCHANGED <<vars, moved>>
    BY <1>1, TermFacts
  <2> QED BY <1>1, <1>2, <2>1, TypeNext
<1>5. AllocInv'
  BY <1>1, AllocUnchanged
<1>6. Agree'
  BY <1>1 DEF Agree, M!Halted
<1>7. M!ReturnToCaller
  BY <1>1, <1>3 DEF M!ReturnToCaller, vars
<1> QED BY <1>4, <1>5, <1>6, <1>7 DEF RunInv

-----------------------------------------------------------------------------
(* The steps before the code runs: allocation and the prologue.            *)

(* The invariant holds at the start, which is a start of the IR machine.   *)
LEMMA RunInitial == RunInit => RunInv /\ M!MachineInit
<1> SUFFICES ASSUME RunInit PROVE RunInv /\ M!MachineInit
  OBVIOUS
<1>1. AllocInv
  BY TypeInit, LivenessInit, GraphInit, ColourInit DEF RunInit, AllocInv
<1>2. pc = "liveness" /\ moved = -1 /\ M!MachineInit
  BY DEF RunInit, Init, Start
<1>3. fn \in Funcs /\ 0 \in Blocks(fn) /\ IsIRFunc(fn) /\ Len(fn.params) \in Nat
  BY <1>1, FnFacts DEF AllocInv, TypeInv, TypeOK
<1>4. Len(Insns(0)) \in Nat
  BY <1>3, BlockFacts
<1>5. /\ blk = 0 /\ idx = 1 /\ vreg \in [Vregs(fn) -> Inputs] /\ glob \in [Gids -> Inputs]
  BY <1>2, <1>3 DEF M!MachineInit, M!Vregs, Vregs
<1>6. vreg \in [V -> Words] /\ glob \in [Gids -> Words]
  BY <1>5, RunInputsAssumption
<1>7. ~InCode
  BY <1>2, <1>3 DEF InCode
<1>8. RunTypeOK
  BY <1>2, <1>3, <1>4, <1>5, <1>6 DEF RunTypeOK
<1>9. PrologueInv /\ Agree
  BY <1>2, <1>7 DEF PrologueInv, Agree
<1> QED BY <1>1, <1>2, <1>8, <1>9 DEF RunInv

(* With every parameter at home and nothing else live, the code may start. *)
ParamsHome ==
  /\ pc = "done" /\ blk = 0 /\ idx = 1
  /\ \A j \in 1 .. Len(fn.params) : phys[Home(fn.params[j])] = vreg[fn.params[j]]

(* When the prologue is done, every live vreg is in its home.              *)
LEMMA CodeStarts == AllocInv /\ ParamsHome => Agree
<1> SUFFICES ASSUME AllocInv, ParamsHome PROVE Agree
  OBVIOUS
<1> USE DEF ParamsHome
<1>1. \A v \in LiveAt(0, 1) : v \in V /\ Held[v] = vreg[v]
  <2> SUFFICES ASSUME NEW v \in LiveAt(0, 1) PROVE v \in V /\ Held[v] = vreg[v]
    OBVIOUS
  <2>1. fn \in Funcs /\ fn.params \in Seq(V)
    BY FnFacts DEF AllocInv, TypeInv, TypeOK
  <2>2. v \in ParamRegs
    BY EntryLive
  <2>3. PICK j \in 1 .. Len(fn.params) : v = fn.params[j]
    BY <2>1, <2>2 DEF ParamRegs, PoolRegs
  <2>4. v \in V
    BY DEF LiveAt
  <2> QED BY <2>3, <2>4 DEF Held
<1>2. 0 \in Blocks(fn) /\ IsIRFunc(fn)
  BY FnFacts DEF AllocInv, TypeInv, TypeOK
<1>3. M!AtTerm => Insns(0) = << >>
  BY <1>2, BlockFacts DEF M!AtTerm, M!BB
<1>4. ~AtFoldedBranch /\ ~AtFoldedReturn
  BY <1>3 DEF AtFoldedBranch, AtFoldedReturn, BranchFused, ReturnFused
<1> QED BY <1>1, <1>4 DEF Agree

(* Entering the frame keeps the invariant; the IR machine stutters.        *)
LEMMA EnterStep == RunInv /\ EnterFrame => RunInv' /\ UNCHANGED M!machineVars
<1> SUFFICES ASSUME RunInv, EnterFrame PROVE RunInv' /\ UNCHANGED M!machineVars
  OBVIOUS
<1>1. /\ pc = "done" /\ moved = -1 /\ moved' = 0 /\ phys' \in [Locs -> Inputs]
      /\ UNCHANGED <<vars, blk, idx, vreg, glob, obs>>
  BY DEF EnterFrame
<1>2. fn \in Funcs /\ fn.params \in Seq(V) /\ Len(fn.params) \in Nat
  BY FnFacts DEF RunInv, AllocInv, TypeInv, TypeOK
<1>3. UNCHANGED <<fn, pc, numSpills>> /\ Locs' = Locs
  BY <1>1 DEF vars, colourVars, Locs
<1>4. ~InCode /\ blk = 0 /\ idx = 1
  BY <1>1, <1>2 DEF InCode, RunInv, RunTypeOK
<1>5. phys' \in [Locs -> Words]
  BY <1>1, RunInputsAssumption
<1>6. RunTypeOK'
  BY <1>1, <1>2, <1>3, <1>4, <1>5 DEF RunInv, RunTypeOK
<1>7. AllocInv'
  BY <1>1, AllocUnchanged DEF RunInv
<1>8. PrologueInv'
  BY <1>1 DEF PrologueInv
<1>9. Agree'
  <2> SUFFICES ASSUME InCode' PROVE Agree'
    BY DEF Agree
  <2>1. Len(fn'.params) = 0
    BY <1>1 DEF InCode
  <2>2. ParamsHome'
    BY <1>1, <1>3, <1>4, <2>1 DEF ParamsHome
  <2>3. AllocInv' /\ ParamsHome' => Agree'
    BY CodeStarts, PTL
  <2> QED BY <1>7, <2>2, <2>3
<1> QED BY <1>1, <1>3, <1>6, <1>7, <1>8, <1>9 DEF RunInv, M!machineVars

(* Moving one parameter keeps the invariant; the IR machine stutters.      *)
LEMMA MoveStep == RunInv /\ MoveParam => RunInv' /\ UNCHANGED M!machineVars
<1> SUFFICES ASSUME RunInv, MoveParam PROVE RunInv' /\ UNCHANGED M!machineVars
  OBVIOUS
<1> DEFINE p == fn.params[moved + 1]
<1>1. /\ moved \in 0 .. Len(fn.params) - 1 /\ moved' = moved + 1
      /\ phys' = [phys EXCEPT ![Home(p)] = vreg[p]]
      /\ UNCHANGED <<vars, blk, idx, vreg, glob, obs>>
  BY DEF MoveParam
<1>2. fn \in Funcs /\ fn.params \in Seq(V) /\ Len(fn.params) \in Nat /\ IsIRFunc(fn)
  BY FnFacts DEF RunInv, AllocInv, TypeInv, TypeOK
<1>3. UNCHANGED <<fn, pc, numSpills>> /\ Locs' = Locs
  BY <1>1 DEF vars, colourVars, Locs
<1>4. /\ ~InCode /\ blk = 0 /\ idx = 1 /\ pc = "done"
      /\ phys \in [Locs -> Words] /\ vreg \in [V -> Words]
  BY <1>1, <1>2 DEF InCode, RunInv, RunTypeOK
<1>5. p \in V /\ p \in ParamRegs /\ moved + 1 \in 1 .. Len(fn.params)
  BY <1>1, <1>2 DEF ParamRegs, PoolRegs
<1>6. phys' \in [Locs -> Words]
  BY <1>1, <1>4, <1>5, HomesInFrame DEF RunInv
<1>7. RunTypeOK'
  BY <1>1, <1>2, <1>3, <1>4, <1>6 DEF RunInv, RunTypeOK
<1>8. AllocInv'
  BY <1>1, AllocUnchanged DEF RunInv
<1>9. \A j \in 1 .. moved + 1 : phys'[Home(fn.params[j])'] = vreg'[fn.params[j]]
  <2> SUFFICES ASSUME NEW j \in 1 .. moved + 1
               PROVE  phys'[Home(fn.params[j])] = vreg[fn.params[j]]
    BY <1>1, <1>3 DEF Home, vars, colourVars
  <2> DEFINE q == fn.params[j]
  <2>1. j \in 1 .. Len(fn.params) /\ q \in V /\ q \in ParamRegs
    BY <1>1, <1>2 DEF ParamRegs, PoolRegs
  <2>2. CASE j = moved + 1
    BY <1>1, <1>4, <1>5, <2>2, HomesInFrame DEF RunInv
  <2>3. CASE j # moved + 1
    <3>1. q # p
      BY <1>2, <1>5, <2>1, <2>3 DEF IsIRFunc
    <3>2. Home(q) # Home(p)
      BY <1>4, <1>5, <2>1, <3>1, ParamsApartHolds DEF RunInv, ParamsApart
    <3>3. phys[Home(q)] = vreg[q]
      BY <1>1, <1>4, <2>3 DEF RunInv, PrologueInv
    <3>4. Home(q) \in Locs
      BY <1>4, <2>1, HomesInFrame DEF RunInv
    <3> HIDE DEF p, q
    <3> QED BY <1>1, <1>4, <3>2, <3>3, <3>4 DEF q
  <2> QED BY <2>2, <2>3
<1>10. PrologueInv'
  BY <1>1, <1>3, <1>9 DEF PrologueInv
<1>11. Agree'
  <2> SUFFICES ASSUME InCode' PROVE Agree'
    BY DEF Agree
  <2>1. moved + 1 = Len(fn'.params)
    BY <1>1 DEF InCode
  <2>2. ParamsHome'
    BY <1>1, <1>3, <1>4, <1>9, <2>1 DEF ParamsHome
  <2>3. AllocInv' /\ ParamsHome' => Agree'
    BY CodeStarts, PTL
  <2> QED BY <1>8, <2>2, <2>3
<1> QED BY <1>1, <1>3, <1>7, <1>8, <1>10, <1>11 DEF RunInv, M!machineVars

(* The allocator takes no step once it has returned.                       *)
LEMMA DoneStops ==
  ASSUME AllocInv, pc = "done", Next
  PROVE  FALSE
BY DEF Next, SweepBlock, SweepAgain, SweepsEnd, BlockStart, ScanInst, BlockEnd, GraphEnd,
       LinkParams, ColourLikePartner, ColourByPreference, Spill, Finish

(* A step of the allocator keeps the invariant; the IR machine stutters.   *)
LEMMA AllocatorStep ==
  ASSUME RunInv, Next, UNCHANGED <<blk, idx, vreg, glob, obs, phys, moved>>
  PROVE  RunInv' /\ UNCHANGED M!machineVars
<1>1. pc # "done" /\ moved = -1
  <2>1. fn \in Funcs /\ Len(fn.params) \in Nat
    BY FnFacts DEF RunInv, AllocInv, TypeInv, TypeOK
  <2> QED BY <2>1, DoneStops DEF RunInv, RunTypeOK
<1>2. AllocInv'
  BY AllocStep DEF RunInv
<1>3. fn' = fn
  BY DEF Next, SweepBlock, SweepAgain, SweepsEnd, BlockStart, ScanInst, BlockEnd, GraphEnd,
         LinkParams, ColourLikePartner, ColourByPreference, Give, Spill, Finish
<1>4. fn \in Funcs /\ Len(fn.params) \in Nat
  BY FnFacts DEF RunInv, AllocInv, TypeInv, TypeOK
<1>5. ~InCode' /\ moved' = -1
  BY <1>1, <1>3, <1>4 DEF InCode
<1>6. RunTypeOK'
  BY <1>1, <1>3, <1>4, <1>5 DEF RunInv, RunTypeOK, InCode
<1>7. PrologueInv' /\ Agree'
  BY <1>5 DEF PrologueInv, Agree
<1> QED BY <1>2, <1>3, <1>6, <1>7 DEF RunInv, M!machineVars

-----------------------------------------------------------------------------
(* Every step keeps the invariant and is a step of the abstract machine or *)
(* leaves it where it is.                                                  *)
LEMMA RunStep ==
  RunInv /\ [RunNext]_runVars => RunInv' /\ [M!MachineNext]_(M!machineVars)
<1> SUFFICES ASSUME RunInv, [RunNext]_runVars
             PROVE  RunInv' /\ [M!MachineNext]_(M!machineVars)
  OBVIOUS
<1>1. CASE Next /\ UNCHANGED <<blk, idx, vreg, glob, obs, phys, moved>>
  BY <1>1, AllocatorStep
<1>2. CASE EnterFrame
  BY <1>2, EnterStep
<1>3. CASE MoveParam
  BY <1>3, MoveStep
<1>4. CASE RunCompute
  BY <1>4, ComputeStep DEF M!MachineNext
<1>5. CASE RunStore
  BY <1>5, StoreStep DEF M!MachineNext
<1>6. CASE RunCall
  BY <1>6, CallStep DEF M!MachineNext
<1>7. CASE RunJump
  BY <1>7, JumpStep DEF M!MachineNext
<1>8. CASE RunBranch
  BY <1>8, BranchStep DEF M!MachineNext
<1>9. CASE RunReturn
  BY <1>9, ReturnStep DEF M!MachineNext
<1>10. CASE UNCHANGED runVars
  <2>1. UNCHANGED <<vars, blk, idx, vreg, glob, obs, phys, moved>>
    BY <1>10 DEF runVars
  <2>2. UNCHANGED <<fn, pc, liveOut, reg, spillSlot, numSpills>>
    BY <2>1 DEF vars, liveVars, colourVars
  <2>3. AllocInv'
    BY <2>1, AllocUnchanged
  <2>4. RunTypeOK' /\ PrologueInv'
    BY <2>1, <2>2 DEF RunInv, RunTypeOK, PrologueInv, InCode, Locs, Home
  <2>5. /\ InCode' = InCode /\ M!AtTerm' = M!AtTerm /\ M!BB' = M!BB
        /\ BranchFused(blk)' = BranchFused(blk) /\ ReturnFused(blk)' = ReturnFused(blk)
        /\ LastInst(blk)' = LastInst(blk) /\ LiveAt(blk, idx)' = LiveAt(blk, idx)
        /\ Held' = Held
    BY <2>1, <2>2 DEF InCode, M!AtTerm, M!BB, BranchFused, ReturnFused, OnlyReader,
                      LastInst, LiveAt, Held, Home
  <2>6. Agree'
    BY <2>1, <2>5 DEF RunInv, Agree, AtFoldedBranch, AtFoldedReturn
  <2> QED BY <2>1, <2>2, <2>3, <2>4, <2>6 DEF RunInv, M!machineVars
<1> QED BY <1>1, <1>2, <1>3, <1>4, <1>5, <1>6, <1>7, <1>8, <1>9, <1>10 DEF RunNext

(* The invariant of the composed system: the allocator's own, the types,   *)
(* the parameters moved so far and the agreement of homes and vregs.       *)
THEOREM RunInvariant == RunSpec => []RunInv
<1>1. RunInit => RunInv
  BY RunInitial
<1>2. RunInv /\ [RunNext]_runVars => RunInv'
  BY RunStep
<1> QED BY <1>1, <1>2, PTL DEF RunSpec

(* The registers and slots hold the abstract machine's value of every vreg *)
(* that will still be read, whatever the function, pools and environment.  *)
THEOREM AgreeCorrect == RunSpec => []Agree
<1>1. RunInv => Agree
  BY DEF RunInv
<1> QED BY <1>1, RunInvariant, PTL

(* The program point, the values and the machine keep their types.         *)
THEOREM RunTypeCorrect == RunSpec => []RunTypeOK
<1>1. RunInv => RunTypeOK
  BY DEF RunInv
<1> QED BY <1>1, RunInvariant, PTL

(* The allocated and emitted code takes the branches, makes the calls,     *)
(* does the stores and returns the values of the intermediate code.        *)
THEOREM Refinement == RunSpec => ImplementsIR
<1>1. RunInit => M!MachineInit
  BY RunInitial
<1>2. RunInv /\ [RunNext]_runVars => [M!MachineNext]_(M!machineVars)
  BY RunStep
<1> QED BY <1>1, <1>2, RunInvariant, PTL DEF RunSpec, ImplementsIR, M!MachineSpec
=============================================================================
