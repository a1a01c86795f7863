------------------------------ MODULE RegAlloc ------------------------------
(***************************************************************************)
(* allocateRegisters of opt/RegAlloc.cpp, one action per loop body:        *)
(*                                                                         *)
(*   "liveness"  backward sweeps over the blocks until nothing changes     *)
(*   "block"     about to scan block b for interference                    *)
(*   "scan"      at instruction i of block b, `live` holding after it      *)
(*   "params"    about to add the interference of the parameters           *)
(*   "colour"    handing out registers, highest degree first               *)
(*   "done"      the Allocation is returned                                *)
(*                                                                         *)
(* The comparator of std::sort orders vregs by degree alone, so vregs of   *)
(* equal degree are coloured in any order.                                 *)
(***************************************************************************)
EXTENDS IR, FiniteSets

CONSTANTS Funcs,         \* the functions to allocate for
          CallerPool,    \* callerSavedPool(), in order of preference
          CalleePool     \* calleeSavedPool(), in order of preference

PoolRegs(s) == {s[k] : k \in DOMAIN s}

ASSUME FuncsAssumption == \A f \in Funcs : IsIRFunc(f)
ASSUME PoolsAssumption ==
  /\ CallerPool \in Seq(Nat) /\ CalleePool \in Seq(Nat)
  /\ PoolRegs(CallerPool) \cap PoolRegs(CalleePool) = {}
  /\ \A s \in {CallerPool, CalleePool} : \A j, k \in DOMAIN s : s[j] = s[k] => j = k

VARIABLES fn, pc, b, i, changed, liveIn, liveOut, live, adj, callCross,
          movePartner, isLeaf, todo, reg, spillSlot, numSpills, usedCallee

liveVars   == <<changed, liveIn, liveOut>>
graphVars  == <<i, live, adj, callCross, movePartner, isLeaf>>
colourVars == <<todo, reg, spillSlot, numSpills>>
vars == <<fn, pc, b, liveVars, graphVars, colourVars, usedCallee>>

V == Vregs(fn)
Block(k) == fn.blocks[k]
Insns(k) == fn.blocks[k].insts
Bodies == PoolRegs(CallerPool) \cup PoolRegs(CalleePool)

-----------------------------------------------------------------------------
(* Liveness: what a block reads before writing it, and what it writes.     *)

UseB_IgnoringDefs(k) ==                 \* mutant: `defined` is never consulted
  {v \in V : \/ v \in TermUses(Block(k))
             \/ \E m \in DOMAIN Insns(k) : v \in InstUses(Insns(k)[m])}

UseB(k) == {v \in V : ReadsFirst(Block(k), v)}
DefB(k) == {v \in V : Writes(Block(k), v)}

LiveOutOf(k) == UNION {liveIn[s] : s \in Succs(Block(k))}
LiveInOf(k)  == UseB(k) \cup (LiveOutOf(k) \ DefB(k))

SweepBlock ==
  /\ pc = "liveness" /\ b >= 0
  /\ liveOut' = [liveOut EXCEPT ![b] = LiveOutOf(b)]
  /\ liveIn'  = [liveIn EXCEPT ![b] = LiveInOf(b)]
  /\ changed' = (changed \/ LiveOutOf(b) # liveOut[b] \/ LiveInOf(b) # liveIn[b])
  /\ b' = b - 1
  /\ UNCHANGED <<fn, pc, graphVars, colourVars, usedCallee>>

SweepAgain_FlagKept ==                  \* mutant: changed is not reset
  /\ pc = "liveness" /\ b < 0 /\ changed
  /\ b' = fn.nb - 1
  /\ UNCHANGED <<fn, pc, liveVars, graphVars, colourVars, usedCallee>>

SweepAgain ==
  /\ pc = "liveness" /\ b < 0 /\ changed
  /\ b' = fn.nb - 1
  /\ changed' = FALSE
  /\ UNCHANGED <<fn, pc, liveIn, liveOut, graphVars, colourVars, usedCallee>>

SweepsEnd ==
  /\ pc = "liveness" /\ b < 0 /\ ~changed
  /\ pc' = "block"
  /\ b' = 0
  /\ UNCHANGED <<fn, liveVars, graphVars, colourVars, usedCallee>>

-----------------------------------------------------------------------------
(* The interference graph, the call-crossing set and the move pairs.       *)

BlockStart ==
  /\ pc = "block" /\ b < fn.nb
  /\ live' = liveOut[b] \cup TermUses(Block(b))
  /\ i' = Len(Insns(b))
  /\ pc' = "scan"
  /\ UNCHANGED <<fn, b, liveVars, adj, callCross, movePartner, isLeaf,
                 colourVars, usedCallee>>

(* The vregs a definition must not share a register with; a move may share *)
(* with its source.                                                        *)
Foes_LiveOnly(in, after) ==             \* mutant: a dead result conflicts with nothing
  IF in.dst \notin after THEN {}
  ELSE after \ ({in.dst} \cup (IF IsMove(in) THEN {in.a.n} ELSE {}))

Foes_NoResultToo(in, after) ==          \* mutant: `d >= 0` is not tested
  after \ ({in.dst} \cup (IF IsMove(in) THEN {in.a.n} ELSE {}))

Foes(in, after) ==
  IF in.dst = NoReg THEN {}
  ELSE after \ ({in.dst} \cup (IF IsMove(in) THEN {in.a.n} ELSE {}))

(* addInterf(d, v) for every v in vs: the edges go in both ways.           *)
Linked(d, vs) ==
  [v \in V |-> adj[v] \cup (IF v = d THEN vs ELSE {})
                      \cup (IF v \in vs THEN {d} ELSE {})]

Crossing_Uses(in, after) ==             \* mutant: only what the call reads crosses it
  IF in.op = "Call" THEN InstUses(in) \ {in.dst} ELSE {}

Crossing(in, after) == IF in.op = "Call" THEN after \ {in.dst} ELSE {}

Paired(in) ==
  IF IsMove(in)
  THEN [[movePartner EXCEPT ![in.dst] = Append(@, in.a.n)]
                     EXCEPT ![in.a.n] = Append(@, in.dst)]
  ELSE movePartner

ScanInst ==
  /\ pc = "scan" /\ i > 0
  /\ LET in == Insns(b)[i]
     IN  /\ adj' = Linked(in.dst, Foes(in, live))
         /\ callCross' = callCross \cup Crossing(in, live)
         /\ isLeaf' = (isLeaf /\ in.op # "Call")
         /\ movePartner' = Paired(in)
         /\ live' = (live \ {in.dst}) \cup InstUses(in)
  /\ i' = i - 1
  /\ UNCHANGED <<fn, pc, b, liveVars, colourVars, usedCallee>>

BlockEnd ==
  /\ pc = "scan" /\ i = 0
  /\ pc' = "block"
  /\ b' = b + 1
  /\ UNCHANGED <<fn, liveVars, graphVars, colourVars, usedCallee>>

GraphEnd ==
  /\ pc = "block" /\ b = fn.nb
  /\ pc' = "params"
  /\ UNCHANGED <<fn, b, liveVars, graphVars, colourVars, usedCallee>>

(* Parameters are all defined at entry: they conflict with one another and *)
(* with everything live into block 0.                                      *)
ParamRegs == PoolRegs(fn.params)

EntryFoes_LiveOnly(v) ==                \* mutant: a parameter nobody reads is ignored
  {w \in liveIn[0] \ {v} : v \in ParamRegs \cap liveIn[0] \/ w \in ParamRegs}

EntryFoes(v) ==
  {w \in V \ {v} : \/ v \in ParamRegs /\ w \in ParamRegs \cup liveIn[0]
                   \/ w \in ParamRegs /\ v \in ParamRegs \cup liveIn[0]}

LinkParams ==
  /\ pc = "params"
  /\ adj' = [v \in V |-> adj[v] \cup EntryFoes(v)]
  /\ pc' = "colour"
  /\ UNCHANGED <<fn, b, i, live, callCross, movePartner, isLeaf, liveVars,
                 colourVars, usedCallee>>

-----------------------------------------------------------------------------
(* Greedy colouring with move bias.                                        *)

Degree(v) == Cardinality(adj[v])
IsNext(v) == \A w \in todo : Degree(w) =< Degree(v)

Allowed(v) == IF v \in callCross THEN CalleePool ELSE CallerPool \o CalleePool

Free(v) == PoolRegs(Allowed(v)) \ {reg[w] : w \in adj[v]}

(* k is the first position of s that holds a member of S.                  *)
FirstIn(s, k, S) ==
  /\ k \in DOMAIN s /\ s[k] \in S
  /\ \A j \in DOMAIN s : j < k => s[j] \notin S

PartnerRegs(v) == [k \in DOMAIN movePartner[v] |-> reg[movePartner[v][k]]]

Give(v, r) ==
  /\ reg' = [reg EXCEPT ![v] = r]
  /\ todo' = todo \ {v}
  /\ UNCHANGED <<fn, pc, b, liveVars, graphVars, spillSlot, numSpills, usedCallee>>

ColourLikePartner(v) ==
  /\ pc = "colour" /\ IsNext(v)
  /\ \E k \in DOMAIN movePartner[v] :
       /\ FirstIn(PartnerRegs(v), k, Free(v))
       /\ Give(v, PartnerRegs(v)[k])

ColourByPreference(v) ==
  /\ pc = "colour" /\ IsNext(v)
  /\ \A k \in DOMAIN movePartner[v] : PartnerRegs(v)[k] \notin Free(v)
  /\ \E k \in DOMAIN Allowed(v) :
       /\ FirstIn(Allowed(v), k, Free(v))
       /\ Give(v, Allowed(v)[k])

Spill_SlotReused(v) ==                  \* mutant: numSpills is not incremented
  /\ pc = "colour" /\ IsNext(v)
  /\ Free(v) = {}
  /\ spillSlot' = [spillSlot EXCEPT ![v] = numSpills]
  /\ todo' = todo \ {v}
  /\ UNCHANGED <<fn, pc, b, liveVars, graphVars, reg, numSpills, usedCallee>>

Spill(v) ==
  /\ pc = "colour" /\ IsNext(v)
  /\ Free(v) = {}
  /\ spillSlot' = [spillSlot EXCEPT ![v] = numSpills]
  /\ numSpills' = numSpills + 1
  /\ todo' = todo \ {v}
  /\ UNCHANGED <<fn, pc, b, liveVars, graphVars, reg, usedCallee>>

Finish ==
  /\ pc = "colour" /\ todo = {}
  /\ usedCallee' = {reg[v] : v \in V} \cap PoolRegs(CalleePool)
  /\ pc' = "done"
  /\ UNCHANGED <<fn, b, liveVars, graphVars, colourVars>>

-----------------------------------------------------------------------------
Start(f) ==
  /\ fn = f
  /\ pc = "liveness" /\ b = f.nb - 1 /\ i = 0
  /\ changed = FALSE
  /\ liveIn = [k \in Blocks(f) |-> {}]
  /\ liveOut = [k \in Blocks(f) |-> {}]
  /\ live = {} /\ callCross = {} /\ isLeaf = TRUE
  /\ adj = [v \in Vregs(f) |-> {}]
  /\ movePartner = [v \in Vregs(f) |-> << >>]
  /\ todo = Vregs(f)
  /\ reg = [v \in Vregs(f) |-> NoReg]
  /\ spillSlot = [v \in Vregs(f) |-> NoReg]
  /\ numSpills = 0 /\ usedCallee = {}

Init == \E f \in Funcs : Start(f)

Next ==
  \/ SweepBlock \/ SweepAgain \/ SweepsEnd
  \/ BlockStart \/ ScanInst \/ BlockEnd \/ GraphEnd \/ LinkParams
  \/ \E v \in todo : ColourLikePartner(v) \/ ColourByPreference(v) \/ Spill(v)
  \/ Finish

Spec == Init /\ [][Next]_vars
FairSpec == Spec /\ WF_vars(Next)

-----------------------------------------------------------------------------
(* Where each vreg lives once the allocation is returned.                  *)
Home(v) == IF reg[v] # NoReg THEN <<"reg", reg[v]>> ELSE <<"slot", spillSlot[v]>>

(* The vregs live just before instruction m of block k (m = Len + 1 stands *)
(* for the terminator), given what is live out of the block.               *)
LiveAt(k, m) ==
  {v \in V : \/ \E n \in m .. Len(Insns(k)) :
                   /\ v \in InstUses(Insns(k)[n])
                   /\ \A j \in m .. n - 1 : Insns(k)[j].dst # v
             \/ /\ v \in TermUses(Block(k)) \cup liveOut[k]
                /\ \A j \in m .. Len(Insns(k)) : Insns(k)[j].dst # v}

-----------------------------------------------------------------------------
(* Types of the allocator's state: sets hold vregs of the function, homes  *)
(* come from the pools.                                                    *)
TypeOK ==
  /\ fn \in Funcs
  /\ pc \in {"liveness", "block", "scan", "params", "colour", "done"}
  /\ b \in -1 .. fn.nb /\ i \in Nat
  /\ changed \in BOOLEAN /\ isLeaf \in BOOLEAN
  /\ liveIn \in [Blocks(fn) -> SUBSET V] /\ liveOut \in [Blocks(fn) -> SUBSET V]
  /\ live \in SUBSET V /\ callCross \in SUBSET V /\ todo \in SUBSET V
  /\ adj \in [V -> SUBSET V]
  /\ movePartner \in [V -> Seq(V)]
  /\ reg \in [V -> Bodies \cup {NoReg}]
  /\ spillSlot \in [V -> Nat \cup {NoReg}]
  /\ numSpills \in Nat
  /\ usedCallee \in SUBSET PoolRegs(CalleePool)

(* When the sweeps end, a vreg is live into a block exactly when some path *)
(* from it reaches a read with no write before: the in-place, reverse-     *)
(* order iteration misses nothing and invents nothing.                     *)
LivenessExact ==
  pc # "liveness" =>
    \A k \in Blocks(fn), v \in V : v \in liveIn[k] <=> ~DeadInto(fn, v, k)

(* No instruction writes its result over a value somebody will still read: *)
(* the home of a result differs from the home of every other vreg live     *)
(* after it, except the source of a move, which holds the same value.      *)
NoClobber ==
  pc = "done" =>
    \A k \in Blocks(fn) : \A m \in DOMAIN Insns(k) :
      LET in == Insns(k)[m]
      IN  in.dst # NoReg =>
            \A v \in LiveAt(k, m + 1) \ {in.dst} :
              Home(v) = Home(in.dst) => IsMove(in) /\ v = in.a.n

(* A value that must outlive a call is never in a register the callee may  *)
(* overwrite.                                                              *)
SurvivesCalls ==
  pc = "done" =>
    \A k \in Blocks(fn) : \A m \in DOMAIN Insns(k) :
      Insns(k)[m].op = "Call" =>
        \A v \in LiveAt(k, m + 1) \ {Insns(k)[m].dst} :
          reg[v] \notin PoolRegs(CallerPool)

(* The prologue copies the parameters one after the other; none of these   *)
(* copies lands on another parameter or on anything live at entry.         *)
ParamsApart ==
  pc = "done" =>
    \A v \in ParamRegs, w \in ParamRegs \cup liveIn[0] :
      v # w => Home(v) # Home(w)

(* Every vreg gets a home, the spill slots are 0 .. numSpills - 1 with no  *)
(* gap and no sharing (the frame reserves exactly numSpills words), and a  *)
(* vreg with fewer neighbours than allowed registers never spills.         *)
HomesPacked ==
  pc = "done" =>
    LET spilled == {v \in V : reg[v] = NoReg}
    IN  /\ {spillSlot[v] : v \in spilled} = 0 .. numSpills - 1
        /\ Cardinality(spilled) = numSpills
        /\ \A v \in spilled : Degree(v) >= Len(Allowed(v))

(* The sweeps reach their fixpoint and the allocator returns.              *)
Terminates == <>(pc = "done")
=============================================================================
