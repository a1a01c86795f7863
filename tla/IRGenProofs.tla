---------------------------- MODULE IRGenProofs ----------------------------
(***************************************************************************)
(* What IR generation makes of a function, whatever tree is lowered.       *)
(*                                                                         *)
(* First, no block is lost.  It rests on a discipline of the recursion: a  *)
(* call that starts a reserved block comes right after one that has ended  *)
(* the block before.                                                       *)
(*                                                                         *)
(* Second, what is made of a function that has passed the semantic         *)
(* analysis, its declarations standing in blocks, is well formed: the      *)
(* generator's state is typed all along, and the finished function reads   *)
(* no vreg that has not been written.                                      *)
(* The builder keeps, for every block, a set of vregs that every path to   *)
(* the block has written (Shown): the code of the block reads no others    *)
(* before it writes them, and jumps only to blocks that ask for no others. *)
(* The sets are chosen when a block is made and never changed after.  The  *)
(* calls still to come are followed in the order they will be made (Goes): *)
(* each finds the values, the loops and the variables it takes, and each   *)
(* jump it may make leads to a block that asks for no more than has been   *)
(* written by then.                                                        *)
(***************************************************************************)
EXTENDS IRGen, IRLemmas

Calls == {"stmt", "expr", "cond", "value", "start", "jmp", "popLoop", "apply", "set",
          "yield", "br"}

AnyItem == [do : Calls, s : Stmts, e : Exprs, n : Seq(Int)]
Items == {it \in AnyItem : it.do \in {"cond", "br"} => Len(it.n) = 2}

(* An item that starts the block n[1]; one before which the open block has *)
(* been ended; one that ends it, or finds it ended and leaves it so.       *)
Fills(it) == it.do \in {"start", "set"}
Waits(it) == it.do \in {"start", "set", "popLoop"}
Seals(it) == it.do \in {"jmp", "cond", "br", "set", "popLoop"}

Owed(w) == {w[k].n[1] : k \in {j \in DOMAIN w : Fills(w[j])}}

(* The discipline, for a stack w above a builder that has made nb blocks.  *)
Distinct(w) ==
  \A i, j \in DOMAIN w : i # j /\ Fills(w[i]) /\ Fills(w[j]) => w[i].n[1] # w[j].n[1]

Ordered(w, sealed) ==
  \A k \in DOMAIN w : Waits(w[k]) => IF k = 1 THEN sealed ELSE Seals(w[k - 1])

WorkOK(w, nb, sealed) ==
  /\ w \in Seq(Items)
  /\ \A k \in DOMAIN w : Fills(w[k]) => w[k].n[1] \in 0 .. nb - 1
  /\ Distinct(w)
  /\ Ordered(w, sealed)

(* The state of the builder when the blocks in owed are reserved.          *)
Builder(st, owed) ==
  /\ DOMAIN st = {"blocks", "nb", "cur", "sealed", "nextVreg", "loops", "irId"}
  /\ st.nb \in Nat \ {0} /\ st.cur \in 0 .. st.nb - 1 /\ st.sealed \in BOOLEAN
  /\ DOMAIN st.blocks = 0 .. st.nb - 1
  /\ \A k \in 0 .. st.nb - 1 : DOMAIN st.blocks[k] = DOMAIN Open
  /\ owed \subseteq 0 .. st.nb - 1 /\ st.nextVreg \in Nat
  /\ \A k \in 0 .. st.nb - 1 :
       st.blocks[k].term = "None" <=> (k = st.cur /\ ~st.sealed) \/ k \in owed
  /\ \A k \in owed : st.blocks[k].insts = << >> /\ (k = st.cur => st.sealed)

GenInv ==
  out = NoFunc => Builder(g, Owed(work)) /\ WorkOK(work, g.nb, g.sealed)

-----------------------------------------------------------------------------
(* The builder's operations.                                               *)

LEMMA OpenFields ==
  /\ DOMAIN Open = {"insts", "term", "cond", "succ0", "succ1", "hasVal", "ret"}
  /\ Open.insts = << >> /\ Open.term = "None"
BY DEF Open

(* Only the blocks, the open one and whether it is ended matter.           *)
LEMMA SameBlocks ==
  ASSUME NEW st, NEW P, Builder(st, P), NEW n \in Nat, NEW l, NEW m
  PROVE  /\ Builder([st EXCEPT !.nextVreg = n], P)
         /\ Builder([st EXCEPT !.loops = l], P)
         /\ Builder([st EXCEPT !.irId = m], P)
BY DEF Builder

LEMMA NewVregKeeps ==
  ASSUME NEW st, NEW P, Builder(st, P)
  PROVE  /\ Builder(NewVreg(st), P)
         /\ NewVreg(st).nb = st.nb /\ NewVreg(st).sealed = st.sealed
<1>1. PICK n \in Nat : NewVreg(st) = [st EXCEPT !.nextVreg = n]
  <2>1. st.nextVreg + 1 \in Nat /\ NewVreg(st) = [st EXCEPT !.nextVreg = st.nextVreg + 1]
    BY DEF NewVreg, Builder
  <2> QED BY <2>1
<1>2. Builder([st EXCEPT !.nextVreg = n], P)
  BY SameBlocks
<1>3. Builder(NewVreg(st), P)
  BY <1>1, <1>2
<1>4. NewVreg(st).nb = st.nb /\ NewVreg(st).sealed = st.sealed
  BY DEF NewVreg, Builder
<1> QED BY <1>3, <1>4

LEMMA NewBlockReserves ==
  ASSUME NEW st, NEW P, Builder(st, P)
  PROVE  /\ Builder(NewBlock(st), P \cup {st.nb})
         /\ NewBlock(st).nb = st.nb + 1 /\ NewBlock(st).sealed = st.sealed
<1> DEFINE o == NewBlock(st)
<1>1. /\ DOMAIN o = DOMAIN st /\ o.nb = st.nb + 1 /\ o.cur = st.cur /\ o.sealed = st.sealed
      /\ o.nextVreg = st.nextVreg
      /\ o.blocks = [k \in 0 .. st.nb |-> IF k = st.nb THEN Open ELSE st.blocks[k]]
  BY DEF NewBlock, Builder
<1> HIDE DEF o
<1>2. st.nb \in Nat \ {0} /\ o.nb - 1 = st.nb
  BY <1>1 DEF Builder
<1>3. /\ o.blocks[st.nb] = Open
      /\ \A k \in 0 .. st.nb - 1 : o.blocks[k] = st.blocks[k]
  BY <1>1, <1>2
<1>4. \A k \in 0 .. o.nb - 1 : k \in 0 .. st.nb - 1 \/ k = st.nb
  BY <1>2
<1>5. \A k \in 0 .. o.nb - 1 : DOMAIN o.blocks[k] = DOMAIN Open
  <2>1. \A k \in 0 .. st.nb - 1 : DOMAIN st.blocks[k] = DOMAIN Open
    BY DEF Builder
  <2> QED BY <1>3, <1>4, <2>1
<1>6. \A k \in 0 .. o.nb - 1 :
        o.blocks[k].term = "None" <=> (k = o.cur /\ ~o.sealed) \/ k \in P \cup {st.nb}
  <2> TAKE k \in 0 .. o.nb - 1
  <2>1. CASE k \in 0 .. st.nb - 1
    BY <1>1, <1>2, <1>3, <2>1 DEF Builder
  <2>2. CASE k = st.nb
    BY <1>3, <2>2, OpenFields
  <2> QED BY <1>4, <2>1, <2>2
<1>7. \A k \in P \cup {st.nb} : o.blocks[k].insts = << >> /\ (k = o.cur => o.sealed)
  <2> TAKE k \in P \cup {st.nb}
  <2>1. CASE k \in P
    BY <1>1, <1>3, <2>1 DEF Builder
  <2>2. CASE k = st.nb
    BY <1>1, <1>2, <1>3, <2>2, OpenFields DEF Builder
  <2> QED BY <2>1, <2>2
<1>8. P \cup {st.nb} \subseteq 0 .. o.nb - 1 /\ o.cur \in 0 .. o.nb - 1
  <2>1. P \subseteq 0 .. st.nb - 1 /\ st.cur \in 0 .. st.nb - 1
    BY DEF Builder
  <2>2. 0 .. o.nb - 1 = (0 .. st.nb - 1) \cup {st.nb}
    BY <1>2
  <2> QED BY <1>1, <2>1, <2>2
<1>9. /\ DOMAIN o = {"blocks", "nb", "cur", "sealed", "nextVreg", "loops", "irId"}
      /\ o.nb \in Nat \ {0} /\ o.sealed \in BOOLEAN /\ DOMAIN o.blocks = 0 .. o.nb - 1
      /\ o.nextVreg \in Nat
  BY <1>1, <1>2 DEF Builder
<1>10. Builder(o, P \cup {st.nb})
  BY <1>5, <1>6, <1>7, <1>8, <1>9 DEF Builder
<1> QED BY <1>1, <1>10 DEF o

LEMMA StartBlockFills ==
  ASSUME NEW st, NEW P, Builder(st, P), st.sealed, NEW id \in P
  PROVE  /\ Builder(StartBlock(st, id), P \ {id})
         /\ StartBlock(st, id).nb = st.nb /\ StartBlock(st, id).sealed = FALSE
<1> DEFINE o == StartBlock(st, id)
<1>1. /\ DOMAIN o = DOMAIN st /\ o.nb = st.nb /\ o.cur = id /\ o.sealed = FALSE
      /\ o.blocks = st.blocks /\ o.nextVreg = st.nextVreg
  BY DEF StartBlock, Builder
<1> HIDE DEF o
<1>2. Builder(o, P \ {id})
  BY <1>1 DEF Builder
<1> QED BY <1>1, <1>2 DEF o

LEMMA EnsureOpenOpens ==
  ASSUME NEW st, NEW P, Builder(st, P)
  PROVE  /\ Builder(EnsureOpen(st), P)
         /\ EnsureOpen(st).nb \in Nat /\ EnsureOpen(st).nb >= st.nb
         /\ EnsureOpen(st).sealed = FALSE
<1>1. st.sealed \in BOOLEAN /\ st.nb \in Nat
  BY DEF Builder
<1>2. CASE st.sealed
  <2> DEFINE n == NewBlock(st)
  <2>1. Builder(n, P \cup {st.nb}) /\ n.nb = st.nb + 1 /\ n.sealed
    BY <1>2, NewBlockReserves
  <2> DEFINE Q == P \cup {st.nb}
  <2>2. st.nb \in Q /\ Q \ {st.nb} = P
    BY DEF Builder
  <2> HIDE DEF n, Q
  <2>3. Builder(StartBlock(n, st.nb), Q \ {st.nb}) /\ StartBlock(n, st.nb).nb = n.nb
        /\ StartBlock(n, st.nb).sealed = FALSE
    BY <2>1, <2>2, StartBlockFills DEF Q
  <2> QED BY <1>1, <1>2, <2>1, <2>2, <2>3 DEF EnsureOpen, n
<1>3. CASE ~st.sealed
  BY <1>1, <1>3 DEF EnsureOpen
<1> QED BY <1>1, <1>2, <1>3

(* Blocks the builder has made stay made.                                  *)
LEMMA EmitKeeps ==
  ASSUME NEW st, NEW P, Builder(st, P), NEW in
  PROVE  /\ Builder(Emit(st, in), P)
         /\ Emit(st, in).nb \in Nat /\ Emit(st, in).nb >= st.nb
         /\ Emit(st, in).sealed = FALSE
<1> DEFINE o == EnsureOpen(st)
           e == Emit(st, in)
<1>1. Builder(o, P) /\ o.nb \in Nat /\ o.nb >= st.nb /\ o.sealed = FALSE
  BY EnsureOpenOpens
<1>2. e = [o EXCEPT !.blocks[o.cur].insts = Append(@, in)]
  BY DEF Emit
<1> HIDE DEF o, e
<1> DEFINE bb == [o.blocks[o.cur] EXCEPT !.insts = Append(@, in)]
<1>3. /\ DOMAIN e = DOMAIN o /\ e.nb = o.nb /\ e.cur = o.cur /\ e.sealed = o.sealed
      /\ e.nextVreg = o.nextVreg /\ e.blocks = [o.blocks EXCEPT ![o.cur] = bb]
  BY <1>1, <1>2 DEF Builder
<1>4. DOMAIN bb = DOMAIN Open /\ bb.term = o.blocks[o.cur].term
  BY <1>1, OpenFields DEF Builder
<1> HIDE DEF bb
<1>5. /\ o.cur \notin P
      /\ e.blocks[o.cur] = bb
      /\ \A k \in 0 .. o.nb - 1 : k # o.cur => e.blocks[k] = o.blocks[k]
  BY <1>1, <1>3 DEF Builder
<1>6. Builder(e, P)
  BY <1>1, <1>3, <1>4, <1>5 DEF Builder
<1> QED BY <1>1, <1>3, <1>6 DEF e

LEMMA TerminateSeals ==
  ASSUME NEW st, NEW P, Builder(st, P), NEW bb, DOMAIN bb = DOMAIN Open,
         bb.term # "None"
  PROVE  /\ Builder(Terminate(st, bb), P)
         /\ Terminate(st, bb).nb \in Nat /\ Terminate(st, bb).nb >= st.nb
         /\ Terminate(st, bb).sealed = TRUE
<1> DEFINE o == EnsureOpen(st)
           e == Terminate(st, bb)
           cc == [bb EXCEPT !.insts = o.blocks[o.cur].insts]
<1>1. Builder(o, P) /\ o.nb \in Nat /\ o.nb >= st.nb /\ o.sealed = FALSE
  BY EnsureOpenOpens
<1>2. e = [o EXCEPT !.blocks[o.cur] = cc, !.sealed = TRUE]
  BY DEF Terminate
<1>3. DOMAIN cc = DOMAIN Open /\ cc.term # "None"
  BY OpenFields
<1> HIDE DEF o, e, cc
<1>4. /\ DOMAIN e = DOMAIN o /\ e.nb = o.nb /\ e.cur = o.cur /\ e.sealed = TRUE
      /\ e.nextVreg = o.nextVreg /\ e.blocks = [o.blocks EXCEPT ![o.cur] = cc]
  BY <1>1, <1>2 DEF Builder
<1>5. /\ o.cur \notin P
      /\ e.blocks[o.cur] = cc
      /\ \A k \in 0 .. o.nb - 1 : k # o.cur => e.blocks[k] = o.blocks[k]
  BY <1>1, <1>4 DEF Builder
<1>6. \A k \in 0 .. e.nb - 1 : /\ DOMAIN e.blocks[k] = DOMAIN Open
                               /\ e.blocks[k].term = "None" <=> k \in P
  <2> TAKE k \in 0 .. e.nb - 1
  <2>1. CASE k = o.cur
    BY <1>3, <1>5, <2>1
  <2>2. CASE k # o.cur
    BY <1>1, <1>4, <1>5, <2>2 DEF Builder
  <2> QED BY <2>1, <2>2
<1>7. \A k \in P : e.blocks[k].insts = << >>
  BY <1>1, <1>5 DEF Builder
<1>8. /\ DOMAIN e = {"blocks", "nb", "cur", "sealed", "nextVreg", "loops", "irId"}
      /\ e.nb \in Nat \ {0} /\ e.cur \in 0 .. e.nb - 1 /\ e.sealed = TRUE
      /\ DOMAIN e.blocks = 0 .. e.nb - 1 /\ P \subseteq 0 .. e.nb - 1
      /\ e.nextVreg \in Nat
  BY <1>1, <1>4 DEF Builder
<1>9. Builder(e, P)
  BY <1>6, <1>7, <1>8 DEF Builder
<1> QED BY <1>1, <1>4, <1>9 DEF e

(* All four terminators.                                                   *)
LEMMA TermsSeal ==
  ASSUME NEW st, NEW P, Builder(st, P), NEW c, NEW t, NEW f,
         NEW e \in {TermJmp(st, t), TermBr(st, c, t, f), TermRet(st, c), TermRetVoid(st)}
  PROVE  /\ Builder(e, P) /\ e.nb \in Nat /\ e.nb >= st.nb /\ e.sealed = TRUE
<1>1. /\ DOMAIN Jump(<< >>, t) = DOMAIN Open /\ Jump(<< >>, t).term # "None"
      /\ DOMAIN Branch(<< >>, c, t, f) = DOMAIN Open /\ Branch(<< >>, c, t, f).term # "None"
      /\ DOMAIN Return(<< >>, c) = DOMAIN Open /\ Return(<< >>, c).term # "None"
      /\ DOMAIN ReturnVoid(<< >>) = DOMAIN Open /\ ReturnVoid(<< >>).term # "None"
  BY DEF Jump, Branch, Return, ReturnVoid, Open
<1> QED BY <1>1, TerminateSeals DEF TermJmp, TermBr, TermRet, TermRetVoid

-----------------------------------------------------------------------------
(* The items of the stack.                                                 *)

LEMMA Defaults ==
  /\ Stmt \in Stmts /\ Expr \in Exprs /\ << >> \in Seq(Int)
  /\ {"stmt", "expr", "cond", "value", "apply", "start", "jmp", "popLoop", "set", "br",
      "yield"} = Calls
  /\ \A it \in AnyItem : (it.do \in {"cond", "br"} => Len(it.n) = 2) => it \in Items
BY TreesAssumption DEF Calls, Items, AnyItem

LEMMA StmtItem ==
  ASSUME NEW s \in Stmts
  PROVE  /\ DoStmt(s) \in Items /\ DoStmt(s).do = "stmt"
         /\ DoValue(s) \in Items /\ DoValue(s).do = "value"
<1>1. /\ DoStmt(s) \in AnyItem /\ DoStmt(s).do = "stmt"
      /\ DoValue(s) \in AnyItem /\ DoValue(s).do = "value"
  BY Defaults DEF DoStmt, DoValue, Item, AnyItem
<1> QED BY <1>1, Defaults

LEMMA ExprItem ==
  ASSUME NEW x \in Exprs
  PROVE  /\ DoExpr(x) \in Items /\ DoExpr(x).do = "expr"
         /\ [Item EXCEPT !.do = "apply", !.e = x] \in Items
         /\ [Item EXCEPT !.do = "apply", !.e = x].do = "apply"
<1>1. /\ DoExpr(x) \in AnyItem /\ DoExpr(x).do = "expr"
      /\ [Item EXCEPT !.do = "apply", !.e = x] \in AnyItem
      /\ [Item EXCEPT !.do = "apply", !.e = x].do = "apply"
  BY Defaults DEF DoExpr, Item, AnyItem
<1> QED BY <1>1, Defaults

LEMMA CondItem ==
  ASSUME NEW x \in Exprs, NEW t \in Int, NEW f \in Int
  PROVE  DoCond(x, t, f) \in Items /\ DoCond(x, t, f).do = "cond"
<1>1. <<t, f>> \in Seq(Int) /\ Len(<<t, f>>) = 2
  OBVIOUS
<1>2. DoCond(x, t, f) \in AnyItem /\ DoCond(x, t, f).do = "cond" /\ DoCond(x, t, f).n = <<t, f>>
  BY <1>1, Defaults DEF DoCond, Item, AnyItem
<1> QED BY <1>1, <1>2, Defaults

LEMMA DoItem ==
  ASSUME NEW what \in Calls, NEW ns \in Seq(Int), what \in {"cond", "br"} => Len(ns) = 2
  PROVE  Do(what, ns) \in Items /\ Do(what, ns).do = what /\ Do(what, ns).n = ns
<1>1. Do(what, ns) \in AnyItem /\ Do(what, ns).do = what /\ Do(what, ns).n = ns
  BY Defaults DEF Do, Item, AnyItem
<1> QED BY <1>1, Defaults

(* Calls may replace the call it when the blocks from n up to m have been  *)
(* made for them.                                                          *)
Fits(its, it, n, m, sealed) ==
  /\ its \in Seq(Items)
  /\ \A k \in DOMAIN its : Fills(its[k]) => its[k].n[1] \in n .. m - 1
  /\ Distinct(its)
  /\ Ordered(its, sealed)
  /\ Seals(it) => IF its = << >> THEN sealed ELSE Seals(its[Len(its)])

LEMMA OwedBy ==
  ASSUME NEW w, NEW x
  PROVE  x \in Owed(w) <=> \E k \in DOMAIN w : Fills(w[k]) /\ x = w[k].n[1]
BY DEF Owed

(* The blocks owed by what is below the top.                               *)
LEMMA OwedBelow ==
  ASSUME NEW w \in Seq(Items), w # << >>
  PROVE  /\ \A x : x \in Owed(Tail(w)) <=> \E j \in 2 .. Len(w) : Fills(w[j]) /\ x = w[j].n[1]
         /\ Distinct(w) =>
              Owed(Tail(w)) = IF Fills(w[1]) THEN Owed(w) \ {w[1].n[1]} ELSE Owed(w)
<1> DEFINE v == Tail(w)
<1>1. /\ Len(w) \in Nat \ {0} /\ DOMAIN w = 1 .. Len(w)
      /\ DOMAIN v = 1 .. Len(w) - 1
      /\ \A k \in 1 .. Len(w) - 1 : v[k] = w[k + 1]
  OBVIOUS
<1> HIDE DEF v
<1>2. \A x : x \in Owed(v) <=> \E j \in 2 .. Len(w) : Fills(w[j]) /\ x = w[j].n[1]
  <2> TAKE x
  <2>1. x \in Owed(v) <=> \E k \in DOMAIN v : Fills(v[k]) /\ x = v[k].n[1]
    BY OwedBy
  <2>2. ASSUME NEW j \in 2 .. Len(w), Fills(w[j]), x = w[j].n[1]
        PROVE  \E k \in DOMAIN v : Fills(v[k]) /\ x = v[k].n[1]
    <3>1. j - 1 \in 1 .. Len(w) - 1 /\ (j - 1) + 1 = j
      BY <1>1
    <3>2. j - 1 \in DOMAIN v /\ v[j - 1] = w[j]
      BY <1>1, <3>1
    <3> QED BY <2>2, <3>2
  <2>3. ASSUME NEW k \in DOMAIN v, Fills(v[k]), x = v[k].n[1]
        PROVE  \E j \in 2 .. Len(w) : Fills(w[j]) /\ x = w[j].n[1]
    <3>1. k + 1 \in 2 .. Len(w) /\ v[k] = w[k + 1]
      BY <1>1
    <3> QED BY <2>3, <3>1
  <2> QED BY <2>1, <2>2, <2>3
<1>3. ASSUME Distinct(w)
      PROVE  Owed(v) = IF Fills(w[1]) THEN Owed(w) \ {w[1].n[1]} ELSE Owed(w)
  <2>1. \A x : x \in Owed(w) <=>
          \/ Fills(w[1]) /\ x = w[1].n[1]
          \/ \E k \in 2 .. Len(w) : Fills(w[k]) /\ x = w[k].n[1]
    <3>1. 1 .. Len(w) = {1} \cup 2 .. Len(w)
      BY <1>1
    <3> QED BY <1>1, <3>1, OwedBy
  <2>2. \A k \in 2 .. Len(w) : Fills(w[1]) /\ Fills(w[k]) => w[k].n[1] # w[1].n[1]
    BY <1>1, <1>3 DEF Distinct
  <2> QED BY <1>2, <2>1, <2>2
<1> QED BY <1>2, <1>3 DEF v

(* The stack after the top has been replaced.                              *)
Put(its, w) == its \o Tail(w)

LEMMA Replaced ==
  ASSUME NEW n \in Nat, NEW m \in Nat, n =< m, NEW sealed0, NEW sealed,
         NEW w, w # << >>, WorkOK(w, n, sealed0),
         NEW its, Fits(its, w[1], n, m, sealed)
  PROVE  /\ WorkOK(Put(its, w), m, sealed)
         /\ Owed(Put(its, w)) = Owed(its) \cup Owed(Tail(w))
<1> DEFINE u == Put(its, w)
           L == Len(its)
           N == Len(w)
<1>1. /\ w \in Seq(Items) /\ its \in Seq(Items)
      /\ N \in Nat \ {0} /\ DOMAIN w = 1 .. N /\ L \in Nat /\ DOMAIN its = 1 .. L
      /\ its = << >> <=> L = 0
  BY DEF WorkOK, Fits
<1>2. /\ u \in Seq(Items) /\ DOMAIN u = 1 .. L + N - 1
      /\ \A k \in 1 .. L : u[k] = its[k]
      /\ \A k \in L + 1 .. L + N - 1 : u[k] = w[k - L + 1]
  BY <1>1 DEF Put
<1>3. Fits(its, w[1], n, m, sealed) => (Seals(w[1]) => IF L = 0 THEN sealed ELSE Seals(its[L]))
  BY <1>1 DEF Fits
<1> HIDE DEF u, L, N
<1>4. /\ \A k \in 1 .. L : k \in DOMAIN u /\ u[k] = its[k]
      /\ \A j \in 2 .. N : L + j - 1 \in DOMAIN u /\ u[L + j - 1] = w[j]
  <2>1. \A k \in 1 .. L : k \in DOMAIN u /\ u[k] = its[k]
    BY <1>1, <1>2
  <2>2. ASSUME NEW j \in 2 .. N
        PROVE  L + j - 1 \in DOMAIN u /\ u[L + j - 1] = w[j]
    <3>1. L + j - 1 \in L + 1 .. L + N - 1 /\ (L + j - 1) - L + 1 = j
      BY <1>1
    <3>2. L + j - 1 \in 1 .. L + N - 1
      BY <1>1
    <3> QED BY <1>2, <3>1, <3>2
  <2> QED BY <2>1, <2>2
<1>5. \A k \in DOMAIN u :
        k \in 1 .. L \/ \E j \in 2 .. N : k = L + j - 1
  <2> TAKE k \in DOMAIN u
  <2>1. CASE k \notin 1 .. L
    <3>1. k - L + 1 \in 2 .. N /\ k = L + (k - L + 1) - 1
      BY <1>1, <1>2, <2>1
    <3> QED BY <3>1
  <2> QED BY <2>1
<1>6. /\ \A k \in 1 .. L : Fills(its[k]) => its[k].n[1] \in n .. m - 1
      /\ \A j \in 1 .. N : Fills(w[j]) => w[j].n[1] \in 0 .. n - 1
      /\ Distinct(its) /\ Distinct(w) /\ Ordered(its, sealed) /\ Ordered(w, sealed0)
  BY <1>1 DEF Fits, WorkOK
<1>7. ASSUME NEW j \in 2 .. N
      PROVE  j \in DOMAIN w /\ j \in 1 .. N
  BY <1>1
<1>8. \A k \in DOMAIN u : Fills(u[k]) => u[k].n[1] \in 0 .. m - 1
  <2> SUFFICES ASSUME NEW k \in DOMAIN u, Fills(u[k]) PROVE u[k].n[1] \in 0 .. m - 1
    OBVIOUS
  <2>1. CASE k \in 1 .. L
    <3>1. u[k].n[1] \in n .. m - 1
      BY <1>4, <1>6, <2>1
    <3> QED BY <3>1
  <2>2. ASSUME NEW j \in 2 .. N, k = L + j - 1 PROVE u[k].n[1] \in 0 .. m - 1
    <3>1. u[k] = w[j] /\ j \in 1 .. N
      BY <1>4, <1>7, <2>2
    <3>2. u[k].n[1] \in 0 .. n - 1
      BY <1>6, <3>1
    <3> QED BY <3>2
  <2> QED BY <1>5, <2>1, <2>2
<1>9. Distinct(u)
  <2>1. ASSUME NEW a \in 1 .. L, NEW b \in 2 .. N, Fills(its[a]), Fills(w[b])
        PROVE  its[a].n[1] # w[b].n[1]
    <3>1. its[a].n[1] \in n .. m - 1 /\ w[b].n[1] \in 0 .. n - 1
      BY <1>6, <1>7, <2>1
    <3> QED BY <3>1
  <2>2. ASSUME NEW i \in DOMAIN u, NEW k \in DOMAIN u, i # k, Fills(u[i]), Fills(u[k])
        PROVE  u[i].n[1] # u[k].n[1]
    <3>1. CASE i \in 1 .. L /\ k \in 1 .. L
      BY <1>1, <1>4, <1>6, <2>2, <3>1 DEF Distinct
    <3>2. ASSUME i \in 1 .. L, NEW j \in 2 .. N, k = L + j - 1
          PROVE  u[i].n[1] # u[k].n[1]
      <4>1. u[i] = its[i] /\ u[k] = w[j]
        BY <1>4, <3>2
      <4> QED BY <2>1, <2>2, <3>2, <4>1
    <3>3. ASSUME k \in 1 .. L, NEW j \in 2 .. N, i = L + j - 1
          PROVE  u[i].n[1] # u[k].n[1]
      <4>1. u[k] = its[k] /\ u[i] = w[j]
        BY <1>4, <3>3
      <4> QED BY <2>1, <2>2, <3>3, <4>1
    <3>4. ASSUME NEW j \in 2 .. N, i = L + j - 1, NEW l \in 2 .. N, k = L + l - 1
          PROVE  u[i].n[1] # u[k].n[1]
      <4>1. u[i] = w[j] /\ u[k] = w[l] /\ j # l
        BY <1>4, <2>2, <3>4
      <4> QED BY <1>6, <1>7, <2>2, <4>1 DEF Distinct
    <3> QED BY <1>5, <3>1, <3>2, <3>3, <3>4
  <2> QED BY <2>2 DEF Distinct
<1>10. Ordered(u, sealed)
  <2> SUFFICES ASSUME NEW k \in DOMAIN u, Waits(u[k])
               PROVE  IF k = 1 THEN sealed ELSE Seals(u[k - 1])
    BY DEF Ordered
  <2>1. CASE k \in 1 .. L
    <3>1. u[k] = its[k] /\ k \in DOMAIN its
      BY <1>1, <1>4, <2>1
    <3>2. IF k = 1 THEN sealed ELSE Seals(its[k - 1])
      BY <1>6, <3>1 DEF Ordered
    <3>3. CASE k # 1
      <4>1. k - 1 \in 1 .. L
        BY <1>1, <2>1, <3>3
      <4> QED BY <1>4, <3>2, <3>3, <4>1
    <3> QED BY <3>2, <3>3
  <2>2. ASSUME NEW j \in 2 .. N, k = L + j - 1
        PROVE  IF k = 1 THEN sealed ELSE Seals(u[k - 1])
    <3>1. u[k] = w[j] /\ j \in DOMAIN w /\ j # 1
      BY <1>4, <1>7, <2>2
    <3>2. Seals(w[j - 1])
      BY <1>6, <3>1 DEF Ordered
    <3>3. CASE j = 2
      <4>1. (j - 1) = 1 /\ k = L + 1
        BY <1>1, <2>2, <3>3
      <4>2. IF L = 0 THEN sealed ELSE Seals(its[L])
        BY <1>3, <3>2, <4>1
      <4>3. CASE L = 0
        BY <4>1, <4>2, <4>3
      <4>4. CASE L # 0
        <5>1. L \in 1 .. L /\ k # 1 /\ k - 1 = L
          BY <1>1, <4>1, <4>4
        <5> QED BY <1>4, <4>2, <4>4, <5>1
      <4> QED BY <4>3, <4>4
    <3>4. CASE j # 2
      <4>1. j - 1 \in 2 .. N /\ k # 1 /\ k - 1 = L + (j - 1) - 1
        BY <1>1, <2>2, <3>4
      <4> QED BY <1>4, <3>2, <4>1
    <3> QED BY <3>3, <3>4
  <2> QED BY <1>5, <2>1, <2>2
<1>11. Owed(u) = Owed(its) \cup Owed(Tail(w))
  <2>1. \A x : x \in Owed(Tail(w)) <=> \E j \in 2 .. N : Fills(w[j]) /\ x = w[j].n[1]
    BY <1>1, OwedBelow DEF N
  <2>2. \A x : x \in Owed(its) <=> \E k \in 1 .. L : Fills(its[k]) /\ x = its[k].n[1]
    BY <1>1, OwedBy
  <2>3. ASSUME NEW x, NEW k \in DOMAIN u, Fills(u[k]), x = u[k].n[1]
        PROVE  x \in Owed(its) \cup Owed(Tail(w))
    <3>1. CASE k \in 1 .. L
      BY <1>4, <2>2, <2>3, <3>1
    <3>2. ASSUME NEW j \in 2 .. N, k = L + j - 1
          PROVE  x \in Owed(Tail(w))
      BY <1>4, <2>1, <2>3, <3>2
    <3> QED BY <1>5, <3>1, <3>2
  <2>4. ASSUME NEW x, NEW k \in 1 .. L, Fills(its[k]), x = its[k].n[1]
        PROVE  \E i \in DOMAIN u : Fills(u[i]) /\ x = u[i].n[1]
    BY <1>4, <2>4
  <2>5. ASSUME NEW x, NEW j \in 2 .. N, Fills(w[j]), x = w[j].n[1]
        PROVE  \E i \in DOMAIN u : Fills(u[i]) /\ x = u[i].n[1]
    BY <1>4, <2>5
  <2>6. \A x : x \in Owed(u) <=> \E k \in DOMAIN u : Fills(u[k]) /\ x = u[k].n[1]
    BY OwedBy
  <2> QED BY <2>1, <2>2, <2>3, <2>4, <2>5, <2>6
<1> QED BY <1>2, <1>8, <1>9, <1>10, <1>11 DEF WorkOK, u

-----------------------------------------------------------------------------
(* The steps of the generator.                                             *)

LEMMA TopFacts ==
  ASSUME GenInv, NEW what, Doing(what)
  PROVE  /\ out = NoFunc /\ work \in Seq(Items) /\ work # << >>
         /\ Top = work[1] /\ Top \in Items /\ Top.do = what
         /\ Builder(g, Owed(work)) /\ WorkOK(work, g.nb, g.sealed)
         /\ g.nb \in Nat \ {0} /\ g.sealed \in BOOLEAN
         /\ Waits(Top) => g.sealed
         /\ Fills(Top) => Top.n[1] \in Owed(work)
         /\ Owed(Tail(work)) = IF Fills(Top) THEN Owed(work) \ {Top.n[1]} ELSE Owed(work)
<1>1. out = NoFunc /\ work # << >> /\ Top = work[1] /\ Top.do = what
  BY DEF Doing, Top
<1>2. Builder(g, Owed(work)) /\ WorkOK(work, g.nb, g.sealed)
  BY <1>1 DEF GenInv
<1>3. work \in Seq(Items) /\ 1 \in DOMAIN work /\ Top \in Items
  BY <1>1, <1>2 DEF WorkOK
<1>4. Waits(Top) => g.sealed
  BY <1>1, <1>2, <1>3 DEF WorkOK, Ordered
<1>5. Fills(Top) => Top.n[1] \in Owed(work)
  BY <1>1, <1>3, OwedBy
<1>6. g.nb \in Nat \ {0} /\ g.sealed \in BOOLEAN
  BY <1>2 DEF Builder
<1>7. Owed(Tail(work)) = IF Fills(Top) THEN Owed(work) \ {Top.n[1]} ELSE Owed(work)
  BY <1>1, <1>2, <1>3, OwedBelow DEF WorkOK
<1> QED BY <1>1, <1>2, <1>3, <1>4, <1>5, <1>6, <1>7

(* A call replaced by calls for which all blocks made are reserved.        *)
LEMMA StepKeeps ==
  ASSUME GenInv, NEW what, Doing(what), UNCHANGED out,
         NEW its, work' = its \o Tail(work),
         g'.nb \in Nat, g'.nb >= g.nb,
         Builder(g', Owed(its) \cup Owed(Tail(work))),
         Fits(its, Top, g.nb, g'.nb, g'.sealed)
  PROVE  GenInv'
<1>1. /\ work # << >> /\ WorkOK(work, g.nb, g.sealed) /\ g.nb \in Nat
      /\ Top = work[1] /\ g.nb =< g'.nb
  BY TopFacts
<1>2. /\ WorkOK(Put(its, work), g'.nb, g'.sealed)
      /\ Owed(Put(its, work)) = Owed(its) \cup Owed(Tail(work))
  <2>1. \A n, m \in Nat : n =< m =>
          \A s0, s1, w, is :
            w # << >> /\ WorkOK(w, n, s0) /\ Fits(is, w[1], n, m, s1)
            => /\ WorkOK(Put(is, w), m, s1)
               /\ Owed(Put(is, w)) = Owed(is) \cup Owed(Tail(w))
    BY Replaced
  <2>2. Fits(its, work[1], g.nb, g'.nb, g'.sealed)
    BY <1>1
  <2>3. \A s0, s1, w, is :
          w # << >> /\ WorkOK(w, g.nb, s0) /\ Fits(is, w[1], g.nb, g'.nb, s1)
          => /\ WorkOK(Put(is, w), g'.nb, s1)
             /\ Owed(Put(is, w)) = Owed(is) \cup Owed(Tail(w))
    BY <1>1, <2>1
  <2> QED BY <1>1, <2>2, <2>3
<1>3. work' = Put(its, work)
  BY DEF Put
<1>4. Owed(work)' = Owed(its) \cup Owed(Tail(work))
  BY <1>2, <1>3 DEF Owed
<1> QED BY <1>2, <1>3, <1>4 DEF GenInv

(* Calls that wait for nothing and fill no block.                          *)
LEMMA PlainFits ==
  ASSUME NEW its \in Seq(Items), \A k \in DOMAIN its : ~Waits(its[k]),
         NEW it, NEW n, NEW m, NEW sealed,
         Seals(it) => IF its = << >> THEN sealed ELSE Seals(its[Len(its)])
  PROVE  Fits(its, it, n, m, sealed) /\ Owed(its) = {}
<1>1. \A k \in DOMAIN its : ~Fills(its[k])
  BY DEF Waits, Fills
<1>2. Owed(its) = {}
  BY <1>1, OwedBy
<1> QED BY <1>1, <1>2 DEF Fits, Distinct, Ordered

LEMMA PlainStep ==
  ASSUME GenInv, NEW what, Doing(what), UNCHANGED out,
         NEW its \in Seq(Items), work' = its \o Tail(work),
         \A k \in DOMAIN its : ~Waits(its[k]),
         ~Fills(Top),
         Seals(Top) => IF its = << >> THEN g'.sealed ELSE Seals(its[Len(its)]),
         g'.nb \in Nat, g'.nb >= g.nb, Builder(g', Owed(work))
  PROVE  GenInv'
<1>1. Fits(its, Top, g.nb, g'.nb, g'.sealed) /\ Owed(its) = {}
  BY PlainFits
<1>2. Owed(its) \cup Owed(Tail(work)) = Owed(work)
  BY <1>1, TopFacts
<1> QED BY <1>1, <1>2, StepKeeps

(* A call that returns, and need not leave the open block ended.           *)
LEMMA ReturnStep ==
  ASSUME GenInv, NEW what, Doing(what), UNCHANGED out, work' = << >> \o Tail(work),
         ~Fills(Top), Seals(Top) => g'.sealed,
         g'.nb \in Nat, g'.nb >= g.nb, Builder(g', Owed(work))
  PROVE  GenInv'
<1>1. << >> \in Seq(Items) /\ DOMAIN << >> = {}
  OBVIOUS
<1> QED BY <1>1, PlainStep

(* The actions that return from a call without calling.                    *)
LEMMA GenReturns ==
  ASSUME GenInv,
         \/ GenValueDone \/ GenReturnVoid \/ GenBreak \/ GenContinue \/ GenLeaf
         \/ GenGlobal \/ GenBinary \/ GenUnary \/ GenCall \/ YieldFlag
         \/ CondConst \/ CondBranch
  PROVE  GenInv'
<1> USE DEF Then, Keep, Fills, Seals
<1>1. CASE GenValueDone
  <2>1. Doing("value") /\ UNCHANGED out /\ work' = << >> \o Tail(work)
    BY <1>1 DEF GenValueDone
  <2>2. Top.do = "value" /\ Builder(g, Owed(work)) /\ g.nb \in Nat
    BY <2>1, TopFacts
  <2>3. \/ g' = g \/ g' = TermRet(g, vals[1])
        \/ g' = Emit(g, Store(Top.s.sym.id, vals[1]))
        \/ g' = Emit(g, Unary("Mv", g.irId[Top.s.sym.id], vals[1]))
    BY <1>1 DEF GenValueDone
  <2>4. Builder(g', Owed(work)) /\ g'.nb \in Nat /\ g'.nb >= g.nb
    <3>1. CASE g' = TermRet(g, vals[1])
      BY <2>2, <3>1, TermsSeal
    <3>2. CASE \E in : g' = Emit(g, in)
      BY <2>2, <3>2, EmitKeeps
    <3>3. CASE g' = g
      BY <2>2, <3>3
    <3> QED BY <2>3, <3>1, <3>2, <3>3
  <2> QED BY <2>1, <2>2, <2>4, ReturnStep
<1>2. CASE GenReturnVoid
  <2>1. Doing("stmt") /\ UNCHANGED out /\ work' = << >> \o Tail(work) /\ g' = TermRetVoid(g)
    BY <1>2 DEF GenReturnVoid
  <2>2. Top.do = "stmt" /\ Builder(g, Owed(work))
    BY <2>1, TopFacts
  <2>3. Builder(g', Owed(work)) /\ g'.nb \in Nat /\ g'.nb >= g.nb
    BY <2>1, <2>2, TermsSeal
  <2> QED BY <2>1, <2>2, <2>3, ReturnStep
<1>3. CASE GenBreak \/ GenContinue
  <2>1. /\ Doing("stmt") /\ UNCHANGED out /\ work' = << >> \o Tail(work)
        /\ \E t : g' = TermJmp(g, t)
    BY <1>3 DEF GenBreak, GenContinue
  <2>2. Top.do = "stmt" /\ Builder(g, Owed(work))
    BY <2>1, TopFacts
  <2>3. Builder(g', Owed(work)) /\ g'.nb \in Nat /\ g'.nb >= g.nb
    BY <2>1, <2>2, TermsSeal
  <2> QED BY <2>1, <2>2, <2>3, ReturnStep
<1>4. CASE GenLeaf \/ YieldFlag
  <2>1. PICK what \in {"expr", "yield"} : Doing(what)
    BY <1>4 DEF GenLeaf, YieldFlag
  <2>2. UNCHANGED out /\ work' = << >> \o Tail(work) /\ g' = g
    BY <1>4 DEF GenLeaf, YieldFlag
  <2>3. Top.do = what /\ Builder(g, Owed(work)) /\ g.nb \in Nat
    BY <2>1, TopFacts
  <2> QED BY <2>1, <2>2, <2>3, ReturnStep
<1>5. CASE GenGlobal \/ GenBinary \/ GenUnary \/ GenCall
  <2>1. PICK what \in {"expr", "apply"} : Doing(what)
    BY <1>5 DEF GenGlobal, GenBinary, GenUnary, GenCall
  <2>2. /\ UNCHANGED out /\ work' = << >> \o Tail(work)
        /\ \E in : g' = Emit(NewVreg(g), in) \/ g' = Emit(g, in)
    BY <1>5 DEF GenGlobal, GenBinary, GenUnary, GenCall
  <2>3. Top.do = what /\ Builder(g, Owed(work)) /\ g.nb \in Nat
    BY <2>1, TopFacts
  <2>4. Builder(NewVreg(g), Owed(work)) /\ NewVreg(g).nb = g.nb
    BY <2>3, NewVregKeeps
  <2>5. Builder(g', Owed(work)) /\ g'.nb \in Nat /\ g'.nb >= g.nb
    BY <2>2, <2>3, <2>4, EmitKeeps
  <2> QED BY <2>1, <2>2, <2>3, <2>5, ReturnStep
<1>6. CASE CondConst \/ CondBranch
  <2>1. PICK what \in {"cond", "br"} : Doing(what)
    BY <1>6 DEF CondConst, CondBranch
  <2>2. /\ UNCHANGED out /\ work' = << >> \o Tail(work)
        /\ \E c, t, f : g' = TermJmp(g, t) \/ g' = TermBr(g, c, t, f)
    BY <1>6 DEF CondConst, CondBranch
  <2>3. Top.do = what /\ Builder(g, Owed(work)) /\ g.nb \in Nat
    BY <2>1, TopFacts
  <2>4. Builder(g', Owed(work)) /\ g'.nb \in Nat /\ g'.nb >= g.nb /\ g'.sealed = TRUE
    BY <2>2, <2>3, TermsSeal
  <2> QED BY <2>1, <2>2, <2>3, <2>4, ReturnStep
<1> QED BY <1>1, <1>2, <1>3, <1>4, <1>5, <1>6

(* The actions that call statements and expressions only.                  *)
LEMMA GenCalls ==
  ASSUME GenInv,
         \/ GenBlock \/ GenValueStmt \/ GenIfConst \/ GenOperands
         \/ CondNot \/ CondValue
  PROVE  GenInv'
<1> USE DEF Then, Keep
<1>1. PICK what \in {"stmt", "expr", "cond"} : Doing(what)
  BY DEF GenBlock, GenValueStmt, GenIfConst, GenOperands, CondNot, CondValue
<1>2. /\ Top.do = what /\ Builder(g, Owed(work)) /\ g.nb \in Nat
      /\ Top.s \in Stmts /\ Top.e \in Exprs /\ Top.n \in Seq(Int)
  BY <1>1, TopFacts DEF Items, AnyItem
<1>3. /\ Top.s.kids \in Seq(Stmts) /\ Top.s.e \in Exprs
      /\ Top.e.kids \in Seq(Exprs)
  BY <1>2, TreesAssumption
<1>4. /\ \A k \in DOMAIN Top.s.kids : Top.s.kids[k] \in Stmts
      /\ \A k \in DOMAIN Top.e.kids : Top.e.kids[k] \in Exprs
  BY <1>3
<1>5. /\ \A k \in DOMAIN Top.s.kids : /\ DoStmt(Top.s.kids[k]) \in Items
                                     /\ DoStmt(Top.s.kids[k]).do = "stmt"
      /\ \A k \in DOMAIN Top.e.kids : /\ DoExpr(Top.e.kids[k]) \in Items
                                     /\ DoExpr(Top.e.kids[k]).do = "expr"
  BY <1>4, StmtItem, ExprItem
(* What is left to show of calls that take the place of one of genStmt or  *)
(* genExpr.                                                                *)
<1>6. ASSUME UNCHANGED out, NEW its \in Seq(Items), work' = its \o Tail(work),
             \A k \in DOMAIN its : its[k].do \in {"stmt", "expr", "value", "apply"},
             Top.do \in {"stmt", "expr"}, Builder(g', Owed(work)), g'.nb = g.nb
      PROVE  GenInv'
  <2>1. \A k \in DOMAIN its : ~Waits(its[k])
    BY <1>6 DEF Waits
  <2>2. ~Fills(Top) /\ ~Seals(Top)
    BY <1>6 DEF Fills, Seals
  <2>3. g'.nb \in Nat /\ g'.nb >= g.nb
    BY <1>2, <1>6
  <2>4. Seals(Top) => IF its = << >> THEN g'.sealed ELSE Seals(its[Len(its)])
    BY <2>2
  <2> QED BY <1>1, <1>6, <2>1, <2>2, <2>3, <2>4, PlainStep
<1>7. CASE GenBlock
  <2> DEFINE its == [k \in DOMAIN Top.s.kids |-> DoStmt(Top.s.kids[k])]
  <2>1. its \in Seq(Items) /\ \A k \in DOMAIN its : its[k].do = "stmt"
    BY <1>3, <1>5
  <2>2. Doing("stmt") /\ UNCHANGED <<out, g>> /\ work' = its \o Tail(work)
    BY <1>7 DEF GenBlock
  <2>3. Top.do = "stmt"
    BY <2>2, TopFacts
  <2> HIDE DEF its
  <2> QED BY <1>2, <1>6, <2>1, <2>2, <2>3
<1>8. CASE GenValueStmt
  <2> DEFINE x == DoExpr(Top.s.e)
             v == DoValue(Top.s)
             its == <<x, v>>
  <2>1. x \in Items /\ x.do = "expr" /\ v \in Items /\ v.do = "value"
    BY <1>2, <1>3, StmtItem, ExprItem
  <2>2. /\ Doing("stmt") /\ UNCHANGED out /\ work' = its \o Tail(work)
        /\ \/ g' = g
           \/ \E m : g' = [NewVreg(g) EXCEPT !.irId = m]
    BY <1>8 DEF GenValueStmt
  <2> HIDE DEF x, v
  <2>3. its \in Seq(Items) /\ \A k \in DOMAIN its : its[k].do \in {"expr", "value"}
    BY <2>1
  <2>4. Top.do = "stmt"
    BY <2>2, TopFacts
  <2>5. Builder(g', Owed(work)) /\ g'.nb = g.nb
    <3>1. CASE g' = g
      BY <1>2, <3>1
    <3>2. ASSUME NEW m, g' = [NewVreg(g) EXCEPT !.irId = m]
          PROVE  Builder(g', Owed(work)) /\ g'.nb = g.nb
      <4>1. Builder(NewVreg(g), Owed(work)) /\ NewVreg(g).nb = g.nb
        BY <1>2, NewVregKeeps
      <4>2. Builder(g', Owed(work))
        BY <3>2, <4>1, SameBlocks
      <4>3. g'.nb = NewVreg(g).nb
        BY <3>2, <4>1 DEF Builder
      <4> QED BY <4>1, <4>2, <4>3
    <3> QED BY <2>2, <3>1, <3>2
  <2> HIDE DEF its
  <2> QED BY <1>6, <2>2, <2>3, <2>4, <2>5
<1>9. CASE GenIfConst
  <2>1. Doing("stmt") /\ UNCHANGED <<out, g>> /\ Top.s.kind = "If"
    BY <1>9 DEF GenIfConst
  <2>2. Top.do = "stmt"
    BY <2>1, TopFacts
  <2>3. 1 \in DOMAIN Top.s.kids /\ (Len(Top.s.kids) = 2 => 2 \in DOMAIN Top.s.kids)
    <3>1. Top.s.kids # << >>
      BY <1>2, <2>1, TreesAssumption
    <3> QED BY <1>3, <3>1
  <2>4. \/ work' = << >> \o Tail(work)
        \/ \E k \in DOMAIN Top.s.kids : work' = <<DoStmt(Top.s.kids[k])>> \o Tail(work)
    BY <1>9, <2>3 DEF GenIfConst
  <2>5. CASE work' = << >> \o Tail(work)
    <3>1. << >> \in Seq(Items) /\ DOMAIN << >> = {}
      OBVIOUS
    <3> QED BY <1>2, <1>6, <2>1, <2>2, <2>5, <3>1
  <2>6. ASSUME NEW k \in DOMAIN Top.s.kids, work' = <<DoStmt(Top.s.kids[k])>> \o Tail(work)
        PROVE  GenInv'
    <3> DEFINE it == DoStmt(Top.s.kids[k])
               its == <<it>>
    <3>1. it \in Items /\ it.do = "stmt"
      BY <1>5
    <3> HIDE DEF it
    <3>2. its \in Seq(Items) /\ \A j \in DOMAIN its : its[j].do = "stmt"
      BY <3>1
    <3>3. work' = its \o Tail(work)
      BY <2>6 DEF it
    <3> HIDE DEF its
    <3> QED BY <1>2, <1>6, <2>1, <2>2, <3>2, <3>3
  <2> QED BY <2>4, <2>5, <2>6
<1>10. CASE GenOperands
  <2> DEFINE xs == [k \in DOMAIN Top.e.kids |-> DoExpr(Top.e.kids[k])]
             app == [Item EXCEPT !.do = "apply", !.e = Top.e]
             last == IF Top.e.op = "Plus" THEN << >> ELSE <<app>>
             its == xs \o last
  <2>1. xs \in Seq(Items) /\ \A k \in DOMAIN xs : xs[k].do = "expr"
    BY <1>3, <1>5
  <2>2. app \in Items /\ app.do = "apply"
    BY <1>2, ExprItem
  <2>3. Doing("expr") /\ UNCHANGED <<out, g>> /\ work' = its \o Tail(work)
    BY <1>10 DEF GenOperands
  <2> HIDE DEF xs, app
  <2>4. last \in Seq(Items) /\ \A k \in DOMAIN last : last[k].do = "apply"
    BY <2>2
  <2> HIDE DEF last
  <2>5. its \in Seq(Items) /\ \A k \in DOMAIN its : its[k].do \in {"expr", "apply"}
    <3>1. its \in Seq(Items)
      BY <2>1, <2>4
    <3>2. \A k \in DOMAIN its : k \in DOMAIN xs \/ k - Len(xs) \in DOMAIN last
      BY <2>1, <2>4
    <3>3. \A k \in DOMAIN its : its[k] = IF k \in DOMAIN xs THEN xs[k] ELSE last[k - Len(xs)]
      BY <2>1, <2>4
    <3> QED BY <2>1, <2>4, <3>1, <3>2, <3>3
  <2>6. Top.do = "expr"
    BY <2>3, TopFacts
  <2> HIDE DEF its
  <2> QED BY <1>2, <1>6, <2>3, <2>5, <2>6
<1>11. CASE CondNot
  <2> DEFINE it == DoCond(Top.e.kids[1], Top.n[2], Top.n[1])
             its == <<it>>
  <2>1. Doing("cond") /\ UNCHANGED <<out, g>> /\ work' = its \o Tail(work)
        /\ Top.e.kind = "Unary"
    BY <1>11 DEF CondNot
  <2>2. Top.do = "cond" /\ Top \in Items
    BY <2>1, TopFacts
  <2>3. Top.n[1] \in Int /\ Top.n[2] \in Int
    BY <2>2 DEF Items, AnyItem
  <2>4. Top.e.kids[1] \in Exprs
    BY <1>2, <1>3, <2>1, TreesAssumption
  <2>5. it \in Items /\ it.do = "cond"
    BY <2>3, <2>4, CondItem
  <2> HIDE DEF it
  <2>6. its \in Seq(Items) /\ its # << >> /\ \A k \in DOMAIN its : its[k].do = "cond"
        /\ its[Len(its)].do = "cond"
    BY <2>5
  <2> HIDE DEF its
  <2>7. (\A k \in DOMAIN its : ~Waits(its[k])) /\ ~Fills(Top) /\ Seals(its[Len(its)])
    BY <2>2, <2>6 DEF Waits, Fills, Seals
  <2>8. g' = g /\ UNCHANGED out /\ g'.nb \in Nat /\ g'.nb >= g.nb /\ Builder(g', Owed(work))
    BY <1>2, <2>1
  <2> QED BY <2>1, <2>6, <2>7, <2>8, PlainStep
<1>12. CASE CondValue
  <2> DEFINE x == DoExpr(Top.e)
             br == Do("br", Top.n)
             its == <<x, br>>
  <2>1. Doing("cond") /\ UNCHANGED <<out, g>> /\ work' = its \o Tail(work)
    BY <1>12 DEF CondValue
  <2>2. Top.do = "cond" /\ Top \in Items
    BY <2>1, TopFacts
  <2>3. Top.n \in Seq(Int) /\ Len(Top.n) = 2 /\ "br" \in Calls
    BY <2>2 DEF Items, AnyItem, Calls
  <2>4. x \in Items /\ x.do = "expr" /\ br \in Items /\ br.do = "br"
    BY <1>2, <2>3, ExprItem, DoItem
  <2> HIDE DEF x, br
  <2>5. its \in Seq(Items) /\ its # << >> /\ (\A k \in DOMAIN its : its[k].do \in {"expr", "br"})
        /\ its[Len(its)].do = "br"
    BY <2>4
  <2> HIDE DEF its
  <2>6. (\A k \in DOMAIN its : ~Waits(its[k])) /\ ~Fills(Top) /\ Seals(its[Len(its)])
    BY <2>2, <2>5 DEF Waits, Fills, Seals
  <2>7. g' = g /\ UNCHANGED out /\ g'.nb \in Nat /\ g'.nb >= g.nb /\ Builder(g', Owed(work))
    BY <1>2, <2>1
  <2> QED BY <2>1, <2>5, <2>6, <2>7, PlainStep
<1> QED BY <1>7, <1>8, <1>9, <1>10, <1>11, <1>12

-----------------------------------------------------------------------------
(* The actions between the recursive calls.                                *)

LEMMA EmptyStep ==
  ASSUME GenInv, NEW what, Doing(what), UNCHANGED out, work' = << >> \o Tail(work),
         Seals(Top) => g'.sealed,
         g'.nb \in Nat, g'.nb >= g.nb, Builder(g', Owed(Tail(work)))
  PROVE  GenInv'
<1> DEFINE its == << >>
<1>1. its \in Seq(Items) /\ (\A k \in DOMAIN its : ~Waits(its[k])) /\ its = << >>
  OBVIOUS
<1>2. work' = its \o Tail(work)
  OBVIOUS
<1> HIDE DEF its
<1>3. Fits(its, Top, g.nb, g'.nb, g'.sealed) /\ Owed(its) = {}
  BY <1>1, PlainFits
<1>4. Owed(its) \cup Owed(Tail(work)) = Owed(Tail(work))
  BY <1>3
<1> QED BY <1>2, <1>3, <1>4, StepKeeps

(* An item that starts a block.                                            *)
LEMMA FillTop ==
  ASSUME GenInv, NEW what, Doing(what), Fills(Top)
  PROVE  /\ Builder(StartBlock(g, Top.n[1]), Owed(Tail(work)))
         /\ StartBlock(g, Top.n[1]).nb = g.nb
<1> DEFINE id == Top.n[1]
           P == Owed(work)
           o == StartBlock(g, id)
           rest == Owed(Tail(work))
<1>1. Waits(Top)
  BY DEF Fills, Waits
<1>2. g.sealed /\ id \in P /\ Builder(g, P) /\ rest = P \ {id}
  BY <1>1, TopFacts
<1> HIDE DEF id, P, rest
<1>3. Builder(o, P \ {id}) /\ o.nb = g.nb
  BY <1>2, StartBlockFills
<1>4. Builder(o, rest)
  BY <1>2, <1>3
<1> QED BY <1>3, <1>4 DEF id, P, rest

LEMMA GenMoves ==
  ASSUME GenInv, Housekeep \/ SetFlag
  PROVE  GenInv'
<1> USE DEF Then, Keep
<1>1. CASE Doing("start") /\ g' = StartBlock(g, Top.n[1]) /\ Housekeep
  <2>1. UNCHANGED out /\ work' = << >> \o Tail(work)
    BY <1>1 DEF Housekeep
  <2>2. Top.do = "start" /\ Builder(g, Owed(work)) /\ g.nb \in Nat
    BY <1>1, TopFacts
  <2>3. Fills(Top) /\ Waits(Top) /\ ~Seals(Top)
    BY <2>2 DEF Fills, Waits, Seals
  <2>4. Builder(g', Owed(Tail(work))) /\ g'.nb = g.nb
    BY <1>1, <2>3, FillTop
  <2>5. g'.nb \in Nat /\ g'.nb >= g.nb /\ (Seals(Top) => g'.sealed)
    BY <2>2, <2>3, <2>4
  <2> QED BY <1>1, <2>1, <2>4, <2>5, EmptyStep
<1>2. CASE Doing("jmp") /\ g' = TermJmp(g, Top.n[1]) /\ Housekeep
  <2>1. UNCHANGED out /\ work' = << >> \o Tail(work)
    BY <1>2 DEF Housekeep
  <2>2. Top.do = "jmp" /\ Builder(g, Owed(work))
    BY <1>2, TopFacts
  <2>3. Builder(g', Owed(work)) /\ g'.nb \in Nat /\ g'.nb >= g.nb /\ g'.sealed = TRUE
    BY <1>2, <2>2, TermsSeal
  <2>4. ~Fills(Top)
    BY <2>2 DEF Fills
  <2> QED BY <1>2, <2>1, <2>3, <2>4, ReturnStep
<1>3. CASE Doing("popLoop") /\ g' = [g EXCEPT !.loops = Tail(@)] /\ Housekeep
  <2>1. UNCHANGED out /\ work' = << >> \o Tail(work)
    BY <1>3 DEF Housekeep
  <2>2. Top.do = "popLoop" /\ Builder(g, Owed(work)) /\ g.nb \in Nat /\ (Waits(Top) => g.sealed)
    BY <1>3, TopFacts
  <2>3. Builder(g', Owed(work)) /\ g'.nb = g.nb /\ g'.sealed = g.sealed
    <3>1. Builder(g', Owed(work))
      BY <1>3, <2>2, SameBlocks
    <3> QED BY <1>3, <2>2, <3>1 DEF Builder
  <2>4. ~Fills(Top) /\ Waits(Top)
    BY <2>2 DEF Fills, Waits
  <2>5. g'.nb \in Nat /\ g'.nb >= g.nb
    BY <2>2, <2>3
  <2>6. Seals(Top) => g'.sealed
    BY <2>2, <2>3, <2>4
  <2> QED BY <1>3, <2>1, <2>3, <2>4, <2>5, <2>6, ReturnStep
<1>4. CASE SetFlag
  <2> DEFINE o == StartBlock(g, Top.n[1])
             e == Emit(o, Unary("Mv", Top.n[2], Imm(Top.n[3])))
  <2>1. Doing("set") /\ UNCHANGED out /\ work' = << >> \o Tail(work)
        /\ g' = TermJmp(e, Top.n[4])
    BY <1>4 DEF SetFlag
  <2>2. Top.do = "set" /\ Builder(g, Owed(work)) /\ g.nb \in Nat
    BY <2>1, TopFacts
  <2>3. Fills(Top) /\ Waits(Top)
    BY <2>2 DEF Fills, Waits
  <2>4. Builder(o, Owed(Tail(work))) /\ o.nb = g.nb
    BY <2>1, <2>3, FillTop
  <2> HIDE DEF o
  <2>6. Builder(e, Owed(Tail(work))) /\ e.nb \in Nat /\ e.nb >= g.nb
    BY <2>4, EmitKeeps
  <2> HIDE DEF e
  <2>7. Builder(g', Owed(Tail(work))) /\ g'.nb \in Nat /\ g'.nb >= e.nb /\ g'.sealed = TRUE
    BY <2>1, <2>6, TermsSeal
  <2>8. g'.nb >= g.nb
    BY <2>2, <2>6, <2>7
  <2> QED BY <2>1, <2>7, <2>8, EmptyStep
<1>5. Housekeep => \/ Doing("start") /\ g' = StartBlock(g, Top.n[1])
                   \/ Doing("jmp") /\ g' = TermJmp(g, Top.n[1])
                   \/ Doing("popLoop") /\ g' = [g EXCEPT !.loops = Tail(@)]
  BY DEF Housekeep
<1> QED BY <1>1, <1>2, <1>3, <1>4, <1>5

-----------------------------------------------------------------------------
(* The actions that make blocks and plan to fill them.                     *)

LEMMA MoreBlocks ==
  ASSUME NEW st, NEW P, Builder(st, P)
  PROVE  /\ Builder(NewBlock(NewBlock(st)), P \cup {st.nb, st.nb + 1})
         /\ NewBlock(NewBlock(st)).nb = st.nb + 2
         /\ NewBlock(NewBlock(st)).sealed = st.sealed
         /\ Builder(NewBlock(NewBlock(NewBlock(st))), P \cup {st.nb, st.nb + 1, st.nb + 2})
         /\ NewBlock(NewBlock(NewBlock(st))).nb = st.nb + 3
         /\ NewBlock(NewBlock(NewBlock(st))).sealed = st.sealed
<1>1. st.nb \in Nat
  BY DEF Builder
<1>2. \A m, Q : Builder(m, Q) => /\ Builder(NewBlock(m), Q \cup {m.nb})
                               /\ NewBlock(m).nb = m.nb + 1
                               /\ NewBlock(m).sealed = m.sealed
  BY NewBlockReserves
<1> DEFINE a == NewBlock(st)
           b == NewBlock(a)
           c == NewBlock(b)
<1>3. Builder(a, P \cup {st.nb}) /\ a.nb = st.nb + 1 /\ a.sealed = st.sealed
  BY <1>2
<1>4. Builder(b, P \cup {st.nb, st.nb + 1}) /\ b.nb = st.nb + 2 /\ b.sealed = st.sealed
  <2>1. Builder(b, (P \cup {st.nb}) \cup {a.nb}) /\ b.nb = a.nb + 1 /\ b.sealed = a.sealed
    BY <1>2, <1>3
  <2>2. (P \cup {st.nb}) \cup {a.nb} = P \cup {st.nb, st.nb + 1}
    BY <1>3
  <2>3. b.nb = st.nb + 2
    BY <1>1, <1>3, <2>1
  <2> HIDE DEF b
  <2> QED BY <1>3, <2>1, <2>2, <2>3
<1>5. Builder(c, P \cup {st.nb, st.nb + 1, st.nb + 2}) /\ c.nb = st.nb + 3
      /\ c.sealed = st.sealed
  <2> HIDE DEF b
  <2>1. Builder(c, (P \cup {st.nb, st.nb + 1}) \cup {b.nb}) /\ c.nb = b.nb + 1
        /\ c.sealed = b.sealed
    BY <1>2, <1>4
  <2>2. (P \cup {st.nb, st.nb + 1}) \cup {b.nb} = P \cup {st.nb, st.nb + 1, st.nb + 2}
    BY <1>4
  <2>3. c.nb = st.nb + 3
    BY <1>1, <1>4, <2>1
  <2> HIDE DEF c
  <2> QED BY <1>4, <2>1, <2>2, <2>3
<1> QED BY <1>4, <1>5

(* The calls planned by an if, an if with an else, a loop, and a short     *)
(* circuit as a value and as a condition.                                  *)
LEMMA IfFits ==
  ASSUME NEW n \in Nat, NEW m \in Nat, m >= n + 2, NEW sealed, NEW it, ~Seals(it),
         NEW its \in Seq(Items), Len(its) = 5,
         its[1].do = "cond", its[2].do = "start", its[3].do = "stmt", its[4].do = "jmp",
         its[5].do = "start", its[2].n[1] = n, its[5].n[1] = n + 1
  PROVE  Fits(its, it, n, m, sealed) /\ Owed(its) = {n, n + 1}
<1>1. DOMAIN its = 1 .. 5
  OBVIOUS
<1>2. \A k \in DOMAIN its : k = 1 \/ k = 2 \/ k = 3 \/ k = 4 \/ k = 5
  BY <1>1
<1>3. /\ Fills(its[2]) /\ Fills(its[5]) /\ Seals(its[1]) /\ Seals(its[4])
      /\ ~Waits(its[1]) /\ ~Waits(its[3]) /\ ~Waits(its[4]) /\ ~Fills(its[1])
      /\ ~Fills(its[3]) /\ ~Fills(its[4])
  BY DEF Waits, Fills, Seals
<1>4. \A k \in DOMAIN its : Fills(its[k]) => k = 2 \/ k = 5
  BY <1>2, <1>3
<1>5. \A k \in DOMAIN its : Waits(its[k]) => k # 1 /\ Seals(its[k - 1])
  BY <1>2, <1>3
<1>6. Owed(its) = {n, n + 1}
  BY <1>1, <1>3, <1>4 DEF Owed
<1>7. Distinct(its) /\ Ordered(its, sealed)
  BY <1>4, <1>5 DEF Distinct, Ordered
<1>8. \A k \in DOMAIN its : Fills(its[k]) => its[k].n[1] \in n .. m - 1
  BY <1>4
<1> QED BY <1>6, <1>7, <1>8 DEF Fits

LEMMA IfElseFits ==
  ASSUME NEW n \in Nat, NEW m \in Nat, m >= n + 3, NEW sealed, NEW it, ~Seals(it),
         NEW its \in Seq(Items), Len(its) = 8,
         its[1].do = "cond", its[2].do = "start", its[3].do = "stmt", its[4].do = "jmp",
         its[5].do = "start", its[6].do = "stmt", its[7].do = "jmp", its[8].do = "start",
         its[2].n[1] = n, its[5].n[1] = n + 2, its[8].n[1] = n + 1
  PROVE  Fits(its, it, n, m, sealed) /\ Owed(its) = {n, n + 1, n + 2}
<1>1. DOMAIN its = 1 .. 8
  OBVIOUS
<1>2. \A k \in DOMAIN its : k = 1 \/ k = 2 \/ k = 3 \/ k = 4 \/ k = 5 \/ k = 6 \/ k = 7 \/ k = 8
  BY <1>1
<1>3. /\ Fills(its[2]) /\ Fills(its[5]) /\ Fills(its[8]) /\ Seals(its[1])
      /\ Seals(its[4]) /\ Seals(its[7]) /\ ~Waits(its[1]) /\ ~Waits(its[3])
      /\ ~Waits(its[4]) /\ ~Waits(its[6]) /\ ~Waits(its[7]) /\ ~Fills(its[1])
      /\ ~Fills(its[3]) /\ ~Fills(its[4]) /\ ~Fills(its[6]) /\ ~Fills(its[7])
  BY DEF Waits, Fills, Seals
<1>4. \A k \in DOMAIN its : Fills(its[k]) => k = 2 \/ k = 5 \/ k = 8
  BY <1>2, <1>3
<1>5. \A k \in DOMAIN its : Waits(its[k]) => k # 1 /\ Seals(its[k - 1])
  BY <1>2, <1>3
<1>6. Owed(its) = {n, n + 1, n + 2}
  BY <1>1, <1>3, <1>4 DEF Owed
<1>7. Distinct(its) /\ Ordered(its, sealed)
  BY <1>4, <1>5 DEF Distinct, Ordered
<1>8. \A k \in DOMAIN its : Fills(its[k]) => its[k].n[1] \in n .. m - 1
  BY <1>4
<1> QED BY <1>6, <1>7, <1>8 DEF Fits

LEMMA WhileFits ==
  ASSUME NEW n \in Nat, NEW m \in Nat, m >= n + 3, NEW it, ~Seals(it),
         NEW its \in Seq(Items), Len(its) = 7,
         its[1].do = "start", its[2].do = "stmt", its[3].do = "jmp",
         its[4].do = "popLoop", its[5].do = "start", its[6].do = "cond",
         its[7].do = "start", its[1].n[1] = n, its[5].n[1] = n + 1, its[7].n[1] = n + 2
  PROVE  Fits(its, it, n, m, TRUE) /\ Owed(its) = {n, n + 1, n + 2}
<1>1. DOMAIN its = 1 .. 7
  OBVIOUS
<1>2. \A k \in DOMAIN its : k = 1 \/ k = 2 \/ k = 3 \/ k = 4 \/ k = 5 \/ k = 6 \/ k = 7
  BY <1>1
<1>3. /\ Fills(its[1]) /\ Fills(its[5]) /\ Fills(its[7]) /\ Seals(its[3])
      /\ Seals(its[4]) /\ Seals(its[6]) /\ ~Waits(its[2]) /\ ~Waits(its[3])
      /\ ~Waits(its[6]) /\ ~Fills(its[2]) /\ ~Fills(its[3]) /\ ~Fills(its[4])
      /\ ~Fills(its[6])
  BY DEF Waits, Fills, Seals
<1>4. \A k \in DOMAIN its : Fills(its[k]) => k = 1 \/ k = 5 \/ k = 7
  BY <1>2, <1>3
<1>5. \A k \in DOMAIN its : Waits(its[k]) => k = 1 \/ Seals(its[k - 1])
  BY <1>2, <1>3
<1>6. Owed(its) = {n, n + 1, n + 2}
  BY <1>1, <1>3, <1>4 DEF Owed
<1>7. Distinct(its) /\ Ordered(its, TRUE)
  BY <1>4, <1>5 DEF Distinct, Ordered
<1>8. \A k \in DOMAIN its : Fills(its[k]) => its[k].n[1] \in n .. m - 1
  BY <1>4
<1> QED BY <1>6, <1>7, <1>8 DEF Fits

LEMMA LogicalFits ==
  ASSUME NEW n \in Nat, NEW m \in Nat, m >= n + 3, NEW sealed, NEW it, ~Seals(it),
         NEW its \in Seq(Items), Len(its) = 5,
         its[1].do = "cond", its[2].do = "set", its[3].do = "set", its[4].do = "start",
         its[5].do = "yield", its[2].n[1] = n, its[3].n[1] = n + 1, its[4].n[1] = n + 2
  PROVE  Fits(its, it, n, m, sealed) /\ Owed(its) = {n, n + 1, n + 2}
<1>1. DOMAIN its = 1 .. 5
  OBVIOUS
<1>2. \A k \in DOMAIN its : k = 1 \/ k = 2 \/ k = 3 \/ k = 4 \/ k = 5
  BY <1>1
<1>3. /\ Fills(its[2]) /\ Fills(its[3]) /\ Fills(its[4]) /\ Seals(its[1])
      /\ Seals(its[2]) /\ Seals(its[3]) /\ ~Waits(its[1]) /\ ~Waits(its[5])
      /\ ~Fills(its[1]) /\ ~Fills(its[5])
  BY DEF Waits, Fills, Seals
<1>4. \A k \in DOMAIN its : Fills(its[k]) => k = 2 \/ k = 3 \/ k = 4
  BY <1>2, <1>3
<1>5. \A k \in DOMAIN its : Waits(its[k]) => k # 1 /\ Seals(its[k - 1])
  BY <1>2, <1>3
<1>6. Owed(its) = {n, n + 1, n + 2}
  BY <1>1, <1>3, <1>4 DEF Owed
<1>7. Distinct(its) /\ Ordered(its, sealed)
  BY <1>4, <1>5 DEF Distinct, Ordered
<1>8. \A k \in DOMAIN its : Fills(its[k]) => its[k].n[1] \in n .. m - 1
  BY <1>4
<1> QED BY <1>6, <1>7, <1>8 DEF Fits

LEMMA CondFits ==
  ASSUME NEW n \in Nat, NEW m \in Nat, m >= n + 1, NEW sealed, NEW it, 
         NEW its \in Seq(Items), Len(its) = 3,
         its[1].do = "cond", its[2].do = "start", its[3].do = "cond", its[2].n[1] = n
  PROVE  Fits(its, it, n, m, sealed) /\ Owed(its) = {n}
<1>1. DOMAIN its = 1 .. 3
  OBVIOUS
<1>2. \A k \in DOMAIN its : k = 1 \/ k = 2 \/ k = 3
  BY <1>1
<1>3. /\ Fills(its[2]) /\ Seals(its[1]) /\ Seals(its[3]) /\ ~Waits(its[1])
      /\ ~Waits(its[3]) /\ ~Fills(its[1]) /\ ~Fills(its[3])
  BY DEF Waits, Fills, Seals
<1>4. \A k \in DOMAIN its : Fills(its[k]) => k = 2
  BY <1>2, <1>3
<1>5. \A k \in DOMAIN its : Waits(its[k]) => k # 1 /\ Seals(its[k - 1])
  BY <1>2, <1>3
<1>6. Owed(its) = {n}
  BY <1>1, <1>3, <1>4 DEF Owed
<1>7. Distinct(its) /\ Ordered(its, sealed)
  BY <1>4, <1>5 DEF Distinct, Ordered
<1>8. \A k \in DOMAIN its : Fills(its[k]) => its[k].n[1] \in n .. m - 1
  BY <1>4
<1>9. its # << >> /\ Seals(its[Len(its)])
  <2>1. Len(<< >>) # Len(its)
    OBVIOUS
  <2>2. its # << >>
    BY <2>1
  <2> QED BY <1>3, <2>2
<1> QED BY <1>6, <1>7, <1>8, <1>9 DEF Fits

(* A call replaced by calls its, with blocks made for them.                *)
LEMMA PlanStep ==
  ASSUME GenInv, NEW what, Doing(what), UNCHANGED out,
         NEW its, work' = its \o Tail(work), ~Fills(Top),
         g'.nb \in Nat, g'.nb >= g.nb,
         Builder(g', Owed(work) \cup Owed(its)),
         Fits(its, Top, g.nb, g'.nb, g'.sealed)
  PROVE  GenInv'
<1>1. Owed(Tail(work)) = Owed(work) /\ g.nb \in Nat
  BY TopFacts
<1>2. Owed(its) \cup Owed(Tail(work)) = Owed(work) \cup Owed(its)
  BY <1>1
<1>3. Builder(g', Owed(its) \cup Owed(Tail(work)))
  BY <1>2
<1> QED BY <1>3, StepKeeps

LEMMA GenPlansIf ==
  ASSUME GenInv, GenIf
  PROVE  GenInv'
<1> USE DEF Then, Keep
<1> DEFINE n == g.nb
           kids == Top.s.kids
           f == IF Len(kids) = 2 THEN n + 2 ELSE n + 1
           c == DoCond(Top.s.e, n, f)
           s1 == Do("start", <<n>>)
           a1 == DoStmt(kids[1])
           j1 == Do("jmp", <<n + 1>>)
           s2 == Do("start", <<n + 1>>)
           e2 == Do("start", <<n + 2>>)
           a2 == DoStmt(kids[2])
<1>1. Doing("stmt") /\ UNCHANGED out /\ Top.s.kind = "If"
  BY DEF GenIf
<1>2. /\ Top.do = "stmt" /\ Builder(g, Owed(work)) /\ n \in Nat
      /\ Top.s \in Stmts
  BY <1>1, TopFacts DEF Items, AnyItem
<1>3. /\ kids \in Seq(Stmts) /\ Top.s.e \in Exprs /\ kids # << >>
  BY <1>1, <1>2, TreesAssumption
<1>4. kids[1] \in Stmts /\ (Len(kids) = 2 => kids[2] \in Stmts)
  BY <1>3
<1>5. ~Fills(Top) /\ ~Seals(Top)
  BY <1>2 DEF Fills, Seals
<1>6. /\ c \in Items /\ c.do = "cond" /\ a1 \in Items /\ a1.do = "stmt"
  BY <1>2, <1>3, <1>4, StmtItem, CondItem
<1>7. <<n>> \in Seq(Int) /\ <<n + 1>> \in Seq(Int) /\ <<n + 2>> \in Seq(Int)
  BY <1>2
<1>8. "start" \in Calls /\ "jmp" \in Calls
  BY DEF Calls
<1>9. /\ s1 \in Items /\ s1.do = "start" /\ s1.n = <<n>>
      /\ j1 \in Items /\ j1.do = "jmp"
      /\ s2 \in Items /\ s2.do = "start" /\ s2.n = <<n + 1>>
      /\ e2 \in Items /\ e2.do = "start" /\ e2.n = <<n + 2>>
  BY <1>7, <1>8, DoItem
<1>10. s1.n[1] = n /\ s2.n[1] = n + 1 /\ e2.n[1] = n + 2
  BY <1>9
<1>11. CASE Len(kids) = 2
  <2> DEFINE its == <<c, s1, a1, j1, e2, a2, j1, s2>>
  <2>1. g' = NewBlock(NewBlock(NewBlock(g))) /\ work' = its \o Tail(work)
    BY <1>11 DEF GenIf
  <2>2. a2 \in Items /\ a2.do = "stmt"
    BY <1>4, <1>11, StmtItem
  <2>3. /\ g'.nb \in Nat /\ g'.nb >= n + 3 /\ g'.nb >= n
        /\ Builder(g', Owed(work) \cup {n, n + 1, n + 2})
    <3>1. g'.nb = n + 3 /\ Builder(g', Owed(work) \cup {n, n + 1, n + 2})
      BY <1>2, <2>1, MoreBlocks
    <3> QED BY <1>2, <3>1
  <2> HIDE DEF c, s1, a1, j1, s2, e2, a2
  <2>4. /\ its \in Seq(Items) /\ Len(its) = 8
        /\ its[1] = c /\ its[2] = s1 /\ its[3] = a1 /\ its[4] = j1
        /\ its[5] = e2 /\ its[6] = a2 /\ its[7] = j1 /\ its[8] = s2
    BY <1>6, <1>9, <2>2
  <2> HIDE DEF its
  <2>5. Fits(its, Top, n, g'.nb, g'.sealed) /\ Owed(its) = {n, n + 1, n + 2}
    BY <1>2, <1>5, <1>6, <1>9, <1>10, <2>2, <2>3, <2>4, IfElseFits
  <2> QED BY <1>1, <1>5, <2>1, <2>3, <2>5, PlanStep
<1>12. CASE Len(kids) # 2
  <2> DEFINE its == <<c, s1, a1, j1, s2>>
  <2>1. g' = NewBlock(NewBlock(g)) /\ work' = its \o Tail(work)
    BY <1>12 DEF GenIf
  <2>2. /\ g'.nb \in Nat /\ g'.nb >= n + 2 /\ g'.nb >= n
        /\ Builder(g', Owed(work) \cup {n, n + 1})
    <3>1. g'.nb = n + 2 /\ Builder(g', Owed(work) \cup {n, n + 1})
      BY <1>2, <2>1, MoreBlocks
    <3> QED BY <1>2, <3>1
  <2> HIDE DEF c, s1, a1, j1, s2, e2, a2
  <2>3. /\ its \in Seq(Items) /\ Len(its) = 5
        /\ its[1] = c /\ its[2] = s1 /\ its[3] = a1 /\ its[4] = j1 /\ its[5] = s2
    BY <1>6, <1>9
  <2> HIDE DEF its
  <2>4. Fits(its, Top, n, g'.nb, g'.sealed) /\ Owed(its) = {n, n + 1}
    BY <1>2, <1>5, <1>6, <1>9, <1>10, <2>2, <2>3, IfFits
  <2> QED BY <1>1, <1>5, <2>1, <2>2, <2>4, PlanStep
<1> QED BY <1>11, <1>12

LEMMA GenPlansWhile ==
  ASSUME GenInv, GenWhile
  PROVE  GenInv'
<1> USE DEF Then, Keep
<1> DEFINE n == g.nb
           s1 == Do("start", <<n>>)
           a1 == DoStmt(Top.s.kids[1])
           j1 == Do("jmp", <<n + 1>>)
           pop == Do("popLoop", << >>)
           s2 == Do("start", <<n + 1>>)
           c == DoCond(Top.s.e, n, n + 2)
           s3 == Do("start", <<n + 2>>)
           its == <<s1, a1, j1, pop, s2, c, s3>>
           three == NewBlock(NewBlock(NewBlock(g)))
           made == TermJmp(three, n + 1)
<1>1. /\ Doing("stmt") /\ UNCHANGED out /\ Top.s.kind = "While"
      /\ work' = its \o Tail(work)
      /\ \E l : g' = [made EXCEPT !.loops = l]
  BY DEF GenWhile
<1>2. /\ Top.do = "stmt" /\ Builder(g, Owed(work)) /\ n \in Nat
      /\ Top.s \in Stmts
  BY <1>1, TopFacts DEF Items, AnyItem
<1>3. /\ Top.s.kids[1] \in Stmts /\ Top.s.e \in Exprs
  BY <1>1, <1>2, TreesAssumption
<1>4. ~Fills(Top) /\ ~Seals(Top)
  BY <1>2 DEF Fills, Seals
<1>5. /\ c \in Items /\ c.do = "cond" /\ a1 \in Items /\ a1.do = "stmt"
  BY <1>2, <1>3, StmtItem, CondItem
<1>6. /\ <<n>> \in Seq(Int) /\ <<n + 1>> \in Seq(Int) /\ <<n + 2>> \in Seq(Int)
      /\ << >> \in Seq(Int)
  BY <1>2
<1>7. "start" \in Calls /\ "jmp" \in Calls /\ "popLoop" \in Calls
  BY DEF Calls
<1>8. /\ s1 \in Items /\ s1.do = "start" /\ s1.n = <<n>>
      /\ j1 \in Items /\ j1.do = "jmp" /\ pop \in Items /\ pop.do = "popLoop"
      /\ s2 \in Items /\ s2.do = "start" /\ s2.n = <<n + 1>>
      /\ s3 \in Items /\ s3.do = "start" /\ s3.n = <<n + 2>>
  BY <1>6, <1>7, DoItem
<1>9. s1.n[1] = n /\ s2.n[1] = n + 1 /\ s3.n[1] = n + 2
  BY <1>8
<1>10. Builder(three, Owed(work) \cup {n, n + 1, n + 2}) /\ three.nb = n + 3
  BY <1>2, MoreBlocks
<1> HIDE DEF c, s1, a1, j1, pop, s2, s3
<1>11. /\ its \in Seq(Items) /\ Len(its) = 7
       /\ its[1] = s1 /\ its[2] = a1 /\ its[3] = j1 /\ its[4] = pop
       /\ its[5] = s2 /\ its[6] = c /\ its[7] = s3
  BY <1>5, <1>8
<1> HIDE DEF its, three
<1> DEFINE R == Owed(work) \cup {n, n + 1, n + 2}
<1>12. Builder(made, R) /\ made.sealed = TRUE /\ made.nb \in Nat /\ made.nb >= n + 3
  <2> HIDE DEF R
  <2>1. Builder(three, R)
    BY <1>10 DEF R
  <2>2. Builder(made, R) /\ made.sealed = TRUE /\ made.nb \in Nat /\ made.nb >= three.nb
    BY <2>1, TermsSeal
  <2> QED BY <1>10, <2>2
<1> HIDE DEF made, R
<1>13. Builder(g', R) /\ g'.sealed = TRUE /\ g'.nb \in Nat /\ g'.nb >= n + 3 /\ g'.nb >= n
  <2>1. PICK l : g' = [made EXCEPT !.loops = l]
    BY <1>1
  <2>2. Builder(g', R)
    BY <1>12, <2>1, SameBlocks
  <2>3. g'.sealed = made.sealed /\ g'.nb = made.nb
    BY <1>12, <2>1 DEF Builder
  <2> QED BY <1>2, <1>12, <2>2, <2>3
<1>14. Fits(its, Top, n, g'.nb, g'.sealed) /\ Owed(its) = {n, n + 1, n + 2}
  BY <1>2, <1>4, <1>5, <1>8, <1>9, <1>11, <1>13, WhileFits
<1>15. Builder(g', Owed(work) \cup Owed(its))
  BY <1>13, <1>14 DEF R
<1> QED BY <1>1, <1>4, <1>13, <1>14, <1>15, PlanStep

LEMMA GenPlansLogical ==
  ASSUME GenInv, GenLogical
  PROVE  GenInv'
<1> USE DEF Then, Keep
<1> DEFINE n == g.nb
           v == g.nextVreg
           c == DoCond(Top.e, n, n + 1)
           f1 == Do("set", <<n, v, 1, n + 2>>)
           f2 == Do("set", <<n + 1, v, 0, n + 2>>)
           s == Do("start", <<n + 2>>)
           y == Do("yield", <<v>>)
           its == <<c, f1, f2, s, y>>
           R == Owed(work) \cup {n, n + 1, n + 2}
<1>1. /\ Doing("expr") /\ UNCHANGED out /\ work' = its \o Tail(work)
      /\ g' = NewBlock(NewBlock(NewBlock(NewVreg(g))))
  BY DEF GenLogical
<1>2. /\ Top.do = "expr" /\ Builder(g, Owed(work)) /\ n \in Nat
      /\ Top.e \in Exprs
  BY <1>1, TopFacts DEF Items, AnyItem
<1>3. v \in Nat
  BY <1>2 DEF Builder
<1>4. ~Fills(Top) /\ ~Seals(Top)
  BY <1>2 DEF Fills, Seals
<1>5. c \in Items /\ c.do = "cond"
  BY <1>2, CondItem
<1>6. /\ <<n, v, 1, n + 2>> \in Seq(Int) /\ <<n + 1, v, 0, n + 2>> \in Seq(Int)
      /\ <<n + 2>> \in Seq(Int) /\ <<v>> \in Seq(Int)
  BY <1>2, <1>3
<1>7. "start" \in Calls /\ "set" \in Calls /\ "yield" \in Calls
  BY DEF Calls
<1>8. /\ f1 \in Items /\ f1.do = "set" /\ f1.n = <<n, v, 1, n + 2>>
      /\ f2 \in Items /\ f2.do = "set" /\ f2.n = <<n + 1, v, 0, n + 2>>
      /\ s \in Items /\ s.do = "start" /\ s.n = <<n + 2>>
      /\ y \in Items /\ y.do = "yield"
  <2>1. f1 \in Items /\ f1.do = "set" /\ f1.n = <<n, v, 1, n + 2>>
    BY <1>6, <1>7, DoItem
  <2>2. f2 \in Items /\ f2.do = "set" /\ f2.n = <<n + 1, v, 0, n + 2>>
    BY <1>6, <1>7, DoItem
  <2>3. s \in Items /\ s.do = "start" /\ s.n = <<n + 2>>
    BY <1>6, <1>7, DoItem
  <2>4. y \in Items /\ y.do = "yield"
    BY <1>6, <1>7, DoItem
  <2> HIDE DEF f1, f2, s, y
  <2> QED BY <2>1, <2>2, <2>3, <2>4
<1>9. f1.n[1] = n /\ f2.n[1] = n + 1 /\ s.n[1] = n + 2
  BY <1>8
<1>10. Builder(NewVreg(g), Owed(work)) /\ NewVreg(g).nb = n
  BY <1>2, NewVregKeeps
<1>11. /\ Builder(g', R) /\ g'.nb \in Nat /\ g'.nb >= n + 3 /\ g'.nb >= n
  <2> DEFINE a == NewVreg(g)
  <2>1. Builder(a, Owed(work)) /\ a.nb = n /\ g' = NewBlock(NewBlock(NewBlock(a)))
    BY <1>1, <1>10
  <2> HIDE DEF a
  <2>2. g'.nb = a.nb + 3 /\ Builder(g', Owed(work) \cup {a.nb, a.nb + 1, a.nb + 2})
    BY <2>1, MoreBlocks
  <2>3. g'.nb = n + 3 /\ Builder(g', R)
    BY <2>1, <2>2
  <2> QED BY <1>2, <2>3
<1> HIDE DEF c, f1, f2, s, y
<1>12. /\ its \in Seq(Items) /\ Len(its) = 5
       /\ its[1] = c /\ its[2] = f1 /\ its[3] = f2 /\ its[4] = s /\ its[5] = y
  BY <1>5, <1>8
<1> HIDE DEF its
<1>13. Fits(its, Top, n, g'.nb, g'.sealed) /\ Owed(its) = {n, n + 1, n + 2}
  BY <1>2, <1>4, <1>5, <1>8, <1>9, <1>11, <1>12, LogicalFits
<1>14. Builder(g', Owed(work) \cup Owed(its))
  BY <1>11, <1>13
<1> QED BY <1>1, <1>4, <1>11, <1>13, <1>14, PlanStep

LEMMA GenPlansCond ==
  ASSUME GenInv, CondLogical
  PROVE  GenInv'
<1> USE DEF Then, Keep
<1> DEFINE n == g.nb
           or == Top.e.op = "Or"
           c1 == DoCond(Top.e.kids[1], IF or THEN Top.n[1] ELSE n, IF or THEN n ELSE Top.n[2])
           s == Do("start", <<n>>)
           c2 == DoCond(Top.e.kids[2], Top.n[1], Top.n[2])
           its == <<c1, s, c2>>
<1>1. /\ Doing("cond") /\ UNCHANGED out /\ g' = NewBlock(g) /\ Top.e.kind = "Logical"
  BY DEF CondLogical
<1>2. work' = its \o Tail(work)
  BY DEF CondLogical
<1>3. /\ Top.do = "cond" /\ Builder(g, Owed(work)) /\ n \in Nat
      /\ Top \in Items /\ Top.e \in Exprs /\ Top.n \in Seq(Int)
  BY <1>1, TopFacts DEF Items, AnyItem
<1>4. Top.n[1] \in Int /\ Top.n[2] \in Int
  BY <1>3 DEF Items, AnyItem
<1>5. Top.e.kids[1] \in Exprs /\ Top.e.kids[2] \in Exprs
  BY <1>1, <1>3, TreesAssumption
<1>6. ~Fills(Top)
  BY <1>3 DEF Fills
<1>7. c1 \in Items /\ c1.do = "cond" /\ c2 \in Items /\ c2.do = "cond"
  <2>1. (IF or THEN Top.n[1] ELSE n) \in Int /\ (IF or THEN n ELSE Top.n[2]) \in Int
    BY <1>3, <1>4
  <2> QED BY <1>4, <1>5, <2>1, CondItem
<1>8. s \in Items /\ s.do = "start" /\ s.n = <<n>>
  <2>1. <<n>> \in Seq(Int) /\ "start" \in Calls
    BY <1>3 DEF Calls
  <2> QED BY <2>1, DoItem
<1>9. s.n[1] = n
  BY <1>8
<1> HIDE DEF c1, s, c2, its
<1>10. /\ Builder(g', Owed(work) \cup {n}) /\ g'.nb \in Nat /\ g'.nb >= n + 1 /\ g'.nb >= n
  <2>1. Builder(NewBlock(g), Owed(work) \cup {g.nb}) /\ NewBlock(g).nb = g.nb + 1
    BY <1>3, NewBlockReserves
  <2>2. Builder(g', Owed(work) \cup {n}) /\ g'.nb = n + 1
    BY <1>1, <2>1
  <2> QED BY ONLY <1>3, <2>2
<1> USE DEF its
<1>11. its \in Seq(Items) /\ Len(its) = 3 /\ its[1] = c1 /\ its[2] = s /\ its[3] = c2
  BY <1>7, <1>8
<1> HIDE DEF its
<1>12. Fits(its, Top, n, g'.nb, g'.sealed) /\ Owed(its) = {n}
  BY <1>3, <1>7, <1>8, <1>9, <1>10, <1>11, CondFits
<1>13. Builder(g', Owed(work) \cup Owed(its))
  BY <1>10, <1>12
<1> QED BY <1>1, <1>2, <1>6, <1>10, <1>12, <1>13, PlanStep

-----------------------------------------------------------------------------
(* From the first call to the last.                                        *)

LEMMA GenStart ==
  ASSUME GenInit
  PROVE  GenInv
<1> DEFINE it == DoStmt(ast.body)
<1>1. ast \in Asts /\ g = Fresh(ast) /\ work = <<it>> /\ out = NoFunc
  BY DEF GenInit
<1>2. ast.body \in Stmts /\ ast.numParams \in Nat
  BY <1>1, TreesAssumption
<1>3. it \in Items /\ it.do = "stmt"
  BY <1>2, StmtItem
<1> HIDE DEF it
<1>4. work \in Seq(Items) /\ DOMAIN work = {1} /\ work[1].do = "stmt"
  BY <1>1, <1>3
<1>5. \A k \in DOMAIN work : ~Waits(work[k]) /\ ~Fills(work[k])
  BY <1>4 DEF Waits, Fills
<1>6. Owed(work) = {}
  BY <1>5, OwedBy
<1>7. /\ DOMAIN g = {"blocks", "nb", "cur", "sealed", "nextVreg", "loops", "irId"}
      /\ g.nb = 1 /\ g.cur = 0 /\ g.sealed = FALSE /\ g.nextVreg = ast.numParams
      /\ DOMAIN g.blocks = {0} /\ g.blocks[0] = Open
  BY <1>1 DEF Fresh
<1>8. 0 .. g.nb - 1 = {0}
  BY <1>7
<1>9. Builder(g, {})
  <2>1. /\ g.nb \in Nat \ {0} /\ g.cur \in 0 .. g.nb - 1 /\ g.sealed \in BOOLEAN
        /\ g.nextVreg \in Nat /\ {} \subseteq 0 .. g.nb - 1
    <3>1. g.nb \in Nat \ {0} /\ g.cur \in 0 .. g.nb - 1
      BY <1>7, <1>8
    <3>2. g.sealed \in BOOLEAN
      BY <1>7
    <3>3. g.nextVreg \in Nat
      BY <1>2, <1>7
    <3> QED BY <3>1, <3>2, <3>3
  <2>2. DOMAIN g.blocks = 0 .. g.nb - 1
    BY <1>7, <1>8
  <2>3. \A k \in 0 .. g.nb - 1 : k = 0 /\ k = g.cur /\ g.blocks[k] = Open
    BY <1>7, <1>8
  <2>4. \A k \in 0 .. g.nb - 1 : DOMAIN g.blocks[k] = DOMAIN Open
    BY <2>3
  <2>5. \A k \in 0 .. g.nb - 1 :
          g.blocks[k].term = "None" <=> (k = g.cur /\ ~g.sealed) \/ k \in {}
    BY <1>7, <2>3, OpenFields
  <2> QED BY <1>7, <2>1, <2>2, <2>4, <2>5 DEF Builder
<1>10. WorkOK(work, g.nb, g.sealed)
  BY <1>4, <1>5 DEF WorkOK, Distinct, Ordered
<1> QED BY <1>6, <1>9, <1>10 DEF GenInv

(* The finished function is none that stands for an unfinished one.        *)
LEMMA GenFinish ==
  ASSUME FinishFunc
  PROVE  out' # NoFunc
<1>1. "blocks" \in DOMAIN out'
  BY DEF FinishFunc
<1>2. "blocks" \notin DOMAIN NoFunc
  BY DEF NoFunc
<1> QED BY <1>1, <1>2

LEMMA GenStutters ==
  ASSUME GenInv, UNCHANGED genVars
  PROVE  GenInv'
BY DEF GenInv, genVars, Owed, WorkOK, Distinct, Ordered, Builder

(* What the property says follows from the discipline.                     *)
LEMMA GenInvImplies ==
  ASSUME GenInv
  PROVE  NoBlockLost
<1> SUFFICES ASSUME out = NoFunc PROVE NoBlockLost
  BY DEF NoBlockLost
<1>1. Builder(g, Owed(work)) /\ Distinct(work)
  BY DEF GenInv, WorkOK
<1>2. Pending = Owed(work)
  BY DEF Pending, Owed, Fills
<1>3. \A k \in 0 .. g.nb - 1 :
        g.blocks[k].term = "None" <=> (k = g.cur /\ ~g.sealed) \/ k \in Pending
  BY <1>1, <1>2 DEF Builder
<1>4. \A k \in Pending : g.blocks[k].insts = << >> /\ (k = g.cur => g.sealed)
  BY <1>1, <1>2 DEF Builder
<1>5. \A i, j \in DOMAIN work :
        /\ i # j /\ {work[i].do, work[j].do} \subseteq {"start", "set"}
        => work[i].n[1] # work[j].n[1]
  BY <1>1 DEF Distinct, Fills
<1> QED BY <1>3, <1>4, <1>5 DEF NoBlockLost

(* Every step keeps the discipline.                                        *)
LEMMA GenSteps ==
  ASSUME GenInv, GenNext
  PROVE  GenInv'
<1>1. CASE \/ GenValueDone \/ GenReturnVoid \/ GenBreak \/ GenContinue \/ GenLeaf
           \/ GenGlobal \/ GenBinary \/ GenUnary \/ GenCall \/ YieldFlag
           \/ CondConst \/ CondBranch
  BY <1>1, GenReturns
<1>2. CASE \/ GenBlock \/ GenValueStmt \/ GenIfConst \/ GenOperands
           \/ CondNot \/ CondValue
  BY <1>2, GenCalls
<1>3. CASE Housekeep \/ SetFlag
  BY <1>3, GenMoves
<1>4. CASE GenIf
  BY <1>4, GenPlansIf
<1>5. CASE GenWhile
  BY <1>5, GenPlansWhile
<1>6. CASE GenLogical
  BY <1>6, GenPlansLogical
<1>7. CASE CondLogical
  BY <1>7, GenPlansCond
<1>8. CASE FinishFunc
  BY <1>8, GenFinish DEF GenInv
<1> QED BY <1>1, <1>2, <1>3, <1>4, <1>5, <1>6, <1>7, <1>8 DEF GenNext

(* Whatever function is lowered, no block is ever lost: a block without a  *)
(* terminator is the open one or reserved for code still to come.          *)
THEOREM NoBlockLostCorrect == GenSpec => []NoBlockLost
<1>1. GenInit => GenInv
  BY GenStart
<1>2. GenInv /\ [GenNext]_genVars => GenInv'
  BY GenSteps, GenStutters
<1>3. GenInv => NoBlockLost
  BY GenInvImplies
<1> QED BY <1>1, <1>2, <1>3, PTL DEF GenSpec

-----------------------------------------------------------------------------
(* Types.  An instruction has a result exactly if its operator gives one;  *)
(* a block's code names vregs that have been made and its jumps blocks     *)
(* that have been made.                                                    *)
Temps(st) == 0 .. st.nextVreg - 1
Places(st) == 0 .. st.nb - 1

Results(bb) ==
  \A i \in DOMAIN bb.insts :
    /\ bb.insts[i].op \notin {"StoreGlobal", "Call"} => bb.insts[i].dst # NoReg
    /\ bb.insts[i].op = "StoreGlobal" => bb.insts[i].dst = NoReg

CodeOK(bb, nb, nv) ==
  bb \in BasicBlocks(0 .. nv - 1) /\ Succs(bb) \subseteq 0 .. nb - 1 /\ Results(bb)

Typed(st) ==
  /\ DOMAIN st = {"blocks", "nb", "cur", "sealed", "nextVreg", "loops", "irId"}
  /\ st.nb \in Nat \ {0} /\ st.nextVreg \in Nat /\ st.sealed \in BOOLEAN
  /\ st.cur \in Places(st)
  /\ st.blocks = [k \in Places(st) |-> st.blocks[k]]
  /\ \A k \in Places(st) : CodeOK(st.blocks[k], st.nb, st.nextVreg)
  /\ st.loops \in Seq([continueBB : Places(st), breakBB : Places(st)])

(* An operation of the builder only adds.                                  *)
Grows(a, b) ==
  /\ Typed(b) /\ b.nb >= a.nb /\ b.nextVreg >= a.nextVreg
  /\ b.loops = a.loops /\ b.irId = a.irId

LEMMA ValsWiden ==
  ASSUME NEW m \in Nat, NEW n \in Nat, m =< n
  PROVE  /\ 0 .. m - 1 \subseteq 0 .. n - 1
         /\ Vals(0 .. m - 1) \subseteq Vals(0 .. n - 1)
         /\ Seq(Vals(0 .. m - 1)) \subseteq Seq(Vals(0 .. n - 1))
<1>1. 0 .. m - 1 \subseteq 0 .. n - 1
  OBVIOUS
<1>2. Vals(0 .. m - 1) \subseteq Vals(0 .. n - 1)
  BY <1>1 DEF Vals
<1>3. Seq(Vals(0 .. m - 1)) \subseteq Seq(Vals(0 .. n - 1))
  <2> DEFINE S == Vals(0 .. m - 1)
             T == Vals(0 .. n - 1)
  <2> HIDE DEF S, T
  <2>1. S \subseteq T => Seq(S) \subseteq Seq(T)
    OBVIOUS
  <2> QED BY <1>2, <2>1 DEF S, T
<1> QED BY <1>1, <1>2, <1>3

LEMMA CodeWidens ==
  ASSUME NEW m \in Nat, NEW n \in Nat, m =< n, NEW k \in Nat, NEW l \in Nat, k =< l,
         NEW bb, CodeOK(bb, k, m)
  PROVE  CodeOK(bb, l, n)
<1> DEFINE vs == 0 .. m - 1
           ws == 0 .. n - 1
<1>1. vs \subseteq ws /\ Vals(vs) \subseteq Vals(ws) /\ Seq(Vals(vs)) \subseteq Seq(Vals(ws))
  BY ValsWiden
<1>2. Succs(bb) \subseteq 0 .. l - 1
  <2>1. 0 .. k - 1 \subseteq 0 .. l - 1
    OBVIOUS
  <2> QED BY <2>1 DEF CodeOK
<1> HIDE DEF vs, ws
<1>3. Insts(vs) \subseteq Insts(ws)
  BY <1>1 DEF Insts
<1>4. Seq(Insts(vs)) \subseteq Seq(Insts(ws))
  <2> DEFINE S == Insts(vs)
             T == Insts(ws)
  <2> HIDE DEF S, T
  <2>1. S \subseteq T => Seq(S) \subseteq Seq(T)
    OBVIOUS
  <2> QED BY <1>3, <2>1 DEF S, T
<1>5. BasicBlocks(vs) \subseteq BasicBlocks(ws)
  BY <1>1, <1>4 DEF BasicBlocks
<1> QED BY <1>2, <1>5 DEF CodeOK, vs, ws

LEMMA Constants == Imm(0) \in Vals({}) /\ Imm(1) \in Vals({}) /\ {0, 1} \subseteq Words
<1>1. 0 \in Words /\ 1 \in Words
  BY HalfAssumption DEF Words
<1> QED BY <1>1 DEF Imm, Vals

LEMMA SmallVals ==
  ASSUME NEW vs
  PROVE  /\ Imm(0) \in Vals(vs) /\ Imm(1) \in Vals(vs)
         /\ \A n \in Words : Imm(n) \in Vals(vs)
         /\ \A v \in vs : Reg(v) \in Vals(vs)
BY Constants DEF Imm, Reg, Vals

(* What the constructors make.                                             *)
LEMMA PlainInst ==
  ASSUME NEW vs
  PROVE  /\ Plain \in [op : Ops, dst : vs \cup {NoReg}, a : Vals(vs), b : Vals(vs),
                       args : Seq(Vals(vs)), callee : Nat, gid : Nat,
                       magic : vs \cup {NoReg}, unsignedDiv : BOOLEAN]
         /\ "Mv" \in Ops
<1>1. Imm(0) \in Vals(vs) /\ << >> \in Seq(Vals(vs)) /\ "Mv" \in Ops
  BY SmallVals DEF Ops, UnaryOps
<1> QED BY <1>1 DEF Plain

LEMMA InstsMade ==
  ASSUME NEW vs, NEW d \in vs, d # NoReg, NEW x \in Vals(vs), NEW y \in Vals(vs)
  PROVE  /\ \A op \in BinaryOps : /\ Binary(op, d, x, y) \in Insts(vs)
                                  /\ Binary(op, d, x, y).op = op
                                  /\ Binary(op, d, x, y).dst = d
         /\ \A op \in UnaryOps : /\ Unary(op, d, x) \in Insts(vs)
                                 /\ Unary(op, d, x).op = op /\ Unary(op, d, x).dst = d
         /\ \A k \in Nat : /\ Load(d, k) \in Insts(vs)
                           /\ Load(d, k).op = "LoadGlobal" /\ Load(d, k).dst = d
<1>1. BinaryOps \subseteq Ops /\ UnaryOps \subseteq Ops /\ "LoadGlobal" \in Ops
  BY DEF Ops
<1>2. \A op \in BinaryOps : /\ Binary(op, d, x, y) \in Insts(vs)
                            /\ Binary(op, d, x, y).op = op /\ Binary(op, d, x, y).dst = d
  BY <1>1, PlainInst DEF Binary, Insts
<1>3. \A op \in UnaryOps : /\ Unary(op, d, x) \in Insts(vs)
                           /\ Unary(op, d, x).op = op /\ Unary(op, d, x).dst = d
  BY <1>1, PlainInst DEF Unary, Insts
<1>4. \A k \in Nat : /\ Load(d, k) \in Insts(vs)
                     /\ Load(d, k).op = "LoadGlobal" /\ Load(d, k).dst = d
  BY <1>1, PlainInst DEF Load, Insts
<1> QED BY <1>2, <1>3, <1>4

LEMMA OthersMade ==
  ASSUME NEW vs, NEW x \in Vals(vs), NEW xs \in Seq(Vals(vs)), NEW d \in vs \cup {NoReg},
         NEW k \in Nat
  PROVE  /\ Store(k, x) \in Insts(vs) /\ Store(k, x).op = "StoreGlobal"
         /\ Store(k, x).dst = NoReg
         /\ Call(d, xs) \in Insts(vs) /\ Call(d, xs).op = "Call"
<1>1. "StoreGlobal" \in Ops /\ "Call" \in Ops
  BY DEF Ops
<1>2. Plain.dst = NoReg
  BY DEF Plain
<1>3. Store(k, x) \in Insts(vs) /\ Store(k, x).op = "StoreGlobal" /\ Store(k, x).dst = NoReg
  BY <1>1, <1>2, PlainInst DEF Store, Insts
<1>4. Call(d, xs) \in Insts(vs) /\ Call(d, xs).op = "Call"
  BY <1>1, PlainInst DEF Call, Insts
<1> QED BY <1>3, <1>4

LEMMA StoreMade ==
  ASSUME NEW vs, NEW x \in Vals(vs), NEW k \in Nat
  PROVE  /\ Store(k, x) \in Insts(vs) /\ Store(k, x).op = "StoreGlobal"
         /\ Store(k, x).dst = NoReg
<1>1. << >> \in Seq(Vals(vs)) /\ NoReg \in vs \cup {NoReg}
  OBVIOUS
<1> QED BY <1>1, OthersMade

LEMMA OpenOK ==
  ASSUME NEW nb \in Nat, NEW nv \in Nat
  PROVE  CodeOK(Open, nb, nv)
<1> DEFINE vs == 0 .. nv - 1
<1>1. Imm(0) \in Vals(vs)
  BY SmallVals
<1> HIDE DEF vs
<1>2. Open \in BasicBlocks(vs)
  <2>1. << >> \in Seq(Insts(vs)) /\ NoReg \in Int
    BY DEF NoReg
  <2> QED BY <1>1, <2>1 DEF Open, BasicBlocks
<1>3. Succs(Open) = {} /\ Results(Open)
  BY DEF Open, Succs, Results
<1> QED BY <1>2, <1>3 DEF CodeOK, vs

-----------------------------------------------------------------------------
(* What the operations of the builder make is typed.                       *)

LEMMA GrowsOn ==
  ASSUME NEW a, NEW b, NEW c, Typed(a), Grows(a, b), Grows(b, c)
  PROVE  Grows(a, c)
BY DEF Grows, Typed

LEMMA NewVregGrows ==
  ASSUME NEW st, Typed(st)
  PROVE  /\ Grows(st, NewVreg(st)) /\ st.nextVreg \in Temps(NewVreg(st))
         /\ NewVreg(st).nextVreg = st.nextVreg + 1 /\ NewVreg(st).nb = st.nb
         /\ NewVreg(st).cur = st.cur /\ NewVreg(st).sealed = st.sealed
         /\ NewVreg(st).blocks = st.blocks
<1> DEFINE o == NewVreg(st)
<1>1. /\ DOMAIN o = DOMAIN st /\ o.nb = st.nb /\ o.cur = st.cur /\ o.sealed = st.sealed
      /\ o.blocks = st.blocks /\ o.loops = st.loops /\ o.irId = st.irId
      /\ o.nextVreg = st.nextVreg + 1
  BY DEF NewVreg, Typed
<1> HIDE DEF o
<1>2. st.nextVreg \in Nat /\ o.nextVreg \in Nat /\ st.nb \in Nat
  BY <1>1 DEF Typed
<1>3. \A k \in Places(st) : CodeOK(o.blocks[k], o.nb, o.nextVreg)
  <2> TAKE k \in Places(st)
  <2>1. CodeOK(st.blocks[k], st.nb, st.nextVreg)
    BY DEF Typed
  <2> QED BY <1>1, <1>2, <2>1, CodeWidens
<1>4. Typed(o)
  BY <1>1, <1>2, <1>3 DEF Typed, Places
<1> QED BY <1>1, <1>2, <1>4 DEF Grows, Temps, o

LEMMA LoopsWiden ==
  ASSUME NEW m \in Nat, NEW n \in Nat, m =< n
  PROVE  Seq([continueBB : 0 .. m - 1, breakBB : 0 .. m - 1])
           \subseteq Seq([continueBB : 0 .. n - 1, breakBB : 0 .. n - 1])
<1> DEFINE S == [continueBB : 0 .. m - 1, breakBB : 0 .. m - 1]
           T == [continueBB : 0 .. n - 1, breakBB : 0 .. n - 1]
<1>1. S \subseteq T
  OBVIOUS
<1> HIDE DEF S, T
<1>2. Seq(S) \subseteq Seq(T)
  BY <1>1
<1> QED BY <1>2 DEF S, T

LEMMA NewBlockGrows ==
  ASSUME NEW st, Typed(st)
  PROVE  /\ Grows(st, NewBlock(st)) /\ st.nb \in Places(NewBlock(st))
         /\ NewBlock(st).nb = st.nb + 1 /\ NewBlock(st).nextVreg = st.nextVreg
         /\ NewBlock(st).cur = st.cur /\ NewBlock(st).sealed = st.sealed
         /\ NewBlock(st).blocks[st.nb] = Open
         /\ \A k \in Places(st) : NewBlock(st).blocks[k] = st.blocks[k]
<1> DEFINE o == NewBlock(st)
<1>1. /\ DOMAIN o = DOMAIN st /\ o.nb = st.nb + 1 /\ o.cur = st.cur /\ o.sealed = st.sealed
      /\ o.nextVreg = st.nextVreg /\ o.loops = st.loops /\ o.irId = st.irId
      /\ o.blocks = [k \in 0 .. st.nb |-> IF k = st.nb THEN Open ELSE st.blocks[k]]
  BY DEF NewBlock, Typed
<1> HIDE DEF o
<1>2. /\ st.nb \in Nat \ {0} /\ o.nb \in Nat \ {0} /\ o.nb - 1 = st.nb
      /\ st.nextVreg \in Nat /\ st.cur \in Places(st)
  BY <1>1 DEF Typed
<1>3. o.blocks[st.nb] = Open /\ \A k \in Places(st) : o.blocks[k] = st.blocks[k]
  BY <1>1, <1>2 DEF Places
<1>4. \A k \in Places(o) : k \in Places(st) \/ k = st.nb
  BY <1>2 DEF Places
<1>5. \A k \in Places(o) : CodeOK(o.blocks[k], o.nb, o.nextVreg)
  <2> TAKE k \in Places(o)
  <2>1. CASE k = st.nb
    BY <1>1, <1>2, <1>3, <2>1, OpenOK
  <2>2. CASE k \in Places(st)
    <3>1. CodeOK(st.blocks[k], st.nb, st.nextVreg)
      BY <2>2 DEF Typed
    <3>2. CodeOK(st.blocks[k], o.nb, st.nextVreg)
      BY <1>1, <1>2, <3>1, CodeWidens
    <3> QED BY <1>1, <1>3, <2>2, <3>2
  <2> QED BY <1>4, <2>1, <2>2
<1>6. o.blocks = [k \in Places(o) |-> o.blocks[k]]
  BY <1>1, <1>2 DEF Places
<1>7. o.loops \in Seq([continueBB : Places(o), breakBB : Places(o)])
  <2>1. Seq([continueBB : 0 .. st.nb - 1, breakBB : 0 .. st.nb - 1])
          \subseteq Seq([continueBB : 0 .. o.nb - 1, breakBB : 0 .. o.nb - 1])
    <3>1. st.nb \in Nat /\ o.nb \in Nat /\ st.nb =< o.nb
      BY <1>1, <1>2
    <3> QED BY ONLY <3>1, LoopsWiden
  <2> QED BY <1>1, <2>1 DEF Typed, Places
<1>8. o.cur \in Places(o) /\ st.nb \in Places(o)
  BY <1>1, <1>2 DEF Places
<1>9. Typed(o)
  BY <1>1, <1>2, <1>5, <1>6, <1>7, <1>8 DEF Typed
<1> QED BY <1>1, <1>2, <1>3, <1>8, <1>9 DEF Grows, o

LEMMA StartGrows ==
  ASSUME NEW st, Typed(st), NEW id \in Places(st)
  PROVE  /\ Grows(st, StartBlock(st, id))
         /\ StartBlock(st, id).nb = st.nb /\ StartBlock(st, id).nextVreg = st.nextVreg
         /\ StartBlock(st, id).cur = id /\ StartBlock(st, id).sealed = FALSE
         /\ StartBlock(st, id).blocks = st.blocks
<1> DEFINE o == StartBlock(st, id)
<1>1. /\ DOMAIN o = DOMAIN st /\ o.nb = st.nb /\ o.cur = id /\ o.sealed = FALSE
      /\ o.nextVreg = st.nextVreg /\ o.loops = st.loops /\ o.irId = st.irId
      /\ o.blocks = st.blocks
  BY DEF StartBlock, Typed
<1> HIDE DEF o
<1>2. Typed(o)
  BY <1>1 DEF Typed, Places
<1> QED BY <1>1, <1>2 DEF Grows, Typed, o

LEMMA EnsureOpenGrows ==
  ASSUME NEW st, Typed(st)
  PROVE  /\ Grows(st, EnsureOpen(st)) /\ EnsureOpen(st).nextVreg = st.nextVreg
         /\ EnsureOpen(st).sealed = FALSE
<1>1. CASE st.sealed
  <2>1. Grows(st, NewBlock(st)) /\ st.nb \in Places(NewBlock(st))
        /\ NewBlock(st).nextVreg = st.nextVreg
    BY NewBlockGrows
  <2>2. Typed(NewBlock(st))
    BY <2>1 DEF Grows
  <2>3. /\ Grows(NewBlock(st), StartBlock(NewBlock(st), st.nb))
        /\ StartBlock(NewBlock(st), st.nb).nextVreg = NewBlock(st).nextVreg
        /\ StartBlock(NewBlock(st), st.nb).sealed = FALSE
    BY <2>1, <2>2, StartGrows
  <2>4. Grows(st, StartBlock(NewBlock(st), st.nb))
    BY <2>1, <2>3, GrowsOn
  <2> QED BY <1>1, <2>1, <2>3, <2>4 DEF EnsureOpen
<1>2. CASE ~st.sealed
  <2>1. st.sealed = FALSE /\ st.nb \in Nat /\ st.nextVreg \in Nat
    BY <1>2 DEF Typed
  <2> QED BY <2>1 DEF EnsureOpen, Grows
<1> QED BY <1>1, <1>2

(* One block is rewritten.                                                 *)
LEMMA Rewritten ==
  ASSUME NEW st, Typed(st), NEW o, DOMAIN o = DOMAIN st, o.nb = st.nb, o.cur = st.cur,
         o.sealed \in BOOLEAN, o.nextVreg = st.nextVreg, o.loops = st.loops,
         o.irId = st.irId, NEW bb, o.blocks = [st.blocks EXCEPT ![st.cur] = bb],
         CodeOK(bb, st.nb, st.nextVreg)
  PROVE  Grows(st, o)
<1>1. st.nb \in Nat \ {0} /\ st.nextVreg \in Nat /\ st.cur \in Places(st)
      /\ Places(o) = Places(st) /\ DOMAIN st.blocks = Places(st)
  BY DEF Typed, Places
<1>2. \A k \in Places(st) : o.blocks[k] = IF k = st.cur THEN bb ELSE st.blocks[k]
  BY <1>1
<1>3. \A k \in Places(st) : CodeOK(o.blocks[k], o.nb, o.nextVreg)
  BY <1>2 DEF Typed
<1>4. o.blocks = [k \in Places(st) |-> o.blocks[k]]
  BY <1>1
<1>5. Typed(o)
  BY <1>1, <1>3, <1>4 DEF Typed
<1> QED BY <1>1, <1>5 DEF Grows

LEMMA EmitGrows ==
  ASSUME NEW st, Typed(st), NEW in \in Insts(Temps(st)),
         in.op \notin {"StoreGlobal", "Call"} => in.dst # NoReg,
         in.op = "StoreGlobal" => in.dst = NoReg
  PROVE  Grows(st, Emit(st, in)) /\ Emit(st, in).nextVreg = st.nextVreg
<1> DEFINE o == EnsureOpen(st)
           e == Emit(st, in)
           bb == [o.blocks[o.cur] EXCEPT !.insts = Append(@, in)]
           is == o.blocks[o.cur].insts
<1>1. Grows(st, o) /\ o.nextVreg = st.nextVreg /\ Typed(o)
  BY EnsureOpenGrows DEF Grows
<1>2. e = [o EXCEPT !.blocks[o.cur].insts = Append(@, in)]
  BY DEF Emit
<1> HIDE DEF o, e
<1>3. CodeOK(o.blocks[o.cur], o.nb, o.nextVreg) /\ o.cur \in Places(o)
  BY <1>1 DEF Typed
<1>4. is \in Seq(Insts(Temps(st))) /\ o.blocks[o.cur] \in BasicBlocks(Temps(st))
  BY <1>1, <1>3 DEF CodeOK, Temps, BasicBlocks
<1>5. /\ DOMAIN e = DOMAIN o /\ e.nb = o.nb /\ e.cur = o.cur /\ e.sealed = o.sealed
      /\ e.nextVreg = o.nextVreg /\ e.loops = o.loops /\ e.irId = o.irId
      /\ e.blocks = [o.blocks EXCEPT ![o.cur] = bb]
  BY <1>1, <1>2 DEF Typed
<1>6. bb \in BasicBlocks(Temps(st)) /\ Succs(bb) = Succs(o.blocks[o.cur])
      /\ bb.insts = Append(is, in)
  <2> DEFINE vs == Temps(st)
  <2> HIDE DEF vs
  <2>1. Append(is, in) \in Seq(Insts(vs))
    BY <1>4 DEF vs
  <2>2. o.blocks[o.cur] \in BasicBlocks(vs)
    BY <1>4 DEF vs
  <2>3. bb \in BasicBlocks(vs) /\ bb.insts = Append(is, in)
    BY <2>1, <2>2 DEF BasicBlocks
  <2>4. Succs(bb) = Succs(o.blocks[o.cur])
    BY <2>2 DEF BasicBlocks, Succs
  <2> QED BY <2>3, <2>4 DEF vs
<1> HIDE DEF bb, is
<1>7. Results(bb)
  <2>1. /\ DOMAIN Append(is, in) = 1 .. Len(is) + 1 /\ Len(is) \in Nat
        /\ DOMAIN is = 1 .. Len(is)
        /\ \A i \in 1 .. Len(is) : Append(is, in)[i] = is[i]
        /\ Append(is, in)[Len(is) + 1] = in
    BY <1>4
  <2>2. \A i \in DOMAIN Append(is, in) : i \in DOMAIN is \/ i = Len(is) + 1
    BY <2>1
  <2>3. \A i \in DOMAIN is : /\ is[i].op \notin {"StoreGlobal", "Call"} => is[i].dst # NoReg
                             /\ is[i].op = "StoreGlobal" => is[i].dst = NoReg
    BY <1>3 DEF CodeOK, Results, is
  <2> QED BY <1>6, <2>1, <2>2, <2>3 DEF Results
<1>8. CodeOK(bb, o.nb, o.nextVreg)
  BY <1>1, <1>3, <1>6, <1>7 DEF CodeOK, Temps
<1>9. Grows(o, e)
  <2>1. e.sealed \in BOOLEAN
    BY <1>1, <1>5 DEF Typed
  <2> QED BY <1>1, <1>5, <1>8, <2>1, Rewritten
<1>10. Grows(st, e)
  BY <1>1, <1>9, GrowsOn
<1> QED BY <1>1, <1>5, <1>10 DEF e

LEMMA TerminateGrows ==
  ASSUME NEW st, Typed(st), NEW bb, CodeOK(bb, st.nb, st.nextVreg)
  PROVE  Grows(st, Terminate(st, bb)) /\ Terminate(st, bb).nextVreg = st.nextVreg
<1> DEFINE o == EnsureOpen(st)
           e == Terminate(st, bb)
           is == o.blocks[o.cur].insts
           cc == [bb EXCEPT !.insts = is]
<1>1. Grows(st, o) /\ o.nextVreg = st.nextVreg /\ Typed(o) /\ st.nb =< o.nb
  BY EnsureOpenGrows DEF Grows
<1>2. e = [o EXCEPT !.blocks[o.cur] = cc, !.sealed = TRUE]
  BY DEF Terminate
<1> HIDE DEF o, e
<1>3. CodeOK(o.blocks[o.cur], o.nb, o.nextVreg) /\ o.cur \in Places(o)
      /\ o.nb \in Nat /\ st.nb \in Nat /\ st.nextVreg \in Nat
  BY <1>1 DEF Typed
<1>4. CodeOK(bb, o.nb, o.nextVreg)
  BY <1>1, <1>3, CodeWidens
<1>5. /\ DOMAIN e = DOMAIN o /\ e.nb = o.nb /\ e.cur = o.cur /\ e.sealed = TRUE
      /\ e.nextVreg = o.nextVreg /\ e.loops = o.loops /\ e.irId = o.irId
      /\ e.blocks = [o.blocks EXCEPT ![o.cur] = cc]
  BY <1>1, <1>2 DEF Typed
<1>6. CodeOK(cc, o.nb, o.nextVreg)
  <2> DEFINE vs == 0 .. o.nextVreg - 1
  <2> HIDE DEF vs
  <2>1. bb \in BasicBlocks(vs) /\ is \in Seq(Insts(vs)) /\ Results(o.blocks[o.cur])
    BY <1>3, <1>4 DEF CodeOK, BasicBlocks, vs
  <2>2. cc \in BasicBlocks(vs) /\ cc.insts = is
    BY <2>1 DEF BasicBlocks
  <2>3. Succs(cc) = Succs(bb)
    BY <2>1 DEF BasicBlocks, Succs
  <2>4. Results(cc)
    BY <2>1, <2>2 DEF Results
  <2> QED BY <1>4, <2>2, <2>3, <2>4 DEF CodeOK, vs
<1> HIDE DEF cc
<1>7. Grows(o, e)
  <2>1. e.sealed \in BOOLEAN
    BY <1>5
  <2> QED BY <1>1, <1>5, <1>6, <2>1, Rewritten
<1>8. Grows(st, e)
  BY <1>1, <1>7, GrowsOn
<1> QED BY <1>1, <1>5, <1>8 DEF e

-----------------------------------------------------------------------------
(* What has been written.  A says for every block which vregs have been    *)
(* written on every path to it.  Code must read no others, and a jump must *)
(* lead to a block that asks for no others.                                *)
Dsts(bb) == {bb.insts[i].dst : i \in DOMAIN bb.insts} \ {NoReg}

FlowOK(bb, X, A) ==
  /\ \A m \in DOMAIN bb.insts :
       InstUses(bb.insts[m]) \subseteq X \cup {bb.insts[i].dst : i \in 1 .. m - 1}
  /\ TermUses(bb) \subseteq X \cup Dsts(bb)
  /\ \A t \in Succs(bb) : A[t] \subseteq X \cup Dsts(bb)

Shown(st, A) ==
  /\ A \in [Places(st) -> SUBSET Temps(st)]
  /\ \A k \in Places(st) : FlowOK(st.blocks[k], A[k], A)

(* What has been written where the next instruction goes: anything, if     *)
(* nothing leads there.                                                    *)
At(st, A) == IF st.sealed THEN Temps(st) ELSE A[st.cur] \cup Dsts(st.blocks[st.cur])

Carries(a, A, b, B) ==
  /\ Grows(a, b) /\ Shown(b, B) /\ At(a, A) \subseteq At(b, B)
  /\ \A k \in Places(a) : B[k] = A[k]

LEMMA CarriesOn ==
  ASSUME NEW a, NEW A, NEW b, NEW B, NEW c, NEW C, Typed(a),
         Carries(a, A, b, B), Carries(b, B, c, C)
  PROVE  Carries(a, A, c, C)
<1>1. Grows(a, c)
  BY GrowsOn DEF Carries
<1>2. Places(a) \subseteq Places(b)
  BY DEF Carries, Grows, Typed, Places
<1> QED BY <1>1, <1>2 DEF Carries

LEMMA DstsTyped ==
  ASSUME NEW nb, NEW nv \in Nat, NEW bb, CodeOK(bb, nb, nv)
  PROVE  Dsts(bb) \subseteq 0 .. nv - 1
<1> DEFINE vs == 0 .. nv - 1
<1> HIDE DEF vs
<1>1. bb.insts \in Seq(Insts(vs))
  BY DEF CodeOK, BasicBlocks, vs
<1>2. \A i \in DOMAIN bb.insts : bb.insts[i] \in Insts(vs)
  BY <1>1
<1>3. \A i \in DOMAIN bb.insts : bb.insts[i].dst \in vs \cup {NoReg}
  BY <1>2 DEF Insts
<1> QED BY <1>3 DEF Dsts, vs

LEMMA AtTyped ==
  ASSUME NEW st, NEW A, Typed(st), Shown(st, A)
  PROVE  At(st, A) \subseteq Temps(st)
<1>1. st.cur \in Places(st) /\ st.nextVreg \in Nat
      /\ CodeOK(st.blocks[st.cur], st.nb, st.nextVreg)
  BY DEF Typed
<1>2. Dsts(st.blocks[st.cur]) \subseteq Temps(st)
  BY <1>1, DstsTyped DEF Temps
<1>3. A[st.cur] \subseteq Temps(st)
  BY <1>1 DEF Shown
<1> QED BY <1>2, <1>3 DEF At

LEMMA NewVregCarries ==
  ASSUME NEW st, NEW A, Typed(st), Shown(st, A)
  PROVE  Carries(st, A, NewVreg(st), A)
<1> DEFINE o == NewVreg(st)
<1>1. /\ Grows(st, o) /\ o.nextVreg = st.nextVreg + 1 /\ o.nb = st.nb /\ o.cur = st.cur
      /\ o.sealed = st.sealed /\ o.blocks = st.blocks
  BY NewVregGrows
<1> HIDE DEF o
<1>2. Temps(st) \subseteq Temps(o) /\ Places(o) = Places(st)
  BY <1>1 DEF Typed, Temps, Places
<1>3. A \in [Places(st) -> SUBSET Temps(o)]
  BY <1>2 DEF Shown
<1>4. Shown(o, A)
  BY <1>1, <1>2, <1>3 DEF Shown
<1>5. At(st, A) \subseteq At(o, A)
  BY <1>1, <1>2 DEF At
<1> QED BY <1>1, <1>4, <1>5 DEF Carries, o

(* The new block asks for the vregs in X.                                  *)
Added(st, A, X) == [k \in 0 .. st.nb |-> IF k = st.nb THEN X ELSE A[k]]

LEMMA NewBlockCarries ==
  ASSUME NEW st, NEW A, Typed(st), Shown(st, A), NEW X, X \subseteq Temps(st)
  PROVE  /\ Carries(st, A, NewBlock(st), Added(st, A, X))
         /\ Added(st, A, X)[st.nb] = X
         /\ At(NewBlock(st), Added(st, A, X)) = At(st, A)
         /\ NewBlock(st).nb = st.nb + 1 /\ NewBlock(st).nextVreg = st.nextVreg
<1> DEFINE o == NewBlock(st)
           B == Added(st, A, X)
<1>1. /\ Grows(st, o) /\ o.nb = st.nb + 1 /\ o.nextVreg = st.nextVreg /\ o.cur = st.cur
      /\ o.sealed = st.sealed /\ o.blocks[st.nb] = Open
      /\ \A k \in Places(st) : o.blocks[k] = st.blocks[k]
  BY NewBlockGrows
<1>2. /\ st.nb \in Nat /\ Places(o) = 0 .. st.nb /\ Temps(o) = Temps(st)
      /\ \A k \in Places(o) : k \in Places(st) \/ k = st.nb
      /\ \A k \in Places(st) : k \in 0 .. st.nb /\ k # st.nb
      /\ st.nb \in 0 .. st.nb
  BY <1>1 DEF Typed, Places, Temps
<1> HIDE DEF o
<1>3. B[st.nb] = X /\ \A k \in Places(st) : B[k] = A[k]
  BY <1>2 DEF Added
<1>4. B \in [Places(o) -> SUBSET Temps(o)]
  BY <1>2 DEF Shown, Added
<1> HIDE DEF B
<1>5. ASSUME NEW k \in Places(o) PROVE FlowOK(o.blocks[k], B[k], B)
  <2>1. CASE k = st.nb
    <3>1. FlowOK(Open, B[k], B)
      BY DEF FlowOK, Open, TermUses, Succs
    <3> QED BY <1>1, <2>1, <3>1
  <2>2. CASE k \in Places(st)
    <3>1. Succs(st.blocks[k]) \subseteq Places(st)
      BY <2>2 DEF Typed, CodeOK, Places
    <3>2. FlowOK(st.blocks[k], A[k], A)
      BY <2>2 DEF Shown
    <3>3. FlowOK(st.blocks[k], A[k], B)
      BY <1>3, <3>1, <3>2 DEF FlowOK
    <3> QED BY <1>1, <1>3, <2>2, <3>3
  <2> QED BY <1>2, <2>1, <2>2
<1>6. Shown(o, B)
  BY <1>4, <1>5 DEF Shown
<1>7. At(o, B) = At(st, A)
  <2>1. st.cur \in Places(st)
    BY DEF Typed
  <2> QED BY <1>1, <1>2, <1>3, <2>1 DEF At
<1>8. Carries(st, A, o, B)
  BY <1>1, <1>3, <1>6, <1>7 DEF Carries
<1> QED BY <1>1, <1>3, <1>7, <1>8 DEF o, B

(* A reserved block is entered.                                            *)
LEMMA StartShown ==
  ASSUME NEW st, NEW A, Typed(st), Shown(st, A), NEW id \in Places(st),
         st.blocks[id].insts = << >>
  PROVE  Shown(StartBlock(st, id), A) /\ At(StartBlock(st, id), A) = A[id]
<1> DEFINE o == StartBlock(st, id)
<1>1. /\ o.nb = st.nb /\ o.nextVreg = st.nextVreg /\ o.cur = id /\ o.sealed = FALSE
      /\ o.blocks = st.blocks
  BY StartGrows
<1> HIDE DEF o
<1>2. Dsts(o.blocks[id]) = {}
  BY <1>1 DEF Dsts
<1>3. Shown(o, A)
  BY <1>1 DEF Shown, Places, Temps
<1>4. At(o, A) = A[id]
  BY <1>1, <1>2 DEF At
<1> QED BY <1>3, <1>4 DEF o

LEMMA EnsureOpenCarries ==
  ASSUME NEW st, NEW A, Typed(st), Shown(st, A)
  PROVE  \E B : Carries(st, A, EnsureOpen(st), B)
<1>1. CASE st.sealed
  <2> DEFINE n == NewBlock(st)
             B == Added(st, A, Temps(st))
             o == StartBlock(n, st.nb)
  <2>1. /\ Carries(st, A, n, B) /\ B[st.nb] = Temps(st) /\ Grows(st, n) /\ Shown(n, B)
        /\ At(n, B) = At(st, A)
    BY NewBlockCarries DEF Carries
  <2>2. /\ st.nb \in Places(n) /\ n.blocks[st.nb] = Open /\ Typed(n)
        /\ n.nextVreg = st.nextVreg
    BY NewBlockGrows DEF Grows
  <2>3. n.blocks[st.nb].insts = << >>
    BY <2>2, OpenFields
  <2> HIDE DEF n, B
  <2>4. Shown(o, B) /\ At(o, B) = B[st.nb] /\ Grows(n, o)
    <3>1. Shown(o, B) /\ At(o, B) = B[st.nb]
      BY <2>1, <2>2, <2>3, StartShown
    <3>2. Grows(n, o)
      BY <2>2, StartGrows
    <3> QED BY <3>1, <3>2
  <2>5. At(n, B) = Temps(st)
    BY <1>1, <2>1 DEF At
  <2> HIDE DEF o
  <2>6. Carries(n, B, o, B)
    BY <2>1, <2>4, <2>5 DEF Carries
  <2>7. Carries(st, A, o, B)
    BY <2>1, <2>6, CarriesOn
  <2> QED BY <1>1, <2>7 DEF EnsureOpen, n, o
<1>2. CASE ~st.sealed
  <2>1. EnsureOpen(st) = st
    BY <1>2 DEF EnsureOpen
  <2>2. Carries(st, A, st, A)
    BY DEF Carries, Grows, Typed
  <2> QED BY <2>1, <2>2
<1> QED BY <1>1, <1>2

(* An instruction is appended that reads what has been written.            *)
LEMMA Appended ==
  ASSUME NEW bb, NEW vs, bb \in BasicBlocks(vs), NEW in, NEW X, NEW A, FlowOK(bb, X, A),
         InstUses(in) \subseteq X \cup Dsts(bb),
         NEW cc, cc = [bb EXCEPT !.insts = Append(@, in)]
  PROVE  FlowOK(cc, X, A) /\ Dsts(cc) = Dsts(bb) \cup ({in.dst} \ {NoReg})
<1> DEFINE is == bb.insts
           L == Len(is)
           js == Append(is, in)
<1>1. /\ is \in Seq(Insts(vs)) /\ L \in Nat /\ DOMAIN is = 1 .. L
  BY DEF BasicBlocks
<1>2. /\ DOMAIN js = 1 .. L + 1 /\ js[L + 1] = in
      /\ \A i \in 1 .. L : js[i] = is[i]
  BY <1>1
<1>3. /\ cc.insts = js /\ TermUses(cc) = TermUses(bb) /\ Succs(cc) = Succs(bb)
  BY DEF BasicBlocks, TermUses, Succs
<1> HIDE DEF is, L, js
<1>4. \A i \in 1 .. L + 1 : i \in 1 .. L \/ i = L + 1
  BY <1>1
<1>5. L + 1 \in 1 .. L + 1 /\ 1 .. L \subseteq 1 .. L + 1
  BY <1>1
<1>6. Dsts(cc) = Dsts(bb) \cup ({in.dst} \ {NoReg})
  <2>1. Dsts(cc) = {js[i].dst : i \in 1 .. L + 1} \ {NoReg}
    BY <1>2, <1>3 DEF Dsts
  <2>2. Dsts(bb) = {is[i].dst : i \in 1 .. L} \ {NoReg}
    BY <1>1 DEF Dsts, is
  <2>3. {js[i].dst : i \in 1 .. L + 1} = {is[i].dst : i \in 1 .. L} \cup {in.dst}
    BY <1>2, <1>4, <1>5
  <2> QED BY <2>1, <2>2, <2>3
<1>7. ASSUME NEW m \in 1 .. L + 1
      PROVE  InstUses(js[m]) \subseteq X \cup {js[i].dst : i \in 1 .. m - 1}
  <2>1. m - 1 \in Int /\ m - 1 =< L /\ \A i \in 1 .. m - 1 : i \in 1 .. L
    BY <1>1
  <2>2. {js[i].dst : i \in 1 .. m - 1} = {is[i].dst : i \in 1 .. m - 1}
    BY <1>2, <2>1
  <2>3. CASE m \in 1 .. L
    <3>1. InstUses(is[m]) \subseteq X \cup {is[i].dst : i \in 1 .. m - 1}
      BY <1>1, <2>3 DEF FlowOK, is
    <3> QED BY <1>2, <2>2, <2>3, <3>1
  <2>4. CASE m = L + 1
    <3>1. Dsts(bb) \subseteq {is[i].dst : i \in 1 .. m - 1}
      BY <1>1, <2>4 DEF Dsts, is
    <3> QED BY <1>2, <2>2, <2>4, <3>1
  <2> QED BY <1>4, <2>3, <2>4
<1>8. /\ TermUses(cc) \subseteq X \cup Dsts(cc)
      /\ \A t \in Succs(cc) : A[t] \subseteq X \cup Dsts(cc)
  BY <1>3, <1>6 DEF FlowOK
<1>9. \A m \in DOMAIN cc.insts :
        InstUses(cc.insts[m]) \subseteq X \cup {cc.insts[i].dst : i \in 1 .. m - 1}
  <2>1. cc.insts = js /\ DOMAIN js = 1 .. L + 1
    BY <1>2, <1>3
  <2> QED BY ONLY <2>1, <1>7
<1> QED BY <1>6, <1>8, <1>9 DEF FlowOK

LEMMA EmitCarries ==
  ASSUME NEW st, NEW A, Typed(st), Shown(st, A), NEW in \in Insts(Temps(st)),
         in.op \notin {"StoreGlobal", "Call"} => in.dst # NoReg,
         in.op = "StoreGlobal" => in.dst = NoReg,
         InstUses(in) \subseteq At(st, A)
  PROVE  \E B : /\ Carries(st, A, Emit(st, in), B)
                /\ in.dst # NoReg => in.dst \in At(Emit(st, in), B)
<1> DEFINE o == EnsureOpen(st)
           e == Emit(st, in)
           bb == o.blocks[o.cur]
           cc == [bb EXCEPT !.insts = Append(@, in)]
<1>1. PICK B : Carries(st, A, o, B)
  BY EnsureOpenCarries
<1>2. Grows(st, e) /\ e.nextVreg = st.nextVreg
  BY EmitGrows
<1>3. o.nextVreg = st.nextVreg /\ o.sealed = FALSE
  BY EnsureOpenGrows
<1>4. e = [o EXCEPT !.blocks[o.cur].insts = Append(@, in)]
  BY DEF Emit
<1> HIDE DEF o, e
<1>5. Typed(o) /\ Shown(o, B) /\ Grows(st, o) /\ At(st, A) \subseteq At(o, B)
      /\ \A k \in Places(st) : B[k] = A[k]
  BY <1>1 DEF Carries, Grows
<1>6. /\ e.nb = o.nb /\ e.cur = o.cur /\ e.sealed = o.sealed /\ e.nextVreg = o.nextVreg
      /\ e.loops = o.loops /\ e.irId = o.irId
      /\ e.blocks = [o.blocks EXCEPT ![o.cur] = cc]
  BY <1>4, <1>5 DEF Typed
<1>7. /\ o.cur \in Places(o) /\ DOMAIN o.blocks = Places(o) /\ Places(e) = Places(o)
      /\ Temps(e) = Temps(o) /\ bb \in BasicBlocks(Temps(o))
  BY <1>5, <1>6 DEF Typed, Places, Temps, CodeOK
<1>8. FlowOK(bb, B[o.cur], B) /\ At(o, B) = B[o.cur] \cup Dsts(bb)
  BY <1>3, <1>5, <1>7 DEF Shown, At
<1>9. FlowOK(cc, B[o.cur], B) /\ Dsts(cc) = Dsts(bb) \cup ({in.dst} \ {NoReg})
  <2>1. InstUses(in) \subseteq B[o.cur] \cup Dsts(bb)
    BY <1>5, <1>8
  <2> DEFINE dd == [bb EXCEPT !.insts = Append(@, in)]
             vs == Temps(o)
             X == B[o.cur]
  <2>2. bb \in BasicBlocks(vs) /\ FlowOK(bb, X, B) /\ InstUses(in) \subseteq X \cup Dsts(bb)
    BY <1>7, <1>8, <2>1
  <2> HIDE DEF bb, vs, X
  <2>3. FlowOK(dd, X, B) /\ Dsts(dd) = Dsts(bb) \cup ({in.dst} \ {NoReg})
    BY <2>2, Appended
  <2> QED BY <2>3 DEF X
<1> HIDE DEF bb, cc
<1>10. \A k \in Places(o) : e.blocks[k] = IF k = o.cur THEN cc ELSE o.blocks[k]
  BY <1>6, <1>7
<1>11. Shown(e, B)
  <2>1. \A k \in Places(o) : FlowOK(e.blocks[k], B[k], B)
    <3> TAKE k \in Places(o)
    <3>1. CASE k = o.cur
      BY <1>9, <1>10, <3>1
    <3>2. CASE k # o.cur
      <4>1. FlowOK(o.blocks[k], B[k], B)
        BY <1>5 DEF Shown
      <4> QED BY <1>10, <3>2, <4>1
    <3> QED BY <3>1, <3>2
  <2> QED BY <1>5, <1>7, <2>1 DEF Shown
<1>12. At(e, B) = B[o.cur] \cup Dsts(cc)
  BY <1>3, <1>6, <1>7, <1>10 DEF At
<1>13. At(st, A) \subseteq At(e, B) /\ (in.dst # NoReg => in.dst \in At(e, B))
  BY <1>5, <1>8, <1>9, <1>12
<1>14. Carries(st, A, e, B)
  BY <1>2, <1>5, <1>11, <1>13 DEF Carries
<1> QED BY <1>13, <1>14 DEF e

(* A block is ended by a terminator that reads what has been written and   *)
(* leads to blocks that ask for no more.                                   *)
LEMMA TerminateCarries ==
  ASSUME NEW st, NEW A, Typed(st), Shown(st, A), NEW bb, CodeOK(bb, st.nb, st.nextVreg),
         TermUses(bb) \subseteq At(st, A),
         \A t \in Succs(bb) : A[t] \subseteq At(st, A)
  PROVE  \E B : Carries(st, A, Terminate(st, bb), B)
<1> DEFINE o == EnsureOpen(st)
           e == Terminate(st, bb)
           is == o.blocks[o.cur].insts
           cc == [bb EXCEPT !.insts = is]
<1>1. PICK B : Carries(st, A, o, B)
  BY EnsureOpenCarries
<1>2. Grows(st, e) /\ e.nextVreg = st.nextVreg
  BY TerminateGrows
<1>3. o.nextVreg = st.nextVreg /\ o.sealed = FALSE
  BY EnsureOpenGrows
<1>4. e = [o EXCEPT !.blocks[o.cur] = cc, !.sealed = TRUE]
  BY DEF Terminate
<1> HIDE DEF o, e
<1>5. Typed(o) /\ Shown(o, B) /\ Grows(st, o) /\ At(st, A) \subseteq At(o, B)
      /\ \A k \in Places(st) : B[k] = A[k]
  BY <1>1 DEF Carries, Grows
<1>6. /\ e.nb = o.nb /\ e.cur = o.cur /\ e.sealed = TRUE /\ e.nextVreg = o.nextVreg
      /\ e.blocks = [o.blocks EXCEPT ![o.cur] = cc]
  BY <1>4, <1>5 DEF Typed
<1>7. /\ o.cur \in Places(o) /\ DOMAIN o.blocks = Places(o) /\ Places(e) = Places(o)
      /\ Temps(e) = Temps(o) /\ Succs(bb) \subseteq Places(st)
  BY <1>5, <1>6 DEF Typed, Places, Temps, CodeOK
<1>8. FlowOK(o.blocks[o.cur], B[o.cur], B) /\ At(o, B) = B[o.cur] \cup Dsts(o.blocks[o.cur])
  BY <1>3, <1>5, <1>7 DEF Shown, At
<1>9. cc.insts = is /\ TermUses(cc) = TermUses(bb) /\ Succs(cc) = Succs(bb)
  BY DEF CodeOK, BasicBlocks, TermUses, Succs
<1> HIDE DEF cc
<1>10. Dsts(cc) = Dsts(o.blocks[o.cur])
  BY <1>9 DEF Dsts
<1>11. FlowOK(cc, B[o.cur], B)
  <2>1. \A m \in DOMAIN is :
          InstUses(is[m]) \subseteq B[o.cur] \cup {is[i].dst : i \in 1 .. m - 1}
    BY <1>8 DEF FlowOK
  <2>2. TermUses(cc) \subseteq B[o.cur] \cup Dsts(cc)
    BY <1>5, <1>8, <1>9, <1>10
  <2>3. \A t \in Succs(cc) : B[t] \subseteq B[o.cur] \cup Dsts(cc)
    BY <1>5, <1>7, <1>8, <1>9, <1>10
  <2> QED BY <1>9, <2>1, <2>2, <2>3 DEF FlowOK
<1>12. \A k \in Places(o) : e.blocks[k] = IF k = o.cur THEN cc ELSE o.blocks[k]
  BY <1>6, <1>7
<1>13. Shown(e, B)
  <2>1. \A k \in Places(o) : FlowOK(e.blocks[k], B[k], B)
    <3> TAKE k \in Places(o)
    <3>1. CASE k = o.cur
      BY <1>11, <1>12, <3>1
    <3>2. CASE k # o.cur
      <4>1. FlowOK(o.blocks[k], B[k], B)
        BY <1>5 DEF Shown
      <4> QED BY <1>12, <3>2, <4>1
    <3> QED BY <3>1, <3>2
  <2> QED BY <1>5, <1>7, <2>1 DEF Shown
<1>14. At(st, A) \subseteq At(e, B)
  <2>1. At(st, A) \subseteq Temps(o)
    BY <1>5, AtTyped
  <2> QED BY <1>6, <1>7, <2>1 DEF At
<1>15. Carries(st, A, e, B)
  BY <1>2, <1>5, <1>13, <1>14 DEF Carries
<1> QED BY <1>15 DEF e

(* The four terminators.                                                   *)
LEMMA TermsCarry ==
  ASSUME NEW st, NEW A, Typed(st), Shown(st, A)
  PROVE  /\ \A t \in Places(st) :
              A[t] \subseteq At(st, A) => \E B : Carries(st, A, TermJmp(st, t), B)
         /\ \A c \in Vals(Temps(st)), t, f \in Places(st) :
              /\ OperandRegs(c) \subseteq At(st, A)
              /\ A[t] \subseteq At(st, A) /\ A[f] \subseteq At(st, A)
              => \E B : Carries(st, A, TermBr(st, c, t, f), B)
         /\ \A x \in Vals(Temps(st)) :
              OperandRegs(x) \subseteq At(st, A) => \E B : Carries(st, A, TermRet(st, x), B)
         /\ \E B : Carries(st, A, TermRetVoid(st), B)
<1> DEFINE vs == Temps(st)
<1>1. st.nb \in Nat /\ st.nextVreg \in Nat /\ Places(st) \subseteq Int
  BY DEF Typed, Places
<1>2. Open \in BasicBlocks(vs)
  BY <1>1, OpenOK DEF CodeOK, Temps
<1> HIDE DEF vs
<1>3. ASSUME NEW bb \in BasicBlocks(vs), Succs(bb) \subseteq Places(st), bb.insts = << >>,
             TermUses(bb) \subseteq At(st, A), \A t \in Succs(bb) : A[t] \subseteq At(st, A)
      PROVE  \E B : Carries(st, A, Terminate(st, bb), B)
  <2>1. CodeOK(bb, st.nb, st.nextVreg)
    BY <1>3 DEF CodeOK, Results, Temps, Places, vs
  <2> QED BY <1>3, <2>1, TerminateCarries
<1>4. << >> \in Seq(Insts(vs))
  OBVIOUS
<1>5. ASSUME NEW t \in Places(st), A[t] \subseteq At(st, A)
      PROVE  \E B : Carries(st, A, TermJmp(st, t), B)
  <2>1. Jump(<< >>, t) \in BasicBlocks(vs)
    BY <1>1, <1>2, <1>4 DEF Jump, BasicBlocks
  <2>2. /\ Succs(Jump(<< >>, t)) = {t} /\ Jump(<< >>, t).insts = << >>
        /\ TermUses(Jump(<< >>, t)) = {}
    BY DEF Jump, Succs, Open, TermUses
  <2> QED BY <1>3, <1>5, <2>1, <2>2 DEF TermJmp
<1>6. ASSUME NEW c \in Vals(vs), NEW t \in Places(st), NEW f \in Places(st),
             OperandRegs(c) \subseteq At(st, A), A[t] \subseteq At(st, A),
             A[f] \subseteq At(st, A)
      PROVE  \E B : Carries(st, A, TermBr(st, c, t, f), B)
  <2>1. Branch(<< >>, c, t, f) \in BasicBlocks(vs)
    BY <1>1, <1>2, <1>4 DEF Branch, BasicBlocks
  <2>2. /\ Succs(Branch(<< >>, c, t, f)) = {t, f} /\ Branch(<< >>, c, t, f).insts = << >>
        /\ TermUses(Branch(<< >>, c, t, f)) = OperandRegs(c)
    BY DEF Branch, Succs, Open, TermUses
  <2> QED BY <1>3, <1>6, <2>1, <2>2 DEF TermBr
<1>7. ASSUME NEW x \in Vals(vs), OperandRegs(x) \subseteq At(st, A)
      PROVE  \E B : Carries(st, A, TermRet(st, x), B)
  <2>1. Return(<< >>, x) \in BasicBlocks(vs)
    BY <1>1, <1>2, <1>4 DEF Return, BasicBlocks
  <2>2. /\ Succs(Return(<< >>, x)) = {} /\ Return(<< >>, x).insts = << >>
        /\ TermUses(Return(<< >>, x)) = OperandRegs(x)
    BY DEF Return, Succs, Open, TermUses
  <2> QED BY <1>3, <1>7, <2>1, <2>2 DEF TermRet
<1>8. \E B : Carries(st, A, TermRetVoid(st), B)
  <2>1. ReturnVoid(<< >>) \in BasicBlocks(vs)
    BY <1>1, <1>2, <1>4 DEF ReturnVoid, BasicBlocks
  <2>2. /\ Succs(ReturnVoid(<< >>)) = {} /\ ReturnVoid(<< >>).insts = << >>
        /\ TermUses(ReturnVoid(<< >>)) = {}
    BY DEF ReturnVoid, Succs, Open, TermUses
  <2> QED BY <1>3, <2>1, <2>2 DEF TermRetVoid
<1> QED BY <1>5, <1>6, <1>7, <1>8 DEF vs

-----------------------------------------------------------------------------
(* What the calls on the stack do to one another.  An item takes values    *)
(* from vals and gives one, and pops a loop; it reads symbols and spells   *)
(* out one that the next may read; and it jumps.                           *)
Takes(it) ==
  CASE it.do \in {"value", "br"} -> 1
    [] it.do = "apply" -> Len(it.e.kids)
    [] it.do \notin {"value", "br", "apply"} -> 0

Gives(it) == IF it.do \in {"expr", "apply", "yield"} THEN 1 ELSE 0
Pops(it) == IF it.do = "popLoop" THEN 1 ELSE 0

Reads(it) ==
  CASE it.do = "stmt" -> Free(it.s)
    [] it.do \in {"expr", "cond"} -> Free(it.e)
    [] it.do = "value" -> IF it.s.kind = "Assign" /\ ~IsGlobal(it.s.sym) THEN {it.s.sym.id}
                          ELSE {}
    [] it.do \notin {"stmt", "expr", "cond", "value"} -> {}

Spells(it) == IF it.do \in {"stmt", "value"} /\ it.s.kind = "VarDecl" THEN {it.s.sym.id} ELSE {}

(* The i-th element from the bottom of a stack.                            *)
Bot(s, i) == s[Len(s) - i + 1]

(* The surroundings c of an item: what is asked for at every block, the    *)
(* vregs of the symbols, the loops, the values and the vregs made.  A      *)
(* stage p says how many values there are when the item's turn comes, how  *)
(* few there have been since, how many loops, and which symbols and vregs  *)
(* have been written.                                                      *)
Stages == [vals : Nat, low : Nat, loops : Nat, syms : SUBSET Int, av : SUBSET Int]

Held(ids, X) == {x \in DOMAIN ids : ids[x] \in X \ {NoReg}}
Within(c, n, X) == \A i \in 1 .. n : OperandRegs(Bot(c.vals, i)) \subseteq X

Goals(c, it, p) ==
  CASE it.do = "jmp" -> {it.n[1]}
    [] it.do \in {"cond", "br"} -> {it.n[1], it.n[2]}
    [] it.do = "stmt" -> IF Leaves(it.s)
                         THEN {Bot(c.loops, p.loops).breakBB, Bot(c.loops, p.loops).continueBB}
                         ELSE {}
    [] it.do \notin {"jmp", "cond", "br", "stmt"} -> {}

Counts(it, p, q) ==
  /\ Takes(it) =< p.vals /\ q.vals = p.vals - Takes(it) + Gives(it)
  /\ q.low =< p.low /\ q.low =< p.vals - Takes(it)
  /\ Pops(it) =< p.loops /\ q.loops = p.loops - Pops(it)

Jumps(c, it, p) ==
  /\ it.do = "stmt" /\ Leaves(it.s) => p.loops # 0
  /\ \A t \in Goals(c, it, p) : t \in DOMAIN c.at /\ c.at[t] \subseteq p.av

Lands(c, it, p, q) ==
  IF Fills(it) THEN /\ it.n[1] \in DOMAIN c.at
                    /\ p.vals =< p.low /\ Within(c, p.vals, c.at[it.n[1]])
                    /\ q.syms \subseteq Held(c.ids, c.at[it.n[1]])
                    /\ q.av \subseteq c.at[it.n[1]]
  ELSE q.syms \subseteq p.syms \cup Spells(it) /\ q.av \subseteq p.av

Proper(c, it, p) ==
  /\ it.do = "stmt" => InBlocks(it.s)
  /\ it.do = "value" =>
       /\ it.s.kind \in {"ExprStmt", "Assign", "Return", "VarDecl"}
       /\ it.s.kind = "VarDecl" => it.s.sym.id \in DOMAIN c.ids /\ c.ids[it.s.sym.id] # NoReg
  /\ it.do = "apply" => it.e.kind \in {"Binary", "Unary", "Call"} /\ it.e.op # "Plus"
  /\ it.do = "set" => /\ it.n[4] \in DOMAIN c.at /\ it.n[2] \in c.made /\ it.n[3] \in {0, 1}
                      /\ c.at[it.n[4]] \subseteq c.at[it.n[1]] \cup {it.n[2]}
  /\ it.do = "yield" => it.n[1] \in p.av

(* In the surroundings c the item takes stage p to stage q.                *)
Passes(c, it, p, q) ==
  /\ Counts(it, p, q) /\ Reads(it) \subseteq p.syms
  /\ Jumps(c, it, p) /\ Lands(c, it, p, q) /\ Proper(c, it, p)

(* Stage p promises no more than stage q.                                  *)
Under(p, q) ==
  /\ p.vals = q.vals /\ p.low =< q.low /\ p.loops = q.loops
  /\ p.syms \subseteq q.syms /\ p.av \subseteq q.av

(* A stack of items that can go ahead from stage p, and lead to stage q.   *)
Track(c, w, tr) ==
  /\ tr \in [0 .. Len(w) -> Stages]
  /\ \A k \in 1 .. Len(w) : Passes(c, w[k], tr[k - 1], tr[k])

Goes(c, w, p) == \E tr : Track(c, w, tr) /\ Under(tr[0], p)
Runs(c, w, p, q) == \E tr : Track(c, w, tr) /\ Under(tr[0], p) /\ Under(q, tr[Len(w)])

(* The surroundings d agree with c on all that items from stage p on see.  *)
Extends(c, d, p) ==
  /\ DOMAIN c.at \subseteq DOMAIN d.at /\ \A k \in DOMAIN c.at : d.at[k] = c.at[k]
  /\ DOMAIN d.ids = DOMAIN c.ids
  /\ \A x \in DOMAIN c.ids : c.ids[x] # NoReg => d.ids[x] = c.ids[x]
  /\ \A i \in 1 .. p.low : Bot(d.vals, i) = Bot(c.vals, i)
  /\ \A i \in 1 .. p.loops : Bot(d.loops, i) = Bot(c.loops, i)
  /\ c.made \subseteq d.made

LEMMA UnderOn ==
  ASSUME NEW p \in Stages, NEW q \in Stages, NEW r \in Stages, Under(p, q), Under(q, r)
  PROVE  Under(p, r)
BY DEF Under, Stages

LEMMA UnderSelf ==
  ASSUME NEW p \in Stages
  PROVE  Under(p, p)
BY DEF Under, Stages

LEMMA TakesNat ==
  ASSUME NEW it \in Items
  PROVE  Takes(it) \in Nat /\ Gives(it) \in Nat /\ Pops(it) \in Nat
<1>1. it.e \in Exprs
  BY DEF Items, AnyItem
<1>2. Len(it.e.kids) \in Nat
  BY <1>1, TreesAssumption
<1>3. Takes(it) \in Nat
  BY <1>2 DEF Takes
<1> QED BY <1>3 DEF Gives, Pops

(* More at the start and less at the end will do.                          *)
LEMMA PassesEases ==
  ASSUME NEW c, NEW it \in Items, NEW p \in Stages, NEW q \in Stages, NEW r \in Stages,
         NEW s \in Stages, Passes(c, it, p, q), Under(p, r), Under(s, q)
  PROVE  Passes(c, it, r, s)
<1>1. /\ p.vals \in Nat /\ p.low \in Nat /\ p.loops \in Nat
      /\ q.vals \in Nat /\ q.low \in Nat /\ q.loops \in Nat
      /\ r.vals \in Nat /\ r.low \in Nat /\ r.loops \in Nat
      /\ s.vals \in Nat /\ s.low \in Nat /\ s.loops \in Nat
  BY DEF Stages
<1>2. /\ p.vals = r.vals /\ p.low =< r.low /\ p.loops = r.loops
      /\ s.vals = q.vals /\ s.low =< q.low /\ s.loops = q.loops
      /\ p.syms \subseteq r.syms /\ p.av \subseteq r.av
      /\ s.syms \subseteq q.syms /\ s.av \subseteq q.av
  BY DEF Under
<1>3. Counts(it, r, s)
  BY <1>1, <1>2, TakesNat DEF Counts, Passes
<1>4. Reads(it) \subseteq r.syms
  BY <1>2 DEF Passes
<1>5. Jumps(c, it, r)
  <2>1. Goals(c, it, r) = Goals(c, it, p)
    BY <1>2 DEF Goals
  <2>2. Jumps(c, it, p)
    BY DEF Passes
  <2> QED BY <1>2, <2>1, <2>2 DEF Jumps
<1>6. Lands(c, it, r, s)
  <2>1. Lands(c, it, p, q)
    BY DEF Passes
  <2>2. CASE Fills(it)
    <3>1. r.vals =< r.low
      BY <1>1, <1>2, <2>1, <2>2 DEF Lands
    <3> QED BY <1>2, <2>1, <2>2, <3>1 DEF Lands
  <2>3. CASE ~Fills(it)
    BY <1>2, <2>1, <2>3 DEF Lands
  <2> QED BY <2>2, <2>3
<1>7. Proper(c, it, r)
  BY <1>2 DEF Passes, Proper
<1> QED BY <1>3, <1>4, <1>5, <1>6, <1>7 DEF Passes

(* The low-water mark and the loops only fall.                             *)
LEMMA Falls ==
  ASSUME NEW c, NEW w \in Seq(Items), NEW tr, Track(c, w, tr)
  PROVE  \A k \in 0 .. Len(w) : tr[k].low =< tr[0].low /\ tr[k].loops =< tr[0].loops
<1> DEFINE D == {n \in Nat : n =< Len(w) => /\ tr[n].low =< tr[0].low
                                            /\ tr[n].loops =< tr[0].loops}
<1>0. Len(w) \in Nat /\ tr \in [0 .. Len(w) -> Stages] /\ \A k \in 1 .. Len(w) : w[k] \in Items
  BY DEF Track
<1>1. \A k \in 0 .. Len(w) : tr[k].low \in Nat /\ tr[k].loops \in Nat
  BY <1>0 DEF Stages
<1>2. 0 \in D
  BY <1>0, <1>1
<1>3. ASSUME NEW n \in Nat, n \in D PROVE n + 1 \in D
  <2> SUFFICES ASSUME n + 1 =< Len(w)
               PROVE  tr[n + 1].low =< tr[0].low /\ tr[n + 1].loops =< tr[0].loops
    OBVIOUS
  <2>1. n + 1 \in 1 .. Len(w) /\ (n + 1) - 1 = n /\ n \in 0 .. Len(w) /\ n + 1 \in 0 .. Len(w)
        /\ n =< Len(w) /\ 0 \in 0 .. Len(w)
    BY <1>0
  <2>2. Passes(c, w[n + 1], tr[n], tr[n + 1])
    <3>1. Passes(c, w[n + 1], tr[(n + 1) - 1], tr[n + 1])
      BY <2>1 DEF Track
    <3> QED BY <2>1, <3>1
  <2>3. Pops(w[n + 1]) \in Nat
    BY <1>0, <2>1, TakesNat
  <2>4. tr[n + 1].low =< tr[n].low /\ tr[n + 1].loops = tr[n].loops - Pops(w[n + 1])
    BY <2>2 DEF Passes, Counts
  <2>5. tr[n].low =< tr[0].low /\ tr[n].loops =< tr[0].loops
    BY <1>3, <2>1
  <2> QED BY <1>1, <2>1, <2>3, <2>4, <2>5
<1> HIDE DEF D
<1>4. \A n \in Nat : n \in D
  BY <1>2, <1>3, Upward
<1>5. \A k \in 0 .. Len(w) : k \in Nat /\ k =< Len(w)
  BY <1>0
<1> QED BY <1>4, <1>5 DEF D

LEMMA PassesKeeps ==
  ASSUME NEW c, NEW d, NEW it \in Items, NEW p \in Stages, NEW q \in Stages,
         Passes(c, it, p, q), Extends(c, d, p)
  PROVE  Passes(d, it, p, q)
<1>1. /\ \A k \in DOMAIN c.at : k \in DOMAIN d.at /\ d.at[k] = c.at[k]
      /\ DOMAIN d.ids = DOMAIN c.ids
      /\ \A x \in DOMAIN c.ids : c.ids[x] # NoReg => d.ids[x] = c.ids[x]
      /\ \A i \in 1 .. p.low : Bot(d.vals, i) = Bot(c.vals, i)
      /\ \A i \in 1 .. p.loops : Bot(d.loops, i) = Bot(c.loops, i)
      /\ c.made \subseteq d.made
  BY DEF Extends
<1>2. p.vals \in Nat /\ p.low \in Nat /\ p.loops \in Nat
  BY DEF Stages
<1>3. Jumps(d, it, p)
  <2>1. Jumps(c, it, p)
    BY DEF Passes
  <2>2. Goals(d, it, p) = Goals(c, it, p)
    <3>1. CASE it.do = "stmt" /\ Leaves(it.s)
      <4>1. p.loops \in 1 .. p.loops
        BY <1>2, <2>1, <3>1 DEF Jumps
      <4> QED BY <1>1, <3>1, <4>1 DEF Goals
    <3>2. CASE ~(it.do = "stmt" /\ Leaves(it.s))
      BY <3>2 DEF Goals
    <3> QED BY <3>1, <3>2
  <2> QED BY <1>1, <2>1, <2>2 DEF Jumps
<1>4. \A X : Held(c.ids, X) \subseteq Held(d.ids, X)
  BY <1>1 DEF Held
<1>5. Lands(d, it, p, q)
  <2>1. Lands(c, it, p, q)
    BY DEF Passes
  <2>2. CASE Fills(it)
    <3> DEFINE t == it.n[1]
    <3>1. /\ t \in DOMAIN c.at /\ p.vals =< p.low /\ Within(c, p.vals, c.at[t])
          /\ q.syms \subseteq Held(c.ids, c.at[t]) /\ q.av \subseteq c.at[t]
      BY <2>1, <2>2 DEF Lands
    <3>2. t \in DOMAIN d.at /\ d.at[t] = c.at[t]
      BY <1>1, <3>1
    <3>3. \A i \in 1 .. p.vals : i \in 1 .. p.low
      BY <1>2, <3>1
    <3>4. Within(d, p.vals, c.at[t])
      BY <1>1, <3>1, <3>3 DEF Within
    <3> QED BY <1>4, <2>2, <3>1, <3>2, <3>4 DEF Lands
  <2>3. CASE ~Fills(it)
    BY <2>1, <2>3 DEF Lands
  <2> QED BY <2>2, <2>3
<1>6. Proper(d, it, p)
  <2>1. Proper(c, it, p)
    BY DEF Passes
  <2>2. it.do = "set" => it.n[1] \in DOMAIN c.at
    <3>1. Lands(c, it, p, q)
      BY DEF Passes
    <3> QED BY <3>1 DEF Lands, Fills
  <2> QED BY <1>1, <2>1, <2>2 DEF Proper
<1> QED BY <1>3, <1>5, <1>6 DEF Passes

(* What goes ahead in some surroundings does in those that extend them.    *)
LEMMA GoesKeeps ==
  ASSUME NEW c, NEW d, NEW w \in Seq(Items), NEW p \in Stages, Goes(c, w, p),
         Extends(c, d, p)
  PROVE  Goes(d, w, p)
<1>1. PICK tr : Track(c, w, tr) /\ Under(tr[0], p)
  BY DEF Goes
<1>2. Len(w) \in Nat /\ tr \in [0 .. Len(w) -> Stages] /\ \A k \in 1 .. Len(w) : w[k] \in Items
  BY <1>1 DEF Track
<1>3. \A k \in 0 .. Len(w) : tr[k].low =< tr[0].low /\ tr[k].loops =< tr[0].loops
  BY <1>1, Falls
<1>4. ASSUME NEW k \in 0 .. Len(w) PROVE Extends(c, d, tr[k])
  <2>1. /\ tr[k].low \in Nat /\ tr[k].loops \in Nat /\ tr[0].low \in Nat /\ tr[0].loops \in Nat
        /\ p.low \in Nat /\ p.loops \in Nat
    BY <1>2 DEF Stages
  <2>2. tr[k].low =< p.low /\ tr[k].loops =< p.loops
    BY <1>1, <1>3, <2>1 DEF Under
  <2>3. 1 .. tr[k].low \subseteq 1 .. p.low /\ 1 .. tr[k].loops \subseteq 1 .. p.loops
    BY <2>1, <2>2
  <2> QED BY <2>3 DEF Extends
<1>5. ASSUME NEW k \in 1 .. Len(w) PROVE Passes(d, w[k], tr[k - 1], tr[k])
  <2>1. k - 1 \in 0 .. Len(w) /\ k \in 0 .. Len(w)
    BY <1>2
  <2>2. tr[k - 1] \in Stages /\ tr[k] \in Stages /\ w[k] \in Items
    BY <1>2, <2>1
  <2>3. Passes(c, w[k], tr[k - 1], tr[k])
    BY <1>1 DEF Track
  <2>4. Extends(c, d, tr[k - 1])
    BY <1>4, <2>1
  <2> QED BY <2>2, <2>3, <2>4, PassesKeeps
<1>6. Track(d, w, tr)
  BY <1>2, <1>5 DEF Track
<1> QED BY <1>1, <1>6 DEF Goes

(* The item on top goes first.                                             *)
LEMMA GoesFirst ==
  ASSUME NEW c, NEW w \in Seq(Items), w # << >>, NEW p \in Stages, Goes(c, w, p)
  PROVE  \E r \in Stages : Passes(c, w[1], p, r) /\ Goes(c, Tail(w), r)
<1> DEFINE L == Len(w)
           v == Tail(w)
<1>1. PICK tr : Track(c, w, tr) /\ Under(tr[0], p)
  BY DEF Goes
<1>2. /\ L \in Nat \ {0} /\ Len(v) = L - 1 /\ tr \in [0 .. L -> Stages] /\ v \in Seq(Items)
      /\ \A k \in 1 .. L - 1 : v[k] = w[k + 1]
      /\ w[1] \in Items
  BY <1>1 DEF Track
<1>3. \A k \in 1 .. L : Passes(c, w[k], tr[k - 1], tr[k])
  BY <1>1 DEF Track
<1> HIDE DEF L, v
<1>4. 1 \in 1 .. L /\ 0 \in 0 .. L /\ 1 \in 0 .. L /\ 1 - 1 = 0
  BY <1>2
<1>5. tr[0] \in Stages /\ tr[1] \in Stages
  BY <1>2, <1>4
<1>6. Passes(c, w[1], tr[0], tr[1])
  BY <1>3, <1>4
<1>7. Passes(c, w[1], p, tr[1])
  BY <1>1, <1>2, <1>5, <1>6, PassesEases, UnderSelf
<1> DEFINE ur == [k \in 0 .. L - 1 |-> tr[k + 1]]
<1>8. \A k \in 0 .. L - 1 : k + 1 \in 0 .. L
  BY <1>2
<1>9. ur \in [0 .. L - 1 -> Stages]
  BY <1>2, <1>8
<1>10. ASSUME NEW k \in 1 .. L - 1 PROVE Passes(c, v[k], ur[k - 1], ur[k])
  <2>1. /\ k + 1 \in 1 .. L /\ (k + 1) - 1 = k /\ k - 1 \in 0 .. L - 1 /\ k \in 0 .. L - 1
        /\ (k - 1) + 1 = k
    BY <1>2
  <2>2. Passes(c, w[k + 1], tr[k], tr[k + 1])
    <3>1. Passes(c, w[k + 1], tr[(k + 1) - 1], tr[k + 1])
      BY <1>3, <2>1
    <3> QED BY <2>1, <3>1
  <2>3. ur[k - 1] = tr[k] /\ ur[k] = tr[k + 1]
    BY <2>1
  <2> QED BY <1>2, <2>2, <2>3
<1>11. ur[0] = tr[1]
  BY <1>2
<1> HIDE DEF ur
<1>12. Track(c, v, ur)
  BY <1>2, <1>9, <1>10 DEF Track
<1>13. Under(ur[0], tr[1])
  BY <1>5, <1>11, UnderSelf
<1> QED BY <1>5, <1>7, <1>12, <1>13 DEF Goes, v

(* Items that lead to a stage from which the rest goes ahead.              *)
LEMMA GoesOn ==
  ASSUME NEW c, NEW w \in Seq(Items), NEW v \in Seq(Items), NEW p \in Stages,
         NEW q \in Stages, Runs(c, w, p, q), Goes(c, v, q)
  PROVE  Goes(c, w \o v, p)
<1> DEFINE L == Len(w)
           N == Len(v)
           u == w \o v
<1>1. PICK tr : Track(c, w, tr) /\ Under(tr[0], p) /\ Under(q, tr[L])
  BY DEF Runs
<1>2. PICK ur : Track(c, v, ur) /\ Under(ur[0], q)
  BY DEF Goes
<1>3. /\ L \in Nat /\ N \in Nat /\ u \in Seq(Items) /\ Len(u) = L + N
      /\ \A k \in 1 .. L : u[k] = w[k] /\ w[k] \in Items
      /\ \A k \in L + 1 .. L + N : u[k] = v[k - L]
  OBVIOUS
<1>4. /\ tr \in [0 .. L -> Stages] /\ \A k \in 1 .. L : Passes(c, w[k], tr[k - 1], tr[k])
      /\ ur \in [0 .. N -> Stages] /\ \A k \in 1 .. N : Passes(c, v[k], ur[k - 1], ur[k])
  BY <1>1, <1>2 DEF Track
<1> HIDE DEF L, N, u
<1>5. 0 \in 0 .. N /\ L \in 0 .. L /\ 0 \in 0 .. L
  BY <1>3
<1>6. ur[0] \in Stages /\ tr[L] \in Stages /\ tr[0] \in Stages
  BY <1>4, <1>5
<1>7. Under(ur[0], tr[L])
  BY <1>1, <1>2, <1>6, UnderOn
<1> DEFINE xr == [k \in 0 .. L + N |-> IF k < L THEN tr[k] ELSE ur[k - L]]
<1>8. \A k \in 0 .. L + N : /\ k < L => k \in 0 .. L /\ xr[k] = tr[k]
                            /\ ~(k < L) => k - L \in 0 .. N /\ xr[k] = ur[k - L]
  BY <1>3
<1>9. xr \in [0 .. L + N -> Stages]
  <2>1. \A k \in 0 .. L + N : (IF k < L THEN tr[k] ELSE ur[k - L]) \in Stages
    BY <1>4, <1>8
  <2> QED BY <2>1
<1> HIDE DEF xr
<1>10. ASSUME NEW k \in 1 .. L + N PROVE Passes(c, u[k], xr[k - 1], xr[k])
  <2>1. k \in 0 .. L + N /\ k - 1 \in 0 .. L + N
    BY <1>3
  <2>2. CASE k < L
    <3>1. k \in 1 .. L /\ k - 1 < L
      BY <1>3, <2>2
    <3>2. xr[k] = tr[k] /\ xr[k - 1] = tr[k - 1] /\ u[k] = w[k]
      BY <1>3, <1>8, <2>1, <2>2, <3>1
    <3> QED BY <1>4, <3>1, <3>2
  <2>3. CASE k = L
    <3>1. k \in 1 .. L /\ k - 1 < L /\ k - L = 0 /\ ~(k < L) /\ k - 1 \in 0 .. L
      BY <1>3, <2>3
    <3>2. xr[k] = ur[0] /\ xr[k - 1] = tr[k - 1] /\ u[k] = w[k] /\ w[k] \in Items
      BY <1>3, <1>8, <2>1, <3>1
    <3>3. Passes(c, w[k], tr[k - 1], tr[L]) /\ tr[k - 1] \in Stages
      BY <1>4, <2>3, <3>1
    <3>4. Under(tr[k - 1], tr[k - 1])
      BY <3>3, UnderSelf
    <3>5. Passes(c, w[k], tr[k - 1], ur[0])
      BY <1>6, <1>7, <3>2, <3>3, <3>4, PassesEases
    <3> QED BY <3>2, <3>5
  <2>4. CASE k > L
    <3>1. /\ k \in L + 1 .. L + N /\ k - L \in 1 .. N /\ (k - L) - 1 = (k - 1) - L
          /\ ~(k < L) /\ ~(k - 1 < L)
      BY <1>3, <2>4
    <3>2. xr[k] = ur[k - L] /\ xr[k - 1] = ur[(k - L) - 1] /\ u[k] = v[k - L]
      BY <1>3, <1>8, <2>1, <3>1
    <3> QED BY <1>4, <3>1, <3>2
  <2>5. k < L \/ k = L \/ k > L
    BY <1>3
  <2> QED BY <2>2, <2>3, <2>4, <2>5
<1>11. xr[0] \in Stages /\ Under(xr[0], p)
  <2>1. 0 \in 0 .. L + N
    BY <1>3
  <2>2. CASE 0 < L
    <3>1. xr[0] = tr[0]
      BY <1>8, <2>1, <2>2
    <3> QED BY <1>1, <1>6, <3>1
  <2>3. CASE L = 0
    <3>1. xr[0] = ur[0]
      BY <1>8, <2>1, <2>3
    <3>2. Under(tr[0], p) /\ Under(ur[0], tr[0])
      BY <1>1, <1>7, <2>3
    <3>3. Under(ur[0], p)
      BY <1>6, <3>2, UnderOn
    <3> QED BY <1>6, <3>1, <3>3
  <2> QED BY <1>3, <2>2, <2>3
<1>12. Track(c, u, xr)
  BY <1>3, <1>9, <1>10 DEF Track
<1> QED BY <1>11, <1>12 DEF Goes, u

LEMMA RunsUnder ==
  ASSUME NEW c, NEW w \in Seq(Items), NEW p \in Stages, NEW q \in Stages, NEW r \in Stages,
         NEW s \in Stages, Runs(c, w, p, q), Under(p, r), Under(s, q)
  PROVE  Runs(c, w, r, s)
<1>1. PICK tr : Track(c, w, tr) /\ Under(tr[0], p) /\ Under(q, tr[Len(w)])
  BY DEF Runs
<1>2. tr[0] \in Stages /\ tr[Len(w)] \in Stages
  <2>1. Len(w) \in Nat /\ tr \in [0 .. Len(w) -> Stages]
    BY <1>1 DEF Track
  <2>2. 0 \in 0 .. Len(w) /\ Len(w) \in 0 .. Len(w)
    BY <2>1
  <2> QED BY <2>1, <2>2
<1>3. Under(tr[0], r)
  BY <1>1, <1>2, UnderOn
<1>4. Under(s, tr[Len(w)])
  BY <1>1, <1>2, UnderOn
<1> QED BY <1>1, <1>3, <1>4 DEF Runs

LEMMA RunsEmpty ==
  ASSUME NEW c, NEW p \in Stages, NEW q \in Stages, Under(q, p)
  PROVE  Runs(c, << >>, p, q)
<1> DEFINE tr == [k \in 0 .. 0 |-> p]
<1>1. Track(c, << >>, tr) /\ tr[0] = p /\ Len(<< >>) = 0
  BY DEF Track
<1>2. Under(p, p)
  BY UnderSelf
<1> QED BY <1>1, <1>2 DEF Runs

(* Items that each leave the stage as it is.                               *)
LEMMA Steady ==
  ASSUME NEW c, NEW w \in Seq(Items), NEW p \in Stages,
         \A k \in 1 .. Len(w) : Passes(c, w[k], p, p)
  PROVE  Runs(c, w, p, p)
<1> DEFINE tr == [k \in 0 .. Len(w) |-> p]
<1>1. Len(w) \in Nat
  OBVIOUS
<1>2. \A k \in 1 .. Len(w) : k \in 0 .. Len(w) /\ k - 1 \in 0 .. Len(w)
  BY <1>1
<1>3. 0 \in 0 .. Len(w) /\ Len(w) \in 0 .. Len(w)
  BY <1>1
<1>4. Track(c, w, tr) /\ tr[0] = p /\ tr[Len(w)] = p
  BY <1>2, <1>3 DEF Track
<1>5. Under(p, p)
  BY UnderSelf
<1> QED BY <1>4, <1>5 DEF Runs

-----------------------------------------------------------------------------
(* The invariant.  The builder and the values are typed, and only what has *)
(* been written is a value; the symbols that are still to be declared have *)
(* no vreg, and no two items declare the same; and the items can go ahead  *)
(* from the stage that the builder is at.                                  *)
Decl(it) == IF it.do = "stmt" THEN Declares(it.s) ELSE {}

Undeclared(w, ids) ==
  /\ \A k \in DOMAIN w : Decl(w[k]) \subseteq {x \in DOMAIN ids : ids[x] = NoReg}
  /\ \A i, j \in DOMAIN w : i # j => Decl(w[i]) \cap Decl(w[j]) = {}

Ctx(st, vs, A) ==
  [at |-> A, ids |-> st.irId, loops |-> st.loops, vals |-> vs, made |-> Temps(st)]

Now(st, vs, A) ==
  [vals |-> Len(vs), low |-> Len(vs), loops |-> Len(st.loops),
   syms |-> Held(st.irId, At(st, A)), av |-> At(st, A)]

Good(a, st, vs, A) ==
  /\ a \in Asts /\ Typed(st) /\ Shown(st, A)
  /\ A[0] \subseteq 0 .. a.numParams - 1 /\ a.numParams =< st.nextVreg
  /\ st.irId \in [0 .. a.numSyms - 1 -> Temps(st) \cup {NoReg}]
  /\ vs \in Seq(Vals(Temps(st)))
  /\ \A k \in DOMAIN vs : OperandRegs(vs[k]) \subseteq At(st, A)

Sound(a, st, vs, w, A) ==
  /\ Good(a, st, vs, A) /\ w \in Seq(Items) /\ Undeclared(w, st.irId)
  /\ Goes(Ctx(st, vs, A), w, Now(st, vs, A))

LEMMA NowStage ==
  ASSUME NEW a, NEW st, NEW vs, NEW A, Good(a, st, vs, A)
  PROVE  Now(st, vs, A) \in Stages
<1>1. Len(vs) \in Nat /\ Len(st.loops) \in Nat
  BY DEF Good, Typed
<1>2. Held(st.irId, At(st, A)) \subseteq Int
  <2>1. DOMAIN st.irId = 0 .. a.numSyms - 1 /\ 0 .. a.numSyms - 1 \subseteq Int
    BY DEF Good
  <2> QED BY <2>1 DEF Held
<1>3. At(st, A) \subseteq Int
  <2>1. At(st, A) \subseteq Temps(st)
    BY AtTyped DEF Good
  <2> QED BY <2>1 DEF Temps
<1> QED BY <1>1, <1>2, <1>3 DEF Now, Stages

LEMMA StepSound ==
  ASSUME NEW a, NEW st, NEW vs, NEW w, NEW A, Sound(a, st, vs, w, A), w # << >>,
         NEW its \in Seq(Items), NEW o, NEW us, NEW B, Good(a, o, us, B),
         Undeclared(its \o Tail(w), o.irId),
         \A r \in Stages : Passes(Ctx(st, vs, A), w[1], Now(st, vs, A), r) =>
                             /\ Extends(Ctx(st, vs, A), Ctx(o, us, B), r)
                             /\ Runs(Ctx(o, us, B), its, Now(o, us, B), r)
  PROVE  Sound(a, o, us, its \o Tail(w), B)
<1> DEFINE c == Ctx(st, vs, A)
           p == Now(st, vs, A)
           d == Ctx(o, us, B)
           q == Now(o, us, B)
           v == Tail(w)
<1>1. p \in Stages /\ q \in Stages
  BY NowStage DEF Sound
<1>2. Goes(c, w, p) /\ w \in Seq(Items)
  BY DEF Sound
<1> HIDE DEF c, p, d, q
<1>3. PICK r \in Stages : Passes(c, w[1], p, r) /\ Goes(c, v, r)
  BY <1>1, <1>2, GoesFirst
<1>4. Extends(c, d, r) /\ Runs(d, its, q, r)
  BY <1>3 DEF c, p, d, q
<1>5. v \in Seq(Items)
  BY <1>2
<1> HIDE DEF v
<1>6. Goes(d, v, r)
  BY <1>3, <1>4, <1>5, GoesKeeps
<1>7. Goes(d, its \o v, q)
  BY <1>1, <1>4, <1>5, <1>6, GoesOn
<1>8. its \o v \in Seq(Items)
  BY <1>5
<1> QED BY <1>7, <1>8 DEF Sound, d, q, v

LEMMA UndeclaredOn ==
  ASSUME NEW w \in Seq(Items), w # << >>, NEW its \in Seq(Items), NEW ids, NEW js,
         Undeclared(w, ids), DOMAIN js = DOMAIN ids,
         \A k \in DOMAIN its : Decl(its[k]) \subseteq Decl(w[1]),
         \A i, j \in DOMAIN its : i # j => Decl(its[i]) \cap Decl(its[j]) = {},
         \A x \in DOMAIN ids : js[x] # ids[x] =>
           x \in Decl(w[1]) /\ \A k \in DOMAIN its : x \notin Decl(its[k])
  PROVE  Undeclared(its \o Tail(w), js)
<1> DEFINE u == its \o Tail(w)
           L == Len(its)
           N == Len(w)
<1>1. /\ N \in Nat \ {0} /\ DOMAIN w = 1 .. N /\ L \in Nat /\ DOMAIN its = 1 .. L
      /\ DOMAIN u = 1 .. L + N - 1
      /\ \A k \in 1 .. L : u[k] = its[k]
      /\ \A k \in L + 1 .. L + N - 1 : u[k] = w[k - L + 1]
  OBVIOUS
<1> HIDE DEF u, L, N
<1>2. \A k \in DOMAIN u : \/ k \in 1 .. L /\ u[k] = its[k]
                         \/ /\ k \in L + 1 .. L + N - 1 /\ k - L + 1 \in 2 .. N
                            /\ u[k] = w[k - L + 1]
  BY <1>1
<1>3. /\ 1 \in DOMAIN w
      /\ \A j \in 2 .. N : j \in DOMAIN w /\ j # 1
  BY <1>1
<1>4. \A j \in 2 .. N : Decl(w[1]) \cap Decl(w[j]) = {}
  BY <1>3 DEF Undeclared
<1>5. ASSUME NEW k \in DOMAIN u
      PROVE  Decl(u[k]) \subseteq {x \in DOMAIN js : js[x] = NoReg}
  <2>1. CASE k \in 1 .. L /\ u[k] = its[k]
    BY <1>1, <1>3, <2>1 DEF Undeclared
  <2>2. CASE k - L + 1 \in 2 .. N /\ u[k] = w[k - L + 1]
    <3>1. Decl(u[k]) \subseteq {x \in DOMAIN ids : ids[x] = NoReg}
      BY <1>3, <2>2 DEF Undeclared
    <3>2. Decl(w[1]) \cap Decl(u[k]) = {}
      BY <1>4, <2>2
    <3> QED BY <3>1, <3>2
  <2> QED BY <1>2, <2>1, <2>2
<1>6. ASSUME NEW i \in DOMAIN u, NEW j \in DOMAIN u, i # j
      PROVE  Decl(u[i]) \cap Decl(u[j]) = {}
  <2>1. CASE i \in 1 .. L /\ u[i] = its[i] /\ j \in 1 .. L /\ u[j] = its[j]
    BY <1>1, <1>6, <2>1
  <2>2. CASE i \in 1 .. L /\ u[i] = its[i] /\ j - L + 1 \in 2 .. N /\ u[j] = w[j - L + 1]
    <3>1. Decl(u[i]) \subseteq Decl(w[1]) /\ Decl(w[1]) \cap Decl(u[j]) = {}
      BY <1>1, <1>4, <2>2
    <3> QED BY <3>1
  <2>3. CASE j \in 1 .. L /\ u[j] = its[j] /\ i - L + 1 \in 2 .. N /\ u[i] = w[i - L + 1]
    <3>1. Decl(u[j]) \subseteq Decl(w[1]) /\ Decl(w[1]) \cap Decl(u[i]) = {}
      BY <1>1, <1>4, <2>3
    <3> QED BY <3>1
  <2>4. CASE /\ i - L + 1 \in 2 .. N /\ u[i] = w[i - L + 1]
             /\ j - L + 1 \in 2 .. N /\ u[j] = w[j - L + 1]
    <3>1. i - L + 1 # j - L + 1
      BY <1>1, <1>6
    <3> QED BY <1>3, <2>4, <3>1 DEF Undeclared
  <2> QED BY <1>2, <2>1, <2>2, <2>3, <2>4
<1> QED BY <1>5, <1>6 DEF Undeclared, u

LEMMA GoodKept ==
  ASSUME NEW a, NEW st, NEW vs, NEW A, Good(a, st, vs, A), NEW o, NEW B, Carries(st, A, o, B),
         NEW us \in Seq(Vals(Temps(o))),
         \A k \in DOMAIN us : OperandRegs(us[k]) \subseteq At(o, B)
  PROVE  Good(a, o, us, B)
<1>1. Grows(st, o) /\ Typed(st) /\ Typed(o) /\ Shown(o, B)
  BY DEF Carries, Grows, Good
<1>2. 0 \in Places(st) /\ Temps(st) \subseteq Temps(o) /\ a.numParams =< o.nextVreg
  <2>1. /\ st.nb \in Nat \ {0} /\ st.nextVreg \in Nat /\ o.nextVreg \in Nat
        /\ st.nextVreg =< o.nextVreg /\ a.numParams =< st.nextVreg /\ a.numParams \in Nat
    BY <1>1, TreesAssumption DEF Typed, Grows, Good
  <2> QED BY <2>1 DEF Places, Temps
<1>3. B[0] = A[0] /\ o.irId = st.irId
  BY <1>1, <1>2 DEF Carries, Grows
<1>4. o.irId \in [0 .. a.numSyms - 1 -> Temps(o) \cup {NoReg}]
  BY <1>2, <1>3 DEF Good
<1> QED BY <1>1, <1>2, <1>3, <1>4 DEF Good

LEMMA CarriesExtends ==
  ASSUME NEW a, NEW st, NEW vs, NEW A, Good(a, st, vs, A), NEW o, NEW B, Carries(st, A, o, B),
         NEW us, NEW r, \A i \in 1 .. r.low : Bot(us, i) = Bot(vs, i)
  PROVE  Extends(Ctx(st, vs, A), Ctx(o, us, B), r)
<1>1. Grows(st, o) /\ Typed(st) /\ Typed(o) /\ Shown(o, B) /\ Shown(st, A)
  BY DEF Carries, Grows, Good
<1>2. Places(st) \subseteq Places(o) /\ Temps(st) \subseteq Temps(o)
  <2>1. /\ st.nb \in Nat /\ o.nb \in Nat /\ st.nextVreg \in Nat /\ o.nextVreg \in Nat
        /\ st.nextVreg =< o.nextVreg /\ st.nb =< o.nb
    BY <1>1 DEF Typed, Grows
  <2> QED BY <2>1 DEF Places, Temps
<1>3. DOMAIN A = Places(st) /\ DOMAIN B = Places(o) /\ \A k \in Places(st) : B[k] = A[k]
  BY <1>1 DEF Shown, Carries
<1>4. o.irId = st.irId /\ o.loops = st.loops
  BY <1>1 DEF Grows
<1> QED BY <1>2, <1>3, <1>4 DEF Extends, Ctx

LEMMA NowGrows ==
  ASSUME NEW a, NEW st, NEW vs, NEW A, Good(a, st, vs, A), NEW o, NEW B, Carries(st, A, o, B)
  PROVE  Under(Now(st, vs, A), Now(o, vs, B))
<1>1. o.irId = st.irId /\ o.loops = st.loops /\ At(st, A) \subseteq At(o, B)
  BY DEF Carries, Grows
<1>2. Len(vs) \in Nat
  BY DEF Good
<1> QED BY <1>1, <1>2 DEF Under, Now, Held

(* A call that returns.                                                    *)
LEMMA ReturnSound ==
  ASSUME NEW a, NEW st, NEW vs, NEW w, NEW A, Sound(a, st, vs, w, A), w # << >>,
         ~Fills(w[1]), Pops(w[1]) = 0, NEW o, NEW B, Carries(st, A, o, B),
         NEW us \in Seq(Vals(Temps(o))),
         \A k \in DOMAIN us : OperandRegs(us[k]) \subseteq At(o, B),
         Len(us) = Len(vs) - Takes(w[1]) + Gives(w[1]),
         \A i \in 1 .. Len(vs) - Takes(w[1]) : Bot(us, i) = Bot(vs, i),
         Spells(w[1]) \subseteq Held(o.irId, At(o, B))
  PROVE  Sound(a, o, us, << >> \o Tail(w), B)
<1> DEFINE c == Ctx(st, vs, A)
           p == Now(st, vs, A)
           d == Ctx(o, us, B)
           q == Now(o, us, B)
           its == << >>
<1>1. /\ Good(a, st, vs, A) /\ w \in Seq(Items) /\ Undeclared(w, st.irId)
      /\ its \in Seq(Items) /\ DOMAIN its = {} /\ w[1] \in Items
  BY DEF Sound
<1>2. Good(a, o, us, B)
  BY <1>1, GoodKept
<1>3. o.irId = st.irId /\ o.loops = st.loops /\ At(st, A) \subseteq At(o, B)
  BY DEF Carries, Grows
<1>4. Undeclared(its \o Tail(w), o.irId)
  BY <1>1, <1>3, UndeclaredOn
<1>5. /\ p \in Stages /\ q \in Stages
  BY <1>1, <1>2, NowStage
<1>6. /\ p.vals = Len(vs) /\ p.loops = Len(st.loops) /\ p.av = At(st, A)
      /\ p.syms = Held(st.irId, At(st, A))
      /\ q.vals = Len(us) /\ q.low = Len(us) /\ q.loops = Len(o.loops) /\ q.av = At(o, B)
      /\ q.syms = Held(o.irId, At(o, B))
  BY DEF Now
<1>7. Takes(w[1]) \in Nat /\ Gives(w[1]) \in Nat
  BY <1>1, TakesNat
<1>8. ASSUME NEW r \in Stages, Passes(c, w[1], p, r)
      PROVE  Extends(c, d, r) /\ Runs(d, its, q, r)
  <2>1. Counts(w[1], p, r) /\ r.syms \subseteq p.syms \cup Spells(w[1]) /\ r.av \subseteq p.av
    BY <1>8 DEF Passes, Lands
  <2>2. /\ r.vals \in Nat /\ r.low \in Nat /\ r.loops \in Nat
        /\ Len(vs) \in Nat /\ Len(us) \in Nat /\ Len(st.loops) \in Nat
    BY <1>5, <1>6 DEF Stages
  <2> HIDE DEF p, q
  <2>3. /\ r.vals = Len(us) /\ r.low =< Len(vs) - Takes(w[1]) /\ r.loops = Len(o.loops)
    BY <1>3, <1>6, <1>7, <2>1, <2>2 DEF Counts
  <2>4. r.low =< Len(us)
    BY <1>7, <2>2, <2>3
  <2>5. Held(st.irId, At(st, A)) \subseteq Held(o.irId, At(o, B))
    BY <1>3 DEF Held
  <2>6. Under(r, q)
    BY <1>3, <1>6, <2>1, <2>3, <2>4, <2>5 DEF Under
  <2>7. Runs(d, its, q, r)
    BY <1>5, <2>6, RunsEmpty
  <2>8. \A i \in 1 .. r.low : i \in 1 .. Len(vs) - Takes(w[1])
    BY <1>7, <2>2, <2>3
  <2>9. Extends(c, d, r)
    BY <1>1, <2>8, CarriesExtends
  <2> QED BY <2>7, <2>9
<1>9. Sound(a, o, us, its \o Tail(w), B)
  <2> HIDE DEF its
  <2> QED BY <1>1, <1>2, <1>4, <1>8, StepSound
<1> QED BY <1>9

(* A call that calls, where the values are and all that is written stays.  *)
LEMMA CallSound ==
  ASSUME NEW a, NEW st, NEW vs, NEW w, NEW A, Sound(a, st, vs, w, A), w # << >>,
         NEW o, NEW B, Carries(st, A, o, B), NEW its \in Seq(Items),
         \A k \in DOMAIN its : Decl(its[k]) \subseteq Decl(w[1]),
         \A i, j \in DOMAIN its : i # j => Decl(its[i]) \cap Decl(its[j]) = {},
         \A r \in Stages : Passes(Ctx(st, vs, A), w[1], Now(st, vs, A), r) =>
                             Runs(Ctx(o, vs, B), its, Now(st, vs, A), r)
  PROVE  Sound(a, o, vs, its \o Tail(w), B)
<1> DEFINE c == Ctx(st, vs, A)
           p == Now(st, vs, A)
           d == Ctx(o, vs, B)
           q == Now(o, vs, B)
<1>1. Good(a, st, vs, A) /\ w \in Seq(Items) /\ Undeclared(w, st.irId)
  BY DEF Sound
<1>2. o.irId = st.irId /\ At(st, A) \subseteq At(o, B)
  BY DEF Carries, Grows
<1>3. vs \in Seq(Vals(Temps(o)))
  <2>1. /\ st.nextVreg \in Nat /\ o.nextVreg \in Nat /\ st.nextVreg =< o.nextVreg
        /\ vs \in Seq(Vals(Temps(st)))
    BY <1>1 DEF Good, Carries, Grows, Typed
  <2>2. Seq(Vals(0 .. st.nextVreg - 1)) \subseteq Seq(Vals(0 .. o.nextVreg - 1))
    BY <2>1, ValsWiden
  <2> QED BY <2>1, <2>2 DEF Temps
<1>4. \A k \in DOMAIN vs : OperandRegs(vs[k]) \subseteq At(o, B)
  BY <1>1, <1>2 DEF Good
<1>5. Good(a, o, vs, B)
  BY <1>1, <1>3, <1>4, GoodKept
<1>6. Undeclared(its \o Tail(w), o.irId)
  BY <1>1, <1>2, UndeclaredOn
<1>7. p \in Stages /\ q \in Stages /\ Under(p, q)
  BY <1>1, <1>5, NowStage, NowGrows
<1>8. ASSUME NEW r \in Stages, Passes(c, w[1], p, r)
      PROVE  Extends(c, d, r) /\ Runs(d, its, q, r)
  <2>1. Runs(d, its, p, r)
    BY <1>8
  <2>2. Extends(c, d, r)
    BY <1>1, CarriesExtends
  <2> HIDE DEF c, d, p, q
  <2>3. Under(r, r)
    BY UnderSelf
  <2>4. Runs(d, its, q, r)
    BY <1>7, <2>1, <2>3, RunsUnder
  <2> QED BY <2>2, <2>4
<1> QED BY <1>1, <1>5, <1>6, <1>8, StepSound

-----------------------------------------------------------------------------
TypeInv == out = NoFunc => \E A : Sound(ast, g, vals, work, A)

(* What the item on top may rely on.                                       *)
LEMMA TopSound ==
  ASSUME GenInv, TypeInv, NEW what, Doing(what)
  PROVE  \E A : /\ Sound(ast, g, vals, work, A) /\ Good(ast, g, vals, A)
                /\ Typed(g) /\ Shown(g, A) /\ Takes(Top) =< Len(vals)
                /\ \A x \in Reads(Top) : /\ x \in DOMAIN g.irId /\ g.irId[x] \in At(g, A)
                                         /\ g.irId[x] \in Temps(g)
                /\ Jumps(Ctx(g, vals, A), Top, Now(g, vals, A))
                /\ \A t \in Goals(Ctx(g, vals, A), Top, Now(g, vals, A)) :
                     t \in Places(g) /\ A[t] \subseteq At(g, A)
                /\ Proper(Ctx(g, vals, A), Top, Now(g, vals, A))
                /\ Now(g, vals, A) \in Stages
                /\ \E r \in Stages : Passes(Ctx(g, vals, A), Top, Now(g, vals, A), r)
<1>1. out = NoFunc /\ work \in Seq(Items) /\ work # << >> /\ Top = work[1]
  BY TopFacts
<1>2. PICK A : Sound(ast, g, vals, work, A)
  BY <1>1 DEF TypeInv
<1> DEFINE c == Ctx(g, vals, A)
           p == Now(g, vals, A)
<1>3. Good(ast, g, vals, A) /\ Typed(g) /\ Shown(g, A) /\ Goes(c, work, p)
  BY <1>2 DEF Sound, Good
<1>4. p \in Stages
  BY <1>3, NowStage
<1>5. /\ p.vals = Len(vals) /\ p.syms = Held(g.irId, At(g, A)) /\ p.av = At(g, A)
      /\ c.at = A
  BY DEF Now, Ctx
<1>6. DOMAIN A = Places(g) /\ At(g, A) \subseteq Temps(g)
  BY <1>3, AtTyped DEF Shown
<1> HIDE DEF c, p
<1>7. PICK r \in Stages : Passes(c, work[1], p, r)
  BY <1>1, <1>3, <1>4, GoesFirst
<1>8. Passes(c, Top, p, r)
  BY <1>1, <1>7
<1>9. Takes(Top) =< Len(vals)
  BY <1>5, <1>8 DEF Passes, Counts
<1>10. \A x \in Reads(Top) : /\ x \in DOMAIN g.irId /\ g.irId[x] \in At(g, A)
                             /\ g.irId[x] \in Temps(g)
  BY <1>5, <1>6, <1>8 DEF Passes, Held
<1>11. Jumps(c, Top, p) /\ Proper(c, Top, p)
  BY <1>8 DEF Passes
<1>12. \A t \in Goals(c, Top, p) : t \in Places(g) /\ A[t] \subseteq At(g, A)
  BY <1>5, <1>6, <1>11 DEF Jumps
<1> QED BY <1>2, <1>3, <1>4, <1>8, <1>9, <1>10, <1>11, <1>12 DEF c, p

LEMMA ValsKept ==
  ASSUME NEW a, NEW st, NEW vs, NEW A, Good(a, st, vs, A), NEW o, NEW B, Carries(st, A, o, B)
  PROVE  /\ vs \in Seq(Vals(Temps(o))) /\ \A k \in DOMAIN vs : OperandRegs(vs[k]) \subseteq At(o, B)
         /\ Vals(Temps(st)) \subseteq Vals(Temps(o)) /\ Temps(st) \subseteq Temps(o)
         /\ st.irId = o.irId /\ At(st, A) \subseteq At(o, B)
         /\ Typed(o) /\ Shown(o, B)
<1>1. /\ st.nextVreg \in Nat /\ o.nextVreg \in Nat /\ st.nextVreg =< o.nextVreg
      /\ vs \in Seq(Vals(Temps(st)))
  BY DEF Good, Carries, Grows, Typed
<1>2. /\ Seq(Vals(0 .. st.nextVreg - 1)) \subseteq Seq(Vals(0 .. o.nextVreg - 1))
      /\ Vals(0 .. st.nextVreg - 1) \subseteq Vals(0 .. o.nextVreg - 1)
      /\ 0 .. st.nextVreg - 1 \subseteq 0 .. o.nextVreg - 1
  BY <1>1, ValsWiden
<1>3. vs \in Seq(Vals(Temps(o))) /\ Vals(Temps(st)) \subseteq Vals(Temps(o))
      /\ Temps(st) \subseteq Temps(o)
  BY <1>1, <1>2 DEF Temps
<1>4. /\ st.irId = o.irId /\ At(st, A) \subseteq At(o, B) /\ Typed(o) /\ Shown(o, B)
  BY DEF Carries, Grows
<1> QED BY <1>3, <1>4 DEF Good

Answers(T, X, vs, n, v) ==
  /\ vs \in Seq(T) /\ \A k \in DOMAIN vs : OperandRegs(vs[k]) \subseteq X
  /\ n \in Nat /\ n =< Len(vs) /\ v \in T /\ OperandRegs(v) \subseteq X

Replied(vs, n, v) == <<v>> \o SubSeq(vs, n + 1, Len(vs))

LEMMA Answered ==
  ASSUME NEW T, NEW X, NEW vs, NEW n, NEW v, Answers(T, X, vs, n, v)
  PROVE  /\ Replied(vs, n, v) \in Seq(T)
         /\ \A k \in DOMAIN Replied(vs, n, v) : OperandRegs(Replied(vs, n, v)[k]) \subseteq X
         /\ Len(Replied(vs, n, v)) = Len(vs) - n + 1
         /\ \A i \in 1 .. Len(vs) - n : Bot(Replied(vs, n, v), i) = Bot(vs, i)
<1> DEFINE us == Replied(vs, n, v)
           L == Len(vs)
           t == SubSeq(vs, n + 1, L)
<1>0. /\ vs \in Seq(T) /\ \A k \in DOMAIN vs : OperandRegs(vs[k]) \subseteq X
      /\ n \in Nat /\ n =< Len(vs) /\ v \in T /\ OperandRegs(v) \subseteq X
  BY DEF Answers
<1>1. L \in Nat /\ n =< L /\ DOMAIN vs = 1 .. L
  BY <1>0
<1>2. t \in Seq(T) /\ Len(t) = L - n /\ \A i \in 1 .. L - n : t[i] = vs[n + i]
  <2>1. n + 1 \in 1 .. Len(vs) + 1
    BY <1>0, <1>1
  <2>2. t \in Seq(T)
    BY <1>0, <2>1
  <2>3. Len(t) = L - n
    BY <1>0, <2>1
  <2>4. \A i \in 1 .. L - n : t[i] = vs[n + i]
    BY <1>0, <1>1, <2>1
  <2> QED BY <2>2, <2>3, <2>4
<1>3. /\ us \in Seq(T) /\ Len(us) = L - n + 1 /\ us[1] = v
      /\ \A i \in 2 .. L - n + 1 : us[i] = t[i - 1]
  <2>1. us = <<v>> \o t
    BY DEF Replied
  <2> HIDE DEF L, t, us
  <2>0. v \in T /\ t \in Seq(T) /\ Len(t) = L - n
    BY <1>0, <1>2
  <2>2. <<v>> \in Seq(T) /\ Len(<<v>>) = 1 /\ <<v>>[1] = v
    BY <1>0
  <2>3. us \in Seq(T)
    BY ONLY <2>0, <2>1, <2>2
  <2>4. Len(us) = L - n + 1
    BY ONLY <1>1, <2>0, <2>1, <2>2
  <2>5. us[1] = v /\ \A i \in 2 .. L - n + 1 : us[i] = t[i - 1]
    BY <1>0, <1>1, <1>2, <2>1, <2>2
  <2> QED BY <2>3, <2>4, <2>5
<1> HIDE DEF L, t, us
<1>4. ASSUME NEW i \in 1 .. L - n PROVE Bot(us, i) = Bot(vs, i)
  <2>1. /\ (L - n + 1) - i + 1 \in 2 .. L - n + 1
        /\ ((L - n + 1) - i + 1) - 1 \in 1 .. L - n
        /\ n + (((L - n + 1) - i + 1) - 1) = L - i + 1
    BY <1>0, <1>1
  <2>2. us[(L - n + 1) - i + 1] = vs[L - i + 1]
    BY <1>2, <1>3, <2>1
  <2> QED BY <1>3, <2>2 DEF Bot, L
<1>5. ASSUME NEW k \in DOMAIN us PROVE OperandRegs(us[k]) \subseteq X
  <2>1. DOMAIN us = 1 .. L - n + 1
    BY <1>0, <1>1, <1>3
  <2>2. CASE k = 1
    BY <1>0, <1>3, <2>2
  <2>3. CASE k # 1
    <3>1. k \in 2 .. L - n + 1 /\ k - 1 \in 1 .. L - n /\ n + (k - 1) \in 1 .. L
      BY <1>0, <1>1, <2>1, <2>3
    <3>2. us[k] = vs[n + (k - 1)]
      BY <1>2, <1>3, <3>1
    <3> QED BY <1>0, <1>1, <3>1, <3>2
  <2> QED BY <2>2, <2>3
<1> QED BY <1>3, <1>4, <1>5 DEF L, us

LEMMA Dropped ==
  ASSUME NEW T, NEW vs \in Seq(T), NEW X, \A k \in DOMAIN vs : OperandRegs(vs[k]) \subseteq X,
         1 =< Len(vs)
  PROVE  /\ Tail(vs) \in Seq(T) /\ \A k \in DOMAIN Tail(vs) : OperandRegs(Tail(vs)[k]) \subseteq X
         /\ Len(Tail(vs)) = Len(vs) - 1
         /\ \A i \in 1 .. Len(vs) - 1 : Bot(Tail(vs), i) = Bot(vs, i)
         /\ vs[1] \in T /\ OperandRegs(vs[1]) \subseteq X
<1> DEFINE us == Tail(vs)
           L == Len(vs)
<1>1. /\ L \in Nat \ {0} /\ DOMAIN vs = 1 .. L /\ us \in Seq(T) /\ Len(us) = L - 1
      /\ DOMAIN us = 1 .. L - 1 /\ \A k \in 1 .. L - 1 : us[k] = vs[k + 1]
      /\ vs[1] \in T
  OBVIOUS
<1> HIDE DEF us, L
<1>2. 1 \in 1 .. L /\ \A k \in 1 .. L - 1 : k + 1 \in 1 .. L
  BY <1>1
<1>3. \A k \in DOMAIN us : OperandRegs(us[k]) \subseteq X
  BY <1>1, <1>2
<1>4. ASSUME NEW i \in 1 .. L - 1 PROVE Bot(us, i) = Bot(vs, i)
  <2>1. (L - 1) - i + 1 \in 1 .. L - 1 /\ ((L - 1) - i + 1) + 1 = L - i + 1
    BY <1>1
  <2>2. us[(L - 1) - i + 1] = vs[L - i + 1]
    BY <1>1, <2>1
  <2> QED BY <1>1, <2>2 DEF Bot, L
<1> QED BY <1>1, <1>2, <1>3, <1>4 DEF us, L

LEMMA Returned ==
  ASSUME NEW A, Sound(ast, g, vals, work, A), work # << >>, Top = work[1],
         UNCHANGED ast, work' = << >> \o Tail(work), ~Fills(Top), Pops(Top) = 0,
         NEW B, Carries(g, A, g', B),
         vals' \in Seq(Vals(Temps(g'))),
         \A k \in DOMAIN vals' : OperandRegs(vals'[k]) \subseteq At(g', B),
         Len(vals') = Len(vals) - Takes(Top) + Gives(Top),
         \A i \in 1 .. Len(vals) - Takes(Top) : Bot(vals', i) = Bot(vals, i),
         Spells(Top) \subseteq Held(g'.irId, At(g', B))
  PROVE  TypeInv'
<1>1. Sound(ast, g', vals', << >> \o Tail(work), B)
  BY ReturnSound
<1> QED BY <1>1 DEF TypeInv

(* The values stay.                                                        *)
LEMMA ReturnedSame ==
  ASSUME NEW A, Sound(ast, g, vals, work, A), work # << >>, Top = work[1],
         UNCHANGED <<ast, vals>>, work' = << >> \o Tail(work), ~Fills(Top), Pops(Top) = 0,
         Takes(Top) = 0, Gives(Top) = 0, Spells(Top) = {},
         \E B : Carries(g, A, g', B)
  PROVE  TypeInv'
<1>1. PICK B : Carries(g, A, g', B)
  OBVIOUS
<1>2. Good(ast, g, vals, A)
  BY DEF Sound
<1>3. /\ vals \in Seq(Vals(Temps(g')))
      /\ \A k \in DOMAIN vals : OperandRegs(vals[k]) \subseteq At(g', B)
  BY <1>1, <1>2, ValsKept
<1>4. Len(vals) \in Nat
  BY <1>2 DEF Good
<1>5. Len(vals) = Len(vals) - Takes(Top) + Gives(Top)
  BY <1>4
<1> QED BY <1>1, <1>3, <1>5, Returned

(* A terminator.                                                           *)
LEMMA SoundEnds ==
  ASSUME GenInv, TypeInv, GenReturnVoid \/ GenBreak \/ GenContinue \/ CondConst
  PROVE  TypeInv'
<1> USE DEF Then, Keep
<1>1. PICK what \in {"stmt", "cond"} : Doing(what)
  BY DEF GenReturnVoid, GenBreak, GenContinue, CondConst
<1>2. /\ work # << >> /\ Top = work[1] /\ Top.do = what /\ Top \in Items
  BY <1>1, TopFacts
<1>3. UNCHANGED <<ast, vals>> /\ work' = << >> \o Tail(work)
  BY DEF GenReturnVoid, GenBreak, GenContinue, CondConst
<1>4. PICK A : /\ Sound(ast, g, vals, work, A) /\ Typed(g) /\ Shown(g, A)
               /\ Jumps(Ctx(g, vals, A), Top, Now(g, vals, A))
               /\ \A t \in Goals(Ctx(g, vals, A), Top, Now(g, vals, A)) :
                    t \in Places(g) /\ A[t] \subseteq At(g, A)
  BY <1>1, TopSound
<1>5. /\ \A t \in Places(g) : A[t] \subseteq At(g, A) => \E B : Carries(g, A, TermJmp(g, t), B)
      /\ \E B : Carries(g, A, TermRetVoid(g), B)
  BY <1>4, TermsCarry
<1>6. \E B : Carries(g, A, g', B)
  <2>1. CASE GenReturnVoid
    BY <1>5, <2>1 DEF GenReturnVoid
  <2>2. CASE GenBreak \/ GenContinue
    <3>1. Top.s.kind \in {"Break", "Continue"} /\ Top.do = "stmt" /\ Top.s \in Stmts
      <4>1. Doing("stmt") /\ Top.s.kind \in {"Break", "Continue"}
        BY <2>2 DEF GenBreak, GenContinue
      <4> QED BY <1>2, <4>1 DEF Doing, Items, AnyItem
    <3>2. Leaves(Top.s)
      BY <3>1, ScopeAssumption
    <3> DEFINE c == Ctx(g, vals, A)
               p == Now(g, vals, A)
    <3>3. c.loops = g.loops /\ p.loops = Len(g.loops) /\ Len(g.loops) \in Nat
      BY <1>4 DEF Ctx, Now, Typed
    <3> HIDE DEF c, p
    <3>4. p.loops # 0
      BY <1>4, <3>1, <3>2 DEF Jumps, c, p
    <3>5. Bot(c.loops, p.loops) = Head(g.loops)
      <4>1. Len(g.loops) - Len(g.loops) + 1 = 1
        BY <3>3
      <4> QED BY <3>3, <3>4, <4>1 DEF Bot
    <3>6. Goals(c, Top, p) = {Head(g.loops).breakBB, Head(g.loops).continueBB}
      BY <3>1, <3>2, <3>5 DEF Goals
    <3>7. \E t \in Goals(c, Top, p) : g' = TermJmp(g, t)
      BY <2>2, <3>6 DEF GenBreak, GenContinue
    <3> QED BY <1>4, <1>5, <3>7 DEF c, p
  <2>3. CASE CondConst
    <3>1. Top.do = "cond" /\ \E t \in {Top.n[1], Top.n[2]} : g' = TermJmp(g, t)
      BY <2>3 DEF CondConst, Doing
    <3>2. Goals(Ctx(g, vals, A), Top, Now(g, vals, A)) = {Top.n[1], Top.n[2]}
      BY <3>1 DEF Goals
    <3> QED BY <1>4, <1>5, <3>1, <3>2
  <2> QED BY <2>1, <2>2, <2>3
<1>7. Takes(Top) = 0 /\ Gives(Top) = 0 /\ Pops(Top) = 0 /\ ~Fills(Top)
  BY <1>2 DEF Takes, Gives, Pops, Fills
<1>8. Spells(Top) = {}
  <2>1. Top.do = "stmt" => Top.s.kind # "VarDecl"
    BY DEF GenReturnVoid, GenBreak, GenContinue, CondConst, Doing
  <2> QED BY <1>2, <2>1 DEF Spells
<1> QED BY <1>2, <1>3, <1>4, <1>6, <1>7, <1>8, ReturnedSame

-----------------------------------------------------------------------------
(* The value on top is taken.                                              *)
LEMMA ReturnedPopped ==
  ASSUME NEW A, Sound(ast, g, vals, work, A), work # << >>, Top = work[1],
         UNCHANGED ast, work' = << >> \o Tail(work), vals' = Tail(vals), ~Fills(Top),
         Pops(Top) = 0, Takes(Top) = 1, Gives(Top) = 0, 1 =< Len(vals),
         NEW B, Carries(g, A, g', B), Spells(Top) \subseteq Held(g'.irId, At(g', B))
  PROVE  TypeInv'
<1>1. Good(ast, g, vals, A)
  BY DEF Sound
<1>2. /\ vals \in Seq(Vals(Temps(g')))
      /\ \A k \in DOMAIN vals : OperandRegs(vals[k]) \subseteq At(g', B)
  BY <1>1, ValsKept
<1>3. /\ vals' \in Seq(Vals(Temps(g')))
      /\ \A k \in DOMAIN vals' : OperandRegs(vals'[k]) \subseteq At(g', B)
      /\ Len(vals') = Len(vals) - 1
      /\ \A i \in 1 .. Len(vals) - 1 : Bot(vals', i) = Bot(vals, i)
  <2> DEFINE T == Vals(Temps(g'))
             X == At(g', B)
  <2>1. vals \in Seq(T) /\ \A k \in DOMAIN vals : OperandRegs(vals[k]) \subseteq X
    BY <1>2
  <2> HIDE DEF T, X
  <2>2. /\ vals' \in Seq(T) /\ \A k \in DOMAIN vals' : OperandRegs(vals'[k]) \subseteq X
        /\ Len(vals') = Len(vals) - 1
        /\ \A i \in 1 .. Len(vals) - 1 : Bot(vals', i) = Bot(vals, i)
    BY <2>1, Dropped
  <2> QED BY <2>2 DEF T, X
<1>4. Len(vals) \in Nat
  BY <1>1 DEF Good
<1>5. Len(vals') = Len(vals) - Takes(Top) + Gives(Top)
  BY <1>3, <1>4
<1> QED BY <1>3, <1>5, Returned

(* Values are taken and one is given.                                      *)
LEMMA ReturnedAnswer ==
  ASSUME NEW A, Sound(ast, g, vals, work, A), work # << >>, Top = work[1],
         UNCHANGED ast, work' = << >> \o Tail(work), ~Fills(Top), Pops(Top) = 0,
         NEW n \in Nat, n =< Len(vals), Takes(Top) = n, Gives(Top) = 1, Spells(Top) = {},
         NEW v, Answer(v, n), NEW B, Carries(g, A, g', B),
         v \in Vals(Temps(g')), OperandRegs(v) \subseteq At(g', B)
  PROVE  TypeInv'
<1>1. Good(ast, g, vals, A)
  BY DEF Sound
<1>2. /\ vals \in Seq(Vals(Temps(g')))
      /\ \A k \in DOMAIN vals : OperandRegs(vals[k]) \subseteq At(g', B)
  BY <1>1, ValsKept
<1>3. /\ vals' \in Seq(Vals(Temps(g')))
      /\ \A k \in DOMAIN vals' : OperandRegs(vals'[k]) \subseteq At(g', B)
      /\ Len(vals') = Len(vals) - n + 1
      /\ \A i \in 1 .. Len(vals) - n : Bot(vals', i) = Bot(vals, i)
  <2> DEFINE T == Vals(Temps(g'))
             X == At(g', B)
  <2>1. vals \in Seq(T) /\ \A k \in DOMAIN vals : OperandRegs(vals[k]) \subseteq X
    BY <1>2
  <2>2. v \in T /\ OperandRegs(v) \subseteq X /\ vals' = <<v>> \o SubSeq(vals, n + 1, Len(vals))
    BY DEF Answer
  <2>0. n \in Nat /\ n =< Len(vals)
    OBVIOUS
  <2> HIDE DEF T, X
  <2>3. /\ vals' \in Seq(T) /\ \A k \in DOMAIN vals' : OperandRegs(vals'[k]) \subseteq X
        /\ Len(vals') = Len(vals) - n + 1
        /\ \A i \in 1 .. Len(vals) - n : Bot(vals', i) = Bot(vals, i)
    <3>1. Answers(T, X, vals, n, v) /\ vals' = Replied(vals, n, v)
      BY <2>0, <2>1, <2>2 DEF Answers, Replied
    <3> QED BY <3>1, Answered
  <2> QED BY <2>3 DEF T, X
<1> QED BY <1>3, Returned

LEMMA SoundBranch ==
  ASSUME GenInv, TypeInv, CondBranch
  PROVE  TypeInv'
<1>1. Doing("br") /\ UNCHANGED ast /\ work' = << >> \o Tail(work) /\ vals' = Tail(vals)
      /\ g' = TermBr(g, vals[1], Top.n[1], Top.n[2])
  BY DEF CondBranch, Then, Keep
<1>2. /\ work # << >> /\ Top = work[1] /\ Top.do = "br" /\ Top \in Items
  BY <1>1, TopFacts
<1>3. PICK A : /\ Sound(ast, g, vals, work, A) /\ Typed(g) /\ Shown(g, A)
               /\ Good(ast, g, vals, A) /\ Takes(Top) =< Len(vals)
               /\ \A t \in Goals(Ctx(g, vals, A), Top, Now(g, vals, A)) :
                    t \in Places(g) /\ A[t] \subseteq At(g, A)
  BY <1>1, TopSound
<1>4. /\ Takes(Top) = 1 /\ Gives(Top) = 0 /\ Pops(Top) = 0 /\ ~Fills(Top) /\ Spells(Top) = {}
      /\ Goals(Ctx(g, vals, A), Top, Now(g, vals, A)) = {Top.n[1], Top.n[2]}
  BY <1>2 DEF Takes, Gives, Pops, Fills, Spells, Goals
<1>5. /\ Top.n[1] \in Places(g) /\ A[Top.n[1]] \subseteq At(g, A)
      /\ Top.n[2] \in Places(g) /\ A[Top.n[2]] \subseteq At(g, A)
  BY <1>3, <1>4
<1>6. vals[1] \in Vals(Temps(g)) /\ OperandRegs(vals[1]) \subseteq At(g, A)
  <2>1. 1 =< Len(vals)
    BY <1>3, <1>4
  <2>2. vals # << >> /\ 1 \in DOMAIN vals
    BY <1>3, <2>1 DEF Good
  <2> QED BY <1>3, <2>2 DEF Good
<1>7. PICK B : Carries(g, A, g', B)
  BY <1>1, <1>3, <1>5, <1>6, TermsCarry
<1> QED BY <1>1, <1>2, <1>3, <1>4, <1>7, ReturnedPopped

LEMMA SoundLeaf ==
  ASSUME GenInv, TypeInv, GenLeaf \/ YieldFlag
  PROVE  TypeInv'
<1> DEFINE v == IF GenLeaf
                THEN IF Top.e.isConst THEN Imm(Top.e.constValue) ELSE Reg(g.irId[Top.e.sym.id])
                ELSE Reg(Top.n[1])
<1>1. PICK what \in {"expr", "yield"} : Doing(what)
  BY DEF GenLeaf, YieldFlag
<1>2. UNCHANGED ast /\ work' = << >> \o Tail(work) /\ g' = g /\ Answer(v, 0)
  BY DEF GenLeaf, YieldFlag, Then, Keep
<1>3. /\ work # << >> /\ Top = work[1] /\ Top.do = what /\ Top \in Items
  BY <1>1, TopFacts
<1>4. PICK A : /\ Sound(ast, g, vals, work, A) /\ Typed(g) /\ Shown(g, A)
               /\ Good(ast, g, vals, A) /\ Takes(Top) =< Len(vals)
               /\ \A x \in Reads(Top) : g.irId[x] \in At(g, A) /\ g.irId[x] \in Temps(g)
               /\ Proper(Ctx(g, vals, A), Top, Now(g, vals, A))
  BY <1>1, TopSound
<1>5. /\ Takes(Top) = 0 /\ Gives(Top) = 1 /\ Pops(Top) = 0 /\ ~Fills(Top) /\ Spells(Top) = {}
  BY <1>3 DEF Takes, Gives, Pops, Fills, Spells
<1>6. v \in Vals(Temps(g)) /\ OperandRegs(v) \subseteq At(g, A)
  <2>1. CASE GenLeaf
    <3>1. Top.do = "expr" /\ Top.e \in Exprs
      BY <1>3, <2>1 DEF GenLeaf, Doing, Items, AnyItem
    <3>2. CASE Top.e.isConst
      <4>1. v = Imm(Top.e.constValue) /\ Top.e.constValue \in Words
        BY <2>1, <3>1, <3>2, TreesAssumption
      <4> QED BY <4>1, SmallVals DEF OperandRegs, Imm, IsReg
    <3>3. CASE ~Top.e.isConst
      <4>1. Top.e.kind = "Var" /\ ~IsGlobal(Top.e.sym) /\ v = Reg(g.irId[Top.e.sym.id])
        BY <2>1, <3>3 DEF GenLeaf
      <4>2. Top.e.sym.id \in Reads(Top)
        BY <3>1, <4>1, ScopeAssumption DEF Reads
      <4>3. g.irId[Top.e.sym.id] \in At(g, A) /\ g.irId[Top.e.sym.id] \in Temps(g)
        BY <1>4, <4>2
      <4> HIDE DEF v
      <4> QED BY <4>1, <4>3, SmallVals DEF OperandRegs, Reg, IsReg
    <3> QED BY <3>2, <3>3
  <2>2. CASE ~GenLeaf
    <3>1. Top.do = "yield" /\ v = Reg(Top.n[1])
      <4>1. Doing("yield")
        BY <2>2 DEF YieldFlag
      <4> QED BY <2>2, <4>1 DEF Doing
    <3>2. Top.n[1] \in At(g, A)
      BY <1>4, <3>1 DEF Proper, Now
    <3>3. Top.n[1] \in Temps(g)
      BY <1>4, <3>2, AtTyped
    <3> HIDE DEF v
    <3> QED BY <3>1, <3>2, <3>3, SmallVals DEF OperandRegs, Reg, IsReg
  <2> QED BY <2>1, <2>2
<1>7. Carries(g, A, g', A)
  <2>1. g.nb \in Nat /\ g.nextVreg \in Nat
    BY <1>4 DEF Typed
  <2> QED BY <1>2, <1>4, <2>1 DEF Carries, Grows
<1>8. 0 \in Nat /\ 0 =< Len(vals) /\ v \in Vals(Temps(g')) /\ OperandRegs(v) \subseteq At(g', A)
  BY <1>2, <1>4, <1>5, <1>6
<1> HIDE DEF v
<1> QED BY <1>2, <1>3, <1>4, <1>5, <1>7, <1>8, ReturnedAnswer

-----------------------------------------------------------------------------
(* What the instructions read.                                             *)
LEMMA InstsRead ==
  ASSUME NEW d, NEW x
  PROVE  /\ \A op \in BinaryOps : \A y :
              InstUses(Binary(op, d, x, y)) = OperandRegs(x) \cup OperandRegs(y)
         /\ \A op \in UnaryOps : InstUses(Unary(op, d, x)) = OperandRegs(x)
         /\ \A k : InstUses(Load(d, k)) = {} /\ InstUses(Store(k, x)) = OperandRegs(x)
         /\ \A xs : /\ Call(d, xs).dst = d
                    /\ InstUses(Call(d, xs)) = UNION {OperandRegs(xs[k]) : k \in DOMAIN xs}
<1>1. ASSUME NEW op \in BinaryOps, NEW y
      PROVE  InstUses(Binary(op, d, x, y)) = OperandRegs(x) \cup OperandRegs(y)
  <2> DEFINE in == Binary(op, d, x, y)
  <2>1. in.op = op /\ in.a = x /\ in.b = y /\ in.magic = NoReg
    BY DEF Binary, Plain
  <2>2. op \notin UnaryOps \cup {"StoreGlobal"} /\ op # "LoadGlobal" /\ op # "Call"
    BY DEF BinaryOps, UnaryOps
  <2> HIDE DEF in
  <2> QED BY <2>1, <2>2 DEF InstUses, OpUses, MagicUses, in
<1>2. ASSUME NEW op \in UnaryOps PROVE InstUses(Unary(op, d, x)) = OperandRegs(x)
  <2> DEFINE in == Unary(op, d, x)
  <2>1. in.op = op /\ in.a = x /\ in.magic = NoReg
    BY DEF Unary, Plain
  <2>2. op # "LoadGlobal" /\ op # "Call"
    BY DEF UnaryOps
  <2> HIDE DEF in
  <2> QED BY <2>1, <2>2 DEF InstUses, OpUses, MagicUses, in
<1>3. ASSUME NEW k PROVE InstUses(Load(d, k)) = {}
  <2> DEFINE in == Load(d, k)
  <2>1. in.op = "LoadGlobal" /\ in.magic = NoReg
    BY DEF Load, Plain
  <2>2. "LoadGlobal" \notin UnaryOps \cup {"StoreGlobal"}
    BY DEF UnaryOps
  <2> HIDE DEF in
  <2> QED BY <2>1, <2>2 DEF InstUses, OpUses, MagicUses, in
<1>4. ASSUME NEW k PROVE InstUses(Store(k, x)) = OperandRegs(x)
  <2> DEFINE in == Store(k, x)
  <2>1. in.op = "StoreGlobal" /\ in.a = x /\ in.magic = NoReg
    BY DEF Store, Plain
  <2> HIDE DEF in
  <2> QED BY <2>1 DEF InstUses, OpUses, MagicUses, in
<1>5. ASSUME NEW xs
      PROVE  /\ Call(d, xs).dst = d
             /\ InstUses(Call(d, xs)) = UNION {OperandRegs(xs[k]) : k \in DOMAIN xs}
  <2> DEFINE in == Call(d, xs)
  <2>1. in.op = "Call" /\ in.args = xs /\ in.magic = NoReg /\ in.dst = d
    BY DEF Call, Plain
  <2>2. "Call" \notin UnaryOps \cup {"StoreGlobal"} /\ "Call" # "LoadGlobal"
    BY DEF UnaryOps
  <2> HIDE DEF in
  <2> QED BY <2>1, <2>2 DEF InstUses, OpUses, MagicUses, in
<1> QED BY <1>1, <1>2, <1>3, <1>4, <1>5

LEMMA CarriesSelf ==
  ASSUME NEW st, NEW A, Typed(st), Shown(st, A)
  PROVE  Carries(st, A, st, A)
<1>1. st.nb \in Nat /\ st.nextVreg \in Nat
  BY DEF Typed
<1> QED BY <1>1 DEF Carries, Grows

LEMMA SoundValueDone ==
  ASSUME GenInv, TypeInv, GenValueDone
  PROVE  TypeInv'
<1> DEFINE s == Top.s
           v == vals[1]
           r == g.irId[s.sym.id]
<1>1. Doing("value") /\ UNCHANGED ast /\ work' = << >> \o Tail(work) /\ vals' = Tail(vals)
  BY DEF GenValueDone, Then, Keep
<1>2. /\ work # << >> /\ Top = work[1] /\ Top.do = "value" /\ Top \in Items /\ s \in Stmts
  BY <1>1, TopFacts DEF Items, AnyItem
<1>3. PICK A : /\ Sound(ast, g, vals, work, A) /\ Typed(g) /\ Shown(g, A)
               /\ Good(ast, g, vals, A) /\ Takes(Top) =< Len(vals)
               /\ \A x \in Reads(Top) : g.irId[x] \in At(g, A) /\ g.irId[x] \in Temps(g)
               /\ Proper(Ctx(g, vals, A), Top, Now(g, vals, A))
  BY <1>1, TopSound
<1>4. /\ Takes(Top) = 1 /\ Gives(Top) = 0 /\ Pops(Top) = 0 /\ ~Fills(Top)
      /\ Spells(Top) = IF s.kind = "VarDecl" THEN {s.sym.id} ELSE {}
  BY <1>2 DEF Takes, Gives, Pops, Fills, Spells
<1>5. /\ s.kind \in {"ExprStmt", "Assign", "Return", "VarDecl"}
      /\ s.kind = "VarDecl" => s.sym.id \in DOMAIN g.irId /\ r # NoReg
  BY <1>2, <1>3 DEF Proper, Ctx
<1>6. v \in Vals(Temps(g)) /\ OperandRegs(v) \subseteq At(g, A)
  <2>1. 1 =< Len(vals)
    BY <1>3, <1>4
  <2>2. vals # << >> /\ 1 \in DOMAIN vals
    BY <1>3, <2>1 DEF Good
  <2> QED BY <1>3, <2>2 DEF Good
<1>7. g.nextVreg \in Nat /\ Temps(g) \subseteq Nat /\ NoReg \notin Temps(g)
  BY <1>3 DEF Typed, Temps, NoReg
<1>8. \E B : Carries(g, A, g', B) /\ (s.kind = "VarDecl" => r \in At(g', B))
  <2>1. CASE s.kind = "ExprStmt"
    <3>1. g' = g
      BY <2>1 DEF GenValueDone
    <3> QED BY <1>3, <2>1, <3>1, CarriesSelf
  <2>2. CASE s.kind = "Return"
    <3>1. g' = TermRet(g, v)
      BY <2>2 DEF GenValueDone
    <3> HIDE DEF v
    <3>2. \E B : Carries(g, A, TermRet(g, v), B)
      BY <1>3, <1>6, TermsCarry
    <3> QED BY <2>2, <3>1, <3>2
  <2>3. CASE s.kind = "Assign" /\ IsGlobal(s.sym)
    <3> DEFINE in == Store(s.sym.id, v)
    <3>1. g' = Emit(g, in)
      BY <2>3 DEF GenValueDone
    <3>2. s.sym.id \in Nat
      BY <1>2, <2>3, TreesAssumption
    <3>3. in \in Insts(Temps(g)) /\ in.op = "StoreGlobal" /\ in.dst = NoReg
      <4> DEFINE k == s.sym.id
      <4>1. v \in Vals(Temps(g)) /\ k \in Nat
        BY <1>6, <3>2
      <4> HIDE DEF v, k
      <4>2. /\ Store(k, v) \in Insts(Temps(g)) /\ Store(k, v).op = "StoreGlobal"
            /\ Store(k, v).dst = NoReg
        BY ONLY <4>1, StoreMade
      <4> QED BY ONLY <4>2 DEF k
    <3>4. InstUses(in) \subseteq At(g, A)
      BY <1>6, InstsRead
    <3> HIDE DEF in
    <3>5. \E B : Carries(g, A, Emit(g, in), B)
      BY <1>3, <3>3, <3>4, EmitCarries
    <3> QED BY <2>3, <3>1, <3>5
  <2>4. CASE s.kind = "VarDecl" \/ (s.kind = "Assign" /\ ~IsGlobal(s.sym))
    <3> DEFINE in == Unary("Mv", r, v)
    <3>1. g' = Emit(g, in)
      BY <2>4 DEF GenValueDone
    <3>2. r \in Temps(g) /\ r # NoReg
      <4>1. CASE s.kind = "VarDecl"
        BY <1>3, <1>5, <4>1 DEF Good
      <4>2. CASE s.kind = "Assign" /\ ~IsGlobal(s.sym)
        <5>1. s.sym.id \in Reads(Top)
          BY <1>2, <4>2 DEF Reads
        <5> QED BY <1>3, <1>7, <5>1
      <4> QED BY <2>4, <4>1, <4>2
    <3>3. in \in Insts(Temps(g)) /\ in.op = "Mv" /\ in.dst = r
      <4>1. "Mv" \in UnaryOps
        BY DEF UnaryOps
      <4> QED BY <1>6, <3>2, <4>1, InstsMade
    <3>4. InstUses(in) \subseteq At(g, A)
      <4>1. "Mv" \in UnaryOps
        BY DEF UnaryOps
      <4> QED BY <1>6, <4>1, InstsRead
    <3> HIDE DEF in
    <3>5. \E B : Carries(g, A, Emit(g, in), B) /\ r \in At(Emit(g, in), B)
      BY <1>3, <3>2, <3>3, <3>4, EmitCarries
    <3>6. PICK B : Carries(g, A, Emit(g, in), B) /\ r \in At(Emit(g, in), B)
      BY <3>5
    <3>7. Carries(g, A, g', B) /\ r \in At(g', B)
      BY <3>1, <3>6
    <3> QED BY <3>7
  <2> QED BY <1>5, <2>1, <2>2, <2>3, <2>4
<1>9. PICK B : Carries(g, A, g', B) /\ (s.kind = "VarDecl" => r \in At(g', B))
  BY <1>8
<1>10. g'.irId = g.irId
  BY <1>9 DEF Carries, Grows
<1>11. Spells(Top) \subseteq Held(g'.irId, At(g', B))
  BY <1>4, <1>5, <1>9, <1>10 DEF Held
<1>12. 1 =< Len(vals)
  BY <1>3, <1>4
<1> QED BY <1>1, <1>2, <1>3, <1>4, <1>9, <1>11, <1>12, ReturnedPopped

-----------------------------------------------------------------------------
(* A new vreg is written and is the answer.                                *)
LEMMA AnswersNew ==
  ASSUME NEW A, Sound(ast, g, vals, work, A), work # << >>, Top = work[1],
         UNCHANGED ast, work' = << >> \o Tail(work), ~Fills(Top), Pops(Top) = 0,
         NEW n \in Nat, n =< Len(vals), Takes(Top) = n, Gives(Top) = 1, Spells(Top) = {},
         Answer(Reg(g.nextVreg), n), NEW in \in Insts(Temps(NewVreg(g))),
         in.dst = g.nextVreg, in.op # "StoreGlobal", InstUses(in) \subseteq At(g, A),
         g' = Emit(NewVreg(g), in)
  PROVE  TypeInv'
<1> DEFINE o == NewVreg(g)
           r == g.nextVreg
           v == Reg(r)
<1>1. Typed(g) /\ Shown(g, A)
  BY DEF Sound, Good
<1>2. Carries(g, A, o, A)
  BY <1>1, NewVregCarries
<1>3. r \in Temps(o) /\ r \in Nat /\ r # NoReg
  BY <1>1, NewVregGrows DEF Typed, NoReg
<1>4. Typed(o) /\ Shown(o, A) /\ At(g, A) \subseteq At(o, A)
  BY <1>2 DEF Carries, Grows
<1> HIDE DEF o, r
<1>5. InstUses(in) \subseteq At(o, A) /\ in.dst # NoReg /\ in.dst = r /\ in \in Insts(Temps(o))
  BY <1>3, <1>4 DEF o, r
<1>6. PICK B : Carries(o, A, Emit(o, in), B) /\ r \in At(Emit(o, in), B)
  BY <1>4, <1>5, EmitCarries
<1>7. g' = Emit(o, in)
  BY DEF o
<1>8. Carries(o, A, g', B) /\ r \in At(g', B)
  BY <1>6, <1>7
<1>9. Carries(g, A, g', B)
  BY <1>1, <1>2, <1>8, CarriesOn
<1>10. r \in Temps(g')
  <2>1. Typed(g') /\ Shown(g', B)
    BY <1>9 DEF Carries, Grows
  <2> QED BY <1>8, <2>1, AtTyped
<1>11. v \in Vals(Temps(g')) /\ OperandRegs(v) \subseteq At(g', B)
  BY <1>8, <1>10, SmallVals DEF OperandRegs, Reg, IsReg
<1>12. Answer(v, n)
  BY DEF r
<1> HIDE DEF v
<1> QED BY <1>9, <1>11, <1>12, ReturnedAnswer

(* The n values on top have been made and have been written.               *)
LEMMA OnTop ==
  ASSUME NEW A, Good(ast, g, vals, A), NEW n \in Nat, n =< Len(vals)
  PROVE  \A k \in 1 .. n : /\ vals[k] \in Vals(Temps(g)) /\ OperandRegs(vals[k]) \subseteq At(g, A)
                           /\ vals[k] \in Vals(Temps(NewVreg(g)))
<1>1. vals \in Seq(Vals(Temps(g))) /\ Typed(g)
  BY DEF Good
<1>2. \A k \in 1 .. n : k \in DOMAIN vals
  BY <1>1
<1>3. g.nextVreg \in Nat /\ NewVreg(g).nextVreg = g.nextVreg + 1
  BY <1>1, NewVregGrows DEF Typed
<1>4. Vals(0 .. g.nextVreg - 1) \subseteq Vals(0 .. (g.nextVreg + 1) - 1)
  <2>1. g.nextVreg + 1 \in Nat /\ g.nextVreg =< g.nextVreg + 1
    BY <1>3
  <2> QED BY ONLY <1>3, <2>1, ValsWiden
<1>5. Vals(Temps(g)) \subseteq Vals(Temps(NewVreg(g)))
  BY <1>3, <1>4 DEF Temps
<1> QED BY <1>1, <1>2, <1>5 DEF Good

LEMMA SoundValues ==
  ASSUME GenInv, TypeInv, GenGlobal \/ GenBinary \/ GenUnary
  PROVE  TypeInv'
<1> DEFINE r == g.nextVreg
           vs == Temps(NewVreg(g))
<1>1. PICK what \in {"expr", "apply"} : Doing(what)
  BY DEF GenGlobal, GenBinary, GenUnary
<1>2. UNCHANGED ast /\ work' = << >> \o Tail(work)
  BY DEF GenGlobal, GenBinary, GenUnary, Then, Keep
<1>3. /\ work # << >> /\ Top = work[1] /\ Top.do = what /\ Top \in Items /\ Top.e \in Exprs
  BY <1>1, TopFacts DEF Items, AnyItem
<1>4. PICK A : /\ Sound(ast, g, vals, work, A) /\ Typed(g) /\ Shown(g, A)
               /\ Good(ast, g, vals, A) /\ Takes(Top) =< Len(vals)
               /\ Proper(Ctx(g, vals, A), Top, Now(g, vals, A))
  BY <1>1, TopSound
<1>5. /\ Takes(Top) = IF Top.do = "apply" THEN Len(Top.e.kids) ELSE 0
      /\ Gives(Top) = 1 /\ Pops(Top) = 0 /\ ~Fills(Top) /\ Spells(Top) = {}
  BY <1>3 DEF Takes, Gives, Pops, Fills, Spells
<1>6. r \in vs /\ r \in Nat /\ r # NoReg
  BY <1>4, NewVregGrows DEF Typed, NoReg
<1>7. CASE GenGlobal
  <2> DEFINE in == Load(r, Top.e.sym.id)
  <2>1. /\ Doing("expr") /\ g' = Emit(NewVreg(g), in) /\ Answer(Reg(r), 0)
        /\ Top.e.kind = "Var" /\ IsGlobal(Top.e.sym)
    BY <1>7 DEF GenGlobal
  <2>2. Top.e.sym.id \in Nat
    BY <1>3, <2>1, TreesAssumption
  <2>3. in \in Insts(vs) /\ in.op = "LoadGlobal" /\ in.dst = r
    <3>1. Imm(0) \in Vals(vs)
      BY SmallVals
    <3> QED BY <1>6, <2>2, <3>1, InstsMade
  <2>4. InstUses(in) \subseteq At(g, A)
    BY InstsRead
  <2> HIDE DEF in
  <2>5. Takes(Top) = 0 /\ 0 \in Nat /\ 0 =< Len(vals)
    BY <1>4, <1>5, <2>1 DEF Doing
  <2> QED BY <1>2, <1>3, <1>4, <1>5, <2>1, <2>3, <2>4, <2>5, AnswersNew
<1>8. CASE GenBinary
  <2> DEFINE in == Binary(Top.e.op, r, vals[2], vals[1])
  <2>1. /\ Doing("apply") /\ g' = Emit(NewVreg(g), in) /\ Answer(Reg(r), 2)
        /\ Top.e.kind = "Binary"
    BY <1>8 DEF GenBinary
  <2>2. Top.e.op \in BinaryOps /\ Len(Top.e.kids) = 2 /\ Top.e.op # "StoreGlobal"
    <3>1. Top.e.op \in BinaryOps /\ Len(Top.e.kids) = 2
      BY <1>3, <2>1, TreesAssumption
    <3> QED BY <3>1 DEF BinaryOps
  <2>3. Takes(Top) = 2 /\ 2 \in Nat /\ 2 =< Len(vals)
    BY <1>4, <1>5, <2>1, <2>2 DEF Doing
  <2>4. /\ vals[1] \in Vals(vs) /\ vals[2] \in Vals(vs)
        /\ OperandRegs(vals[1]) \subseteq At(g, A) /\ OperandRegs(vals[2]) \subseteq At(g, A)
    <3>1. 1 \in 1 .. 2 /\ 2 \in 1 .. 2
      OBVIOUS
    <3> QED BY <1>4, <2>3, <3>1, OnTop
  <2>5. in \in Insts(vs) /\ in.op = Top.e.op /\ in.dst = r
    BY <1>6, <2>2, <2>4, InstsMade
  <2>6. InstUses(in) \subseteq At(g, A)
    BY <2>2, <2>4, InstsRead
  <2> HIDE DEF in
  <2> QED BY <1>2, <1>3, <1>4, <1>5, <2>1, <2>2, <2>3, <2>5, <2>6, AnswersNew
<1>9. CASE GenUnary
  <2> DEFINE in == Unary(Top.e.op, r, vals[1])
  <2>1. /\ Doing("apply") /\ g' = Emit(NewVreg(g), in) /\ Answer(Reg(r), 1)
        /\ Top.e.kind = "Unary"
    BY <1>9 DEF GenUnary
  <2>2. Top.e.op \in UnaryOps /\ Len(Top.e.kids) = 1 /\ Top.e.op # "StoreGlobal"
    <3>1. Top.e.op \in UnaryOps \cup {"Plus"} /\ Len(Top.e.kids) = 1
      BY <1>3, <2>1, TreesAssumption
    <3>2. Top.e.op # "Plus"
      BY <1>4, <2>1 DEF Proper, Doing
    <3> QED BY <3>1, <3>2 DEF UnaryOps
  <2>3. Takes(Top) = 1 /\ 1 \in Nat /\ 1 =< Len(vals)
    BY <1>4, <1>5, <2>1, <2>2 DEF Doing
  <2>4. vals[1] \in Vals(vs) /\ OperandRegs(vals[1]) \subseteq At(g, A)
    <3>1. 1 \in 1 .. 1
      OBVIOUS
    <3> QED BY <1>4, <2>3, <3>1, OnTop
  <2>5. in \in Insts(vs) /\ in.op = Top.e.op /\ in.dst = r
    BY <1>6, <2>2, <2>4, InstsMade
  <2>6. InstUses(in) \subseteq At(g, A)
    <3>1. InstUses(in) = OperandRegs(vals[1])
      BY <2>2, InstsRead
    <3> QED BY <2>4, <3>1
  <2> HIDE DEF in
  <2> QED BY <1>2, <1>3, <1>4, <1>5, <2>1, <2>2, <2>3, <2>5, <2>6, AnswersNew
<1> QED BY <1>7, <1>8, <1>9

LEMMA SoundCall ==
  ASSUME GenInv, TypeInv, GenCall
  PROVE  TypeInv'
<1> DEFINE n == Len(Top.e.kids)
           args == [k \in 1 .. n |-> vals[n + 1 - k]]
<1>1. /\ Doing("apply") /\ UNCHANGED ast /\ work' = << >> \o Tail(work)
      /\ Top.e.kind = "Call"
  BY DEF GenCall, Then, Keep
<1>2. /\ work # << >> /\ Top = work[1] /\ Top.do = "apply" /\ Top \in Items /\ Top.e \in Exprs
  BY <1>1, TopFacts DEF Items, AnyItem
<1>3. PICK A : /\ Sound(ast, g, vals, work, A) /\ Typed(g) /\ Shown(g, A)
               /\ Good(ast, g, vals, A) /\ Takes(Top) =< Len(vals)
  BY <1>1, TopSound
<1>4. /\ Takes(Top) = n
      /\ Gives(Top) = 1 /\ Pops(Top) = 0 /\ ~Fills(Top) /\ Spells(Top) = {}
  BY <1>2 DEF Takes, Gives, Pops, Fills, Spells
<1>5. n \in Nat /\ n =< Len(vals)
  BY <1>2, <1>3, <1>4, TreesAssumption
<1>6. IF Top.e.op = "void" THEN g' = Emit(g, Call(NoReg, args)) /\ Answer(Imm(0), n)
      ELSE g' = Emit(NewVreg(g), Call(g.nextVreg, args)) /\ Answer(Reg(g.nextVreg), n)
  BY DEF GenCall
<1> HIDE DEF n
<1>7. \A k \in 1 .. n : /\ vals[k] \in Vals(Temps(g)) /\ OperandRegs(vals[k]) \subseteq At(g, A)
                        /\ vals[k] \in Vals(Temps(NewVreg(g)))
  BY <1>3, <1>5, OnTop
<1>8. \A k \in 1 .. n : n + 1 - k \in 1 .. n
  BY <1>5
<1>9. args \in Seq(Vals(Temps(g))) /\ args \in Seq(Vals(Temps(NewVreg(g))))
      /\ DOMAIN args = 1 .. n
      /\ \A k \in 1 .. n : args[k] = vals[n + 1 - k] /\ OperandRegs(args[k]) \subseteq At(g, A)
  BY <1>5, <1>7, <1>8
<1> HIDE DEF args
<1>10. UNION {OperandRegs(args[k]) : k \in DOMAIN args} \subseteq At(g, A)
  BY <1>9
<1>11. CASE Top.e.op = "void"
  <2> DEFINE in == Call(NoReg, args)
  <2>1. g' = Emit(g, in) /\ Answer(Imm(0), n)
    BY <1>6, <1>11
  <2>2. in \in Insts(Temps(g)) /\ in.op = "Call"
    <3>1. Imm(0) \in Vals(Temps(g)) /\ NoReg \in Temps(g) \cup {NoReg} /\ 0 \in Nat
      BY SmallVals
    <3> QED BY <1>9, <3>1, OthersMade
  <2>3. InstUses(in) \subseteq At(g, A) /\ in.dst = NoReg
    BY <1>10, InstsRead
  <2> HIDE DEF in
  <2>4. PICK B : Carries(g, A, Emit(g, in), B)
    BY <1>3, <2>2, <2>3, EmitCarries
  <2>5. Carries(g, A, g', B)
    BY <2>1, <2>4
  <2>6. Imm(0) \in Vals(Temps(g')) /\ OperandRegs(Imm(0)) \subseteq At(g', B)
    BY SmallVals DEF OperandRegs, Imm, IsReg
  <2> QED BY <1>1, <1>2, <1>3, <1>4, <1>5, <2>1, <2>5, <2>6, ReturnedAnswer
<1>12. CASE Top.e.op # "void"
  <2> DEFINE r == g.nextVreg
             in == Call(r, args)
             vs == Temps(NewVreg(g))
  <2>1. g' = Emit(NewVreg(g), in) /\ Answer(Reg(r), n)
    BY <1>6, <1>12
  <2>2. r \in vs
    BY <1>3, NewVregGrows
  <2>3. in \in Insts(vs) /\ in.op = "Call"
    <3>1. Imm(0) \in Vals(vs) /\ r \in vs \cup {NoReg} /\ 0 \in Nat
      BY <2>2, SmallVals
    <3> QED BY <1>9, <3>1, OthersMade
  <2>4. InstUses(in) \subseteq At(g, A) /\ in.dst = r
    BY <1>10, InstsRead
  <2> HIDE DEF in
  <2> QED BY <1>1, <1>2, <1>3, <1>4, <1>5, <2>1, <2>3, <2>4, AnswersNew
<1> QED BY <1>11, <1>12

-----------------------------------------------------------------------------
(* A reserved block is entered: what was written then is what it asks for. *)
LEMMA Entered ==
  ASSUME GenInv, TypeInv, NEW what, Doing(what), Fills(Top)
  PROVE  \E A : /\ Sound(ast, g, vals, work, A) /\ Good(ast, StartBlock(g, Top.n[1]), vals, A)
                /\ Ctx(StartBlock(g, Top.n[1]), vals, A) = Ctx(g, vals, A)
                /\ StartBlock(g, Top.n[1]).irId = g.irId
                /\ At(StartBlock(g, Top.n[1]), A) = A[Top.n[1]]
                /\ Proper(Ctx(g, vals, A), Top, Now(g, vals, A))
                /\ \A r \in Stages : Passes(Ctx(g, vals, A), Top, Now(g, vals, A), r) =>
                     Under(r, Now(StartBlock(g, Top.n[1]), vals, A))
<1> DEFINE t == Top.n[1]
           o == StartBlock(g, t)
<1>1. /\ work # << >> /\ Top = work[1] /\ Top \in Items
      /\ Builder(g, Owed(work)) /\ t \in Owed(work)
  BY TopFacts
<1>2. PICK A : /\ Sound(ast, g, vals, work, A) /\ Good(ast, g, vals, A)
               /\ Proper(Ctx(g, vals, A), Top, Now(g, vals, A)) /\ Now(g, vals, A) \in Stages
               /\ \E r \in Stages : Passes(Ctx(g, vals, A), Top, Now(g, vals, A), r)
  BY TopSound
<1>3. Typed(g) /\ Shown(g, A) /\ t \in Places(g) /\ g.blocks[t].insts = << >>
  BY <1>1, <1>2 DEF Good, Builder, Places
<1>4. Shown(o, A) /\ At(o, A) = A[t]
  BY <1>3, StartShown
<1>5. Grows(g, o) /\ o.nb = g.nb /\ o.nextVreg = g.nextVreg /\ o.irId = g.irId /\ Typed(o)
  BY <1>3, StartGrows DEF Grows
<1>6. o.loops = g.loops /\ Places(o) = Places(g) /\ Temps(o) = Temps(g)
  BY <1>5 DEF Grows, Places, Temps
<1> HIDE DEF o, t
<1>7. Ctx(o, vals, A) = Ctx(g, vals, A)
  BY <1>5, <1>6 DEF Ctx
<1> DEFINE c == Ctx(g, vals, A)
           p == Now(g, vals, A)
<1>8. /\ p.vals = Len(vals) /\ p.low = Len(vals) /\ p.loops = Len(g.loops)
      /\ c.at = A /\ c.ids = g.irId /\ c.vals = vals
  BY DEF Now, Ctx
<1>9. Takes(Top) = 0 /\ Gives(Top) = 0 /\ Pops(Top) = 0
  BY DEF Fills, Takes, Gives, Pops
<1>10. Len(vals) \in Nat /\ Len(g.loops) \in Nat /\ DOMAIN vals = 1 .. Len(vals)
  BY <1>2, <1>3 DEF Good, Typed
<1>11. p \in Stages
  BY <1>2
<1> HIDE DEF c, p
<1>12. \A k \in DOMAIN vals : OperandRegs(vals[k]) \subseteq A[t]
  <2>1. PICK r \in Stages : Passes(c, Top, p, r)
    BY <1>2 DEF c, p
  <2>2. Within(c, p.vals, A[t])
    BY <1>8, <2>1 DEF Passes, Lands, t
  <2> TAKE k \in DOMAIN vals
  <2>3. Len(vals) - k + 1 \in 1 .. Len(vals) /\ Len(vals) - (Len(vals) - k + 1) + 1 = k
    BY <1>10
  <2>4. Bot(c.vals, Len(vals) - k + 1) = vals[k]
    BY <1>8, <2>3 DEF Bot
  <2> QED BY <1>8, <2>2, <2>3, <2>4 DEF Within
<1>13. Good(ast, o, vals, A)
  BY <1>2, <1>4, <1>5, <1>6, <1>12 DEF Good
<1>14. ASSUME NEW r \in Stages, Passes(c, Top, p, r)
       PROVE  Under(r, Now(o, vals, A))
  <2>1. /\ Counts(Top, p, r)
        /\ r.syms \subseteq Held(g.irId, A[t]) /\ r.av \subseteq A[t]
    BY <1>8, <1>14 DEF Passes, Lands, t
  <2>2. /\ r.vals \in Nat /\ r.low \in Nat /\ r.loops \in Nat
    BY DEF Stages
  <2>3. r.vals = Len(vals) /\ r.low =< Len(vals) /\ r.loops = Len(o.loops)
    BY <1>6, <1>8, <1>9, <1>10, <2>1, <2>2 DEF Counts
  <2> QED BY <1>4, <1>5, <2>1, <2>3 DEF Under, Now
<1> QED BY <1>2, <1>4, <1>5, <1>7, <1>13, <1>14 DEF c, p, o, t

(* A call that returns and is not covered by Returned.                     *)
LEMMA MoveSound ==
  ASSUME NEW A, Sound(ast, g, vals, work, A), work # << >>, Top = work[1],
         UNCHANGED <<ast, vals>>, work' = << >> \o Tail(work),
         NEW B, Good(ast, g', vals, B), g'.irId = g.irId,
         \A r \in Stages : Passes(Ctx(g, vals, A), Top, Now(g, vals, A), r) =>
                             /\ Extends(Ctx(g, vals, A), Ctx(g', vals, B), r)
                             /\ Under(r, Now(g', vals, B))
  PROVE  TypeInv'
<1> DEFINE its == << >>
<1>1. its \in Seq(Items) /\ DOMAIN its = {} /\ work \in Seq(Items) /\ Undeclared(work, g.irId)
  BY DEF Sound
<1>2. Undeclared(its \o Tail(work), g'.irId)
  BY <1>1, UndeclaredOn
<1>3. Now(g', vals, B) \in Stages
  BY NowStage
<1>4. ASSUME NEW r \in Stages, Passes(Ctx(g, vals, A), work[1], Now(g, vals, A), r)
      PROVE  /\ Extends(Ctx(g, vals, A), Ctx(g', vals, B), r)
             /\ Runs(Ctx(g', vals, B), its, Now(g', vals, B), r)
  <2>1. /\ Extends(Ctx(g, vals, A), Ctx(g', vals, B), r) /\ Under(r, Now(g', vals, B))
    BY <1>4
  <2> QED BY <1>3, <2>1, RunsEmpty
<1>5. Sound(ast, g', vals, its \o Tail(work), B)
  <2> HIDE DEF its
  <2> QED BY <1>1, <1>2, <1>4, StepSound
<1>6. Sound(ast', g', vals', work', B)
  BY <1>5
<1> QED BY <1>6 DEF TypeInv

LEMMA SoundStart ==
  ASSUME GenInv, TypeInv, Doing("start"), g' = StartBlock(g, Top.n[1]),
         UNCHANGED <<ast, vals>>, work' = << >> \o Tail(work)
  PROVE  TypeInv'
<1>1. /\ work # << >> /\ Top = work[1] /\ Top.do = "start"
  BY TopFacts
<1>2. Fills(Top)
  BY <1>1 DEF Fills
<1>3. PICK A : /\ Sound(ast, g, vals, work, A) /\ Good(ast, g', vals, A)
               /\ Ctx(g', vals, A) = Ctx(g, vals, A) /\ g'.irId = g.irId
               /\ \A r \in Stages : Passes(Ctx(g, vals, A), Top, Now(g, vals, A), r) =>
                     Under(r, Now(g', vals, A))
  BY <1>2, Entered
<1>4. \A r : Extends(Ctx(g, vals, A), Ctx(g', vals, A), r)
  BY <1>3 DEF Extends
<1> QED BY <1>1, <1>3, <1>4, MoveSound

LEMMA SoundJmp ==
  ASSUME GenInv, TypeInv, Doing("jmp"), g' = TermJmp(g, Top.n[1]),
         UNCHANGED <<ast, vals>>, work' = << >> \o Tail(work)
  PROVE  TypeInv'
<1>1. /\ work # << >> /\ Top = work[1] /\ Top.do = "jmp"
  BY TopFacts
<1>2. PICK A : /\ Sound(ast, g, vals, work, A) /\ Typed(g) /\ Shown(g, A)
               /\ \A t \in Goals(Ctx(g, vals, A), Top, Now(g, vals, A)) :
                    t \in Places(g) /\ A[t] \subseteq At(g, A)
  BY TopSound
<1>3. /\ Takes(Top) = 0 /\ Gives(Top) = 0 /\ Pops(Top) = 0 /\ ~Fills(Top) /\ Spells(Top) = {}
      /\ Goals(Ctx(g, vals, A), Top, Now(g, vals, A)) = {Top.n[1]}
  BY <1>1 DEF Takes, Gives, Pops, Fills, Spells, Goals
<1>4. \E B : Carries(g, A, g', B)
  BY <1>2, <1>3, TermsCarry
<1> QED BY <1>1, <1>2, <1>3, <1>4, ReturnedSame

LEMMA SoundPop ==
  ASSUME GenInv, TypeInv, Doing("popLoop"), g' = [g EXCEPT !.loops = Tail(@)],
         UNCHANGED <<ast, vals>>, work' = << >> \o Tail(work)
  PROVE  TypeInv'
<1>1. /\ work # << >> /\ Top = work[1] /\ Top.do = "popLoop"
  BY TopFacts
<1>2. PICK A : /\ Sound(ast, g, vals, work, A) /\ Good(ast, g, vals, A)
               /\ Typed(g) /\ Shown(g, A) /\ Now(g, vals, A) \in Stages
               /\ \E r \in Stages : Passes(Ctx(g, vals, A), Top, Now(g, vals, A), r)
  BY TopSound
<1>3. /\ Takes(Top) = 0 /\ Gives(Top) = 0 /\ Pops(Top) = 1 /\ ~Fills(Top) /\ Spells(Top) = {}
  BY <1>1 DEF Takes, Gives, Pops, Fills, Spells
<1> DEFINE c == Ctx(g, vals, A)
           p == Now(g, vals, A)
           L == Len(g.loops)
           T == [continueBB : Places(g), breakBB : Places(g)]
<1>4. /\ p.vals = Len(vals) /\ p.low = Len(vals) /\ p.loops = L /\ p.av = At(g, A)
      /\ p.syms = Held(g.irId, At(g, A))
  BY DEF Now
<1>5. Len(vals) \in Nat /\ L \in Nat /\ g.loops \in Seq(T)
  BY <1>2 DEF Good, Typed
<1>6. 1 =< L
  <2>1. PICK r \in Stages : Passes(c, Top, p, r)
    BY <1>2
  <2> HIDE DEF c, p
  <2> QED BY <1>3, <1>4, <2>1 DEF Passes, Counts
<1>7. /\ DOMAIN g' = DOMAIN g /\ g'.nb = g.nb /\ g'.cur = g.cur /\ g'.sealed = g.sealed
      /\ g'.nextVreg = g.nextVreg /\ g'.irId = g.irId /\ g'.blocks = g.blocks
      /\ g'.loops = Tail(g.loops)
  BY <1>2 DEF Typed
<1>8. /\ Places(g') = Places(g) /\ Temps(g') = Temps(g) /\ At(g', A) = At(g, A)
      /\ Shown(g', A)
  BY <1>2, <1>7 DEF Places, Temps, At, Shown
<1> HIDE DEF c, p, L, T
<1>9. /\ Tail(g.loops) \in Seq(T) /\ Len(Tail(g.loops)) = L - 1
      /\ \A i \in 1 .. L - 1 : Bot(Tail(g.loops), i) = Bot(g.loops, i)
  <2>1. g.loops # << >>
    BY <1>6 DEF L
  <2>2. /\ Tail(g.loops) \in Seq(T) /\ Len(Tail(g.loops)) = L - 1
        /\ \A k \in 1 .. L - 1 : Tail(g.loops)[k] = g.loops[k + 1]
    BY <1>5, <2>1 DEF L
  <2>3. \A i \in 1 .. L - 1 : /\ (L - 1) - i + 1 \in 1 .. L - 1
                              /\ ((L - 1) - i + 1) + 1 = L - i + 1
    BY <1>5
  <2> QED BY <2>2, <2>3 DEF Bot, L
<1>10. Typed(g')
  BY <1>2, <1>7, <1>8, <1>9 DEF Typed, T
<1>11. Good(ast, g', vals, A)
  BY <1>2, <1>7, <1>8, <1>10 DEF Good
<1>12. ASSUME NEW r \in Stages, Passes(c, Top, p, r)
       PROVE  Extends(c, Ctx(g', vals, A), r) /\ Under(r, Now(g', vals, A))
  <2>1. /\ Counts(Top, p, r) /\ r.syms \subseteq p.syms \cup Spells(Top) /\ r.av \subseteq p.av
    BY <1>3, <1>12 DEF Passes, Lands
  <2>2. /\ r.vals \in Nat /\ r.low \in Nat /\ r.loops \in Nat
    BY DEF Stages
  <2>3. r.vals = Len(vals) /\ r.low =< Len(vals) /\ r.loops = L - 1
    BY <1>3, <1>4, <1>5, <2>1, <2>2 DEF Counts
  <2>4. Under(r, Now(g', vals, A))
    BY <1>3, <1>4, <1>7, <1>8, <1>9, <2>1, <2>3 DEF Under, Now
  <2>5. Extends(c, Ctx(g', vals, A), r)
    BY <1>7, <1>8, <1>9, <2>3 DEF Extends, Ctx, c
  <2> QED BY <2>4, <2>5
<1> QED BY <1>1, <1>2, <1>7, <1>11, <1>12, MoveSound DEF c, p

LEMMA SoundSet ==
  ASSUME GenInv, TypeInv, SetFlag
  PROVE  TypeInv'
<1> DEFINE o == StartBlock(g, Top.n[1])
           v == Top.n[2]
           in == Unary("Mv", v, Imm(Top.n[3]))
           e == Emit(o, in)
<1>1. /\ Doing("set") /\ UNCHANGED <<ast, vals>> /\ work' = << >> \o Tail(work)
      /\ g' = TermJmp(e, Top.n[4])
  BY DEF SetFlag, Then, Keep
<1>2. /\ work # << >> /\ Top = work[1] /\ Top.do = "set"
  BY <1>1, TopFacts
<1>3. Fills(Top)
  BY <1>2 DEF Fills
<1>4. PICK A : /\ Sound(ast, g, vals, work, A) /\ Good(ast, o, vals, A)
               /\ Ctx(o, vals, A) = Ctx(g, vals, A) /\ o.irId = g.irId
               /\ At(o, A) = A[Top.n[1]]
               /\ Proper(Ctx(g, vals, A), Top, Now(g, vals, A))
               /\ \A r \in Stages : Passes(Ctx(g, vals, A), Top, Now(g, vals, A), r) =>
                     Under(r, Now(o, vals, A))
  BY <1>1, <1>3, Entered
<1> HIDE DEF o
<1>5. /\ Typed(o) /\ Shown(o, A) /\ DOMAIN A = Places(o)
  BY <1>4 DEF Good, Shown
<1>6. /\ Top.n[4] \in Places(o) /\ v \in Temps(o) /\ Top.n[3] \in {0, 1}
      /\ A[Top.n[4]] \subseteq At(o, A) \cup {v}
  <2>1. Proper(Ctx(o, vals, A), Top, Now(g, vals, A))
    BY <1>4
  <2> QED BY <1>2, <1>4, <1>5, <2>1 DEF Proper, Ctx
<1>7. v \in Nat /\ v # NoReg
  BY <1>5, <1>6 DEF Typed, Temps, NoReg
<1>8. /\ in \in Insts(Temps(o)) /\ in.op = "Mv" /\ in.dst = v
  <2>1. Imm(Top.n[3]) \in Vals(Temps(o)) /\ "Mv" \in UnaryOps
    BY <1>6, SmallVals DEF UnaryOps
  <2> QED BY <1>6, <1>7, <2>1, InstsMade
<1>9. InstUses(in) = {}
  <2>1. "Mv" \in UnaryOps /\ OperandRegs(Imm(Top.n[3])) = {}
    BY DEF UnaryOps, OperandRegs, Imm, IsReg
  <2> QED BY <2>1, InstsRead
<1> HIDE DEF in
<1>10. PICK B : Carries(o, A, e, B) /\ v \in At(e, B)
  BY <1>5, <1>7, <1>8, <1>9, EmitCarries
<1> HIDE DEF e
<1>11. /\ Typed(e) /\ Shown(e, B) /\ At(o, A) \subseteq At(e, B) /\ Places(o) \subseteq Places(e)
       /\ \A k \in Places(o) : B[k] = A[k]
  <2>1. Typed(e) /\ Shown(e, B) /\ At(o, A) \subseteq At(e, B) /\ o.nb =< e.nb
        /\ \A k \in Places(o) : B[k] = A[k]
    BY <1>10 DEF Carries, Grows
  <2>2. Places(o) \subseteq Places(e)
    BY <1>5, <2>1 DEF Typed, Places
  <2> QED BY <2>1, <2>2
<1>12. Top.n[4] \in Places(e) /\ B[Top.n[4]] \subseteq At(e, B)
  BY <1>6, <1>10, <1>11
<1>13. PICK C : Carries(e, B, g', C)
  BY <1>1, <1>11, <1>12, TermsCarry
<1>14. Carries(o, A, g', C)
  BY <1>5, <1>10, <1>13, CarriesOn
<1>15. Good(ast, g', vals, C)
  <2>1. /\ vals \in Seq(Vals(Temps(g')))
        /\ \A k \in DOMAIN vals : OperandRegs(vals[k]) \subseteq At(g', C)
    BY <1>4, <1>14, ValsKept
  <2> QED BY <1>4, <1>14, <2>1, GoodKept
<1>16. g'.irId = g.irId
  BY <1>4, <1>14 DEF Carries, Grows
<1>17. Under(Now(o, vals, A), Now(g', vals, C))
  BY <1>4, <1>14, NowGrows
<1>18. Now(o, vals, A) \in Stages /\ Now(g', vals, C) \in Stages
  BY <1>4, <1>15, NowStage
<1>19. ASSUME NEW r \in Stages, Passes(Ctx(g, vals, A), Top, Now(g, vals, A), r)
       PROVE  Extends(Ctx(g, vals, A), Ctx(g', vals, C), r) /\ Under(r, Now(g', vals, C))
  <2>1. Under(r, Now(o, vals, A))
    BY <1>4, <1>19
  <2>2. Under(r, Now(g', vals, C))
    BY <1>17, <1>18, <2>1, UnderOn
  <2>3. Extends(Ctx(o, vals, A), Ctx(g', vals, C), r)
    BY <1>4, <1>14, CarriesExtends
  <2> QED BY <1>4, <2>2, <2>3
<1> QED BY <1>1, <1>2, <1>4, <1>15, <1>16, <1>19, MoveSound

LEMMA SoundMoves ==
  ASSUME GenInv, TypeInv, Housekeep \/ SetFlag
  PROVE  TypeInv'
<1>1. CASE SetFlag
  BY <1>1, SoundSet
<1>2. CASE Housekeep
  <2>1. UNCHANGED <<ast, vals>> /\ work' = << >> \o Tail(work)
    BY <1>2 DEF Housekeep, Then, Keep
  <2>2. \/ Doing("start") /\ g' = StartBlock(g, Top.n[1])
        \/ Doing("jmp") /\ g' = TermJmp(g, Top.n[1])
        \/ Doing("popLoop") /\ g' = [g EXCEPT !.loops = Tail(@)]
    BY <1>2 DEF Housekeep
  <2> QED BY <2>1, <2>2, SoundStart, SoundJmp, SoundPop
<1> QED BY <1>1, <1>2

-----------------------------------------------------------------------------
(* What each call that is planned does to the stage.                       *)
Flat(p, q, S) ==
  /\ q.vals = p.vals /\ q.low =< p.low /\ q.low =< p.vals /\ q.loops = p.loops
  /\ q.syms \subseteq p.syms \cup S /\ q.av \subseteq p.av

Rises(p, q) ==
  /\ q.vals = p.vals + 1 /\ q.low =< p.low /\ q.low =< p.vals /\ q.loops = p.loops
  /\ q.syms \subseteq p.syms /\ q.av \subseteq p.av

(* A jump may lead to block t.                                             *)
Meets(c, p, t) == t \in DOMAIN c.at /\ c.at[t] \subseteq p.av

(* Block t may be entered, with what it asks for.                          *)
Enters(c, p, q, t) ==
  /\ t \in DOMAIN c.at /\ p.vals =< p.low /\ Within(c, p.vals, c.at[t])
  /\ q.vals = p.vals /\ q.low =< p.vals /\ q.loops = p.loops
  /\ q.syms \subseteq Held(c.ids, c.at[t]) /\ q.av \subseteq c.at[t]

MayLeave(c, p, s) ==
  Leaves(s) => /\ p.loops # 0
               /\ Meets(c, p, Bot(c.loops, p.loops).breakBB)
               /\ Meets(c, p, Bot(c.loops, p.loops).continueBB)

LEMMA StmtPasses ==
  ASSUME NEW c, NEW s, NEW p \in Stages, NEW q \in Stages, Flat(p, q, Spells(DoStmt(s))),
         Free(s) \subseteq p.syms, MayLeave(c, p, s), InBlocks(s)
  PROVE  Passes(c, DoStmt(s), p, q)
<1> DEFINE it == DoStmt(s)
<1>1. it.do = "stmt" /\ it.s = s
  BY DEF DoStmt, Item
<1>2. p.vals \in Nat /\ q.vals \in Nat /\ p.loops \in Nat /\ q.loops \in Nat
  BY DEF Stages
<1> HIDE DEF it
<1>3. Takes(it) = 0 /\ Gives(it) = 0 /\ Pops(it) = 0 /\ ~Fills(it) /\ Reads(it) = Free(s)
  BY <1>1 DEF Takes, Gives, Pops, Fills, Reads
<1>4. Counts(it, p, q)
  BY <1>2, <1>3 DEF Counts, Flat
<1>5. Lands(c, it, p, q)
  BY <1>3 DEF Lands, Flat, it
<1>6. Proper(c, it, p)
  BY <1>1 DEF Proper
<1>7. Jumps(c, it, p)
  <2>1. Goals(c, it, p) = IF Leaves(s) THEN {Bot(c.loops, p.loops).breakBB,
                                             Bot(c.loops, p.loops).continueBB} ELSE {}
    BY <1>1 DEF Goals
  <2> QED BY <1>1, <2>1 DEF Jumps, MayLeave, Meets
<1> QED BY <1>3, <1>4, <1>5, <1>6, <1>7 DEF Passes, it

LEMMA ExprPasses ==
  ASSUME NEW c, NEW x, NEW p \in Stages, NEW q \in Stages, Rises(p, q), Free(x) \subseteq p.syms
  PROVE  Passes(c, DoExpr(x), p, q)
<1> DEFINE it == DoExpr(x)
<1>1. it.do = "expr" /\ it.e = x
  BY DEF DoExpr, Item
<1>2. p.vals \in Nat /\ q.vals \in Nat /\ p.loops \in Nat /\ q.loops \in Nat
  BY DEF Stages
<1> HIDE DEF it
<1>3. Takes(it) = 0 /\ Gives(it) = 1 /\ Pops(it) = 0 /\ ~Fills(it) /\ Reads(it) = Free(x)
  BY <1>1 DEF Takes, Gives, Pops, Fills, Reads
<1>4. Counts(it, p, q)
  BY <1>2, <1>3 DEF Counts, Rises
<1>5. Lands(c, it, p, q) /\ Proper(c, it, p)
  BY <1>1, <1>3 DEF Lands, Rises, Proper
<1>6. Jumps(c, it, p)
  BY <1>1 DEF Jumps, Goals
<1> QED BY <1>3, <1>4, <1>5, <1>6 DEF Passes, it

LEMMA CondPasses ==
  ASSUME NEW c, NEW x, NEW t, NEW f, NEW p \in Stages, NEW q \in Stages, Flat(p, q, {}),
         Free(x) \subseteq p.syms, Meets(c, p, t), Meets(c, p, f)
  PROVE  Passes(c, DoCond(x, t, f), p, q)
<1> DEFINE it == DoCond(x, t, f)
<1>1. it.do = "cond" /\ it.e = x /\ it.n[1] = t /\ it.n[2] = f
  BY DEF DoCond, Item
<1>2. p.vals \in Nat /\ q.vals \in Nat /\ p.loops \in Nat /\ q.loops \in Nat
  BY DEF Stages
<1> HIDE DEF it
<1>3. Takes(it) = 0 /\ Gives(it) = 0 /\ Pops(it) = 0 /\ ~Fills(it) /\ Reads(it) = Free(x)
  BY <1>1 DEF Takes, Gives, Pops, Fills, Reads
<1>4. Counts(it, p, q)
  BY <1>2, <1>3 DEF Counts, Flat
<1>5. Lands(c, it, p, q) /\ Proper(c, it, p)
  BY <1>1, <1>3 DEF Lands, Flat, Proper
<1>6. Jumps(c, it, p)
  <2>1. Goals(c, it, p) = {t, f}
    BY <1>1 DEF Goals
  <2> QED BY <1>1, <2>1 DEF Jumps, Meets
<1> QED BY <1>3, <1>4, <1>5, <1>6 DEF Passes, it

LEMMA JmpPasses ==
  ASSUME NEW c, NEW t, NEW p \in Stages, NEW q \in Stages, Flat(p, q, {}), Meets(c, p, t)
  PROVE  Passes(c, Do("jmp", <<t>>), p, q)
<1> DEFINE it == Do("jmp", <<t>>)
<1>1. it.do = "jmp" /\ it.n[1] = t
  BY DEF Do, Item
<1>2. p.vals \in Nat /\ q.vals \in Nat /\ p.loops \in Nat /\ q.loops \in Nat
  BY DEF Stages
<1> HIDE DEF it
<1>3. Takes(it) = 0 /\ Gives(it) = 0 /\ Pops(it) = 0 /\ ~Fills(it) /\ Reads(it) = {}
  BY <1>1 DEF Takes, Gives, Pops, Fills, Reads
<1>4. Counts(it, p, q)
  BY <1>2, <1>3 DEF Counts, Flat
<1>5. Lands(c, it, p, q) /\ Proper(c, it, p)
  BY <1>1, <1>3 DEF Lands, Flat, Proper
<1>6. Jumps(c, it, p)
  <2>1. Goals(c, it, p) = {t}
    BY <1>1 DEF Goals
  <2> QED BY <1>1, <2>1 DEF Jumps, Meets
<1> QED BY <1>3, <1>4, <1>5, <1>6 DEF Passes, it

LEMMA PopPasses ==
  ASSUME NEW c, NEW p \in Stages, NEW q \in Stages,
         q.vals = p.vals, q.low =< p.low, q.low =< p.vals, p.loops = q.loops + 1,
         q.syms \subseteq p.syms, q.av \subseteq p.av
  PROVE  Passes(c, Do("popLoop", << >>), p, q)
<1> DEFINE it == Do("popLoop", << >>)
<1>1. it.do = "popLoop"
  BY DEF Do, Item
<1>2. p.vals \in Nat /\ q.vals \in Nat /\ p.loops \in Nat /\ q.loops \in Nat
  BY DEF Stages
<1> HIDE DEF it
<1>3. Takes(it) = 0 /\ Gives(it) = 0 /\ Pops(it) = 1 /\ ~Fills(it) /\ Reads(it) = {}
  BY <1>1 DEF Takes, Gives, Pops, Fills, Reads
<1>4. Counts(it, p, q)
  BY <1>2, <1>3 DEF Counts
<1>5. Lands(c, it, p, q) /\ Proper(c, it, p)
  BY <1>1, <1>3 DEF Lands, Proper
<1>6. Jumps(c, it, p)
  BY <1>1 DEF Jumps, Goals
<1> QED BY <1>3, <1>4, <1>5, <1>6 DEF Passes, it

LEMMA StartPasses ==
  ASSUME NEW c, NEW t, NEW p \in Stages, NEW q \in Stages, Enters(c, p, q, t)
  PROVE  Passes(c, Do("start", <<t>>), p, q)
<1> DEFINE it == Do("start", <<t>>)
<1>1. it.do = "start" /\ it.n[1] = t
  BY DEF Do, Item
<1>2. /\ p.vals \in Nat /\ q.vals \in Nat /\ p.loops \in Nat /\ q.loops \in Nat
      /\ p.low \in Nat /\ q.low \in Nat
  BY DEF Stages
<1> HIDE DEF it
<1>3. Takes(it) = 0 /\ Gives(it) = 0 /\ Pops(it) = 0 /\ Fills(it) /\ Reads(it) = {}
  BY <1>1 DEF Takes, Gives, Pops, Fills, Reads
<1>4. Counts(it, p, q)
  BY <1>2, <1>3 DEF Counts, Enters
<1>5. Lands(c, it, p, q) /\ Proper(c, it, p)
  BY <1>1, <1>3 DEF Lands, Enters, Proper
<1>6. Jumps(c, it, p)
  BY <1>1 DEF Jumps, Goals
<1> QED BY <1>3, <1>4, <1>5, <1>6 DEF Passes, it

(* A call that leaves no value and spells out nothing.                     *)
LEMMA TopUnder ==
  ASSUME NEW c, NEW it, NEW p \in Stages, NEW r \in Stages, Passes(c, it, p, r),
         ~Fills(it), Takes(it) = 0, Pops(it) = 0, Spells(it) = {}
  PROVE  /\ Gives(it) = 0 => Under(r, p)
         /\ r.low =< p.low /\ r.loops = p.loops /\ r.syms \subseteq p.syms /\ r.av \subseteq p.av
         /\ r.vals = p.vals + Gives(it)
<1>1. p.vals \in Nat /\ r.vals \in Nat /\ p.loops \in Nat /\ r.loops \in Nat
  BY DEF Stages
<1>2. Counts(it, p, r) /\ r.syms \subseteq p.syms /\ r.av \subseteq p.av
  BY DEF Passes, Lands
<1>3. r.vals = p.vals + Gives(it) /\ r.low =< p.low /\ r.loops = p.loops
  <2>1. Gives(it) \in Nat
    BY DEF Gives
  <2> QED BY <1>1, <1>2, <2>1 DEF Counts
<1> QED BY <1>1, <1>2, <1>3 DEF Under

LEMMA FlatSelf ==
  ASSUME NEW p \in Stages, p.low = p.vals, NEW S
  PROVE  Flat(p, p, S)
<1>1. p.vals \in Nat
  BY DEF Stages
<1> QED BY <1>1 DEF Flat

(* Calls that leave the stage as it is.                                    *)
LEMMA SteadyStep ==
  ASSUME NEW A, Sound(ast, g, vals, work, A), work # << >>, Top = work[1],
         UNCHANGED <<ast, vals>>, NEW its \in Seq(Items), work' = its \o Tail(work),
         NEW B, Carries(g, A, g', B),
         \A k \in DOMAIN its : Decl(its[k]) \subseteq Decl(Top),
         \A i, j \in DOMAIN its : i # j => Decl(its[i]) \cap Decl(its[j]) = {},
         ~Fills(Top), Takes(Top) = 0, Gives(Top) = 0, Pops(Top) = 0, Spells(Top) = {},
         \A k \in DOMAIN its :
           Passes(Ctx(g', vals, B), its[k], Now(g, vals, A), Now(g, vals, A))
  PROVE  TypeInv'
<1> DEFINE p == Now(g, vals, A)
           d == Ctx(g', vals, B)
<1>1. p \in Stages
  BY NowStage DEF Sound
<1>2. DOMAIN its = 1 .. Len(its)
  OBVIOUS
<1>3. ASSUME NEW r \in Stages, Passes(Ctx(g, vals, A), work[1], p, r)
      PROVE  Runs(d, its, p, r)
  <2> HIDE DEF p, d
  <2>1. Under(r, p)
    BY <1>1, <1>3, TopUnder
  <2>2. Runs(d, its, p, p)
    BY <1>1, <1>2, Steady DEF p, d
  <2>3. Under(p, p)
    BY <1>1, UnderSelf
  <2> QED BY <1>1, <2>1, <2>2, <2>3, RunsUnder
<1>4. Sound(ast, g', vals, its \o Tail(work), B)
  BY <1>3, CallSound
<1>5. Sound(ast', g', vals', work', B)
  BY <1>4
<1> QED BY <1>5 DEF TypeInv

-----------------------------------------------------------------------------
(* New blocks, with what they ask for.                                     *)
LEMMA TwoBlocks ==
  ASSUME NEW st, NEW A, Typed(st), Shown(st, A), NEW X, X \subseteq Temps(st)
  PROVE  \E B : /\ Carries(st, A, NewBlock(NewBlock(st)), B)
                /\ B[st.nb] = X /\ B[st.nb + 1] = X
                /\ At(NewBlock(NewBlock(st)), B) = At(st, A)
                /\ NewBlock(NewBlock(st)).nb = st.nb + 2
                /\ NewBlock(NewBlock(st)).nextVreg = st.nextVreg
<1> DEFINE o == NewBlock(st)
           B == Added(st, A, X)
           e == NewBlock(o)
           C == Added(o, B, X)
<1>1. /\ Carries(st, A, o, B) /\ B[st.nb] = X /\ At(o, B) = At(st, A)
      /\ o.nb = st.nb + 1 /\ o.nextVreg = st.nextVreg
  BY NewBlockCarries
<1> HIDE DEF B, o
<1>2. Typed(o) /\ Shown(o, B) /\ Temps(o) = Temps(st)
  BY <1>1 DEF Carries, Grows, Temps
<1>3. /\ Carries(o, B, e, C) /\ C[o.nb] = X /\ At(e, C) = At(o, B)
      /\ e.nb = o.nb + 1 /\ e.nextVreg = o.nextVreg
  BY <1>2, NewBlockCarries
<1> HIDE DEF e, C
<1>4. Carries(st, A, e, C)
  BY <1>1, <1>3, CarriesOn
<1>5. st.nb \in Nat /\ st.nb \in Places(o)
  BY <1>1 DEF Typed, Places
<1>6. C[st.nb] = X
  BY <1>1, <1>3, <1>5 DEF Carries
<1>7. e.nb = st.nb + 2
  BY <1>1, <1>3, <1>5
<1> QED BY <1>1, <1>3, <1>4, <1>6, <1>7 DEF e, o

LEMMA ThreeBlocks ==
  ASSUME NEW st, NEW A, Typed(st), Shown(st, A), NEW X, X \subseteq Temps(st),
         NEW Z, Z \subseteq Temps(st)
  PROVE  \E B : /\ Carries(st, A, NewBlock(NewBlock(NewBlock(st))), B)
                /\ B[st.nb] = X /\ B[st.nb + 1] = X /\ B[st.nb + 2] = Z
                /\ At(NewBlock(NewBlock(NewBlock(st))), B) = At(st, A)
                /\ NewBlock(NewBlock(NewBlock(st))).nb = st.nb + 3
                /\ NewBlock(NewBlock(NewBlock(st))).nextVreg = st.nextVreg
<1> DEFINE o == NewBlock(NewBlock(st))
           e == NewBlock(o)
<1>1. PICK B : /\ Carries(st, A, o, B) /\ B[st.nb] = X /\ B[st.nb + 1] = X
               /\ At(o, B) = At(st, A) /\ o.nb = st.nb + 2 /\ o.nextVreg = st.nextVreg
  BY TwoBlocks
<1> DEFINE C == Added(o, B, Z)
<1> HIDE DEF o
<1>2. Typed(o) /\ Shown(o, B) /\ Temps(o) = Temps(st)
  BY <1>1 DEF Carries, Grows, Temps
<1>3. /\ Carries(o, B, e, C) /\ C[o.nb] = Z /\ At(e, C) = At(o, B)
      /\ e.nb = o.nb + 1 /\ e.nextVreg = o.nextVreg
  BY <1>2, NewBlockCarries
<1> HIDE DEF e, C
<1>4. Carries(st, A, e, C)
  BY <1>1, <1>3, CarriesOn
<1>5. st.nb \in Nat /\ st.nb \in Places(o) /\ st.nb + 1 \in Places(o)
  BY <1>1 DEF Typed, Places
<1>6. C[st.nb] = X /\ C[st.nb + 1] = X
  BY <1>1, <1>3, <1>5 DEF Carries
<1>7. e.nb = st.nb + 3
  BY <1>1, <1>3, <1>5
<1> QED BY <1>1, <1>3, <1>4, <1>6, <1>7 DEF e, o

-----------------------------------------------------------------------------
(* A block from which the calls go on as they would here.                  *)
LEMMA StageNow ==
  ASSUME NEW A, Good(ast, g, vals, A)
  PROVE  /\ Now(g, vals, A) \in Stages
         /\ Now(g, vals, A).vals = Len(vals) /\ Now(g, vals, A).low = Len(vals)
         /\ Now(g, vals, A).loops = Len(g.loops) /\ Now(g, vals, A).av = At(g, A)
         /\ Now(g, vals, A).syms = Held(g.irId, At(g, A)) /\ Len(vals) \in Nat
BY NowStage DEF Now, Good

LEMMA ValuesWithin ==
  ASSUME NEW A, Good(ast, g, vals, A), NEW c, c.vals = vals, NEW X, At(g, A) \subseteq X
  PROVE  Within(c, Len(vals), X)
<1>1. Len(vals) \in Nat /\ DOMAIN vals = 1 .. Len(vals)
  BY DEF Good
<1> SUFFICES ASSUME NEW i \in 1 .. Len(vals) PROVE OperandRegs(Bot(c.vals, i)) \subseteq X
  BY DEF Within
<1>2. Len(vals) - i + 1 \in DOMAIN vals
  BY <1>1
<1> QED BY <1>2 DEF Good, Bot

LEMMA EntersNow ==
  ASSUME NEW A, Good(ast, g, vals, A), NEW o, o.irId = g.irId, NEW B, NEW t \in DOMAIN B,
         B[t] = At(g, A)
  PROVE  /\ Enters(Ctx(o, vals, B), Now(g, vals, A), Now(g, vals, A), t)
         /\ Meets(Ctx(o, vals, B), Now(g, vals, A), t)
<1> DEFINE c == Ctx(o, vals, B)
           p == Now(g, vals, A)
<1>1. c.vals = vals /\ c.at = B /\ c.ids = g.irId
  BY DEF Ctx
<1>2. /\ p \in Stages /\ p.vals = Len(vals) /\ p.low = Len(vals) /\ p.av = At(g, A)
      /\ p.syms = Held(g.irId, At(g, A)) /\ Len(vals) \in Nat
  BY StageNow
<1> HIDE DEF c, p
<1>3. Within(c, Len(vals), At(g, A))
  BY <1>1, ValuesWithin
<1> QED BY <1>1, <1>2, <1>3 DEF Enters, Meets, c, p

(* A jump that could be made can still be made.                            *)
LEMMA MeetsOn ==
  ASSUME NEW A, Good(ast, g, vals, A), NEW o, NEW B, Carries(g, A, o, B), NEW p, NEW t,
         Meets(Ctx(g, vals, A), p, t)
  PROVE  Meets(Ctx(o, vals, B), p, t)
<1>1. Ctx(g, vals, A).at = A /\ Ctx(o, vals, B).at = B
  BY DEF Ctx
<1>2. DOMAIN A = Places(g) /\ DOMAIN B = Places(o) /\ Places(g) \subseteq Places(o)
  BY DEF Good, Shown, Carries, Grows, Typed, Places
<1> QED BY <1>1, <1>2 DEF Meets, Carries

LEMMA MayLeaveOn ==
  ASSUME NEW A, Good(ast, g, vals, A), NEW o, NEW B, Carries(g, A, o, B), NEW p, NEW s,
         MayLeave(Ctx(g, vals, A), p, s)
  PROVE  MayLeave(Ctx(o, vals, B), p, s)
<1>1. Ctx(g, vals, A).loops = Ctx(o, vals, B).loops
  BY DEF Ctx, Carries, Grows
<1> QED BY <1>1, MeetsOn DEF MayLeave

(* What a call on top may rely on.                                         *)
LEMMA CallTop ==
  ASSUME GenInv, TypeInv, NEW what \in {"stmt", "expr", "cond"}, Doing(what)
  PROVE  /\ work # << >> /\ Top = work[1] /\ Top \in Items /\ Top.do = what
         /\ Top.s \in Stmts /\ Top.e \in Exprs /\ Top.n \in Seq(Int)
         /\ ~Fills(Top) /\ Takes(Top) = 0 /\ Pops(Top) = 0
         /\ Gives(Top) = IF what = "expr" THEN 1 ELSE 0
         /\ Spells(Top) = IF what = "stmt" /\ Top.s.kind = "VarDecl" THEN {Top.s.sym.id} ELSE {}
         /\ Decl(Top) = IF what = "stmt" THEN Declares(Top.s) ELSE {}
         /\ Reads(Top) = IF what = "stmt" THEN Free(Top.s) ELSE Free(Top.e)
<1>1. work # << >> /\ Top = work[1] /\ Top \in Items /\ Top.do = what
  BY TopFacts
<1>2. Top.s \in Stmts /\ Top.e \in Exprs /\ Top.n \in Seq(Int)
  BY <1>1 DEF Items, AnyItem
<1>3. /\ ~Fills(Top) /\ Takes(Top) = 0 /\ Pops(Top) = 0
      /\ Gives(Top) = IF what = "expr" THEN 1 ELSE 0
  BY <1>1 DEF Fills, Takes, Pops, Gives
<1>4. /\ Spells(Top) = IF what = "stmt" /\ Top.s.kind = "VarDecl" THEN {Top.s.sym.id} ELSE {}
      /\ Decl(Top) = IF what = "stmt" THEN Declares(Top.s) ELSE {}
      /\ Reads(Top) = IF what = "stmt" THEN Free(Top.s) ELSE Free(Top.e)
  BY <1>1 DEF Spells, Decl, Reads
<1> QED BY <1>1, <1>2, <1>3, <1>4

LEMMA CallSite ==
  ASSUME GenInv, TypeInv, NEW what \in {"stmt", "expr", "cond"}, Doing(what)
  PROVE  \E A : /\ Sound(ast, g, vals, work, A) /\ Good(ast, g, vals, A)
                /\ Typed(g) /\ Shown(g, A) /\ Now(g, vals, A) \in Stages
                /\ Reads(Top) \subseteq Now(g, vals, A).syms
                /\ what = "cond" => /\ Meets(Ctx(g, vals, A), Now(g, vals, A), Top.n[1])
                                    /\ Meets(Ctx(g, vals, A), Now(g, vals, A), Top.n[2])
                /\ what = "stmt" => /\ MayLeave(Ctx(g, vals, A), Now(g, vals, A), Top.s)
                                    /\ InBlocks(Top.s)
<1>1. PICK A : /\ Sound(ast, g, vals, work, A) /\ Good(ast, g, vals, A)
               /\ Typed(g) /\ Shown(g, A) /\ Now(g, vals, A) \in Stages
               /\ Jumps(Ctx(g, vals, A), Top, Now(g, vals, A))
               /\ Proper(Ctx(g, vals, A), Top, Now(g, vals, A))
               /\ \A x \in Reads(Top) : /\ x \in DOMAIN g.irId /\ g.irId[x] \in At(g, A)
                                         /\ g.irId[x] \in Temps(g)
  BY TopSound
<1> DEFINE c == Ctx(g, vals, A)
           p == Now(g, vals, A)
<1>2. Top.do = what
  BY CallTop
<1>3. p.syms = Held(g.irId, At(g, A))
  BY <1>1, StageNow
<1>4. NoReg \notin Temps(g)
  BY <1>1 DEF Typed, Temps, NoReg
<1> HIDE DEF c, p
<1>5. Reads(Top) \subseteq p.syms
  BY <1>1, <1>3, <1>4 DEF Held
<1>6. ASSUME what = "cond" PROVE Meets(c, p, Top.n[1]) /\ Meets(c, p, Top.n[2])
  <2>1. Goals(c, Top, p) = {Top.n[1], Top.n[2]}
    BY <1>2, <1>6 DEF Goals
  <2> QED BY <1>1, <2>1 DEF Jumps, Meets, c, p
<1>7. ASSUME what = "stmt" PROVE MayLeave(c, p, Top.s)
  <2> SUFFICES ASSUME Leaves(Top.s) PROVE MayLeave(c, p, Top.s)
    BY DEF MayLeave
  <2>1. Goals(c, Top, p) = {Bot(c.loops, p.loops).breakBB, Bot(c.loops, p.loops).continueBB}
    BY <1>2, <1>7 DEF Goals
  <2>2. Jumps(c, Top, p)
    BY <1>1 DEF c, p
  <2>3. p.loops # 0
    BY <1>2, <1>7, <2>2 DEF Jumps
  <2> QED BY <2>1, <2>2, <2>3 DEF Jumps, MayLeave, Meets
<1>8. what = "stmt" => InBlocks(Top.s)
  BY <1>1, <1>2 DEF Proper
<1> QED BY <1>1, <1>5, <1>6, <1>7, <1>8 DEF c, p

-----------------------------------------------------------------------------
(* Calls that leave the stage as it is.                                    *)
LEMMA NoDecl ==
  /\ \A s : Decl(DoStmt(s)) = Declares(s) /\ Decl(DoValue(s)) = {}
  /\ \A x, t, f : Decl(DoCond(x, t, f)) = {} /\ Decl(DoExpr(x)) = {}
  /\ \A what, ns : what # "stmt" => Decl(Do(what, ns)) = {}
BY DEF Decl, DoStmt, DoValue, DoCond, DoExpr, Do, Item

LEMMA SoundCondNot ==
  ASSUME GenInv, TypeInv, CondNot
  PROVE  TypeInv'
<1> DEFINE it == DoCond(Top.e.kids[1], Top.n[2], Top.n[1])
           its == <<it>>
<1>1. /\ Doing("cond") /\ UNCHANGED <<ast, vals, g>> /\ work' = its \o Tail(work)
      /\ Top.e.kind = "Unary"
  BY DEF CondNot, Then, Keep
<1>2. /\ work # << >> /\ Top = work[1] /\ Top.e \in Exprs /\ Top \in Items
      /\ ~Fills(Top) /\ Takes(Top) = 0 /\ Pops(Top) = 0 /\ Gives(Top) = 0 /\ Spells(Top) = {}
      /\ Reads(Top) = Free(Top.e) /\ Top.do = "cond"
  BY <1>1, CallTop
<1>3. PICK A : /\ Sound(ast, g, vals, work, A) /\ Good(ast, g, vals, A)
               /\ Typed(g) /\ Shown(g, A) /\ Now(g, vals, A) \in Stages
               /\ Reads(Top) \subseteq Now(g, vals, A).syms
               /\ Meets(Ctx(g, vals, A), Now(g, vals, A), Top.n[1])
               /\ Meets(Ctx(g, vals, A), Now(g, vals, A), Top.n[2])
  BY <1>1, CallSite
<1> DEFINE p == Now(g, vals, A)
           c == Ctx(g, vals, A)
<1>4. p.low = p.vals
  BY <1>3, StageNow
<1>5. 1 \in DOMAIN Top.e.kids /\ Top.e.kids[1] \in Exprs
  BY <1>1, <1>2, TreesAssumption
<1>6. Free(Top.e.kids[1]) \subseteq p.syms
  <2>1. Free(Top.e.kids[1]) \subseteq Free(Top.e)
    BY <1>2, <1>5, ScopeAssumption
  <2> QED BY <1>2, <1>3, <2>1
<1> HIDE DEF p, c
<1>7. Flat(p, p, {})
  BY <1>3, <1>4, FlatSelf DEF p
<1>8. Passes(c, it, p, p)
  BY <1>3, <1>6, <1>7, CondPasses DEF p, c
<1>9. Top.n[1] \in Int /\ Top.n[2] \in Int
  BY <1>2 DEF Items, AnyItem
<1>10. it \in Items /\ Decl(it) = {}
  BY <1>5, <1>9, CondItem, NoDecl
<1>11. Carries(g, A, g', A)
  BY <1>1, <1>3, CarriesSelf
<1>12. Ctx(g', vals, A) = c
  BY <1>1 DEF c
<1> HIDE DEF it
<1>13. its \in Seq(Items) /\ DOMAIN its = {1} /\ its[1] = it
  BY <1>10
<1> HIDE DEF its
<1>14. \A k \in DOMAIN its : Passes(Ctx(g', vals, A), its[k], p, p) /\ Decl(its[k]) = {}
  BY <1>8, <1>10, <1>12, <1>13
<1> QED BY <1>1, <1>2, <1>3, <1>11, <1>13, <1>14, SteadyStep DEF p

LEMMA SoundCondLogical ==
  ASSUME GenInv, TypeInv, CondLogical
  PROVE  TypeInv'
<1> DEFINE n == g.nb
           l1 == IF Top.e.op = "Or" THEN Top.n[1] ELSE n
           l2 == IF Top.e.op = "Or" THEN n ELSE Top.n[2]
           c1 == DoCond(Top.e.kids[1], l1, l2)
           s == Do("start", <<n>>)
           c2 == DoCond(Top.e.kids[2], Top.n[1], Top.n[2])
           its == <<c1, s, c2>>
<1>1. /\ Doing("cond") /\ UNCHANGED <<ast, vals>> /\ g' = NewBlock(g)
      /\ Top.e.kind = "Logical"
  BY DEF CondLogical, Then, Keep
<1>2. work' = its \o Tail(work)
  BY DEF CondLogical, Then
<1>3. /\ work # << >> /\ Top = work[1] /\ Top.e \in Exprs /\ Top \in Items
      /\ ~Fills(Top) /\ Takes(Top) = 0 /\ Pops(Top) = 0 /\ Gives(Top) = 0 /\ Spells(Top) = {}
      /\ Reads(Top) = Free(Top.e) /\ Top.do = "cond"
  BY <1>1, CallTop
<1>4. PICK A : /\ Sound(ast, g, vals, work, A) /\ Good(ast, g, vals, A)
               /\ Typed(g) /\ Shown(g, A) /\ Now(g, vals, A) \in Stages
               /\ Reads(Top) \subseteq Now(g, vals, A).syms
               /\ Meets(Ctx(g, vals, A), Now(g, vals, A), Top.n[1])
               /\ Meets(Ctx(g, vals, A), Now(g, vals, A), Top.n[2])
  BY <1>1, CallSite
<1> DEFINE B == Added(g, A, At(g, A))
           p == Now(g, vals, A)
           d == Ctx(g', vals, B)
<1>5. At(g, A) \subseteq Temps(g)
  BY <1>4, AtTyped
<1>6. Carries(g, A, g', B) /\ B[n] = At(g, A)
  BY <1>1, <1>4, <1>5, NewBlockCarries
<1>7. n \in DOMAIN B /\ n \in Int
  BY <1>4 DEF Added, Typed
<1>8. g'.irId = g.irId
  BY <1>6 DEF Carries, Grows
<1> HIDE DEF B
<1>9. Enters(d, p, p, n) /\ Meets(d, p, n)
  BY <1>4, <1>6, <1>7, <1>8, EntersNow
<1>10. Meets(d, p, Top.n[1]) /\ Meets(d, p, Top.n[2])
  BY <1>4, <1>6, MeetsOn
<1>11. p.low = p.vals
  BY <1>4, StageNow
<1>12. Top.e.kids \in Seq(Exprs) /\ Len(Top.e.kids) = 2
  BY <1>1, <1>3, TreesAssumption
<1>13. /\ 1 \in DOMAIN Top.e.kids /\ 2 \in DOMAIN Top.e.kids
       /\ Top.e.kids[1] \in Exprs /\ Top.e.kids[2] \in Exprs
  BY <1>12
<1>14. Free(Top.e.kids[1]) \subseteq p.syms /\ Free(Top.e.kids[2]) \subseteq p.syms
  <2>1. Free(Top.e.kids[1]) \subseteq Free(Top.e) /\ Free(Top.e.kids[2]) \subseteq Free(Top.e)
    BY <1>3, <1>13, ScopeAssumption
  <2> QED BY <1>3, <1>4, <2>1
<1> HIDE DEF p, d
<1>15. p \in Stages /\ Flat(p, p, {})
  BY <1>4, <1>11, FlatSelf DEF p
<1>16. Meets(d, p, l1) /\ Meets(d, p, l2)
  BY <1>9, <1>10
<1>17. Top.n[1] \in Int /\ Top.n[2] \in Int /\ l1 \in Int /\ l2 \in Int
  <2>1. Top.n[1] \in Int /\ Top.n[2] \in Int
    BY <1>3 DEF Items, AnyItem
  <2> QED BY <1>7, <2>1
<1> HIDE DEF l1, l2
<1>18. Passes(d, c1, p, p) /\ Passes(d, c2, p, p)
  BY <1>10, <1>14, <1>15, <1>16, CondPasses
<1>19. Passes(d, s, p, p)
  BY <1>9, <1>15, StartPasses
<1>20. c1 \in Items /\ c2 \in Items /\ Decl(c1) = {} /\ Decl(c2) = {}
  BY <1>13, <1>17, CondItem, NoDecl
<1>21. s \in Items /\ Decl(s) = {}
  <2>1. <<n>> \in Seq(Int) /\ "start" \in Calls
    BY <1>7 DEF Calls
  <2> QED BY <2>1, DoItem, NoDecl
<1> HIDE DEF c1, c2, s
<1>22. /\ its \in Seq(Items) /\ DOMAIN its = {1, 2, 3}
       /\ its[1] = c1 /\ its[2] = s /\ its[3] = c2
  BY <1>20, <1>21
<1> HIDE DEF its
<1>23. \A k \in DOMAIN its : Passes(d, its[k], p, p) /\ Decl(its[k]) = {}
  BY <1>18, <1>19, <1>20, <1>21, <1>22
<1> QED BY <1>1, <1>2, <1>3, <1>4, <1>6, <1>22, <1>23, SteadyStep DEF p, d

-----------------------------------------------------------------------------
(* An arm of a statement on top may be called where the statement is.      *)
(* The symbols the first k statements of s declare in its own scope.       *)
Spelt(s, k) == {s.kids[j].sym.id : j \in {i \in 1 .. k : s.kids[i].kind = "VarDecl"}}

(* Where declarations stand in blocks, only a declaration exposes a symbol *)
(* and only the statements of a block see one that an earlier exposes.     *)
LEMMA InnerScope ==
  ASSUME NEW s \in Stmts, InBlocks(s), NEW k \in DOMAIN s.kids
  PROVE  /\ InBlocks(s.kids[k])
         /\ s.kind = "Block" => Free(s.kids[k]) \subseteq Free(s) \cup Spelt(s, k - 1)
         /\ s.kind # "Block" => Free(s.kids[k]) \subseteq Free(s)
<1>1. s.kids \in Seq(Stmts)
  BY TreesAssumption
<1>2. \A j \in 1 .. k - 1 : j \in DOMAIN s.kids
  BY <1>1
<1>3. \A j \in DOMAIN s.kids : s.kids[j] \in Stmts
  BY <1>1
<1>4. \A j \in DOMAIN s.kids : s.kind # "Block" => Exposes(s.kids[j]) = {}
  BY BlockAssumption
<1>5. Free(s.kids[k]) \subseteq Free(s) \cup UNION {Exposes(s.kids[j]) : j \in 1 .. k - 1}
  BY ScopeAssumption
<1>6. ASSUME NEW t \in Stmts, InBlocks(t), NEW x \in Exposes(t)
      PROVE  t.kind = "VarDecl" /\ x = t.sym.id
  <2>1. CASE t.kind = "VarDecl"
    BY <1>6, <2>1, BlockAssumption
  <2>2. CASE t.kind = "Block"
    BY <1>6, <2>2, BlockAssumption
  <2>3. CASE t.kind \notin {"VarDecl", "Block"}
    <3>1. \A j \in DOMAIN t.kids : Exposes(t.kids[j]) = {}
      BY <1>6, <2>3, BlockAssumption
    <3>2. Exposes(t) = UNION {Exposes(t.kids[j]) : j \in DOMAIN t.kids}
      BY <2>3, BlockAssumption
    <3> QED BY <1>6, <3>1, <3>2
  <2> QED BY <2>1, <2>2, <2>3
<1>7. \A j \in DOMAIN s.kids : InBlocks(s.kids[j])
  BY BlockAssumption
<1>8. ASSUME NEW x \in Free(s.kids[k]), x \notin Free(s)
      PROVE  s.kind = "Block" /\ x \in Spelt(s, k - 1)
  <2>1. PICK j \in 1 .. k - 1 : x \in Exposes(s.kids[j])
    BY <1>5, <1>8
  <2>2. j \in DOMAIN s.kids
    BY <1>2
  <2>3. s.kids[j] \in Stmts
    BY <1>3, <2>2
  <2>4. InBlocks(s.kids[j])
    BY <1>7, <2>2
  <2>5. s.kids[j].kind = "VarDecl" /\ x = s.kids[j].sym.id
    BY <1>6, <2>1, <2>3, <2>4
  <2>6. s.kind = "Block"
    BY <1>4, <2>1, <2>2
  <2> QED BY <2>5, <2>6 DEF Spelt
<1>9. /\ s.kind = "Block" => Free(s.kids[k]) \subseteq Free(s) \cup Spelt(s, k - 1)
      /\ s.kind # "Block" => Free(s.kids[k]) \subseteq Free(s)
  BY <1>8
<1> QED BY <1>7, <1>9

LEMMA ArmPasses ==
  ASSUME GenInv, TypeInv, Doing("stmt"), Top.s.kind = "If", NEW k \in DOMAIN Top.s.kids,
         NEW A, Good(ast, g, vals, A), Reads(Top) \subseteq Now(g, vals, A).syms,
         MayLeave(Ctx(g, vals, A), Now(g, vals, A), Top.s), InBlocks(Top.s),
         NEW o, NEW B, Carries(g, A, o, B)
  PROVE  /\ Passes(Ctx(o, vals, B), DoStmt(Top.s.kids[k]), Now(g, vals, A), Now(g, vals, A))
         /\ DoStmt(Top.s.kids[k]) \in Items
         /\ Decl(DoStmt(Top.s.kids[k])) \subseteq Decl(Top)
<1> DEFINE s == Top.s.kids[k]
           p == Now(g, vals, A)
           d == Ctx(o, vals, B)
<1>1. /\ Top.s \in Stmts /\ Reads(Top) = Free(Top.s) /\ Decl(Top) = Declares(Top.s)
  BY CallTop
<1>2. Top.s.kids \in Seq(Stmts)
  BY <1>1, TreesAssumption
<1>3. s \in Stmts
  BY <1>2
<1>4. /\ Free(s) \subseteq Free(Top.s) /\ Declares(s) \subseteq Declares(Top.s)
      /\ Leaves(s) => Leaves(Top.s)
      /\ InBlocks(s)
  BY <1>1, ScopeAssumption, InnerScope
<1>5. p \in Stages /\ p.low = p.vals
  BY StageNow
<1>6. MayLeave(d, p, Top.s)
  BY MayLeaveOn
<1> HIDE DEF s, p, d
<1>7. Flat(p, p, Spells(DoStmt(s)))
  BY <1>5, FlatSelf
<1>8. MayLeave(d, p, s) /\ Free(s) \subseteq p.syms
  BY <1>1, <1>4, <1>6 DEF MayLeave, p
<1>9. Passes(d, DoStmt(s), p, p)
  BY <1>4, <1>5, <1>7, <1>8, StmtPasses
<1>10. DoStmt(s) \in Items /\ Decl(DoStmt(s)) = Declares(s)
  BY <1>3, StmtItem, NoDecl
<1> QED BY <1>1, <1>4, <1>9, <1>10 DEF s, p, d

(* What is known when genStmt is called for an if.                         *)
LEMMA IfTop ==
  ASSUME GenInv, TypeInv, Doing("stmt"), Top.s.kind = "If"
  PROVE  /\ work # << >> /\ Top = work[1] /\ Top.s.e \in Exprs /\ Top.s \in Stmts
         /\ Free(Top.s.e) \subseteq Reads(Top)
         /\ ~Fills(Top) /\ Takes(Top) = 0 /\ Pops(Top) = 0 /\ Gives(Top) = 0 /\ Spells(Top) = {}
         /\ 1 \in DOMAIN Top.s.kids /\ (Len(Top.s.kids) = 2 => 2 \in DOMAIN Top.s.kids)
         /\ \A i, j \in DOMAIN Top.s.kids : i # j =>
              Decl(DoStmt(Top.s.kids[i])) \cap Decl(DoStmt(Top.s.kids[j])) = {}
<1>1. /\ work # << >> /\ Top = work[1] /\ Top.s \in Stmts /\ Reads(Top) = Free(Top.s)
      /\ ~Fills(Top) /\ Takes(Top) = 0 /\ Pops(Top) = 0 /\ Gives(Top) = 0 /\ Spells(Top) = {}
  BY CallTop
<1>2. Top.s.kids \in Seq(Stmts) /\ Top.s.kids # << >> /\ Top.s.e \in Exprs
  BY <1>1, TreesAssumption
<1>3. 1 \in DOMAIN Top.s.kids /\ (Len(Top.s.kids) = 2 => 2 \in DOMAIN Top.s.kids)
  BY <1>2
<1>4. Free(Top.s.e) \subseteq Reads(Top)
  BY <1>1, TreesAssumption, ScopeAssumption
<1>5. \A i, j \in DOMAIN Top.s.kids : i # j =>
        Declares(Top.s.kids[i]) \cap Declares(Top.s.kids[j]) = {}
  BY <1>1, ScopeAssumption
<1>6. \A i, j \in DOMAIN Top.s.kids : i # j =>
        Decl(DoStmt(Top.s.kids[i])) \cap Decl(DoStmt(Top.s.kids[j])) = {}
  BY <1>5, NoDecl
<1> QED BY <1>1, <1>2, <1>3, <1>4, <1>6

LEMMA SoundIfConst ==
  ASSUME GenInv, TypeInv, GenIfConst
  PROVE  TypeInv'
<1>1. Doing("stmt") /\ UNCHANGED <<ast, vals, g>> /\ Top.s.kind = "If"
  BY DEF GenIfConst, Keep
<1>2. /\ work # << >> /\ Top = work[1]
      /\ ~Fills(Top) /\ Takes(Top) = 0 /\ Pops(Top) = 0 /\ Gives(Top) = 0 /\ Spells(Top) = {}
      /\ 1 \in DOMAIN Top.s.kids /\ (Len(Top.s.kids) = 2 => 2 \in DOMAIN Top.s.kids)
  BY <1>1, IfTop
<1>3. PICK A : /\ Sound(ast, g, vals, work, A) /\ Good(ast, g, vals, A)
               /\ Typed(g) /\ Shown(g, A)
               /\ Reads(Top) \subseteq Now(g, vals, A).syms
               /\ MayLeave(Ctx(g, vals, A), Now(g, vals, A), Top.s) /\ InBlocks(Top.s)
  BY <1>1, CallSite
<1>4. Carries(g, A, g', A)
  BY <1>1, <1>3, CarriesSelf
<1>5. \/ work' = << >> \o Tail(work)
      \/ \E k \in DOMAIN Top.s.kids : work' = <<DoStmt(Top.s.kids[k])>> \o Tail(work)
  BY <1>2 DEF GenIfConst, Then
<1>6. CASE work' = << >> \o Tail(work)
  <2> DEFINE its == << >>
  <2>1. its \in Seq(Items) /\ DOMAIN its = {} /\ work' = its \o Tail(work)
    BY <1>6
  <2> HIDE DEF its
  <2> QED BY <1>1, <1>2, <1>3, <1>4, <2>1, SteadyStep
<1>7. ASSUME NEW k \in DOMAIN Top.s.kids, work' = <<DoStmt(Top.s.kids[k])>> \o Tail(work)
      PROVE  TypeInv'
  <2> DEFINE it == DoStmt(Top.s.kids[k])
             its == <<it>>
  <2>1. /\ Passes(Ctx(g', vals, A), it, Now(g, vals, A), Now(g, vals, A))
        /\ it \in Items /\ Decl(it) \subseteq Decl(Top)
    BY <1>1, <1>3, <1>4, ArmPasses
  <2>2. work' = its \o Tail(work)
    BY <1>7
  <2> HIDE DEF it
  <2>3. its \in Seq(Items) /\ DOMAIN its = {1} /\ its[1] = it
    BY <2>1
  <2> HIDE DEF its
  <2>4. \A j \in DOMAIN its : /\ Passes(Ctx(g', vals, A), its[j], Now(g, vals, A), Now(g, vals, A))
                              /\ Decl(its[j]) \subseteq Decl(Top)
    BY <2>1, <2>3
  <2>5. \A i, j \in DOMAIN its : i # j => Decl(its[i]) \cap Decl(its[j]) = {}
    BY <2>3
  <2> QED BY <1>1, <1>2, <1>3, <1>4, <2>2, <2>3, <2>4, <2>5, SteadyStep
<1> QED BY <1>5, <1>6, <1>7

LEMMA SoundIf ==
  ASSUME GenInv, TypeInv, GenIf
  PROVE  TypeInv'
<1> DEFINE n == g.nb
           kids == Top.s.kids
           f == IF Len(kids) = 2 THEN n + 2 ELSE n + 1
           c == DoCond(Top.s.e, n, f)
           s1 == Do("start", <<n>>)
           a1 == DoStmt(kids[1])
           j1 == Do("jmp", <<n + 1>>)
           s2 == Do("start", <<n + 1>>)
           e2 == Do("start", <<n + 2>>)
           a2 == DoStmt(kids[2])
<1>1. Doing("stmt") /\ UNCHANGED <<ast, vals>> /\ Top.s.kind = "If" /\ ~Top.s.e.isConst
  BY DEF GenIf, Keep
<1>2. /\ work # << >> /\ Top = work[1] /\ Top.s.e \in Exprs /\ Top.s \in Stmts
      /\ Free(Top.s.e) \subseteq Reads(Top)
      /\ ~Fills(Top) /\ Takes(Top) = 0 /\ Pops(Top) = 0 /\ Gives(Top) = 0 /\ Spells(Top) = {}
      /\ 1 \in DOMAIN kids /\ (Len(kids) = 2 => 2 \in DOMAIN kids)
      /\ \A i, j \in DOMAIN Top.s.kids : i # j =>
              Decl(DoStmt(Top.s.kids[i])) \cap Decl(DoStmt(Top.s.kids[j])) = {}
  BY <1>1, IfTop
<1>3. PICK A : /\ Sound(ast, g, vals, work, A) /\ Good(ast, g, vals, A)
               /\ Typed(g) /\ Shown(g, A) /\ Now(g, vals, A) \in Stages
               /\ Reads(Top) \subseteq Now(g, vals, A).syms
               /\ MayLeave(Ctx(g, vals, A), Now(g, vals, A), Top.s) /\ InBlocks(Top.s)
  BY <1>1, CallSite
<1> DEFINE X == At(g, A)
           p == Now(g, vals, A)
<1>4. X \subseteq Temps(g) /\ n \in Nat /\ Places(g) \subseteq Int
  <2>1. Typed(g) /\ Shown(g, A)
    BY <1>3
  <2>2. X \subseteq Temps(g)
    BY <2>1, AtTyped
  <2>3. n \in Nat
    BY <2>1 DEF Typed
  <2> QED BY <2>2, <2>3 DEF Places
<1>5. kids[1] \in Stmts /\ (Len(kids) = 2 => kids[2] \in Stmts)
  <2>1. kids \in Seq(Stmts)
    BY <1>2, TreesAssumption
  <2> QED BY <1>2, <2>1
<1>6. p \in Stages /\ p.low = p.vals
  BY <1>3, StageNow
<1>7. Flat(p, p, {})
  <2> HIDE DEF p
  <2> QED BY <1>6, FlatSelf
<1>8. <<n>> \in Seq(Int) /\ <<n + 1>> \in Seq(Int) /\ <<n + 2>> \in Seq(Int)
  BY <1>4
<1>9. "start" \in Calls /\ "jmp" \in Calls
  BY DEF Calls
<1>10. /\ s1 \in Items /\ Decl(s1) = {} /\ j1 \in Items /\ Decl(j1) = {}
       /\ s2 \in Items /\ Decl(s2) = {} /\ e2 \in Items /\ Decl(e2) = {}
  BY <1>8, <1>9, DoItem, NoDecl
<1>11. c \in Items /\ Decl(c) = {}
  BY <1>2, <1>4, CondItem, NoDecl
(* The calls go through whatever has been made for them.                   *)
<1>12. ASSUME NEW B, Carries(g, A, g', B), {n, n + 1, f} \subseteq Places(g'),
              \A t \in {n, n + 1, f} : B[t] = X
       PROVE  /\ Passes(Ctx(g', vals, B), c, p, p) /\ Passes(Ctx(g', vals, B), s1, p, p)
              /\ Passes(Ctx(g', vals, B), s2, p, p) /\ Passes(Ctx(g', vals, B), j1, p, p)
              /\ Len(kids) = 2 => Passes(Ctx(g', vals, B), e2, p, p)
  <2> DEFINE d == Ctx(g', vals, B)
  <2>1. DOMAIN B = Places(g') /\ g'.irId = g.irId
    BY <1>12 DEF Carries, Shown, Grows
  <2>2. \A t \in {n, n + 1, f} : Enters(d, p, p, t) /\ Meets(d, p, t)
    BY <1>3, <1>12, <2>1, EntersNow
  <2>3. Free(Top.s.e) \subseteq p.syms
    BY <1>2, <1>3
  <2> HIDE DEF d, p, f
  <2>4. Passes(d, c, p, p)
    BY <1>6, <1>7, <2>2, <2>3, CondPasses
  <2>5. Passes(d, s1, p, p) /\ Passes(d, s2, p, p)
    BY <1>6, <2>2, StartPasses
  <2>6. Passes(d, j1, p, p)
    BY <1>6, <1>7, <2>2, JmpPasses
  <2>7. Len(kids) = 2 => Passes(d, e2, p, p)
    <3>1. Len(kids) = 2 => f = n + 2
      BY DEF f
    <3> QED BY <1>6, <2>2, <3>1, StartPasses
  <2> QED BY <2>4, <2>5, <2>6, <2>7 DEF d, p
<1>13. CASE Len(kids) = 2
  <2> DEFINE its == <<c, s1, a1, j1, e2, a2, j1, s2>>
  <2>1. g' = NewBlock(NewBlock(NewBlock(g))) /\ work' = its \o Tail(work)
    BY <1>13 DEF GenIf, Then
  <2>2. PICK B : /\ Carries(g, A, g', B) /\ B[n] = X /\ B[n + 1] = X /\ B[n + 2] = X
                 /\ g'.nb = n + 3
    BY <1>3, <1>4, <2>1, ThreeBlocks
  <2> DEFINE d == Ctx(g', vals, B)
  <2>3. {n, n + 1, f} \subseteq Places(g') /\ \A t \in {n, n + 1, f} : B[t] = X
    BY <1>4, <1>13, <2>2 DEF Places
  <2>4. /\ Passes(d, a1, p, p) /\ a1 \in Items /\ Decl(a1) \subseteq Decl(Top)
        /\ Passes(d, a2, p, p) /\ a2 \in Items /\ Decl(a2) \subseteq Decl(Top)
    BY <1>1, <1>2, <1>3, <1>13, <2>2, ArmPasses
  <2>5. Decl(a1) \cap Decl(a2) = {}
    <3>1. 1 \in DOMAIN Top.s.kids /\ 2 \in DOMAIN Top.s.kids /\ 1 # 2
      BY <1>2, <1>13
    <3> HIDE DEF c, s1, j1, s2, e2, d, p
    <3> QED BY ONLY <1>2, <3>1
  <2>6. /\ Passes(d, c, p, p) /\ Passes(d, s1, p, p) /\ Passes(d, s2, p, p)
        /\ Passes(d, j1, p, p) /\ Passes(d, e2, p, p)
    BY <1>12, <1>13, <2>2, <2>3
  <2> HIDE DEF c, s1, a1, j1, s2, e2, a2, d, p
  <2>7. /\ its \in Seq(Items) /\ DOMAIN its = 1 .. 8
        /\ its[1] = c /\ its[2] = s1 /\ its[3] = a1 /\ its[4] = j1
        /\ its[5] = e2 /\ its[6] = a2 /\ its[7] = j1 /\ its[8] = s2
    BY <1>10, <1>11, <2>4
  <2> HIDE DEF its
  <2>8. \A k \in 1 .. 8 : \/ k = 1 \/ k = 2 \/ k = 3 \/ k = 4
                          \/ k = 5 \/ k = 6 \/ k = 7 \/ k = 8
    OBVIOUS
  <2>9. \A k \in DOMAIN its : Passes(d, its[k], p, p)
    BY <2>4, <2>6, <2>7, <2>8
  <2>10. \A k \in DOMAIN its : Decl(its[k]) # {} => k = 3 \/ k = 6
    BY <1>10, <1>11, <2>7, <2>8
  <2>11. \A k \in DOMAIN its : Decl(its[k]) \subseteq Decl(Top)
    BY <2>4, <2>7, <2>10
  <2>12. \A i, j \in DOMAIN its : i # j => Decl(its[i]) \cap Decl(its[j]) = {}
    BY <2>5, <2>7, <2>10
  <2> QED BY <1>1, <1>2, <1>3, <2>1, <2>2, <2>7, <2>9, <2>11, <2>12, SteadyStep DEF d, p
<1>14. CASE Len(kids) # 2
  <2> DEFINE its == <<c, s1, a1, j1, s2>>
  <2>1. g' = NewBlock(NewBlock(g)) /\ work' = its \o Tail(work)
    BY <1>14 DEF GenIf, Then
  <2>2. PICK B : Carries(g, A, g', B) /\ B[n] = X /\ B[n + 1] = X /\ g'.nb = n + 2
    BY <1>3, <1>4, <2>1, TwoBlocks
  <2> DEFINE d == Ctx(g', vals, B)
  <2>3. {n, n + 1, f} \subseteq Places(g') /\ \A t \in {n, n + 1, f} : B[t] = X
    BY <1>4, <1>14, <2>2 DEF Places
  <2>4. Passes(d, a1, p, p) /\ a1 \in Items /\ Decl(a1) \subseteq Decl(Top)
    BY <1>1, <1>2, <1>3, <2>2, ArmPasses
  <2>5. /\ Passes(d, c, p, p) /\ Passes(d, s1, p, p) /\ Passes(d, s2, p, p)
        /\ Passes(d, j1, p, p)
    BY <1>12, <2>2, <2>3
  <2> HIDE DEF c, s1, a1, j1, s2, e2, a2, d, p
  <2>6. /\ its \in Seq(Items) /\ DOMAIN its = 1 .. 5
        /\ its[1] = c /\ its[2] = s1 /\ its[3] = a1 /\ its[4] = j1 /\ its[5] = s2
    BY <1>10, <1>11, <2>4
  <2> HIDE DEF its
  <2>7. \A k \in 1 .. 5 : k = 1 \/ k = 2 \/ k = 3 \/ k = 4 \/ k = 5
    OBVIOUS
  <2>8. \A k \in DOMAIN its : Passes(d, its[k], p, p)
    BY <2>4, <2>5, <2>6, <2>7
  <2>9. \A k \in DOMAIN its : Decl(its[k]) # {} => k = 3
    BY <1>10, <1>11, <2>6, <2>7
  <2>10. \A k \in DOMAIN its : Decl(its[k]) \subseteq Decl(Top)
    BY <2>4, <2>6, <2>9
  <2>11. \A i, j \in DOMAIN its : i # j => Decl(its[i]) \cap Decl(its[j]) = {}
    BY <2>9
  <2> QED BY <1>1, <1>2, <1>3, <2>1, <2>2, <2>6, <2>8, <2>10, <2>11, SteadyStep DEF d, p
<1> QED BY <1>13, <1>14

-----------------------------------------------------------------------------
(* Items that take values.                                                 *)
Sinks(p, q, n, m) ==
  /\ n =< p.vals /\ q.vals = p.vals - n + m
  /\ q.low =< p.low /\ q.low =< p.vals - n /\ q.loops = p.loops /\ q.av \subseteq p.av

LEMMA BrPasses ==
  ASSUME NEW c, NEW ns, NEW p \in Stages, NEW q \in Stages, Sinks(p, q, 1, 0),
         q.syms \subseteq p.syms, Meets(c, p, ns[1]), Meets(c, p, ns[2])
  PROVE  Passes(c, Do("br", ns), p, q)
<1> DEFINE it == Do("br", ns)
<1>1. it.do = "br" /\ it.n = ns
  BY DEF Do, Item
<1>2. p.vals \in Nat /\ q.vals \in Nat /\ p.loops \in Nat /\ q.loops \in Nat
  BY DEF Stages
<1> HIDE DEF it
<1>3. Takes(it) = 1 /\ Gives(it) = 0 /\ Pops(it) = 0 /\ ~Fills(it) /\ Reads(it) = {}
  BY <1>1 DEF Takes, Gives, Pops, Fills, Reads
<1>4. Counts(it, p, q)
  BY <1>2, <1>3 DEF Counts, Sinks
<1>5. Lands(c, it, p, q) /\ Proper(c, it, p)
  BY <1>1, <1>3 DEF Lands, Sinks, Proper
<1>6. Jumps(c, it, p)
  <2>1. Goals(c, it, p) = {ns[1], ns[2]}
    BY <1>1 DEF Goals
  <2> QED BY <1>1, <2>1 DEF Jumps, Meets
<1> QED BY <1>3, <1>4, <1>5, <1>6 DEF Passes, it

LEMMA ValuePasses ==
  ASSUME NEW c, NEW s, NEW p \in Stages, NEW q \in Stages, Sinks(p, q, 1, 0),
         q.syms \subseteq p.syms \cup Spells(DoValue(s)),
         s.kind = "Assign" /\ ~IsGlobal(s.sym) => s.sym.id \in p.syms,
         s.kind \in {"ExprStmt", "Assign", "Return", "VarDecl"},
         s.kind = "VarDecl" => s.sym.id \in DOMAIN c.ids /\ c.ids[s.sym.id] # NoReg
  PROVE  Passes(c, DoValue(s), p, q)
<1> DEFINE it == DoValue(s)
<1>1. it.do = "value" /\ it.s = s
  BY DEF DoValue, Item
<1>2. p.vals \in Nat /\ q.vals \in Nat /\ p.loops \in Nat /\ q.loops \in Nat
  BY DEF Stages
<1> HIDE DEF it
<1>3. /\ Takes(it) = 1 /\ Gives(it) = 0 /\ Pops(it) = 0 /\ ~Fills(it)
      /\ Reads(it) \subseteq p.syms
  BY <1>1 DEF Takes, Gives, Pops, Fills, Reads
<1>4. Counts(it, p, q)
  BY <1>2, <1>3 DEF Counts, Sinks
<1>5. Lands(c, it, p, q)
  BY <1>3 DEF Lands, Sinks, it
<1>6. Proper(c, it, p)
  BY <1>1 DEF Proper
<1>7. Jumps(c, it, p)
  BY <1>1 DEF Jumps, Goals
<1> QED BY <1>3, <1>4, <1>5, <1>6, <1>7 DEF Passes, it

LEMMA ApplyPasses ==
  ASSUME NEW c, NEW x \in Exprs, NEW p \in Stages, NEW q \in Stages,
         Sinks(p, q, Len(x.kids), 1), q.syms \subseteq p.syms,
         x.kind \in {"Binary", "Unary", "Call"}, x.op # "Plus"
  PROVE  Passes(c, [Item EXCEPT !.do = "apply", !.e = x], p, q)
<1> DEFINE it == [Item EXCEPT !.do = "apply", !.e = x]
<1>1. it.do = "apply" /\ it.e = x
  BY DEF Item
<1>2. p.vals \in Nat /\ q.vals \in Nat /\ p.loops \in Nat /\ q.loops \in Nat
  BY DEF Stages
<1> HIDE DEF it
<1>3. /\ Takes(it) = Len(x.kids) /\ Gives(it) = 1 /\ Pops(it) = 0 /\ ~Fills(it)
      /\ Reads(it) = {}
  BY <1>1 DEF Takes, Gives, Pops, Fills, Reads
<1>4. Counts(it, p, q)
  BY <1>2, <1>3 DEF Counts, Sinks
<1>5. Lands(c, it, p, q) /\ Proper(c, it, p)
  BY <1>1, <1>3 DEF Lands, Sinks, Proper
<1>6. Jumps(c, it, p)
  BY <1>1 DEF Jumps, Goals
<1> QED BY <1>3, <1>4, <1>5, <1>6 DEF Passes, it

LEMMA SetPasses ==
  ASSUME NEW c, NEW t, NEW v, NEW b \in {0, 1}, NEW e, NEW p \in Stages, NEW q \in Stages,
         Enters(c, p, q, t), e \in DOMAIN c.at, v \in c.made,
         c.at[e] \subseteq c.at[t] \cup {v}
  PROVE  Passes(c, Do("set", <<t, v, b, e>>), p, q)
<1> DEFINE it == Do("set", <<t, v, b, e>>)
<1>1. it.do = "set" /\ it.n[1] = t /\ it.n[2] = v /\ it.n[3] = b /\ it.n[4] = e
  BY DEF Do, Item
<1>2. /\ p.vals \in Nat /\ q.vals \in Nat /\ p.loops \in Nat /\ q.loops \in Nat
      /\ p.low \in Nat /\ q.low \in Nat
  BY DEF Stages
<1> HIDE DEF it
<1>3. Takes(it) = 0 /\ Gives(it) = 0 /\ Pops(it) = 0 /\ Fills(it) /\ Reads(it) = {}
  BY <1>1 DEF Takes, Gives, Pops, Fills, Reads
<1>4. Counts(it, p, q)
  BY <1>2, <1>3 DEF Counts, Enters
<1>5. Lands(c, it, p, q) /\ Proper(c, it, p)
  BY <1>1, <1>3 DEF Lands, Enters, Proper
<1>6. Jumps(c, it, p)
  BY <1>1 DEF Jumps, Goals
<1> QED BY <1>3, <1>4, <1>5, <1>6 DEF Passes, it

LEMMA YieldPasses ==
  ASSUME NEW c, NEW v, NEW p \in Stages, NEW q \in Stages, Rises(p, q), v \in p.av
  PROVE  Passes(c, Do("yield", <<v>>), p, q)
<1> DEFINE it == Do("yield", <<v>>)
<1>1. it.do = "yield" /\ it.n[1] = v
  BY DEF Do, Item
<1>2. p.vals \in Nat /\ q.vals \in Nat /\ p.loops \in Nat /\ q.loops \in Nat
  BY DEF Stages
<1> HIDE DEF it
<1>3. Takes(it) = 0 /\ Gives(it) = 1 /\ Pops(it) = 0 /\ ~Fills(it) /\ Reads(it) = {}
  BY <1>1 DEF Takes, Gives, Pops, Fills, Reads
<1>4. Counts(it, p, q)
  BY <1>2, <1>3 DEF Counts, Rises
<1>5. Lands(c, it, p, q) /\ Proper(c, it, p)
  BY <1>1, <1>3 DEF Lands, Rises, Proper
<1>6. Jumps(c, it, p)
  BY <1>1 DEF Jumps, Goals
<1> QED BY <1>3, <1>4, <1>5, <1>6 DEF Passes, it

-----------------------------------------------------------------------------
(* Calls, with a track of their own.                                       *)
LEMMA TrackStep ==
  ASSUME NEW A, Sound(ast, g, vals, work, A), work # << >>, Top = work[1],
         UNCHANGED <<ast, vals>>, NEW its \in Seq(Items), work' = its \o Tail(work),
         NEW B, Carries(g, A, g', B),
         \A k \in DOMAIN its : Decl(its[k]) \subseteq Decl(Top),
         \A i, j \in DOMAIN its : i # j => Decl(its[i]) \cap Decl(its[j]) = {},
         ~Fills(Top), Takes(Top) = 0, Pops(Top) = 0, Spells(Top) = {},
         NEW tr, Track(Ctx(g', vals, B), its, tr), tr[0] = Now(g, vals, A),
         tr[Len(its)].vals = Len(vals) + Gives(Top), tr[Len(its)].low >= Len(vals),
         tr[Len(its)].loops = Len(g.loops),
         Now(g, vals, A).syms \subseteq tr[Len(its)].syms,
         Now(g, vals, A).av \subseteq tr[Len(its)].av
  PROVE  TypeInv'
<1> DEFINE p == Now(g, vals, A)
           d == Ctx(g', vals, B)
           q == tr[Len(its)]
<1>1. /\ p \in Stages /\ p.vals = Len(vals) /\ p.low = Len(vals) /\ p.loops = Len(g.loops)
      /\ Len(vals) \in Nat
  BY StageNow DEF Sound
<1>2. q \in Stages
  <2>1. Len(its) \in 0 .. Len(its) /\ tr \in [0 .. Len(its) -> Stages]
    BY DEF Track
  <2> QED BY <2>1
<1>3. /\ p.syms \subseteq q.syms /\ p.av \subseteq q.av /\ q.vals = Len(vals) + Gives(Top)
      /\ q.low >= Len(vals) /\ q.loops = Len(g.loops)
  OBVIOUS
<1>4. ASSUME NEW r \in Stages, Passes(Ctx(g, vals, A), work[1], p, r)
      PROVE  Runs(d, its, p, r)
  <2> HIDE DEF p, d, q
  <2>1. /\ r.low =< p.low /\ r.loops = p.loops /\ r.syms \subseteq p.syms /\ r.av \subseteq p.av
        /\ r.vals = p.vals + Gives(Top)
    <3> DEFINE e == Ctx(g, vals, A)
               it == Top
    <3>1. Passes(e, it, p, r) /\ p \in Stages /\ r \in Stages
      BY <1>1, <1>4
    <3>2. ~Fills(it) /\ Takes(it) = 0 /\ Pops(it) = 0 /\ Spells(it) = {}
      OBVIOUS
    <3> HIDE DEF e, it
    <3>3. /\ r.low =< p.low /\ r.loops = p.loops /\ r.syms \subseteq p.syms
          /\ r.av \subseteq p.av /\ r.vals = p.vals + Gives(it)
      BY ONLY <3>1, <3>2, TopUnder, ZenonT(30)
    <3> QED BY <3>3 DEF it
  <2>2. r.low \in Nat /\ q.low \in Nat
    BY <1>2 DEF Stages
  <2>3. r.low =< q.low
    BY <1>1, <1>3, <2>1, <2>2
  <2>4. Under(r, q)
    BY <1>1, <1>3, <2>1, <2>3 DEF Under
  <2>5. Under(tr[0], p)
    BY <1>1, UnderSelf DEF p
  <2> QED BY <2>4, <2>5 DEF Runs, d, q
<1>5. Sound(ast, g', vals, its \o Tail(work), B)
  BY <1>4, CallSound
<1>6. Sound(ast', g', vals', work', B)
  BY <1>5
<1> QED BY <1>6 DEF TypeInv

LEMMA SoundCondValue ==
  ASSUME GenInv, TypeInv, CondValue
  PROVE  TypeInv'
<1> DEFINE x == DoExpr(Top.e)
           br == Do("br", Top.n)
           its == <<x, br>>
<1>1. Doing("cond") /\ UNCHANGED <<ast, vals, g>> /\ work' = its \o Tail(work)
  BY DEF CondValue, Then, Keep
<1>2. /\ work # << >> /\ Top = work[1] /\ Top.e \in Exprs /\ Top \in Items
      /\ ~Fills(Top) /\ Takes(Top) = 0 /\ Pops(Top) = 0 /\ Gives(Top) = 0 /\ Spells(Top) = {}
      /\ Reads(Top) = Free(Top.e) /\ Top.do = "cond"
  BY <1>1, CallTop
<1>3. PICK A : /\ Sound(ast, g, vals, work, A) /\ Good(ast, g, vals, A)
               /\ Typed(g) /\ Shown(g, A) /\ Now(g, vals, A) \in Stages
               /\ Reads(Top) \subseteq Now(g, vals, A).syms
               /\ Meets(Ctx(g, vals, A), Now(g, vals, A), Top.n[1])
               /\ Meets(Ctx(g, vals, A), Now(g, vals, A), Top.n[2])
  BY <1>1, CallSite
<1> DEFINE p == Now(g, vals, A)
           c == Ctx(g, vals, A)
           q == [p EXCEPT !.vals = @ + 1]
           tr == [k \in 0 .. 2 |-> IF k = 1 THEN q ELSE p]
<1>4. /\ p \in Stages /\ p.vals = Len(vals) /\ p.low = Len(vals) /\ p.loops = Len(g.loops)
      /\ Len(vals) \in Nat
  BY <1>3, StageNow
<1>5. Top.n \in Seq(Int) /\ Len(Top.n) = 2 /\ "br" \in Calls
  BY <1>2 DEF Items, AnyItem, Calls
<1>6. x \in Items /\ br \in Items /\ Decl(x) = {} /\ Decl(br) = {}
  BY <1>2, <1>5, ExprItem, DoItem, NoDecl
<1>7. Carries(g, A, g', A) /\ Ctx(g', vals, A) = c
  BY <1>1, <1>3, CarriesSelf
<1> HIDE DEF p, c
<1>8. /\ q \in Stages /\ q.vals = p.vals + 1 /\ q.low = p.low /\ q.loops = p.loops
      /\ q.syms = p.syms /\ q.av = p.av
  BY <1>4 DEF Stages
<1>9. Rises(p, q)
  BY <1>4, <1>8 DEF Rises
<1>10. Sinks(q, p, 1, 0)
  BY <1>4, <1>8 DEF Sinks
<1>11. Meets(c, q, Top.n[1]) /\ Meets(c, q, Top.n[2])
  BY <1>3, <1>8 DEF Meets, p, c
<1> HIDE DEF q
<1>12. Passes(c, x, p, q)
  <2>1. Free(Top.e) \subseteq p.syms
    BY <1>2, <1>3 DEF p
  <2> QED BY <1>4, <1>8, <1>9, <2>1, ExprPasses
<1>13. Passes(c, br, q, p)
  BY <1>4, <1>8, <1>10, <1>11, BrPasses
<1>14. tr \in [0 .. 2 -> Stages] /\ tr[0] = p /\ tr[1] = q /\ tr[2] = p
  BY <1>4, <1>8
<1> HIDE DEF tr, x, br
<1>15. its \in Seq(Items) /\ Len(its) = 2 /\ DOMAIN its = {1, 2} /\ its[1] = x /\ its[2] = br
  BY <1>6
<1> HIDE DEF its
<1>16. Track(c, its, tr)
  <2>1. \A k \in 1 .. 2 : (k = 1 /\ k - 1 = 0) \/ (k = 2 /\ k - 1 = 1)
    OBVIOUS
  <2> QED BY <1>12, <1>13, <1>14, <1>15, <2>1 DEF Track
<1>17. \A k \in DOMAIN its : Decl(its[k]) = {}
  BY <1>6, <1>15
<1>18. /\ tr[0] = p /\ tr[Len(its)] = p /\ p.vals = Len(vals) + Gives(Top)
       /\ p.low >= Len(vals) /\ p.loops = Len(g.loops)
  BY <1>2, <1>4, <1>14, <1>15
<1> QED BY <1>1, <1>2, <1>3, <1>7, <1>15, <1>16, <1>17, <1>18, TrackStep DEF p

-----------------------------------------------------------------------------
(* The symbols that a block has declared before its k-th statement.        *)
LEMMA SoundBlock ==
  ASSUME GenInv, TypeInv, GenBlock
  PROVE  TypeInv'
<1> DEFINE s == Top.s
           L == Len(s.kids)
           its == [k \in DOMAIN s.kids |-> DoStmt(s.kids[k])]
<1>1. /\ Doing("stmt") /\ UNCHANGED <<ast, vals, g>> /\ work' = its \o Tail(work)
      /\ s.kind \in {"Block", "Empty"}
  BY DEF GenBlock, Then, Keep
<1>2. /\ work # << >> /\ Top = work[1] /\ s \in Stmts
      /\ ~Fills(Top) /\ Takes(Top) = 0 /\ Pops(Top) = 0 /\ Gives(Top) = 0 /\ Spells(Top) = {}
      /\ Reads(Top) = Free(s) /\ Decl(Top) = Declares(s)
  BY <1>1, CallTop
<1>3. PICK A : /\ Sound(ast, g, vals, work, A) /\ Good(ast, g, vals, A)
               /\ Typed(g) /\ Shown(g, A) /\ Now(g, vals, A) \in Stages
               /\ Reads(Top) \subseteq Now(g, vals, A).syms
               /\ MayLeave(Ctx(g, vals, A), Now(g, vals, A), s) /\ InBlocks(s)
  BY <1>1, CallSite
<1> DEFINE p == Now(g, vals, A)
           c == Ctx(g, vals, A)
           tr == [k \in 0 .. L |-> [p EXCEPT !.syms = @ \cup Spelt(s, k)]]
<1>4. /\ p \in Stages /\ p.vals = Len(vals) /\ p.low = Len(vals) /\ p.loops = Len(g.loops)
      /\ Len(vals) \in Nat
  BY <1>3, StageNow
<1>5. s.kids \in Seq(Stmts)
  BY <1>2, TreesAssumption
<1>6. /\ L \in Nat /\ DOMAIN s.kids = 1 .. L /\ \A k \in 1 .. L : s.kids[k] \in Stmts
  BY <1>5
<1>7. Carries(g, A, g', A) /\ Ctx(g', vals, A) = c
  BY <1>1, <1>3, CarriesSelf
<1>8. \A k \in 1 .. L : /\ Free(s.kids[k]) \subseteq Free(s) \cup Spelt(s, k - 1)
                        /\ Declares(s.kids[k]) \subseteq Declares(s)
                        /\ \A j \in 1 .. L : j # k =>
                             Declares(s.kids[j]) \cap Declares(s.kids[k]) = {}
                        /\ Leaves(s.kids[k]) => Leaves(s)
                        /\ InBlocks(s.kids[k])
                        /\ s.kids[k].kind = "VarDecl" => s.kids[k].sym.id \in Declares(s.kids[k])
  <2> TAKE k \in 1 .. L
  <2>1. Free(s.kids[k]) \subseteq Free(s) \cup Spelt(s, k - 1) /\ InBlocks(s.kids[k])
    BY <1>2, <1>3, <1>6, InnerScope
  <2>2. Declares(s.kids[k]) \subseteq Declares(s)
    BY <1>2, <1>6, ScopeAssumption
  <2>3. \A j \in 1 .. L : j # k => Declares(s.kids[j]) \cap Declares(s.kids[k]) = {}
    BY <1>2, <1>6, ScopeAssumption
  <2>4. Leaves(s.kids[k]) => Leaves(s)
    BY <1>1, <1>2, <1>6, ScopeAssumption
  <2>5. s.kids[k].kind = "VarDecl" => s.kids[k].sym.id \in Declares(s.kids[k])
    BY <1>6, ScopeAssumption
  <2> QED BY <2>1, <2>2, <2>3, <2>4, <2>5
<1>9. Declares(s) \subseteq Int
  <2>1. Undeclared(work, g.irId) /\ 1 \in DOMAIN work
    BY <1>2, <1>3 DEF Sound
  <2>2. Decl(Top) \subseteq DOMAIN g.irId
    BY <1>2, <2>1 DEF Undeclared
  <2>3. DOMAIN g.irId \subseteq Int
    <3>1. DOMAIN g.irId = 0 .. ast.numSyms - 1
      BY <1>3 DEF Good
    <3> QED BY <3>1
  <2> QED BY <1>2, <2>2, <2>3
<1> HIDE DEF p, c
<1>10. \A k \in 0 .. L : Spelt(s, k) \subseteq Int
  <2> TAKE k \in 0 .. L
  <2>1. \A i \in 1 .. k : i \in 1 .. L
    BY <1>6
  <2> QED BY <1>8, <1>9, <2>1 DEF Spelt
<1>11. /\ tr \in [0 .. L -> Stages] /\ tr[0].syms = p.syms
       /\ \A k \in 0 .. L : /\ tr[k].vals = p.vals /\ tr[k].low = p.low
                            /\ tr[k].loops = p.loops /\ tr[k].av = p.av
                            /\ tr[k].syms = p.syms \cup Spelt(s, k)
  <2>1. \A k \in 0 .. L : [p EXCEPT !.syms = @ \cup Spelt(s, k)] \in Stages
    BY <1>4, <1>10 DEF Stages
  <2>2. tr \in [0 .. L -> Stages]
    BY <2>1
  <2>3. \A k \in 0 .. L : /\ tr[k].vals = p.vals /\ tr[k].low = p.low
                          /\ tr[k].loops = p.loops /\ tr[k].av = p.av
                          /\ tr[k].syms = p.syms \cup Spelt(s, k)
    BY <1>4 DEF Stages
  <2>4. Spelt(s, 0) = {} /\ 0 \in 0 .. L
    BY <1>6 DEF Spelt
  <2> QED BY <2>2, <2>3, <2>4
<1>12. tr[0] = p
  <2>1. tr[0] = [p EXCEPT !.syms = @ \cup Spelt(s, 0)] /\ Spelt(s, 0) = {}
    BY <1>6 DEF Spelt
  <2> QED BY <1>4, <2>1 DEF Stages
<1> HIDE DEF tr
<1>13. /\ its \in Seq(Items) /\ Len(its) = L /\ DOMAIN its = 1 .. L
       /\ \A k \in 1 .. L : its[k] = DoStmt(s.kids[k])
  <2>1. \A k \in 1 .. L : DoStmt(s.kids[k]) \in Items
    BY <1>6, StmtItem
  <2> QED BY <1>6, <2>1
<1> HIDE DEF its, s, L
<1>14. ASSUME NEW k \in 1 .. L PROVE Passes(c, its[k], tr[k - 1], tr[k])
  <2> DEFINE t == s.kids[k]
             a == tr[k - 1]
             b == tr[k]
  <2>1. k - 1 \in 0 .. L /\ k \in 0 .. L /\ k \in 1 .. k
    BY <1>6
  <2>2. /\ a \in Stages /\ b \in Stages /\ a.vals = p.vals /\ b.vals = p.vals
        /\ a.low = p.low /\ b.low = p.low /\ a.loops = p.loops /\ b.loops = p.loops
        /\ a.av = p.av /\ b.av = p.av
        /\ a.syms = p.syms \cup Spelt(s, k - 1) /\ b.syms = p.syms \cup Spelt(s, k)
    BY <1>11, <2>1
  <2>3. Spells(DoStmt(t)) = IF t.kind = "VarDecl" THEN {t.sym.id} ELSE {}
    BY DEF Spells, DoStmt, Item
  <2>4. Spelt(s, k) \subseteq Spelt(s, k - 1) \cup Spells(DoStmt(t))
    <3>1. \A j \in 1 .. k : j \in 1 .. k - 1 \/ j = k
      BY <1>6
    <3> QED BY <2>3, <3>1 DEF Spelt
  <2>5. Free(t) \subseteq a.syms /\ InBlocks(t)
    BY <1>2, <1>3, <1>8, <2>2 DEF p
  <2>6. MayLeave(c, a, t)
    <3>1. MayLeave(c, p, s) /\ (Leaves(t) => Leaves(s))
      BY <1>3, <1>8 DEF c, p, s
    <3> QED BY <2>2, <3>1 DEF MayLeave, Meets
  <2> HIDE DEF a, b, t
  <2>7. Flat(a, b, Spells(DoStmt(t)))
    BY <1>4, <2>2, <2>4 DEF Flat
  <2>8. Passes(c, DoStmt(t), a, b)
    BY <2>2, <2>5, <2>6, <2>7, StmtPasses
  <2> QED BY <1>13, <2>8 DEF a, b, t
<1>15. Track(c, its, tr)
  BY <1>11, <1>13, <1>14 DEF Track
<1>16. \A k \in DOMAIN its : Decl(its[k]) = Declares(s.kids[k])
  BY <1>13, NoDecl
<1>17. /\ \A k \in DOMAIN its : Decl(its[k]) \subseteq Decl(Top)
       /\ \A i, j \in DOMAIN its : i # j => Decl(its[i]) \cap Decl(its[j]) = {}
  <2>1. \A k \in DOMAIN its : Decl(its[k]) \subseteq Decl(Top)
    BY <1>2, <1>8, <1>13, <1>16
  <2>2. \A i, j \in DOMAIN its : i # j => Decl(its[i]) \cap Decl(its[j]) = {}
    BY <1>8, <1>13, <1>16
  <2> QED BY <2>1, <2>2
<1>18. /\ tr[Len(its)].vals = Len(vals) + Gives(Top) /\ tr[Len(its)].low >= Len(vals)
       /\ tr[Len(its)].loops = Len(g.loops)
       /\ p.syms \subseteq tr[Len(its)].syms /\ p.av \subseteq tr[Len(its)].av
  <2>1. L \in 0 .. L
    BY <1>6
  <2> QED BY <1>2, <1>4, <1>11, <1>13, <2>1
<1> QED BY <1>1, <1>2, <1>3, <1>7, <1>12, <1>13, <1>15, <1>17, <1>18, TrackStep DEF p

LEMMA SoundOperands ==
  ASSUME GenInv, TypeInv, GenOperands
  PROVE  TypeInv'
<1> DEFINE e == Top.e
           L == Len(e.kids)
           xs == [k \in DOMAIN e.kids |-> DoExpr(e.kids[k])]
           app == [Item EXCEPT !.do = "apply", !.e = e]
           M == IF e.op = "Plus" THEN L ELSE L + 1
           its == xs \o (IF e.op = "Plus" THEN << >> ELSE <<app>>)
<1>1. /\ Doing("expr") /\ UNCHANGED <<ast, vals, g>> /\ work' = its \o Tail(work)
      /\ e.kind \in {"Binary", "Unary", "Call"}
  BY DEF GenOperands, Then, Keep
<1>2. /\ work # << >> /\ Top = work[1] /\ e \in Exprs
      /\ ~Fills(Top) /\ Takes(Top) = 0 /\ Pops(Top) = 0 /\ Gives(Top) = 1 /\ Spells(Top) = {}
      /\ Reads(Top) = Free(e)
  BY <1>1, CallTop
<1>3. PICK A : /\ Sound(ast, g, vals, work, A) /\ Good(ast, g, vals, A)
               /\ Typed(g) /\ Shown(g, A) /\ Now(g, vals, A) \in Stages
               /\ Reads(Top) \subseteq Now(g, vals, A).syms
  BY <1>1, CallSite
<1> DEFINE p == Now(g, vals, A)
           c == Ctx(g, vals, A)
           tr == [k \in 0 .. M |-> [p EXCEPT !.vals = @ + (IF k = L + 1 THEN 1 ELSE k)]]
<1>4. /\ p \in Stages /\ p.vals = Len(vals) /\ p.low = Len(vals) /\ p.loops = Len(g.loops)
      /\ Len(vals) \in Nat
  BY <1>3, StageNow
<1>5. e.kids \in Seq(Exprs) /\ (e.op = "Plus" => L = 1)
  <2>1. BinaryOps \cap {"Plus"} = {}
    BY DEF BinaryOps
  <2> QED BY <1>1, <1>2, <2>1, TreesAssumption
<1>6. /\ L \in Nat /\ DOMAIN e.kids = 1 .. L
      /\ \A k \in 1 .. L : e.kids[k] \in Exprs
  BY <1>5
<1>7. \A k \in 1 .. L : Free(e.kids[k]) \subseteq p.syms
  <2>1. \A k \in 1 .. L : Free(e.kids[k]) \subseteq Free(e)
    BY <1>2, <1>6, ScopeAssumption
  <2> QED BY <1>2, <1>3, <2>1
<1>8. Carries(g, A, g', A) /\ Ctx(g', vals, A) = c
  BY <1>1, <1>3, CarriesSelf
<1> HIDE DEF p, c
<1>9. M \in Nat /\ (e.op = "Plus" => M = L /\ L = 1) /\ (e.op # "Plus" => M = L + 1)
  BY <1>5, <1>6
<1>10. /\ tr \in [0 .. M -> Stages]
       /\ \A k \in 0 .. M : /\ tr[k].vals = p.vals + (IF k = L + 1 THEN 1 ELSE k)
                            /\ tr[k].low = p.low /\ tr[k].loops = p.loops
                            /\ tr[k].syms = p.syms /\ tr[k].av = p.av
  <2>1. \A k \in 0 .. M : (IF k = L + 1 THEN 1 ELSE k) \in Nat
    BY <1>9
  <2> QED BY <1>4, <2>1 DEF Stages
<1>11. tr[0] = p
  <2>1. 0 \in 0 .. M /\ 0 # L + 1 /\ p.vals + 0 = p.vals
    BY <1>4, <1>6, <1>9
  <2>2. tr[0] = [p EXCEPT !.vals = @ + 0]
    BY <2>1
  <2> QED BY <1>4, <2>1, <2>2 DEF Stages
<1> HIDE DEF tr, e, L, M
<1>12. /\ xs \in Seq(Items) /\ Len(xs) = L /\ \A k \in 1 .. L : xs[k] = DoExpr(e.kids[k])
       /\ app \in Items
  <2>1. \A k \in 1 .. L : DoExpr(e.kids[k]) \in Items
    BY <1>6, ExprItem
  <2>2. app \in Items
    BY <1>2, ExprItem
  <2>3. xs = [k \in 1 .. L |-> DoExpr(e.kids[k])]
    BY <1>6
  <2> HIDE DEF xs, app
  <2>4. xs \in Seq(Items) /\ Len(xs) = L /\ \A k \in 1 .. L : xs[k] = DoExpr(e.kids[k])
    BY <1>6, <2>1, <2>3
  <2> QED BY <2>2, <2>4
<1> HIDE DEF xs, app
<1>13. /\ its \in Seq(Items) /\ Len(its) = M /\ DOMAIN its = 1 .. M
       /\ \A k \in 1 .. L : its[k] = DoExpr(e.kids[k])
       /\ e.op # "Plus" => its[L + 1] = app
  <2>1. CASE e.op = "Plus"
    <3>1. its = xs
      BY <1>12, <2>1
    <3> QED BY <1>9, <1>12, <2>1, <3>1
  <2>2. CASE e.op # "Plus"
    <3>1. its = xs \o <<app>>
      BY <2>2
    <3> HIDE DEF its
    <3> QED BY <1>6, <1>9, <1>12, <2>2, <3>1
  <2> QED BY <2>1, <2>2
<1> HIDE DEF its
<1>14. ASSUME NEW k \in 1 .. M PROVE Passes(c, its[k], tr[k - 1], tr[k]) /\ Decl(its[k]) = {}
  <2> DEFINE a == tr[k - 1]
             b == tr[k]
  <2>1. k - 1 \in 0 .. M /\ k \in 0 .. M /\ k - 1 # L + 1
    BY <1>6, <1>9
  <2>2. /\ a \in Stages /\ b \in Stages /\ a.vals = p.vals + (k - 1)
        /\ b.vals = p.vals + (IF k = L + 1 THEN 1 ELSE k)
        /\ a.low = p.low /\ b.low = p.low /\ a.loops = p.loops /\ b.loops = p.loops
        /\ a.av = p.av /\ b.av = p.av /\ a.syms = p.syms /\ b.syms = p.syms
    BY <1>10, <2>1
  <2> HIDE DEF a, b
  <2>3. CASE k \in 1 .. L
    <3>1. b.vals = a.vals + 1 /\ a.low =< a.vals /\ p.low =< p.low
      <4>1. k # L + 1
        BY <1>6, <2>3
      <4> QED BY <1>4, <1>6, <2>2, <2>3, <4>1
    <3>2. Rises(a, b)
      <4>1. p.low \in Nat
        BY <1>4
      <4> QED BY <2>2, <3>1, <4>1 DEF Rises
    <3>3. Free(e.kids[k]) \subseteq a.syms
      BY <1>7, <2>2, <2>3
    <3>4. Passes(c, DoExpr(e.kids[k]), a, b)
      BY <2>2, <3>2, <3>3, ExprPasses
    <3>5. its[k] = DoExpr(e.kids[k])
      BY <1>13, <2>3
    <3> QED BY <3>4, <3>5, NoDecl DEF a, b
  <2>4. CASE k \notin 1 .. L
    <3>1. k = L + 1 /\ e.op # "Plus" /\ its[k] = app
      BY <1>6, <1>9, <1>13, <2>4
    <3>2. a.vals = p.vals + L /\ b.vals = p.vals + 1
      BY <1>4, <1>6, <2>2, <3>1
    <3>3. Sinks(a, b, Len(e.kids), 1)
      <4>1. L =< a.vals /\ a.vals - L = p.vals /\ p.low =< p.low /\ p.low =< p.vals
        BY <1>4, <1>6, <3>2
      <4> QED BY <2>2, <3>2, <4>1 DEF Sinks, L
    <3>4. e \in Exprs /\ e.kind \in {"Binary", "Unary", "Call"}
      BY <1>1, <1>2 DEF e
    <3>5. Passes(c, app, a, b)
      BY <2>2, <3>1, <3>3, <3>4, ApplyPasses DEF app
    <3>6. Decl(app) = {}
      BY DEF app, Decl, Item
    <3> QED BY <3>1, <3>5, <3>6 DEF a, b
  <2> QED BY <2>3, <2>4
<1>15. Track(c, its, tr)
  BY <1>10, <1>13, <1>14 DEF Track
<1>16. /\ tr[Len(its)].vals = Len(vals) + Gives(Top) /\ tr[Len(its)].low >= Len(vals)
       /\ tr[Len(its)].loops = Len(g.loops)
       /\ p.syms \subseteq tr[Len(its)].syms /\ p.av \subseteq tr[Len(its)].av
  <2>1. M \in 0 .. M /\ (IF M = L + 1 THEN 1 ELSE M) = 1
    BY <1>6, <1>9
  <2>2. Gives(Top) = 1 /\ Len(its) = M
    BY <1>2, <1>13
  <2>3. tr[M].vals = p.vals + 1 /\ tr[M].low = p.low
        /\ tr[M].loops = p.loops /\ tr[M].syms = p.syms /\ tr[M].av = p.av
    BY <1>10, <2>1
  <2> QED BY <1>4, <2>2, <2>3
<1>17. \A k \in DOMAIN its : Decl(its[k]) = {}
  BY <1>13, <1>14
<1> QED BY <1>1, <1>2, <1>3, <1>8, <1>11, <1>13, <1>15, <1>16, <1>17, TrackStep DEF p

-----------------------------------------------------------------------------
(* A value is evaluated and then taken.                                    *)
LEMMA TwoItems ==
  ASSUME NEW c, NEW a \in Items, NEW b \in Items, NEW p \in Stages, NEW q \in Stages,
         NEW r \in Stages, Passes(c, a, p, q), Passes(c, b, q, r)
  PROVE  /\ <<a, b>> \in Seq(Items) /\ DOMAIN <<a, b>> = {1, 2} /\ Len(<<a, b>>) = 2
         /\ <<a, b>>[1] = a /\ <<a, b>>[2] = b
         /\ \E tr : /\ Track(c, <<a, b>>, tr) /\ tr[0] = p /\ tr[Len(<<a, b>>)] = r
<1> DEFINE tr == [k \in 0 .. 2 |-> IF k = 0 THEN p ELSE IF k = 1 THEN q ELSE r]
           its == <<a, b>>
<1>1. /\ its \in Seq(Items) /\ DOMAIN its = {1, 2} /\ Len(its) = 2
      /\ its[1] = a /\ its[2] = b
  OBVIOUS
<1>2. tr \in [0 .. 2 -> Stages] /\ tr[0] = p /\ tr[1] = q /\ tr[2] = r
  OBVIOUS
<1> HIDE DEF tr, its
<1>3. \A k \in 1 .. 2 : (k = 1 /\ k - 1 = 0) \/ (k = 2 /\ k - 1 = 1)
  OBVIOUS
<1>4. Track(c, its, tr)
  BY <1>1, <1>2, <1>3 DEF Track
<1> QED BY <1>1, <1>2, <1>4 DEF its

LEMMA SoundValue ==
  ASSUME GenInv, TypeInv, GenValueStmt, Top.s.kind # "VarDecl"
  PROVE  TypeInv'
<1> DEFINE s == Top.s
           x == DoExpr(s.e)
           v == DoValue(s)
           its == <<x, v>>
<1>1. /\ Doing("stmt") /\ UNCHANGED <<ast, vals, g>> /\ work' = its \o Tail(work)
      /\ s.kind \in {"ExprStmt", "Assign", "Return"} /\ s.hasE
  BY DEF GenValueStmt, Then, Keep
<1>2. /\ work # << >> /\ Top = work[1] /\ s \in Stmts
      /\ ~Fills(Top) /\ Takes(Top) = 0 /\ Pops(Top) = 0 /\ Gives(Top) = 0 /\ Spells(Top) = {}
      /\ Reads(Top) = Free(s)
  BY <1>1, CallTop
<1>3. PICK A : /\ Sound(ast, g, vals, work, A) /\ Good(ast, g, vals, A)
               /\ Typed(g) /\ Shown(g, A) /\ Now(g, vals, A) \in Stages
               /\ Reads(Top) \subseteq Now(g, vals, A).syms
  BY <1>1, CallSite
<1> DEFINE p == Now(g, vals, A)
           c == Ctx(g, vals, A)
           q == [p EXCEPT !.vals = @ + 1]
<1>4. /\ p \in Stages /\ p.vals = Len(vals) /\ p.low = Len(vals) /\ p.loops = Len(g.loops)
      /\ Len(vals) \in Nat
  BY <1>3, StageNow
<1>5. s.e \in Exprs
  BY <1>2, TreesAssumption
<1>6. x \in Items /\ v \in Items /\ Decl(x) = {} /\ Decl(v) = {}
  BY <1>2, <1>5, ExprItem, StmtItem, NoDecl
<1>7. Carries(g, A, g', A) /\ Ctx(g', vals, A) = c
  BY <1>1, <1>3, CarriesSelf
<1>8. Free(s) \subseteq p.syms
  BY <1>2, <1>3
<1> HIDE DEF p, c
<1>9. /\ q \in Stages /\ q.vals = p.vals + 1 /\ q.low = p.low /\ q.loops = p.loops
      /\ q.syms = p.syms /\ q.av = p.av
  BY <1>4 DEF Stages
<1>10. Free(s.e) \subseteq p.syms /\ (s.kind = "Assign" /\ ~IsGlobal(s.sym) => s.sym.id \in q.syms)
  BY <1>1, <1>2, <1>8, <1>9, ScopeAssumption
<1> HIDE DEF q, s
<1>11. Rises(p, q) /\ Sinks(q, p, 1, 0)
  BY <1>4, <1>9 DEF Rises, Sinks
<1>12. Passes(c, x, p, q)
  BY <1>4, <1>9, <1>10, <1>11, ExprPasses
<1>13. Passes(c, v, q, p)
  BY <1>1, <1>4, <1>9, <1>10, <1>11, ValuePasses
<1> HIDE DEF x, v
<1>14. PICK tr : Track(c, its, tr) /\ tr[0] = p /\ tr[Len(its)] = p
  BY <1>4, <1>6, <1>9, <1>12, <1>13, TwoItems
<1>15. its \in Seq(Items) /\ DOMAIN its = {1, 2} /\ its[1] = x /\ its[2] = v
  BY <1>6
<1> HIDE DEF its
<1>16. \A k \in DOMAIN its : Decl(its[k]) = {}
  BY <1>6, <1>15
<1>17. p.vals = Len(vals) + Gives(Top) /\ p.low >= Len(vals)
  BY <1>2, <1>4
<1> QED BY <1>1, <1>2, <1>3, <1>4, <1>7, <1>14, <1>15, <1>16, <1>17, TrackStep DEF p

(* A declared variable gets a vreg.                                        *)
DeclaredIn(A, x, o) ==
  /\ Good(ast, o, vals, A) /\ DOMAIN o.irId = DOMAIN g.irId /\ o.irId[x] # NoReg
  /\ \A y \in DOMAIN g.irId : y # x => o.irId[y] = g.irId[y]
  /\ \A r : Extends(Ctx(g, vals, A), Ctx(o, vals, A), r)
  /\ Now(o, vals, A) \in Stages /\ o.loops = g.loops
  /\ Now(g, vals, A).syms \subseteq Now(o, vals, A).syms
  /\ Now(g, vals, A).av \subseteq Now(o, vals, A).av

LEMMA Declared ==
  ASSUME NEW A, Good(ast, g, vals, A), NEW x \in DOMAIN g.irId, g.irId[x] = NoReg,
         NEW o, o = [NewVreg(g) EXCEPT !.irId[x] = g.nextVreg]
  PROVE  DeclaredIn(A, x, o)
<1> DEFINE h == NewVreg(g)
           v == g.nextVreg
<1>1. Typed(g) /\ Shown(g, A)
  BY DEF Good
<1>2. /\ Carries(g, A, h, A) /\ v \in Temps(h) /\ Grows(g, h)
  BY <1>1, NewVregCarries, NewVregGrows
<1>3. /\ vals \in Seq(Vals(Temps(h)))
      /\ \A k \in DOMAIN vals : OperandRegs(vals[k]) \subseteq At(h, A)
      /\ Temps(g) \subseteq Temps(h) /\ h.irId = g.irId /\ h.loops = g.loops
      /\ At(g, A) \subseteq At(h, A) /\ Typed(h)
  BY <1>2, ValsKept DEF Carries, Grows
<1>4. Good(ast, h, vals, A)
  BY <1>2, <1>3, GoodKept
<1> HIDE DEF h
<1>5. v # NoReg
  BY <1>1 DEF Typed, NoReg
<1> HIDE DEF v
<1>6. o = [h EXCEPT !.irId[x] = v]
  BY DEF h, v
<1>7. /\ DOMAIN o = DOMAIN h /\ o.nb = h.nb /\ o.cur = h.cur /\ o.sealed = h.sealed
      /\ o.nextVreg = h.nextVreg /\ o.loops = h.loops /\ o.blocks = h.blocks
      /\ o.irId = [h.irId EXCEPT ![x] = v]
  BY <1>3, <1>6 DEF Typed
<1>8. Places(o) = Places(h) /\ Temps(o) = Temps(h) /\ At(o, A) = At(h, A)
  BY <1>7 DEF Places, Temps, At
<1>9. Typed(o)
  BY <1>3, <1>7, <1>8 DEF Typed
<1>10. Shown(o, A)
  BY <1>4, <1>7, <1>8 DEF Good, Shown
<1>11. /\ DOMAIN o.irId = DOMAIN g.irId /\ o.irId[x] = v
       /\ \A y \in DOMAIN g.irId : y # x => o.irId[y] = g.irId[y]
  BY <1>3, <1>7
<1>12. o.irId \in [0 .. ast.numSyms - 1 -> Temps(o) \cup {NoReg}]
  <2>1. h.irId \in [0 .. ast.numSyms - 1 -> Temps(h) \cup {NoReg}]
    BY <1>4 DEF Good
  <2>2. v \in Temps(o) /\ x \in 0 .. ast.numSyms - 1
    BY <1>2, <1>3, <1>8, <2>1
  <2> DEFINE T == Temps(o) \cup {NoReg}
             D == 0 .. ast.numSyms - 1
             was == h.irId
  <2>3. o.irId = [was EXCEPT ![x] = v] /\ was \in [D -> T] /\ v \in T /\ x \in D
    BY <1>7, <1>8, <2>1, <2>2
  <2> HIDE DEF T, D, was
  <2>4. o.irId \in [D -> T]
    BY ONLY <2>3
  <2> QED BY <2>4 DEF T, D
<1>13. Good(ast, o, vals, A)
  BY <1>4, <1>7, <1>8, <1>9, <1>10, <1>12 DEF Good
<1>14. \A r : Extends(Ctx(g, vals, A), Ctx(o, vals, A), r)
  <2> DEFINE c == Ctx(g, vals, A)
             d == Ctx(o, vals, A)
  <2>1. /\ c.at = A /\ d.at = A /\ c.ids = g.irId /\ d.ids = o.irId /\ c.loops = g.loops
        /\ d.loops = g.loops /\ c.vals = vals /\ d.vals = vals
        /\ c.made = Temps(g) /\ d.made = Temps(o)
    BY <1>3, <1>7 DEF Ctx
  <2> HIDE DEF c, d
  <2>2. \A y \in DOMAIN g.irId : g.irId[y] # NoReg => o.irId[y] = g.irId[y]
    BY <1>11
  <2>3. Temps(g) \subseteq Temps(o)
    BY <1>3, <1>8
  <2>4. \A r : Extends(c, d, r)
    BY <1>11, <2>1, <2>2, <2>3 DEF Extends
  <2> QED BY <2>4 DEF c, d
<1>15. Now(o, vals, A) \in Stages
  BY <1>13, NowStage
<1>16. /\ Now(g, vals, A).syms \subseteq Now(o, vals, A).syms
       /\ Now(g, vals, A).av \subseteq Now(o, vals, A).av
  <2>1. At(g, A) \subseteq At(o, A)
    BY <1>3, <1>8
  <2>2. Held(g.irId, At(g, A)) \subseteq Held(o.irId, At(o, A))
    BY <1>11, <2>1 DEF Held
  <2> QED BY <2>1, <2>2 DEF Now
<1> QED BY <1>3, <1>5, <1>7, <1>11, <1>13, <1>14, <1>15, <1>16 DEF DeclaredIn

LEMMA SoundVarDecl ==
  ASSUME GenInv, TypeInv, GenValueStmt, Top.s.kind = "VarDecl"
  PROVE  TypeInv'
<1> DEFINE s == Top.s
           y == s.sym.id
           x == DoExpr(s.e)
           v == DoValue(s)
           its == <<x, v>>
<1>1. /\ Doing("stmt") /\ UNCHANGED <<ast, vals>> /\ work' = its \o Tail(work)
      /\ s.kind = "VarDecl" /\ s.hasE
      /\ g' = [NewVreg(g) EXCEPT !.irId[y] = g.nextVreg]
  BY DEF GenValueStmt, Then, Keep
<1>2. /\ work # << >> /\ Top = work[1] /\ s \in Stmts
      /\ ~Fills(Top) /\ Takes(Top) = 0 /\ Pops(Top) = 0 /\ Gives(Top) = 0 /\ Spells(Top) = {y}
      /\ Reads(Top) = Free(s) /\ Decl(Top) = Declares(s)
  BY <1>1, CallTop
<1>3. PICK A : /\ Sound(ast, g, vals, work, A) /\ Good(ast, g, vals, A)
               /\ Now(g, vals, A) \in Stages
               /\ Reads(Top) \subseteq Now(g, vals, A).syms
  BY <1>1, CallSite
<1>4. y \in Declares(s) /\ Free(s.e) \subseteq Free(s) /\ s.e \in Exprs
  BY <1>1, <1>2, TreesAssumption, ScopeAssumption
<1>5. y \in DOMAIN g.irId /\ g.irId[y] = NoReg /\ y \in Int /\ work \in Seq(Items)
      /\ Undeclared(work, g.irId)
  <2>1. Undeclared(work, g.irId) /\ 1 \in DOMAIN work /\ work \in Seq(Items)
    BY <1>2, <1>3 DEF Sound
  <2>2. Decl(Top) \subseteq {z \in DOMAIN g.irId : g.irId[z] = NoReg}
    BY <1>2, <2>1 DEF Undeclared
  <2>3. DOMAIN g.irId \subseteq Int
    <3>1. DOMAIN g.irId = 0 .. ast.numSyms - 1
      BY <1>3 DEF Good
    <3> QED BY <3>1
  <2> QED BY <1>2, <1>4, <2>1, <2>2, <2>3
<1>6. /\ Good(ast, g', vals, A) /\ DOMAIN g'.irId = DOMAIN g.irId /\ g'.irId[y] # NoReg
      /\ \A z \in DOMAIN g.irId : z # y => g'.irId[z] = g.irId[z]
      /\ \A r : Extends(Ctx(g, vals, A), Ctx(g', vals, A), r)
      /\ Now(g', vals, A) \in Stages /\ g'.loops = g.loops
      /\ Now(g, vals, A).syms \subseteq Now(g', vals, A).syms
      /\ Now(g, vals, A).av \subseteq Now(g', vals, A).av
  <2> HIDE DEF y, s
  <2>1. y \in DOMAIN g.irId /\ g.irId[y] = NoReg
    BY <1>5
  <2>2. g' = [NewVreg(g) EXCEPT !.irId[y] = g.nextVreg]
    BY <1>1
  <2>3. Good(ast, g, vals, A)
    BY <1>3
  <2>4. DeclaredIn(A, y, g')
    BY ONLY <2>1, <2>2, <2>3, Declared
  <2> QED BY <2>4 DEF DeclaredIn
<1>7. x \in Items /\ v \in Items /\ Decl(x) = {} /\ Decl(v) = {}
  BY <1>2, <1>4, ExprItem, StmtItem, NoDecl
<1>8. Spells(v) = {y}
  BY <1>1 DEF Spells, DoValue, Item
<1> DEFINE p == Now(g, vals, A)
           d == Ctx(g', vals, A)
           a == Now(g', vals, A)
           b == [a EXCEPT !.vals = @ + 1]
           e == [a EXCEPT !.syms = @ \cup {y}]
<1>9. /\ p.vals = Len(vals) /\ p.low = Len(vals) /\ p.loops = Len(g.loops)
      /\ a.vals = Len(vals) /\ a.low = Len(vals) /\ a.loops = Len(g.loops)
      /\ Len(vals) \in Nat /\ d.ids = g'.irId
  BY <1>3, <1>6, StageNow DEF Now, Ctx
<1>10. Free(s.e) \subseteq a.syms /\ a \in Stages /\ p \in Stages
  BY <1>2, <1>3, <1>4, <1>6
<1> HIDE DEF y, s, d, a, p
<1>11. /\ b \in Stages /\ b.vals = a.vals + 1 /\ b.low = a.low /\ b.loops = a.loops
       /\ b.syms = a.syms /\ b.av = a.av
       /\ e \in Stages /\ e.vals = a.vals /\ e.low = a.low /\ e.loops = a.loops
       /\ e.syms = a.syms \cup {y} /\ e.av = a.av
  <2>1. a.syms \cup {y} \in SUBSET Int /\ a.vals + 1 \in Nat
    BY <1>5, <1>10 DEF Stages
  <2>2. /\ b \in Stages /\ b.vals = a.vals + 1 /\ b.low = a.low /\ b.loops = a.loops
        /\ b.syms = a.syms /\ b.av = a.av
    BY <1>10, <2>1 DEF Stages
  <2>3. /\ e \in Stages /\ e.vals = a.vals /\ e.low = a.low /\ e.loops = a.loops
        /\ e.syms = a.syms \cup {y} /\ e.av = a.av
    BY <1>10, <2>1 DEF Stages
  <2> QED BY <2>2, <2>3
<1> HIDE DEF b, e
<1>12. Rises(a, b) /\ Sinks(b, e, 1, 0)
  BY <1>9, <1>11 DEF Rises, Sinks
<1>13. Passes(d, x, a, b)
  BY <1>10, <1>11, <1>12, ExprPasses
<1>14. Passes(d, v, b, e)
  <2>1. e.syms \subseteq b.syms \cup Spells(DoValue(s))
    BY <1>8, <1>11
  <2>2. s.sym.id \in DOMAIN d.ids /\ d.ids[s.sym.id] # NoReg
    BY <1>5, <1>6, <1>9 DEF y
  <2>3. s.kind \in {"ExprStmt", "Assign", "Return", "VarDecl"} /\ s.kind # "Assign"
    BY <1>1
  <2> QED BY <1>11, <1>12, <2>1, <2>2, <2>3, ValuePasses
<1> HIDE DEF x, v
<1>15. /\ its \in Seq(Items) /\ DOMAIN its = {1, 2} /\ its[1] = x /\ its[2] = v
  BY <1>7
<1>16. PICK tr : Track(d, its, tr) /\ tr[0] = a /\ tr[Len(its)] = e
  BY <1>7, <1>10, <1>11, <1>13, <1>14, TwoItems
<1> HIDE DEF its
<1>17. ASSUME NEW r \in Stages, Passes(Ctx(g, vals, A), work[1], p, r)
       PROVE  Runs(d, its, a, r)
  <2>1. Passes(Ctx(g, vals, A), Top, p, r)
    BY <1>2, <1>17
  <2>2. /\ Counts(Top, p, r) /\ r.syms \subseteq p.syms \cup {y} /\ r.av \subseteq p.av
    BY <1>2, <2>1 DEF Passes, Lands
  <2>3. r.vals \in Nat /\ r.low \in Nat /\ r.loops \in Nat /\ p.loops \in Nat
    BY <1>10 DEF Stages
  <2>4. r.vals = p.vals /\ r.low =< p.low /\ r.loops = p.loops
    BY <1>2, <1>9, <2>2, <2>3 DEF Counts
  <2>5. p.syms \subseteq a.syms /\ p.av \subseteq a.av
    BY <1>6 DEF p, a
  <2>6. Under(r, e)
    BY <1>9, <1>11, <2>2, <2>4, <2>5 DEF Under
  <2>7. Under(a, a)
    BY <1>10, UnderSelf
  <2> QED BY <1>16, <2>6, <2>7 DEF Runs
<1>18. Undeclared(its \o Tail(work), g'.irId)
  <2>1. \A k \in DOMAIN its : Decl(its[k]) = {}
    BY <1>7, <1>15
  <2>2. \A z \in DOMAIN g.irId : g'.irId[z] # g.irId[z] => z \in Decl(work[1])
    BY <1>2, <1>4, <1>6
  <2> DEFINE js == g'.irId
  <2>3. DOMAIN js = DOMAIN g.irId
    BY <1>6
  <2>4. /\ \A k \in DOMAIN its : Decl(its[k]) \subseteq Decl(work[1])
        /\ \A i, j \in DOMAIN its : i # j => Decl(its[i]) \cap Decl(its[j]) = {}
        /\ \A z \in DOMAIN g.irId : js[z] # g.irId[z] =>
             z \in Decl(work[1]) /\ \A k \in DOMAIN its : z \notin Decl(its[k])
    BY <2>1, <2>2
  <2>5. work # << >> /\ its \in Seq(Items)
    BY <1>2, <1>15
  <2> HIDE DEF js
  <2>6. Undeclared(its \o Tail(work), js)
    BY ONLY <1>5, <2>3, <2>4, <2>5, UndeclaredOn
  <2> QED BY <2>6 DEF js
<1>19. Sound(ast, g', vals, its \o Tail(work), A)
  BY <1>2, <1>3, <1>6, <1>15, <1>17, <1>18, StepSound DEF p, a, d
<1>20. Sound(ast', g', vals', work', A)
  BY <1>1, <1>19
<1> QED BY <1>20 DEF TypeInv

-----------------------------------------------------------------------------
(* A short circuit as a value.                                             *)
LEMMA SoundLogical ==
  ASSUME GenInv, TypeInv, GenLogical
  PROVE  TypeInv'
<1> DEFINE n == g.nb
           v == g.nextVreg
           h == NewVreg(g)
           c == DoCond(Top.e, n, n + 1)
           s1 == Do("set", <<n, v, 1, n + 2>>)
           s2 == Do("set", <<n + 1, v, 0, n + 2>>)
           s3 == Do("start", <<n + 2>>)
           y == Do("yield", <<v>>)
           its == <<c, s1, s2, s3, y>>
<1>1. /\ Doing("expr") /\ UNCHANGED <<ast, vals>> /\ work' = its \o Tail(work)
      /\ g' = NewBlock(NewBlock(NewBlock(h)))
  BY DEF GenLogical, Then, Keep
<1>2. /\ work # << >> /\ Top = work[1] /\ Top.e \in Exprs /\ Top \in Items
      /\ ~Fills(Top) /\ Takes(Top) = 0 /\ Pops(Top) = 0 /\ Gives(Top) = 1 /\ Spells(Top) = {}
      /\ Reads(Top) = Free(Top.e)
  BY <1>1, CallTop
<1>3. PICK A : /\ Sound(ast, g, vals, work, A) /\ Good(ast, g, vals, A)
               /\ Typed(g) /\ Shown(g, A) /\ Now(g, vals, A) \in Stages
               /\ Reads(Top) \subseteq Now(g, vals, A).syms
  BY <1>1, CallSite
<1> DEFINE X == At(g, A)
           Z == X \cup {v}
           p == Now(g, vals, A)
           a == [p EXCEPT !.av = Z]
           b == [a EXCEPT !.vals = @ + 1]
<1>4. X \subseteq Temps(g) /\ n \in Nat /\ v \in Nat /\ Places(g) \subseteq Int /\ X \subseteq Int
  BY <1>3, AtTyped DEF Typed, Places, Temps
<1>5. /\ Carries(g, A, h, A) /\ v \in Temps(h) /\ Typed(h) /\ Shown(h, A)
      /\ Temps(g) \subseteq Temps(h)
      /\ h.nb = n
  <2>1. Carries(g, A, h, A) /\ v \in Temps(h) /\ h.nb = n
    BY <1>3, NewVregCarries, NewVregGrows
  <2> HIDE DEF h
  <2> QED BY <1>3, <2>1, ValsKept DEF Carries, Grows
<1>6. PICK B : /\ Carries(h, A, g', B) /\ B[n] = X /\ B[n + 1] = X /\ B[n + 2] = Z
               /\ g'.nb = n + 3 /\ g'.nextVreg = h.nextVreg
  <2>1. X \subseteq Temps(h) /\ Z \subseteq Temps(h)
    BY <1>4, <1>5
  <2> HIDE DEF h, X, Z
  <2>2. \E B : /\ Carries(h, A, g', B) /\ B[h.nb] = X /\ B[h.nb + 1] = X /\ B[h.nb + 2] = Z
               /\ g'.nb = h.nb + 3 /\ g'.nextVreg = h.nextVreg
    <3>1. g' = NewBlock(NewBlock(NewBlock(h))) /\ Typed(h) /\ Shown(h, A)
      BY <1>1, <1>5 DEF h
    <3>2. \E B : /\ Carries(h, A, NewBlock(NewBlock(NewBlock(h))), B)
                 /\ B[h.nb] = X /\ B[h.nb + 1] = X /\ B[h.nb + 2] = Z
                 /\ NewBlock(NewBlock(NewBlock(h))).nb = h.nb + 3
                 /\ NewBlock(NewBlock(NewBlock(h))).nextVreg = h.nextVreg
      BY ONLY <2>1, <3>1, ThreeBlocks
    <3> QED BY ONLY <3>1, <3>2
  <2> QED BY <1>5, <2>2
<1>7. Carries(g, A, g', B)
  <2> HIDE DEF h
  <2> QED BY <1>3, <1>5, <1>6, CarriesOn
<1> DEFINE d == Ctx(g', vals, B)
<1>8. /\ DOMAIN B = Places(g') /\ g'.irId = g.irId /\ v \in Temps(g')
      /\ {n, n + 1, n + 2} \subseteq Places(g')
  <2>1. DOMAIN B = Places(g') /\ g'.irId = g.irId
    BY <1>7 DEF Carries, Shown, Grows
  <2>2. v \in Temps(g')
    BY <1>5, <1>6 DEF Temps
  <2>3. {n, n + 1, n + 2} \subseteq Places(g')
    BY <1>4, <1>6 DEF Places
  <2> QED BY <2>1, <2>2, <2>3
<1>9. /\ p \in Stages /\ p.vals = Len(vals) /\ p.low = Len(vals) /\ p.loops = Len(g.loops)
      /\ p.av = X /\ p.syms = Held(g.irId, X) /\ Len(vals) \in Nat
  BY <1>3, StageNow
<1>10. /\ Enters(d, p, p, n) /\ Meets(d, p, n) /\ Enters(d, p, p, n + 1) /\ Meets(d, p, n + 1)
  BY <1>3, <1>6, <1>8, EntersNow
<1>11. /\ d.at = B /\ d.ids = g.irId /\ d.vals = vals /\ d.made = Temps(g')
  BY <1>8 DEF Ctx
<1>12. c \in Items /\ Decl(c) = {}
  BY <1>2, <1>4, CondItem, NoDecl
<1>13. /\ s1 \in Items /\ Decl(s1) = {} /\ s2 \in Items /\ Decl(s2) = {}
       /\ s3 \in Items /\ Decl(s3) = {} /\ y \in Items /\ Decl(y) = {}
  <2>1. /\ <<n, v, 1, n + 2>> \in Seq(Int) /\ <<n + 1, v, 0, n + 2>> \in Seq(Int)
        /\ <<n + 2>> \in Seq(Int) /\ <<v>> \in Seq(Int)
    BY <1>4
  <2>2. "set" \in Calls /\ "start" \in Calls /\ "yield" \in Calls
    BY DEF Calls
  <2> QED BY <2>1, <2>2, DoItem, NoDecl
<1>14. Free(Top.e) \subseteq p.syms
  BY <1>2, <1>3
<1>15. Within(d, Len(vals), Z)
  BY <1>3, <1>11, ValuesWithin
<1> HIDE DEF d, p
<1>16. /\ a \in Stages /\ a.vals = p.vals /\ a.low = p.low /\ a.loops = p.loops
       /\ a.syms = p.syms /\ a.av = Z
  <2>1. Z \in SUBSET Int
    BY <1>4
  <2> QED BY <1>9, <2>1 DEF Stages
<1> HIDE DEF a
<1>17. /\ b \in Stages /\ b.vals = p.vals + 1 /\ b.low = p.low /\ b.loops = p.loops
       /\ b.syms = p.syms /\ b.av = Z
  BY <1>9, <1>16 DEF Stages
<1> HIDE DEF b
<1>18. Flat(p, p, {}) /\ Rises(a, b)
  BY <1>9, <1>16, <1>17 DEF Flat, Rises
<1>19. Passes(d, c, p, p)
  BY <1>9, <1>10, <1>14, <1>18, CondPasses
<1>20. Passes(d, s1, p, p) /\ Passes(d, s2, p, p)
  <2>1. /\ n + 2 \in DOMAIN d.at /\ v \in d.made /\ 1 \in {0, 1} /\ 0 \in {0, 1}
        /\ d.at[n + 2] \subseteq d.at[n] \cup {v}
        /\ d.at[n + 2] \subseteq d.at[n + 1] \cup {v}
    BY <1>6, <1>8, <1>11
  <2> HIDE DEF n, v
  <2>2. Passes(d, s1, p, p)
    BY <1>9, <1>10, <2>1, SetPasses
  <2>3. Passes(d, s2, p, p)
    BY <1>9, <1>10, <2>1, SetPasses
  <2> QED BY <2>2, <2>3
<1>21. Passes(d, s3, p, a)
  <2>1. n + 2 \in DOMAIN d.at /\ d.at[n + 2] = Z
    BY <1>6, <1>8, <1>11
  <2>2. a.syms \subseteq Held(d.ids, Z)
    BY <1>9, <1>11, <1>16 DEF Held
  <2>3. Enters(d, p, a, n + 2)
    <3> DEFINE t == n + 2
    <3>1. t \in DOMAIN d.at /\ d.at[t] = Z
      BY <2>1
    <3> HIDE DEF t, Z
    <3>2. Within(d, p.vals, d.at[t])
      BY <1>9, <1>15, <3>1
    <3>3. p.vals =< p.low /\ a.low =< p.vals /\ a.vals = p.vals /\ a.loops = p.loops
      BY <1>9, <1>16
    <3>4. Enters(d, p, a, t)
      BY <1>16, <2>2, <3>1, <3>2, <3>3 DEF Enters
    <3> QED BY <3>4 DEF t
  <2> HIDE DEF n
  <2> QED BY <1>9, <1>16, <2>3, StartPasses
<1>22. Passes(d, y, a, b)
  <2>1. v \in a.av
    BY <1>16
  <2> HIDE DEF v
  <2> QED BY <1>16, <1>17, <1>18, <2>1, YieldPasses
<1> DEFINE tr == [k \in 0 .. 5 |-> IF k = 5 THEN b ELSE IF k = 4 THEN a ELSE p]
<1>23. /\ tr \in [0 .. 5 -> Stages] /\ tr[0] = p /\ tr[1] = p /\ tr[2] = p /\ tr[3] = p
       /\ tr[4] = a /\ tr[5] = b
  BY <1>9, <1>16, <1>17
<1> HIDE DEF tr, c, s1, s2, s3, y
<1>24. /\ its \in Seq(Items) /\ Len(its) = 5 /\ DOMAIN its = 1 .. 5
       /\ its[1] = c /\ its[2] = s1 /\ its[3] = s2 /\ its[4] = s3 /\ its[5] = y
  BY <1>12, <1>13
<1> HIDE DEF its
<1>25. Track(d, its, tr)
  <2>1. \A k \in 1 .. 5 : \/ k = 1 /\ k - 1 = 0
                          \/ k = 2 /\ k - 1 = 1
                          \/ k = 3 /\ k - 1 = 2
                          \/ k = 4 /\ k - 1 = 3
                          \/ k = 5 /\ k - 1 = 4
    OBVIOUS
  <2> QED BY <1>19, <1>20, <1>21, <1>22, <1>23, <1>24, <2>1 DEF Track
<1>26. \A k \in DOMAIN its : Decl(its[k]) = {}
  <2>1. \A k \in 1 .. 5 : k = 1 \/ k = 2 \/ k = 3 \/ k = 4 \/ k = 5
    OBVIOUS
  <2> QED BY <1>12, <1>13, <1>24, <2>1
<1>27. /\ tr[0] = p /\ tr[Len(its)].vals = Len(vals) + Gives(Top)
       /\ tr[Len(its)].low >= Len(vals) /\ tr[Len(its)].loops = Len(g.loops)
       /\ p.syms \subseteq tr[Len(its)].syms /\ p.av \subseteq tr[Len(its)].av
  BY <1>2, <1>9, <1>17, <1>23, <1>24
<1> QED BY <1>1, <1>2, <1>3, <1>7, <1>24, <1>25, <1>26, <1>27, TrackStep DEF p, d

-----------------------------------------------------------------------------
(* A loop: what it makes, and the loop that its body may leave.            *)
WhileMade(A, B, o) ==
  /\ Good(ast, o, vals, B) /\ DOMAIN B = Places(o) /\ o.irId = g.irId
  /\ {g.nb, g.nb + 1, g.nb + 2} \subseteq Places(o)
  /\ \A t \in {g.nb, g.nb + 1, g.nb + 2} : B[t] = At(g, A)
  /\ At(g, A) \subseteq At(o, B) /\ \A k \in Places(g) : k \in Places(o) /\ B[k] = A[k]
  /\ Temps(g) \subseteq Temps(o)
  /\ Len(o.loops) = Len(g.loops) + 1
  /\ \A i \in 1 .. Len(g.loops) : Bot(o.loops, i) = Bot(g.loops, i)
  /\ Bot(o.loops, Len(g.loops) + 1) = [continueBB |-> g.nb + 1, breakBB |-> g.nb + 2]

LEMMA WhileMakes ==
  ASSUME NEW A, Good(ast, g, vals, A), GenWhile
  PROVE  \E B : WhileMade(A, B, g')
<1> DEFINE n == g.nb
           h == NewBlock(NewBlock(NewBlock(g)))
           m == TermJmp(h, n + 1)
           l == [continueBB |-> n + 1, breakBB |-> n + 2]
           X == At(g, A)
           L == Len(g.loops)
<1>1. g' = [m EXCEPT !.loops = <<l>> \o @]
  BY DEF GenWhile
<1>2. Typed(g) /\ Shown(g, A) /\ n \in Nat
  BY DEF Good, Typed
<1>3. PICK C : /\ Carries(g, A, h, C) /\ C[n] = X /\ C[n + 1] = X /\ C[n + 2] = X
               /\ At(h, C) = X /\ h.nb = n + 3
  <2>1. X \subseteq Temps(g)
    BY <1>2, AtTyped
  <2> HIDE DEF X
  <2> QED BY <1>2, <2>1, ThreeBlocks DEF X
<1>4. Typed(h) /\ Shown(h, C) /\ {n, n + 1, n + 2} \subseteq Places(h)
  BY <1>2, <1>3 DEF Carries, Grows, Places
<1>5. PICK B : Carries(h, C, m, B)
  <2> HIDE DEF h
  <2>1. n + 1 \in Places(h) /\ C[n + 1] \subseteq At(h, C)
    BY <1>3, <1>4
  <2> DEFINE t == n + 1
  <2> HIDE DEF t
  <2>2. t \in Places(h) /\ C[t] \subseteq At(h, C)
    BY <2>1 DEF t
  <2>3. \E B : Carries(h, C, TermJmp(h, t), B)
    BY <1>4, <2>2, TermsCarry
  <2> QED BY <2>3 DEF t
<1> HIDE DEF m
<1>6. Carries(g, A, m, B)
  <2> HIDE DEF h
  <2> QED BY <1>2, <1>3, <1>5, CarriesOn
<1>7. Good(ast, m, vals, B)
  BY <1>6, ValsKept, GoodKept
<1>8. /\ DOMAIN B = Places(m) /\ m.irId = g.irId /\ m.loops = g.loops
      /\ {n, n + 1, n + 2} \subseteq Places(m)
      /\ B[n] = X /\ B[n + 1] = X /\ B[n + 2] = X
      /\ X \subseteq At(m, B) /\ Temps(g) \subseteq Temps(m)
      /\ \A k \in Places(g) : k \in Places(m) /\ B[k] = A[k]
  <2> HIDE DEF h
  <2>1. DOMAIN B = Places(m) /\ m.irId = g.irId /\ m.loops = g.loops
        /\ X \subseteq At(m, B) /\ Typed(m) /\ \A k \in Places(g) : B[k] = A[k]
    BY <1>6 DEF Carries, Shown, Grows
  <2>2. m.nb \in Nat /\ h.nb \in Nat /\ g.nb \in Nat /\ m.nb >= g.nb /\ m.nb >= h.nb
    BY <1>2, <1>4, <1>5, <1>6, <2>1 DEF Carries, Grows, Typed
  <2>3. Places(g) \subseteq Places(m) /\ Places(h) \subseteq Places(m)
    BY <2>2 DEF Places
  <2>4. B[n] = C[n] /\ B[n + 1] = C[n + 1] /\ B[n + 2] = C[n + 2]
    BY <1>4, <1>5 DEF Carries
  <2>5. Temps(g) \subseteq Temps(m)
    BY <1>6, ValsKept
  <2> QED BY <1>3, <1>4, <2>1, <2>3, <2>4, <2>5
<1> HIDE DEF h, X
<1> DEFINE o == [m EXCEPT !.loops = <<l>> \o @]
<1>9. /\ DOMAIN o = DOMAIN m /\ o.nb = m.nb /\ o.cur = m.cur /\ o.sealed = m.sealed
      /\ o.nextVreg = m.nextVreg /\ o.irId = m.irId /\ o.blocks = m.blocks
      /\ o.loops = <<l>> \o g.loops
  BY <1>7, <1>8 DEF Good, Typed
<1> HIDE DEF o
<1>10. /\ Places(o) = Places(m) /\ Temps(o) = Temps(m) /\ At(o, B) = At(m, B)
       /\ Shown(o, B)
  BY <1>7, <1>9 DEF Places, Temps, At, Shown, Good
<1> DEFINE T == [continueBB : Places(m), breakBB : Places(m)]
<1>11. l \in T /\ g.loops \in Seq(T)
  <2>1. g.loops \in Seq(T)
    BY <1>7, <1>8 DEF Good, Typed
  <2> QED BY <1>8, <2>1
<1> HIDE DEF T, l
<1>12. /\ L \in Nat /\ <<l>> \o g.loops \in Seq(T) /\ Len(<<l>> \o g.loops) = L + 1
       /\ \A i \in 1 .. L : Bot(<<l>> \o g.loops, i) = Bot(g.loops, i)
       /\ Bot(<<l>> \o g.loops, L + 1) = l
  <2>1. /\ L \in Nat /\ <<l>> \o g.loops \in Seq(T) /\ Len(<<l>> \o g.loops) = L + 1
    BY <1>11
  <2>2. (<<l>> \o g.loops)[1] = l /\ \A k \in 1 .. L : (<<l>> \o g.loops)[k + 1] = g.loops[k]
    BY <1>11
  <2> HIDE DEF L
  <2>3. \A i \in 1 .. L : L - i + 1 \in 1 .. L /\ (L + 1) - i + 1 = (L - i + 1) + 1
    BY <2>1
  <2>4. (L + 1) - (L + 1) + 1 = 1
    BY <2>1
  <2>5. \A i \in 1 .. L : Bot(<<l>> \o g.loops, i) = Bot(g.loops, i)
    BY <2>1, <2>2, <2>3 DEF Bot, L
  <2>6. Bot(<<l>> \o g.loops, L + 1) = l
    BY <2>1, <2>2, <2>4 DEF Bot
  <2> QED BY <2>1, <2>5, <2>6
<1>13. Typed(o)
  BY <1>7, <1>9, <1>10, <1>12 DEF Typed, T, Good
<1>14. Good(ast, o, vals, B)
  BY <1>7, <1>9, <1>10, <1>13 DEF Good
<1>15. WhileMade(A, B, o)
  BY <1>8, <1>9, <1>10, <1>12, <1>14 DEF WhileMade, X, l, L
<1> QED BY <1>1, <1>15 DEF o

-----------------------------------------------------------------------------
LEMMA SoundWhile ==
  ASSUME GenInv, TypeInv, GenWhile
  PROVE  TypeInv'
<1> DEFINE n == g.nb
           s == Top.s
           kid == s.kids[1]
           s1 == Do("start", <<n>>)
           b1 == DoStmt(kid)
           j1 == Do("jmp", <<n + 1>>)
           p1 == Do("popLoop", << >>)
           s2 == Do("start", <<n + 1>>)
           c1 == DoCond(s.e, n, n + 2)
           s3 == Do("start", <<n + 2>>)
           its == <<s1, b1, j1, p1, s2, c1, s3>>
<1>1. /\ Doing("stmt") /\ UNCHANGED <<ast, vals>> /\ work' = its \o Tail(work)
      /\ s.kind = "While"
  BY DEF GenWhile, Then, Keep
<1>2. /\ work # << >> /\ Top = work[1] /\ s \in Stmts
      /\ ~Fills(Top) /\ Takes(Top) = 0 /\ Pops(Top) = 0 /\ Gives(Top) = 0 /\ Spells(Top) = {}
      /\ Reads(Top) = Free(s) /\ Decl(Top) = Declares(s)
  BY <1>1, CallTop
<1>3. PICK A : /\ Sound(ast, g, vals, work, A) /\ Good(ast, g, vals, A)
               /\ Typed(g) /\ Shown(g, A) /\ Now(g, vals, A) \in Stages
               /\ Reads(Top) \subseteq Now(g, vals, A).syms /\ InBlocks(s)
  BY <1>1, CallSite
<1>4. PICK B : WhileMade(A, B, g')
  BY <1>3, WhileMakes
<1> DEFINE X == At(g, A)
           p == Now(g, vals, A)
           d == Ctx(g', vals, B)
           q == [p EXCEPT !.loops = @ + 1]
<1>5. /\ s.kids \in Seq(Stmts) /\ s.kids # << >> /\ s.e \in Exprs /\ s.hasE
  BY <1>1, <1>2, TreesAssumption
<1>6. /\ 1 \in DOMAIN s.kids /\ kid \in Stmts
  BY <1>5
<1>7. /\ Free(s.e) \subseteq Free(s) /\ Free(kid) \subseteq Free(s)
      /\ Declares(kid) \subseteq Declares(s) /\ InBlocks(kid)
  BY <1>1, <1>2, <1>3, <1>5, <1>6, ScopeAssumption, InnerScope
<1>8. n \in Nat /\ X \subseteq Temps(g) /\ X \subseteq Int
  BY <1>3, AtTyped DEF Typed, Temps
<1>9. /\ p \in Stages /\ p.vals = Len(vals) /\ p.low = Len(vals) /\ p.loops = Len(g.loops)
      /\ p.av = X /\ p.syms = Held(g.irId, X) /\ Len(vals) \in Nat
  BY <1>3, StageNow
<1>10. Good(ast, g', vals, B) /\ DOMAIN B = Places(g') /\ g'.irId = g.irId
  BY <1>4 DEF WhileMade
<1>11. \A t \in {n, n + 1, n + 2} : Enters(d, p, p, t) /\ Meets(d, p, t)
  <2> TAKE t \in {n, n + 1, n + 2}
  <2>1. t \in DOMAIN B /\ B[t] = X
    BY <1>4 DEF WhileMade
  <2> QED BY <1>3, <1>10, <2>1, EntersNow
<1>12. /\ s1 \in Items /\ Decl(s1) = {} /\ s2 \in Items /\ Decl(s2) = {}
       /\ s3 \in Items /\ Decl(s3) = {}
  <2>1. <<n>> \in Seq(Int) /\ <<n + 1>> \in Seq(Int) /\ <<n + 2>> \in Seq(Int)
    BY <1>8
  <2>2. "start" \in Calls
    BY DEF Calls
  <2> QED BY <2>1, <2>2, DoItem, NoDecl
<1>13. j1 \in Items /\ Decl(j1) = {} /\ p1 \in Items /\ Decl(p1) = {}
  <2>1. <<n + 1>> \in Seq(Int) /\ << >> \in Seq(Int)
    BY <1>8
  <2>2. "jmp" \in Calls /\ "popLoop" \in Calls
    BY DEF Calls
  <2> QED BY <2>1, <2>2, DoItem, NoDecl
<1>14. c1 \in Items /\ Decl(c1) = {}
  BY <1>5, <1>8, CondItem, NoDecl
<1>15. b1 \in Items /\ Decl(b1) \subseteq Declares(s)
  BY <1>6, <1>7, StmtItem, NoDecl
<1>16. Free(s.e) \subseteq p.syms /\ Free(kid) \subseteq p.syms
  BY <1>2, <1>3, <1>7
<1>17. /\ Bot(d.loops, p.loops + 1).breakBB = n + 2
       /\ Bot(d.loops, p.loops + 1).continueBB = n + 1
       /\ \A r : /\ r.low =< Len(vals) /\ r.loops = Len(g.loops)
                 => Extends(Ctx(g, vals, A), d, r)
  <2>1. d.loops = g'.loops /\ d.at = B /\ d.ids = g.irId /\ d.vals = vals /\ d.made = Temps(g')
    BY <1>10 DEF Ctx
  <2>2. Bot(d.loops, p.loops + 1) = [continueBB |-> n + 1, breakBB |-> n + 2]
    BY <1>4, <1>9, <2>1 DEF WhileMade
  <2>3. ASSUME NEW r, r.low =< Len(vals), r.loops = Len(g.loops)
        PROVE  Extends(Ctx(g, vals, A), d, r)
    <3> DEFINE c == Ctx(g, vals, A)
    <3>1. /\ c.at = A /\ c.ids = g.irId /\ c.vals = vals /\ c.loops = g.loops
          /\ c.made = Temps(g) /\ DOMAIN A = Places(g)
      BY <1>3 DEF Ctx, Shown
    <3>2. \A k \in Places(g) : k \in Places(g') /\ B[k] = A[k]
      BY <1>4 DEF WhileMade
    <3>3. Temps(g) \subseteq Temps(g') /\ DOMAIN B = Places(g')
      BY <1>4 DEF WhileMade
    <3>4. \A i \in 1 .. Len(g.loops) : Bot(g'.loops, i) = Bot(g.loops, i)
      BY <1>4 DEF WhileMade
    <3> HIDE DEF c, d
    <3>5. Extends(c, d, r)
      BY <2>1, <2>3, <3>1, <3>2, <3>3, <3>4 DEF Extends
    <3> QED BY <3>5 DEF c
  <2>4. Bot(d.loops, p.loops + 1).breakBB = n + 2 /\ Bot(d.loops, p.loops + 1).continueBB = n + 1
    BY <2>2
  <2> HIDE DEF d, p, n
  <2> QED BY <2>3, <2>4
<1> HIDE DEF p, d, n
<1>18. /\ q \in Stages /\ q.vals = p.vals /\ q.low = p.low /\ q.loops = p.loops + 1
       /\ q.syms = p.syms /\ q.av = p.av
  BY <1>9 DEF Stages
<1> HIDE DEF q
<1>19. Flat(p, p, {})
  BY <1>9 DEF Flat
<1>20. \A S : Flat(q, q, S)
  BY <1>9, <1>18 DEF Flat
<1>21. Enters(d, q, q, n) /\ \A t \in {n, n + 1, n + 2} : Meets(d, q, t)
  <2>1. Enters(d, p, p, n)
    BY <1>11
  <2>2. Enters(d, q, q, n)
    BY <1>18, <2>1 DEF Enters
  <2>3. \A t \in {n, n + 1, n + 2} : Meets(d, q, t)
    BY <1>11, <1>18 DEF Meets
  <2> QED BY <2>2, <2>3
<1>22. Passes(d, s1, q, q)
  BY <1>18, <1>21, StartPasses
<1>23. Passes(d, b1, q, q)
  <2>1. MayLeave(d, q, kid)
    <3>1. q.loops # 0 /\ Bot(d.loops, q.loops).breakBB = n + 2
          /\ Bot(d.loops, q.loops).continueBB = n + 1
      BY <1>9, <1>17, <1>18
    <3>2. Meets(d, q, n + 2) /\ Meets(d, q, n + 1)
      BY <1>21
    <3> QED BY <3>1, <3>2 DEF MayLeave
  <2>2. Flat(q, q, Spells(DoStmt(kid))) /\ Free(kid) \subseteq q.syms /\ InBlocks(kid)
    BY <1>7, <1>16, <1>18, <1>20
  <2> HIDE DEF kid
  <2> QED BY <1>18, <2>1, <2>2, StmtPasses
<1>24. Passes(d, j1, q, q)
  BY <1>18, <1>20, <1>21, JmpPasses
<1>25. Passes(d, p1, q, p)
  <2>1. /\ p.vals = q.vals /\ p.low =< q.low /\ p.low =< q.vals /\ q.loops = p.loops + 1
        /\ p.syms \subseteq q.syms /\ p.av \subseteq q.av
    BY <1>9, <1>18
  <2> QED BY <1>9, <1>18, <2>1, PopPasses
<1>26. Passes(d, s2, p, p) /\ Passes(d, s3, p, p)
  BY <1>9, <1>11, StartPasses
<1>27. Passes(d, c1, p, p)
  BY <1>9, <1>11, <1>16, <1>19, CondPasses
<1> DEFINE tr == [k \in 0 .. 7 |-> IF k =< 3 THEN q ELSE p]
<1>28. /\ tr \in [0 .. 7 -> Stages] /\ tr[0] = q /\ tr[1] = q /\ tr[2] = q /\ tr[3] = q
       /\ tr[4] = p /\ tr[5] = p /\ tr[6] = p /\ tr[7] = p
  BY <1>9, <1>18
<1> HIDE DEF tr, s1, b1, j1, p1, s2, c1, s3
<1>29. /\ its \in Seq(Items) /\ Len(its) = 7 /\ DOMAIN its = 1 .. 7
       /\ its[1] = s1 /\ its[2] = b1 /\ its[3] = j1 /\ its[4] = p1
       /\ its[5] = s2 /\ its[6] = c1 /\ its[7] = s3
  BY <1>12, <1>13, <1>14, <1>15
<1> HIDE DEF its
<1>30. Track(d, its, tr)
  <2>1. \A k \in 1 .. 7 : \/ k = 1 /\ k - 1 = 0
                          \/ k = 2 /\ k - 1 = 1
                          \/ k = 3 /\ k - 1 = 2
                          \/ k = 4 /\ k - 1 = 3
                          \/ k = 5 /\ k - 1 = 4
                          \/ k = 6 /\ k - 1 = 5
                          \/ k = 7 /\ k - 1 = 6
    OBVIOUS
  <2> QED BY <1>22, <1>23, <1>24, <1>25, <1>26, <1>27, <1>28, <1>29, <2>1 DEF Track
<1>31. /\ \A k \in DOMAIN its : Decl(its[k]) \subseteq Decl(Top)
       /\ \A i, j \in DOMAIN its : i # j => Decl(its[i]) \cap Decl(its[j]) = {}
  <2>1. \A k \in 1 .. 7 : k = 1 \/ k = 2 \/ k = 3 \/ k = 4 \/ k = 5 \/ k = 6 \/ k = 7
    OBVIOUS
  <2>2. \A k \in DOMAIN its : Decl(its[k]) # {} => k = 2
    BY <1>12, <1>13, <1>14, <1>29, <2>1
  <2> QED BY <1>2, <1>15, <1>29, <2>2
<1>32. Under(q, Now(g', vals, B))
  <2>1. X \subseteq At(g', B) /\ Len(g'.loops) = Len(g.loops) + 1
    BY <1>4 DEF WhileMade
  <2>2. Held(g.irId, X) \subseteq Held(g.irId, At(g', B))
    BY <2>1 DEF Held
  <2> QED BY <1>9, <1>10, <1>18, <2>1, <2>2 DEF Under, Now
<1>33. ASSUME NEW r \in Stages, Passes(Ctx(g, vals, A), work[1], p, r)
       PROVE  Extends(Ctx(g, vals, A), d, r) /\ Runs(d, its, Now(g', vals, B), r)
  <2>1. Passes(Ctx(g, vals, A), Top, p, r)
    BY <1>2, <1>33
  <2>2. Under(r, p)
    <3> DEFINE it == Top
    <3>1. ~Fills(it) /\ Takes(it) = 0 /\ Pops(it) = 0 /\ Gives(it) = 0 /\ Spells(it) = {}
      BY <1>2
    <3>2. Passes(Ctx(g, vals, A), it, p, r)
      BY <2>1
    <3> HIDE DEF it
    <3> QED BY ONLY <1>9, <1>33, <3>1, <3>2, TopUnder
  <2>3. r.low =< Len(vals) /\ r.loops = Len(g.loops)
    BY <1>9, <2>2 DEF Under
  <2>4. Extends(Ctx(g, vals, A), d, r)
    BY <1>17, <2>3
  <2>5. Under(tr[0], Now(g', vals, B)) /\ Under(r, tr[Len(its)])
    BY <1>28, <1>29, <1>32, <2>2
  <2> QED BY <1>30, <2>4, <2>5 DEF Runs
<1>34. Undeclared(its \o Tail(work), g'.irId)
  <2>1. work \in Seq(Items) /\ Undeclared(work, g.irId)
    BY <1>3 DEF Sound
  <2>2. /\ \A k \in DOMAIN its : Decl(its[k]) \subseteq Decl(work[1])
        /\ \A i, j \in DOMAIN its : i # j => Decl(its[i]) \cap Decl(its[j]) = {}
    BY <1>2, <1>31
  <2> DEFINE js == g'.irId
  <2>3. DOMAIN js = DOMAIN g.irId
    BY <1>10
  <2>4. \A x \in DOMAIN g.irId : js[x] # g.irId[x] =>
          x \in Decl(work[1]) /\ \A k \in DOMAIN its : x \notin Decl(its[k])
    BY <1>10
  <2> HIDE DEF js
  <2>5. Undeclared(its \o Tail(work), js)
    BY ONLY <1>2, <1>29, <2>1, <2>2, <2>3, <2>4, UndeclaredOn
  <2> QED BY <2>5 DEF js
<1>35. Sound(ast, g', vals, its \o Tail(work), B)
  BY <1>2, <1>3, <1>10, <1>29, <1>33, <1>34, StepSound DEF p, d
<1>36. Sound(ast', g', vals', work', B)
  BY <1>1, <1>35
<1> QED BY <1>36 DEF TypeInv

-----------------------------------------------------------------------------
(* The start.                                                              *)
LEMMA TypeStart ==
  ASSUME GenInit, DeclaresInBlocks
  PROVE  TypeInv
<1> DEFINE np == ast.numParams
           A == [k \in {0} |-> 0 .. np - 1]
           it == DoStmt(ast.body)
<1>1. /\ ast \in Asts /\ g = Fresh(ast) /\ work = <<it>> /\ vals = << >> /\ out = NoFunc
  BY DEF GenInit
<1>2. /\ np \in Nat /\ ast.numSyms \in Nat /\ np =< ast.numSyms /\ ast.body \in Stmts
      /\ Free(ast.body) \subseteq 0 .. np - 1
      /\ Declares(ast.body) \subseteq np .. ast.numSyms - 1 /\ ~Leaves(ast.body)
  BY <1>1, TreesAssumption, ScopeAssumption
<1>3. /\ DOMAIN g = {"blocks", "nb", "cur", "sealed", "nextVreg", "loops", "irId"}
      /\ g.blocks = [k \in {0} |-> Open] /\ g.nb = 1 /\ g.cur = 0 /\ g.sealed = FALSE
      /\ g.nextVreg = np /\ g.loops = << >>
      /\ g.irId = [s \in 0 .. ast.numSyms - 1 |-> IF s < np THEN s ELSE NoReg]
  BY <1>1 DEF Fresh
<1>4. Places(g) = {0} /\ Temps(g) = 0 .. np - 1
  BY <1>3 DEF Places, Temps
<1>5. Typed(g)
  <2>1. CodeOK(Open, 1, np)
    BY <1>2, OpenOK
  <2> DEFINE T == [continueBB : Places(g), breakBB : Places(g)]
  <2> HIDE DEF T
  <2>2. << >> \in Seq(T)
    OBVIOUS
  <2>3. g.loops \in Seq([continueBB : Places(g), breakBB : Places(g)])
    BY <1>3, <2>2 DEF T
  <2>4. g.blocks = [k \in Places(g) |-> g.blocks[k]]
    BY <1>3, <1>4
  <2>5. \A k \in Places(g) : CodeOK(g.blocks[k], g.nb, g.nextVreg)
    BY <1>3, <1>4, <2>1
  <2>6. /\ g.nb \in Nat \ {0} /\ g.nextVreg \in Nat /\ g.sealed \in BOOLEAN
        /\ g.cur \in Places(g)
    <3>1. g.nb \in Nat \ {0} /\ g.cur \in Places(g)
      BY <1>3, <1>4
    <3>2. g.nextVreg \in Nat
      BY <1>2, <1>3
    <3>3. g.sealed \in BOOLEAN
      BY <1>3
    <3> QED BY <3>1, <3>2, <3>3
  <2> QED BY <1>3, <2>3, <2>4, <2>5, <2>6 DEF Typed
<1>6. Dsts(Open) = {} /\ FlowOK(Open, 0 .. np - 1, A)
  BY DEF FlowOK, Open, TermUses, Succs, Dsts
<1>7. Shown(g, A) /\ At(g, A) = 0 .. np - 1 /\ A[0] = 0 .. np - 1
  BY <1>3, <1>4, <1>6 DEF Shown, At
<1> HIDE DEF A
<1>8. g.irId \in [0 .. ast.numSyms - 1 -> Temps(g) \cup {NoReg}]
  BY <1>2, <1>3, <1>4
<1>9. Good(ast, g, vals, A)
  <2>1. vals \in Seq(Vals(Temps(g))) /\ DOMAIN vals = {}
    <3> DEFINE T == Vals(Temps(g))
    <3> HIDE DEF T
    <3>1. << >> \in Seq(T)
      OBVIOUS
    <3> QED BY <1>1, <3>1 DEF T
  <2>2. A[0] \subseteq 0 .. np - 1 /\ np =< g.nextVreg
    BY <1>2, <1>3, <1>7
  <2> QED BY <1>1, <1>5, <1>7, <1>8, <2>1, <2>2 DEF Good
<1> DEFINE p == Now(g, vals, A)
           c == Ctx(g, vals, A)
<1>10. it \in Items /\ Decl(it) = Declares(ast.body)
  BY <1>2, StmtItem, NoDecl
<1>11. work \in Seq(Items) /\ DOMAIN work = {1} /\ Len(work) = 1 /\ work[1] = it
  <2> HIDE DEF it
  <2> QED BY <1>1, <1>10
<1>12. Undeclared(work, g.irId)
  <2>1. Decl(it) \subseteq {x \in DOMAIN g.irId : g.irId[x] = NoReg}
    BY <1>2, <1>3, <1>10
  <2> QED BY <1>11, <2>1 DEF Undeclared
<1>13. p \in Stages /\ p.low = p.vals /\ p.syms = Held(g.irId, 0 .. np - 1)
  BY <1>7, <1>9, StageNow
<1>14. Free(ast.body) \subseteq p.syms
  <2>1. \A x \in 0 .. np - 1 : x \in DOMAIN g.irId /\ g.irId[x] = x /\ x # NoReg
    BY <1>2, <1>3 DEF NoReg
  <2> QED BY <1>2, <1>13, <2>1 DEF Held
<1> HIDE DEF p, c
<1>15. Passes(c, it, p, p)
  <2>1. Flat(p, p, Spells(DoStmt(ast.body)))
    BY <1>13, FlatSelf
  <2>2. MayLeave(c, p, ast.body)
    BY <1>2 DEF MayLeave
  <2>3. InBlocks(ast.body)
    BY DEF DeclaresInBlocks
  <2> QED BY <1>13, <1>14, <2>1, <2>2, <2>3, StmtPasses
<1>16. Runs(c, work, p, p)
  <2> HIDE DEF it
  <2>1. \A k \in 1 .. Len(work) : Passes(c, work[k], p, p)
    BY <1>11, <1>15
  <2> QED BY <1>11, <1>13, <2>1, Steady
<1>17. Sound(ast, g, vals, work, A)
  BY <1>9, <1>11, <1>12, <1>16 DEF Sound, Goes, Runs, p, c
<1> QED BY <1>17 DEF TypeInv

(* What the state of the generator is typed by.                            *)
LEMMA GenTyped ==
  ASSUME GenInv, DeclaresInBlocks => TypeInv
  PROVE  GenTypeOK
<1> SUFFICES ASSUME DeclaresInBlocks, out = NoFunc PROVE GenTypeOK
  BY DEF GenTypeOK
<1>1. PICK A : Good(ast, g, vals, A)
  BY DEF TypeInv, Sound
<1>2. Typed(g) /\ vals \in Seq(Vals(Temps(g)))
  BY <1>1 DEF Good
<1>3. \A k \in DOMAIN work : Fills(work[k]) => work[k].n[1] \in 0 .. g.nb - 1
  BY DEF GenInv, WorkOK
<1>4. Pending \subseteq 0 .. g.nb - 1
  BY <1>3 DEF Pending, Fills
<1>5. g.blocks \in [0 .. g.nb - 1 -> BasicBlocks(0 .. g.nextVreg - 1)]
  BY <1>2 DEF Typed, Places, CodeOK
<1> QED BY <1>2, <1>4, <1>5 DEF Typed, Places, Temps, GenTypeOK

-----------------------------------------------------------------------------
(* The finished function.  A shows which vregs have been written on every  *)
(* path to a block: a vreg that is none of them is not read before it is.  *)
LEMMA ShownDead ==
  ASSUME NEW f, IsIRFunc(f), NEW A,
         \A k \in Blocks(f) : FlowOK(f.blocks[k], A[k], A),
         NEW v \in Vregs(f), v \notin A[0]
  PROVE  DeadSet(f, v, Unwritten(f, v))
<1> DEFINE D == {k \in Blocks(f) : v \notin A[k]}
<1>1. 0 \in Blocks(f) /\ 0 \in D
  BY DEF IsIRFunc, Blocks
<1>2. v # NoReg
  BY DEF Vregs, NoReg
<1>3. ASSUME NEW k \in D
      PROVE  /\ ~ReadsFirst(f.blocks[k], v)
             /\ Writes(f.blocks[k], v) \/ Succs(f.blocks[k]) \subseteq D
  <2> DEFINE bb == f.blocks[k]
  <2>1. FlowOK(bb, A[k], A) /\ v \notin A[k] /\ Succs(bb) \subseteq Blocks(f)
    BY DEF IsIRFunc
  <2> HIDE DEF bb
  <2>2. ASSUME NEW m \in DOMAIN bb.insts, v \in InstUses(bb.insts[m])
        PROVE  \E j \in 1 .. m - 1 : bb.insts[j].dst = v
    BY <2>1, <2>2 DEF FlowOK
  <2>3. v \in TermUses(bb) => \E j \in DOMAIN bb.insts : bb.insts[j].dst = v
    BY <2>1 DEF FlowOK, Dsts
  <2>4. ~ReadsFirst(bb, v)
    BY <2>2, <2>3 DEF ReadsFirst
  <2>5. v \in Dsts(bb) => Writes(bb, v)
    BY DEF Dsts, Writes
  <2>6. Writes(bb, v) \/ Succs(bb) \subseteq D
    BY <2>1, <2>5 DEF FlowOK
  <2> QED BY <2>4, <2>6 DEF bb
<1>4. DeadInto(f, v, 0)
  <2>1. D \in SUBSET Blocks(f)
    OBVIOUS
  <2> HIDE DEF D
  <2> QED BY <1>1, <1>3, <2>1 DEF DeadInto, DeadSet
<1> QED BY <1>4, UnwrittenShows

LEMMA Finished ==
  ASSUME NEW st, NEW A, NEW np \in Nat, Typed(st), Shown(st, A), np =< st.nextVreg,
         A[0] \subseteq 0 .. np - 1,
         NEW f, f = [numVregs |-> st.nextVreg, nb |-> st.nb, blocks |-> st.blocks,
                     params |-> [k \in 1 .. np |-> k - 1]]
  PROVE  /\ IsIRFunc(f)
         /\ \A v \in Vregs(f) \ {f.params[k] : k \in DOMAIN f.params} :
              DeadSet(f, v, Unwritten(f, v))
<1>1. /\ f.numVregs = st.nextVreg /\ f.nb = st.nb /\ f.blocks = st.blocks
      /\ f.params = [k \in 1 .. np |-> k - 1]
      /\ DOMAIN f = {"numVregs", "params", "nb", "blocks"}
  OBVIOUS
<1>2. Vregs(f) = Temps(st) /\ Blocks(f) = Places(st)
  BY <1>1 DEF Vregs, Blocks, Temps, Places
<1>3. st.nextVreg \in Nat /\ st.nb \in Nat \ {0}
  BY DEF Typed
<1>4. f.params \in Seq(Vregs(f))
  <2>1. \A k \in 1 .. np : k - 1 \in Temps(st)
    BY <1>3 DEF Temps
  <2> DEFINE T == Temps(st)
  <2> HIDE DEF T
  <2>2. [k \in 1 .. np |-> k - 1] \in [1 .. np -> T]
    BY <2>1 DEF T
  <2>3. [1 .. np -> T] \subseteq Seq(T)
    OBVIOUS
  <2> QED BY <1>1, <1>2, <2>2, <2>3 DEF T
<1>5. \A k \in Places(st) : CodeOK(st.blocks[k], st.nb, st.nextVreg)
  BY DEF Typed
<1>6. st.blocks \in [Places(st) -> BasicBlocks(Temps(st))]
  BY <1>5 DEF Typed, CodeOK, Temps
<1>7. \A b \in Places(st) : Succs(st.blocks[b]) \subseteq Places(st) /\ Results(st.blocks[b])
  BY <1>5 DEF CodeOK, Places
<1>8. IsIRFunc(f)
  BY <1>1, <1>2, <1>3, <1>4, <1>6, <1>7 DEF IsIRFunc, Results
<1>9. \A k \in Blocks(f) : FlowOK(f.blocks[k], A[k], A)
  BY <1>1, <1>2 DEF Shown
<1>10. ASSUME NEW v \in Vregs(f), v \notin {f.params[k] : k \in DOMAIN f.params}
       PROVE  v \notin A[0]
  <2> SUFFICES ASSUME v \in 0 .. np - 1 PROVE FALSE
    OBVIOUS
  <2>1. v + 1 \in 1 .. np /\ (v + 1) - 1 = v
    OBVIOUS
  <2>2. v + 1 \in DOMAIN f.params /\ f.params[v + 1] = v
    BY <1>1, <2>1
  <2> QED BY <1>10, <2>2
<1> QED BY <1>8, <1>9, <1>10, ShownDead

-----------------------------------------------------------------------------
LEMMA FinishLowers ==
  ASSUME GenInv, TypeInv, FinishFunc
  PROVE  LowersToIR'
<1> DEFINE np == ast.numParams
           made(st) == [numVregs |-> st.nextVreg, nb |-> st.nb, blocks |-> st.blocks,
                        params |-> [k \in 1 .. np |-> k - 1]]
<1>1. out = NoFunc /\ work = << >>
  BY DEF FinishFunc
<1>2. PICK A : Good(ast, g, vals, A)
  BY <1>1 DEF TypeInv, Sound
<1>3. Typed(g) /\ Shown(g, A) /\ A[0] \subseteq 0 .. np - 1 /\ np =< g.nextVreg /\ ast \in Asts
  BY <1>2 DEF Good
<1>4. np \in Nat
  BY <1>3, TreesAssumption
<1>5. Builder(g, {})
  <2>1. Builder(g, Owed(work))
    BY <1>1 DEF GenInv
  <2>2. Owed(work) = {}
    BY <1>1 DEF Owed
  <2> QED BY <2>1, <2>2
<1>6. Imm(0) \in Vals(Temps(g)) /\ OperandRegs(Imm(0)) = {}
  <2>1. Imm(0) \in Vals(Temps(g))
    BY SmallVals
  <2> QED BY <2>1 DEF OperandRegs, Imm, IsReg
<1>7. \/ g.sealed /\ out' = made(g)
      \/ out' = made(TermRetVoid(g))
      \/ out' = made(TermRet(g, Imm(0)))
  <2>1. g.sealed \in BOOLEAN
    BY <1>3 DEF Typed
  <2> QED BY <2>1 DEF FinishFunc
<1>8. /\ \E B : Carries(g, A, TermRetVoid(g), B)
      /\ \E B : Carries(g, A, TermRet(g, Imm(0)), B)
  BY <1>3, <1>6, TermsCarry
<1>9. /\ Builder(TermRetVoid(g), {}) /\ TermRetVoid(g).sealed = TRUE
      /\ Builder(TermRet(g, Imm(0)), {}) /\ TermRet(g, Imm(0)).sealed = TRUE
  BY <1>5, TermsSeal
<1>10. \E B : Carries(g, A, g, B)
  BY <1>3, CarriesSelf
<1>11. PICK st, B : Carries(g, A, st, B) /\ Builder(st, {}) /\ st.sealed /\ out' = made(st)
  <2>1. CASE g.sealed /\ out' = made(g)
    BY <1>5, <1>10, <2>1
  <2>2. CASE out' = made(TermRetVoid(g))
    BY <1>8, <1>9, <2>2
  <2>3. CASE out' = made(TermRet(g, Imm(0)))
    BY <1>8, <1>9, <2>3
  <2> QED BY <1>7, <2>1, <2>2, <2>3
<1>12. Typed(st) /\ Shown(st, B) /\ g.nextVreg =< st.nextVreg /\ B[0] = A[0]
  <2>1. 0 \in Places(g)
    BY <1>3 DEF Typed, Places
  <2> QED BY <1>11, <2>1 DEF Carries, Grows
<1>13. np =< st.nextVreg /\ B[0] \subseteq 0 .. np - 1
  BY <1>3, <1>4, <1>12 DEF Typed
<1> DEFINE f == made(st)
<1>14. f.nb = st.nb /\ f.blocks = st.blocks
  OBVIOUS
<1>15. \A k \in Blocks(f) : f.blocks[k].term # "None"
  BY <1>11, <1>14 DEF Builder, Blocks
<1> HIDE DEF np
<1>16. f = [numVregs |-> st.nextVreg, nb |-> st.nb, blocks |-> st.blocks,
            params |-> [k \in 1 .. np |-> k - 1]]
  OBVIOUS
<1> HIDE DEF f
<1>17. /\ IsIRFunc(f)
       /\ \A v \in Vregs(f) \ {f.params[k] : k \in DOMAIN f.params} :
            DeadSet(f, v, Unwritten(f, v))
  BY ONLY <1>4, <1>12, <1>13, <1>16, Finished
<1>18. out' = f
  BY <1>11 DEF f
<1> QED BY <1>15, <1>17, <1>18 DEF LowersToIR

(* The step of every call.                                                 *)
LEMMA TypeSteps ==
  ASSUME GenInv, TypeInv, GenNext, out' = NoFunc
  PROVE  TypeInv'
<1>1. CASE \/ GenReturnVoid \/ GenBreak \/ GenContinue \/ CondConst
  BY <1>1, SoundEnds
<1>2. CASE GenValueStmt
  BY <1>2, SoundValue, SoundVarDecl
<1>3. CASE GenValueDone \/ CondBranch
  BY <1>3, SoundValueDone, SoundBranch
<1>4. CASE GenBlock \/ GenIfConst \/ GenIf \/ GenWhile
  BY <1>4, SoundBlock, SoundIfConst, SoundIf, SoundWhile
<1>5. CASE Housekeep \/ SetFlag
  BY <1>5, SoundMoves
<1>6. CASE GenLeaf \/ YieldFlag
  BY <1>6, SoundLeaf
<1>7. CASE GenGlobal \/ GenBinary \/ GenUnary
  BY <1>7, SoundValues
<1>8. CASE GenOperands \/ GenCall \/ GenLogical
  BY <1>8, SoundOperands, SoundCall, SoundLogical
<1>9. CASE CondLogical \/ CondNot \/ CondValue
  BY <1>9, SoundCondLogical, SoundCondNot, SoundCondValue
<1>10. CASE FinishFunc
  BY <1>10, GenFinish
<1> QED BY <1>1, <1>2, <1>3, <1>4, <1>5, <1>6, <1>7, <1>8, <1>9, <1>10 DEF GenNext

(* Only the last step finishes the function, and it changes no more.       *)
LEMMA Unfinished ==
  ASSUME GenNext
  PROVE  out = NoFunc /\ (out' = NoFunc \/ FinishFunc) /\ UNCHANGED ast
<1> DEFINE C == out = NoFunc /\ out' = NoFunc /\ UNCHANGED ast
<1>1. GenBlock \/ GenValueStmt \/ GenValueDone \/ GenReturnVoid \/ GenIfConst \/ GenIf => C
  BY DEF GenBlock, GenValueStmt, GenValueDone, GenReturnVoid, GenIfConst, GenIf, Doing, Keep
<1>2. GenWhile \/ GenBreak \/ GenContinue \/ Housekeep \/ GenLeaf \/ GenGlobal => C
  BY DEF GenWhile, GenBreak, GenContinue, Housekeep, GenLeaf, GenGlobal, Doing, Keep
<1>3. GenOperands \/ GenBinary \/ GenUnary \/ GenCall \/ GenLogical \/ SetFlag => C
  BY DEF GenOperands, GenBinary, GenUnary, GenCall, GenLogical, SetFlag, Doing, Keep
<1>4. YieldFlag \/ CondConst \/ CondLogical \/ CondNot \/ CondValue \/ CondBranch => C
  BY DEF YieldFlag, CondConst, CondLogical, CondNot, CondValue, CondBranch, Doing, Keep
<1>5. FinishFunc => out = NoFunc /\ UNCHANGED ast
  BY DEF FinishFunc
<1> HIDE DEF C
<1>6. C \/ FinishFunc
  BY <1>1, <1>2, <1>3, <1>4 DEF GenNext
<1> QED BY <1>5, <1>6 DEF C

GenTypes == GenInv /\ (DeclaresInBlocks => TypeInv) /\ LowersToIR

LEMMA GenTypesKept ==
  /\ GenInit => GenTypes
  /\ GenTypes /\ [GenNext]_genVars => GenTypes'
<1>1. ASSUME GenInit PROVE GenTypes
  <2>1. out = NoFunc
    BY <1>1 DEF GenInit
  <2> QED BY <1>1, <2>1, GenStart, TypeStart DEF GenTypes, LowersToIR
<1>2. ASSUME GenTypes, GenNext PROVE GenTypes'
  <2>1. GenInv /\ (DeclaresInBlocks => TypeInv)
    BY <1>2 DEF GenTypes
  <2>2. GenInv'
    BY <1>2, <2>1, GenSteps
  <2>3. DeclaresInBlocks' <=> DeclaresInBlocks
    BY <1>2, Unfinished DEF DeclaresInBlocks
  <2>4. CASE out' = NoFunc
    <3>1. DeclaresInBlocks => TypeInv'
      BY <1>2, <2>1, <2>4, TypeSteps
    <3> QED BY <2>2, <2>3, <2>4, <3>1 DEF GenTypes, LowersToIR
  <2>5. CASE FinishFunc
    <3>1. out' # NoFunc
      BY <2>1, <2>5, GenFinish
    <3>2. DeclaresInBlocks => LowersToIR'
      BY <2>1, <2>5, FinishLowers
    <3>3. LowersToIR'
      BY <2>3, <3>2 DEF LowersToIR
    <3> QED BY <2>2, <3>1, <3>3 DEF GenTypes, TypeInv
  <2> QED BY <1>2, <2>4, <2>5, Unfinished
<1>3. ASSUME GenTypes, UNCHANGED genVars PROVE GenTypes'
  <2>1. GenInv'
    BY <1>3, GenStutters DEF GenTypes
  <2>2. (DeclaresInBlocks' <=> DeclaresInBlocks) /\ (TypeInv => TypeInv') /\ LowersToIR'
    BY <1>3 DEF GenTypes, DeclaresInBlocks, TypeInv, LowersToIR, genVars
  <2> QED BY <1>3, <2>1, <2>2 DEF GenTypes
<1> QED BY <1>1, <1>2, <1>3

(* The generator's state is well typed, whatever analysed function is      *)
(* lowered whose declarations stand in blocks: what IRGen.cpp appends      *)
(* names vregs that newVreg() has handed out, and what it still has to     *)
(* fill are blocks that newBlock() has made.                               *)
THEOREM GenTypeOKCorrect == GenSpec => []GenTypeOK
<1>1. GenTypes => GenTypeOK
  BY GenTyped DEF GenTypes
<1> QED BY <1>1, GenTypesKept, PTL DEF GenSpec

(* Whatever analysed function is lowered whose declarations stand in       *)
(* blocks, what genFunc returns is a well-formed one: every block is       *)
(* ended, every jump stays inside, and no path reads a vreg before it has  *)
(* been written.                                                           *)
THEOREM LowersToIRCorrect == GenSpec => []LowersToIR
<1>1. GenTypes => LowersToIR
  BY DEF GenTypes
<1> QED BY <1>1, GenTypesKept, PTL DEF GenSpec
=============================================================================
