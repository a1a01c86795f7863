----------------------------- MODULE LoopPasses -----------------------------
(***************************************************************************)
(* The passes of opt/Passes.cpp that move code out of loops: licm,         *)
(* hoistLoopConstants, hoistMagicDiv and hoistDivModConstants.  All visit  *)
(* the back edges in the order of their source blocks and do something for *)
(* those whose natural loop has a preheader.                               *)
(***************************************************************************)
EXTENDS Passes

Preds(f, b) == {p \in Blocks(f) : b \in Succs(f.blocks[p])}       \* computeCFG

(* computeDom starts from every block being dominated by all and takes     *)
(* away: first from block 0 and from blocks without predecessors all but   *)
(* themselves, then from each block what some predecessor has lost.  These *)
(* are the pairs of a block and one that does not dominate it.             *)
Undominated(f) ==
  LET first == {p \in Blocks(f) \X Blocks(f) :
                  p[1] # p[2] /\ (p[1] = 0 \/ Preds(f, p[1]) = {})}
      lost(p) == (Succs(f.blocks[p[1]]) \ {p[2]}) \X {p[2]}
  IN  Iterated(LAMBDA ps, k : ps \cup UNION {lost(p) : p \in ps}, first, f.nb)

(* The natural loop of the edge from u to v: v and what reaches u without  *)
(* passing through v.                                                      *)
NaturalLoop(f, u, v) ==
  Iterated(LAMBDA bs, k : bs \cup UNION {Preds(f, b) : b \in bs \ {v}}, {u, v}, f.nb)

(* The k-th successor edge in the order of the passes: block k div 2, its  *)
(* first or second successor.                                              *)
Edge(f, k) ==
  LET bb == f.blocks[k \div 2]
  IN  [u |-> k \div 2,
       v |-> CASE k % 2 = 0 /\ bb.term \in {"Jmp", "Br"} -> bb.succ0
               [] k % 2 = 1 /\ bb.term = "Br" -> bb.succ1
               [] OTHER -> NoReg]

(* The one block outside the loop that enters it, if it does nothing else. *)
Preheader(f, loop, v) ==
  LET outside == Preds(f, v) \ loop
  IN  IF /\ Cardinality(outside) = 1
         /\ \A p \in outside : f.blocks[p].term = "Jmp"
      THEN CHOOSE p \in outside : TRUE ELSE NoReg

(* The loops a pass works on, in order: members and preheader.             *)
Loops(f) ==
  LET no == Undominated(f)
      loop(e) == LET members == NaturalLoop(f, e.u, e.v)
                 IN  [in |-> members, pre |-> Preheader(f, members, e.v)]
      found(ls, k) ==
        LET e == Edge(f, k - 1)
            isBack == e.v # NoReg /\ <<e.u, e.v>> \notin no
        IN  IF isBack /\ loop(e).pre # NoReg THEN Append(ls, loop(e)) ELSE ls
  IN  Iterated(found, << >>, 2 * f.nb)

(* The places of the instructions of blocks bs, in order.                  *)
Walk(f, bs) ==
  LET places(b) == [k \in DOMAIN f.blocks[b].insts |-> <<b, k>>]
  IN  Iterated(LAMBDA ps, k : IF k - 1 \in bs THEN ps \o places(k - 1) ELSE ps,
               << >>, f.nb)

AppendTo(f, b, in) == [f EXCEPT !.blocks[b].insts = Append(@, in)]

-----------------------------------------------------------------------------
(* licm.  A vreg some block outside the loop writes counts as invariant.   *)

WrittenOutside(f, bs) == {At(f, p).dst : p \in {q \in Sites(f) : q[1] \notin bs}} \ {NoReg}

Movable(in) == in.op \in BinaryOps \cup UnaryOps

(* Over the instructions of the loop, in order: those that move, and the   *)
(* vregs that then count as invariant.                                     *)
Invariant(f, bs) ==
  LET ps == Walk(f, bs)
      judged(s, k) ==
        LET in == At(f, ps[k])
        IN  IF Movable(in) /\ OpUses(in) \subseteq s.known
            THEN [out |-> Append(s.out, ps[k]), known |-> s.known \cup {in.dst}]
            ELSE s
  IN  Iterated(judged, [out |-> << >>, known |-> WrittenOutside(f, bs)], Len(ps)).out

MoveOut(f, loop) ==
  LET ps == Invariant(f, loop.in)
      gone == {ps[k] : k \in DOMAIN ps}
      left(b) == {k \in DOMAIN f.blocks[b].insts : <<b, k>> \notin gone}
      cut == [f EXCEPT !.blocks =
                [b \in Blocks(f) |-> [f.blocks[b] EXCEPT !.insts = Only(@, left(b))]]]
  IN  [cut EXCEPT !.blocks[loop.pre].insts = @ \o [k \in DOMAIN ps |-> At(f, ps[k])]]

Licm(f) ==
  LET ls == Loops(f) IN Iterated(LAMBDA g, n : MoveOut(g, ls[n]), f, Len(ls))

-----------------------------------------------------------------------------
(* Constants put into vregs of their own in the preheader.  `held` maps a  *)
(* constant of the loop under way to its vreg.                             *)

FreshReg_Kept(f) == f                   \* mutant: the count of vregs is left behind

FreshReg(f) == [f EXCEPT !.numVregs = @ + 1]

(* One use of the constant in.a or in.b.                                   *)
Hoist(s, p, field, pre) ==
  LET val == At(s.f, p)[field]
      new == s.f.numVregs
      home == IF val.n \in DOMAIN s.held THEN s.held[val.n] ELSE new
      moved == AppendTo(FreshReg(s.f), pre, Unary("Mv", new, val))
      g == IF home = new THEN moved ELSE s.f
  IN  [f |-> [g EXCEPT !.blocks[p[1]].insts[p[2]][field] = Reg(home)],
       held |-> [c \in DOMAIN s.held \cup {val.n} |-> IF c = val.n THEN home ELSE s.held[c]]]

Comparand(in, field) ==
  in.op \in CmpOps /\ ~IsReg(in[field]) /\ in[field].n # 0

Divisor(in, field) ==
  /\ in.op \in {"Div", "Mod"} /\ field = "b"
  /\ ~IsReg(in.b) /\ in.b.n \notin {0, 1, -1} /\ ~(in.b.n > 0 /\ IsPow2(in.b.n))

(* Every constant of the loop that the pass hoists, in order.              *)
HoistFrom(f, loop, kind) ==
  LET wanted(in, field) == IF kind = "compare" THEN Comparand(in, field) ELSE Divisor(in, field)
      ps == Walk(f, loop.in)
      use(s, k) ==
        LET p == ps[(k + 1) \div 2]
            field == IF k % 2 = 1 THEN "a" ELSE "b"
        IN  IF wanted(At(s.f, p), field) THEN Hoist(s, p, field, loop.pre) ELSE s
  IN  Iterated(use, [f |-> f, held |-> << >>], 2 * Len(ps)).f

HoistAll(f, kind) ==
  LET ls == Loops(f) IN Iterated(LAMBDA g, n : HoistFrom(g, ls[n], kind), f, Len(ls))

HoistLoopConstants(f) == HoistAll(f, "compare")
HoistDivModConstants(f) == HoistAll(f, "divide")

-----------------------------------------------------------------------------
(* hoistMagicDiv: the magic number of a division in the preheader, one for *)
(* each divisor and each kind of division.                                 *)

MagicOf(in) == IF in.unsignedDiv THEN UnsignedMagic[in.b.n].M ELSE SignedMagic[in.b.n].M

WantsMagic(in) ==
  /\ in.op \in {"Div", "Mod"} /\ ~IsReg(in.b)
  /\ NeedsMagic(in.b.n) /\ in.magic = NoReg

MagicKey_Divisor(in) == <<in.b.n>>      \* mutant: both kinds of division share a number

MagicKey(in) == <<in.b.n, in.unsignedDiv>>

GiveMagic(s, p, pre) ==
  LET in == At(s.f, p)
      new == s.f.numVregs
      home == IF MagicKey(in) \in DOMAIN s.held THEN s.held[MagicKey(in)] ELSE new
      moved == AppendTo(FreshReg(s.f), pre, Unary("Mv", new, Imm(MagicOf(in))))
      g == IF home = new THEN moved ELSE s.f
  IN  [f |-> [g EXCEPT !.blocks[p[1]].insts[p[2]].magic = home],
       held |-> [c \in DOMAIN s.held \cup {MagicKey(in)} |->
                   IF c = MagicKey(in) THEN home ELSE s.held[c]]]

MagicFrom(f, loop) ==
  LET ps == Walk(f, loop.in)
      use(s, k) == IF WantsMagic(At(s.f, ps[k])) THEN GiveMagic(s, ps[k], loop.pre) ELSE s
  IN  Iterated(use, [f |-> f, held |-> << >>], Len(ps)).f

HoistMagicDiv(f) ==
  LET ls == Loops(f) IN Iterated(LAMBDA g, n : MagicFrom(g, ls[n]), f, Len(ls))
=============================================================================
