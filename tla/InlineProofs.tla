---------------------------- MODULE InlineProofs ----------------------------
(***************************************************************************)
(* Inlining leaves well-formed functions, whatever the module: a copied    *)
(* instruction names vregs that its new function has, registers are        *)
(* counted as often as they are copied, and jumps stay where they were.    *)
(***************************************************************************)
EXTENDS Inline, IRLemmas, FiniteSetTheorems

(* Types, and what the copying needs: every call is of a function there is. *)
InlineInv ==
  /\ given \in Modules
  /\ InlineTypeOK
  /\ mod \in Seq({mod[k] : k \in DOMAIN mod})
  /\ \A k \in DOMAIN mod : CallsKnown(mod[k], DOMAIN mod)

-----------------------------------------------------------------------------
(* A value of a copy, its vreg counted from the caller's number of vregs.  *)
LEMMA RenamedType ==
  ASSUME NEW m \in Nat, NEW n \in Nat, NEW val \in Vals(0 .. n - 1)
  PROVE  Renamed(val, m) \in Vals(0 .. m + n - 1)
<1>1. CASE IsReg(val)
  <2>1. val.n \in 0 .. n - 1
    BY <1>1 DEF Vals, IsReg
  <2>2. val.n + m \in 0 .. m + n - 1
    BY <2>1
  <2> QED BY <1>1, <2>2 DEF Renamed, Vals, Reg
<1>2. CASE ~IsReg(val)
  BY <1>2 DEF Renamed, Vals, IsReg
<1> QED BY <1>1, <1>2

(* More vregs make more values, instructions and blocks well typed.        *)
LEMMA ValsGrow ==
  ASSUME NEW vs, NEW ws, vs \subseteq ws
  PROVE  Vals(vs) \subseteq Vals(ws)
BY DEF Vals

LEMMA InstsGrow ==
  ASSUME NEW vs, NEW ws, vs \subseteq ws, NEW in \in Insts(vs)
  PROVE  in \in Insts(ws)
<1>1. Vals(vs) \subseteq Vals(ws)
  BY ValsGrow
<1>2. in.args \in Seq(Vals(ws))
  <2>1. in.args \in Seq(Vals(vs))
    BY DEF Insts
  <2> QED BY <1>1, <2>1
<1> QED BY <1>1, <1>2 DEF Insts

(* A copy is an instruction of the caller.                                 *)
LEMMA CloneType ==
  ASSUME NEW m \in Nat, NEW n \in Nat, NEW in \in Insts(0 .. n - 1)
  PROVE  /\ Clone(in, m) \in Insts(0 .. m + n - 1)
         /\ Clone(in, m).op = in.op /\ Clone(in, m).callee = in.callee
         /\ Clone(in, m).dst = NoReg <=> in.dst = NoReg
<1> DEFINE ws == 0 .. m + n - 1
           c == Clone(in, m)
<1>1. Renamed(in.a, m) \in Vals(ws) /\ Renamed(in.b, m) \in Vals(ws)
  BY RenamedType DEF Insts
<1>2. in.args \in Seq(Vals(0 .. n - 1))
  BY DEF Insts
<1>3. \A k \in DOMAIN in.args : Renamed(in.args[k], m) \in Vals(ws)
  BY <1>2, RenamedType
<1>4. [k \in DOMAIN in.args |-> Renamed(in.args[k], m)] \in Seq(Vals(ws))
  BY <1>2, <1>3
<1>5. in.dst \in (0 .. n - 1) \cup {NoReg} /\ in.magic \in ws \cup {NoReg}
  BY DEF Insts
<1>6. (IF in.dst = NoReg THEN NoReg ELSE in.dst + m) \in ws \cup {NoReg}
  BY <1>5
<1>7. (IF in.dst = NoReg THEN NoReg ELSE in.dst + m) = NoReg <=> in.dst = NoReg
  BY <1>5 DEF NoReg
<1> DEFINE d == IF in.dst = NoReg THEN NoReg ELSE in.dst + m
           x == Renamed(in.a, m)
           y == Renamed(in.b, m)
           zs == [k \in DOMAIN in.args |-> Renamed(in.args[k], m)]
<1>8. c = [in EXCEPT !.dst = d, !.a = x, !.b = y, !.args = zs]
  BY Zenon DEF Clone
<1>9. /\ d \in ws \cup {NoReg} /\ zs \in Seq(Vals(ws)) /\ (d = NoReg <=> in.dst = NoReg)
      /\ x \in Vals(ws) /\ y \in Vals(ws)
  BY <1>1, <1>4, <1>6, <1>7
<1> HIDE DEF c, ws, d, x, y, zs
<1>10. in = [op |-> in.op, dst |-> in.dst, a |-> in.a, b |-> in.b, args |-> in.args,
             callee |-> in.callee, gid |-> in.gid, magic |-> in.magic,
             unsignedDiv |-> in.unsignedDiv]
  BY DEF Insts
<1>11. c = [op |-> in.op, dst |-> d, a |-> x, b |-> y, args |-> zs,
            callee |-> in.callee, gid |-> in.gid, magic |-> in.magic,
            unsignedDiv |-> in.unsignedDiv]
  BY <1>8, <1>10
<1>12. /\ in.op \in Ops /\ in.callee \in Nat /\ in.gid \in Nat
       /\ in.unsignedDiv \in BOOLEAN
  BY DEF Insts
<1>13. c \in Insts(ws)
  BY <1>5, <1>9, <1>11, <1>12 DEF Insts
<1>14. c.op = in.op /\ c.callee = in.callee /\ c.dst = d
  BY <1>11
<1> QED BY <1>9, <1>13, <1>14 DEF c, ws

(* A move into a vreg.                                                     *)
LEMMA MoveType ==
  ASSUME NEW vs, NEW d \in vs, NEW x \in Vals(vs)
  PROVE  /\ Unary("Mv", d, x) \in Insts(vs)
         /\ Unary("Mv", d, x).op = "Mv" /\ Unary("Mv", d, x).dst = d
<1>1. Imm(0) \in Vals(vs)
  BY HalfAssumption DEF Imm, Vals, Words
<1>2. "Mv" \in Ops
  BY DEF Ops, UnaryOps
<1>3. << >> \in Seq(Vals(vs))
  OBVIOUS
<1> QED BY <1>1, <1>2, <1>3 DEF Unary, Plain, Insts

-----------------------------------------------------------------------------
(* The instructions a function may hold whose vregs are vs, in a module    *)
(* whose functions are ks.                                                 *)
Sound(vs, ks) ==
  {in \in Insts(vs) : /\ in.op \notin {"StoreGlobal", "Call"} => in.dst # NoReg
                      /\ in.op = "StoreGlobal" => in.dst = NoReg
                      /\ in.op = "Call" => in.callee \in ks}

LEMMA SoundBlock ==
  ASSUME NEW ks, NEW f, IsIRFunc(f), CallsKnown(f, ks), NEW b \in Blocks(f)
  PROVE  f.blocks[b].insts \in Seq(Sound(Vregs(f), ks))
<1> DEFINE is == f.blocks[b].insts
<1>1. is \in Seq(Insts(Vregs(f)))
  BY BlockFacts
<1>2. \A k \in DOMAIN is : is[k] \in Sound(Vregs(f), ks)
  <2> TAKE k \in DOMAIN is
  <2>1. is[k] \in Insts(Vregs(f))
    BY <1>1
  <2>2. /\ is[k].op \notin {"StoreGlobal", "Call"} => is[k].dst # NoReg
        /\ is[k].op = "StoreGlobal" => is[k].dst = NoReg
    BY DEF IsIRFunc
  <2>3. is[k].op = "Call" => is[k].callee \in ks
    BY DEF CallsKnown
  <2> QED BY <2>1, <2>2, <2>3 DEF Sound
<1> HIDE DEF is
<1>3. is \in Seq(Sound(Vregs(f), ks))
  BY <1>1, <1>2
<1> QED BY <1>3 DEF is

LEMMA SoundGrows ==
  ASSUME NEW ks, NEW vs, NEW ws, vs \subseteq ws, NEW is \in Seq(Sound(vs, ks))
  PROVE  is \in Seq(Sound(ws, ks))
<1>1. Sound(vs, ks) \subseteq Sound(ws, ks)
  BY InstsGrow DEF Sound
<1> QED BY <1>1

(* What replaces a call is made of instructions the caller may hold.       *)
LEMMA ExpansionType ==
  ASSUME NEW ks, NEW n \in Nat, NEW in \in Insts(0 .. n - 1),
         NEW h, IsIRFunc(h), CallsKnown(h, ks), Len(in.args) = Len(h.params)
  PROVE  Expansion(in, h, n) \in Seq(Sound(0 .. n + h.numVregs - 1, ks))
<1> DEFINE m == h.numVregs
           ws == 0 .. n + m - 1
           S == Sound(ws, ks)
           hs == h.blocks[0].insts
<1>1. m \in Nat /\ 0 \in Blocks(h) /\ h.params \in Seq(0 .. m - 1)
  BY DEF IsIRFunc, Blocks, Vregs
<1>2. 0 .. n - 1 \subseteq ws
  BY <1>1
<1>3. \A d \in ws : \A x \in Vals(ws) : Unary("Mv", d, x) \in S
  <2> TAKE d \in ws
  <2> TAKE x \in Vals(ws)
  <2>1. Unary("Mv", d, x) \in Insts(ws) /\ Unary("Mv", d, x).op = "Mv"
        /\ Unary("Mv", d, x).dst = d
    BY MoveType
  <2>2. d # NoReg
    BY <1>1 DEF NoReg
  <2> QED BY <2>1, <2>2 DEF Sound
<1>4. ParamMoves(in, h, n) \in Seq(S)
  <2>1. in.args \in Seq(Vals(0 .. n - 1))
    BY DEF Insts
  <2>2. \A k \in DOMAIN h.params : /\ h.params[k] + n \in ws
                                   /\ in.args[k] \in Vals(ws)
    <3> TAKE k \in DOMAIN h.params
    <3>1. h.params[k] \in 0 .. m - 1 /\ k \in DOMAIN in.args
      BY <1>1, <2>1
    <3>2. in.args[k] \in Vals(0 .. n - 1)
      BY <2>1, <3>1
    <3>3. h.params[k] + n \in ws
      BY <1>1, <3>1
    <3>4. Vals(0 .. n - 1) \subseteq Vals(ws)
      BY <1>2, ValsGrow
    <3> HIDE DEF ws
    <3> QED BY <3>2, <3>3, <3>4
  <2>3. \A k \in DOMAIN h.params : Unary("Mv", h.params[k] + n, in.args[k]) \in S
    BY <1>3, <2>2
  <2> HIDE DEF S, ws
  <2> QED BY <1>1, <2>3 DEF ParamMoves
<1>5. Body(h, n) \in Seq(S)
  <2>1. hs \in Seq(Sound(0 .. m - 1, ks))
    BY <1>1, SoundBlock DEF Vregs
  <2>2. \A k \in DOMAIN hs : Clone(hs[k], n) \in S
    <3> TAKE k \in DOMAIN hs
    <3>1. hs[k] \in Sound(0 .. m - 1, ks)
      BY <2>1
    <3>2. hs[k] \in Insts(0 .. m - 1)
      BY <3>1 DEF Sound
    <3>3. /\ Clone(hs[k], n) \in Insts(ws)
          /\ Clone(hs[k], n).op = hs[k].op /\ Clone(hs[k], n).callee = hs[k].callee
          /\ Clone(hs[k], n).dst = NoReg <=> hs[k].dst = NoReg
      BY <1>1, <3>2, CloneType
    <3> QED BY <3>1, <3>3 DEF Sound
  <2> HIDE DEF S
  <2> QED BY <2>1, <2>2 DEF Body
<1>6. ResultMove(in, h, n) \in Seq(S)
  <2>1. CASE in.dst # NoReg /\ h.blocks[0].hasVal
    <3>1. in.dst \in ws
      BY <1>2, <2>1 DEF Insts
    <3>2. h.blocks[0] \in BasicBlocks(0 .. m - 1)
      BY <1>1, BlockFacts DEF Vregs
    <3>3. h.blocks[0].ret \in Vals(0 .. m - 1)
      BY <3>2 DEF BasicBlocks
    <3>4. Renamed(h.blocks[0].ret, n) \in Vals(ws)
      BY <1>1, <3>3, RenamedType
    <3>5. Unary("Mv", in.dst, Renamed(h.blocks[0].ret, n)) \in S
      BY <1>3, <3>1, <3>4
    <3> HIDE DEF S
    <3> QED BY <2>1, <3>5 DEF ResultMove
  <2>2. CASE ~(in.dst # NoReg /\ h.blocks[0].hasVal)
    <3>1. ResultMove(in, h, n) = << >>
      BY <2>2 DEF ResultMove
    <3> HIDE DEF S
    <3> QED BY <3>1
  <2> QED BY <2>1, <2>2
<1> HIDE DEF S
<1>7. Expansion(in, h, n) \in Seq(S)
  BY <1>4, <1>5, <1>6 DEF Expansion
<1> QED BY <1>7 DEF S

(* A function with m more vregs and other instructions in block b.         *)
Changed(f, b, m, is) == [f EXCEPT !.numVregs = @ + m, !.blocks[b].insts = is]

LEMMA ChangedType ==
  ASSUME NEW ks, NEW f, IsIRFunc(f), CallsKnown(f, ks), NEW b \in Blocks(f),
         NEW m \in Nat, NEW is \in Seq(Sound(0 .. f.numVregs + m - 1, ks))
  PROVE  /\ IsIRFunc(Changed(f, b, m, is)) /\ CallsKnown(Changed(f, b, m, is), ks)
         /\ Changed(f, b, m, is).nb = f.nb /\ Changed(f, b, m, is).blocks[b].insts = is
<1> DEFINE g == Changed(f, b, m, is)
           ws == 0 .. f.numVregs + m - 1
           bb == [f.blocks[b] EXCEPT !.insts = is]
<1>1. /\ DOMAIN f = {"numVregs", "params", "nb", "blocks"}
      /\ f.numVregs \in Nat /\ f.nb \in Nat \ {0}
      /\ f.params \in Seq(Vregs(f))
      /\ f.blocks \in [Blocks(f) -> BasicBlocks(Vregs(f))]
  BY DEF IsIRFunc
<1>2. /\ DOMAIN g = {"numVregs", "params", "nb", "blocks"}
      /\ g.numVregs = f.numVregs + m /\ g.nb = f.nb /\ g.params = f.params
      /\ g.blocks = [f.blocks EXCEPT ![b] = bb]
  BY <1>1 DEF Changed
<1> HIDE DEF g
<1>3. Vregs(g) = ws /\ Blocks(g) = Blocks(f) /\ Vregs(f) \subseteq ws
  BY <1>1, <1>2 DEF Vregs, Blocks
<1>4. Vals(Vregs(f)) \subseteq Vals(ws)
  BY <1>3, ValsGrow
<1>5. /\ bb \in BasicBlocks(ws) /\ Succs(bb) = Succs(f.blocks[b]) /\ bb.insts = is
  <2>1. f.blocks[b] \in BasicBlocks(Vregs(f))
    BY <1>1
  <2>2. is \in Seq(Insts(ws))
    <3>1. Sound(ws, ks) \subseteq Insts(ws)
      BY DEF Sound
    <3> HIDE DEF ws
    <3> QED BY <3>1 DEF ws
  <2>3. f.blocks[b].cond \in Vals(ws) /\ f.blocks[b].ret \in Vals(ws)
    BY <1>4, <2>1 DEF BasicBlocks
  <2> HIDE DEF ws
  <2>4. bb \in BasicBlocks(ws)
    BY <2>1, <2>2, <2>3 DEF BasicBlocks
  <2>5. /\ bb.term = f.blocks[b].term /\ bb.succ0 = f.blocks[b].succ0
        /\ bb.succ1 = f.blocks[b].succ1 /\ bb.insts = is
    BY <2>1 DEF BasicBlocks
  <2> QED BY <2>4, <2>5 DEF Succs
<1>6. \A k \in Blocks(f) \ {b} : /\ g.blocks[k] = f.blocks[k]
                                  /\ g.blocks[k] \in BasicBlocks(ws)
                                  /\ g.blocks[k].insts \in Seq(Sound(ws, ks))
  <2> TAKE k \in Blocks(f) \ {b}
  <2>1. g.blocks[k] = f.blocks[k] /\ f.blocks[k] \in BasicBlocks(Vregs(f))
    BY <1>1, <1>2
  <2>2. f.blocks[k].insts \in Seq(Sound(Vregs(f), ks))
    BY SoundBlock
  <2>3. f.blocks[k].insts \in Seq(Sound(ws, ks))
    BY <1>3, <2>2, SoundGrows
  <2>4. f.blocks[k].insts \in Seq(Insts(ws))
    <3>1. Sound(ws, ks) \subseteq Insts(ws)
      BY DEF Sound
    <3> HIDE DEF ws
    <3> QED BY <2>3, <3>1
  <2> HIDE DEF ws
  <2>5. f.blocks[k].cond \in Vals(ws) /\ f.blocks[k].ret \in Vals(ws)
    BY <1>4, <2>1 DEF BasicBlocks
  <2> QED BY <2>1, <2>3, <2>4, <2>5 DEF BasicBlocks
<1>7. g.blocks[b] = bb
  BY <1>1, <1>2
<1> HIDE DEF ws, bb
<1>8. \A k \in Blocks(g) : /\ g.blocks[k] \in BasicBlocks(Vregs(g))
                           /\ Succs(g.blocks[k]) \subseteq Blocks(g)
                           /\ g.blocks[k].insts \in Seq(Sound(Vregs(g), ks))
  <2>1. \A k \in Blocks(f) : Succs(f.blocks[k]) \subseteq Blocks(f)
    BY DEF IsIRFunc
  <2>2. is \in Seq(Sound(ws, ks))
    BY DEF ws
  <2> QED BY <1>3, <1>5, <1>6, <1>7, <2>1, <2>2
<1>9. \A k \in Blocks(g) : \A i \in DOMAIN g.blocks[k].insts :
        g.blocks[k].insts[i] \in Sound(Vregs(g), ks)
  BY <1>8
<1>10. CallsKnown(g, ks)
  BY <1>9 DEF CallsKnown, Sound
<1>11. g.params \in Seq(Vregs(g))
  BY <1>1, <1>2, <1>3
<1>12. g.blocks \in [Blocks(g) -> BasicBlocks(Vregs(g))]
  BY <1>1, <1>2, <1>3, <1>8
<1>13. \A i, j \in DOMAIN g.params : g.params[i] = g.params[j] => i = j
  BY <1>2 DEF IsIRFunc
<1>14. g.numVregs \in Nat /\ g.nb \in Nat \ {0}
  BY <1>1, <1>2
<1>15. \A k \in Blocks(g) : \A i \in DOMAIN g.blocks[k].insts :
         LET in == g.blocks[k].insts[i]
         IN  /\ in.op \notin {"StoreGlobal", "Call"} => in.dst # NoReg
             /\ in.op = "StoreGlobal" => in.dst = NoReg
  BY <1>9 DEF Sound
<1>16. IsIRFunc(g)
  BY <1>2, <1>8, <1>11, <1>12, <1>13, <1>14, <1>15 DEF IsIRFunc
<1> QED BY <1>2, <1>5, <1>7, <1>10, <1>16 DEF g

-----------------------------------------------------------------------------
(* What the invariant says of the position and of the functions.           *)
LEMMA Here ==
  ASSUME InlineInv
  PROVE  /\ Len(mod) \in Nat \ {0} /\ DOMAIN mod = 1 .. Len(mod) /\ cur \in DOMAIN mod
         /\ IsIRFunc(F) /\ CallsKnown(F, DOMAIN mod)
         /\ F.nb \in Nat \ {0} /\ F.numVregs \in Nat /\ blk \in Blocks(F)
         /\ Len(Insts0) \in Nat /\ DOMAIN Insts0 = 1 .. Len(Insts0)
         /\ Insts0 \in Seq(Sound(Vregs(F), DOMAIN mod))
         /\ ix \in 1 .. Len(Insts0) + 1
<1>1. cur \in DOMAIN mod /\ blk \in Blocks(F) /\ ix \in 1 .. Len(Insts0) + 1
      /\ IsIRFunc(F) /\ CallsKnown(F, DOMAIN mod)
  BY DEF InlineInv, InlineTypeOK, F
<1>2. Insts0 \in Seq(Sound(Vregs(F), DOMAIN mod))
  BY <1>1, SoundBlock DEF Insts0
<1>3. Len(mod) \in Nat \ {0} /\ DOMAIN mod = 1 .. Len(mod)
  BY <1>1 DEF InlineInv
<1>4. F.nb \in Nat \ {0} /\ F.numVregs \in Nat
  BY <1>1 DEF IsIRFunc
<1> QED BY <1>1, <1>2, <1>3, <1>4

(* One element of a sequence replaced by a sequence.                       *)
LEMMA Spliced ==
  ASSUME NEW S, NEW s \in Seq(S), NEW t \in Seq(S), NEW i \in 1 .. Len(s)
  PROVE  /\ SubSeq(s, 1, i - 1) \o t \o SubSeq(s, i + 1, Len(s)) \in Seq(S)
         /\ Len(SubSeq(s, 1, i - 1) \o t \o SubSeq(s, i + 1, Len(s)))
              = Len(s) - 1 + Len(t)
         /\ Len(t) \in Nat
<1> DEFINE p == SubSeq(s, 1, i - 1)
           q == SubSeq(s, i + 1, Len(s))
<1>1. p \in Seq(S) /\ Len(p) = i - 1
  OBVIOUS
<1>2. q \in Seq(S) /\ Len(q) = Len(s) - i
  OBVIOUS
<1> HIDE DEF p, q
<1>3. p \o t \in Seq(S) /\ Len(p \o t) = i - 1 + Len(t) /\ Len(t) \in Nat
  BY <1>1
<1> DEFINE r == p \o t
           u == r \o q
<1>4. r \in Seq(S) /\ Len(r) = i - 1 + Len(t)
  BY <1>3
<1> HIDE DEF r
<1>5. u \in Seq(S) /\ Len(u) = Len(r) + Len(q)
  BY <1>2, <1>4
<1> HIDE DEF u
<1>6. Len(u) = Len(s) - 1 + Len(t)
  BY <1>2, <1>3, <1>4, <1>5
<1> QED BY <1>3, <1>5, <1>6 DEF p, q, r, u

(* A call replaced.                                                        *)
LEMMA InlineCallStep ==
  ASSUME InlineInv, InlineCall
  PROVE  InlineInv'
<1> DEFINE ks == DOMAIN mod
           h == mod[In.callee]
           new == Expansion(In, h, F.numVregs)
           is == SubSeq(Insts0, 1, ix - 1) \o new \o SubSeq(Insts0, ix + 1, Len(Insts0))
           g == Changed(F, blk, h.numVregs, is)
           ws == 0 .. F.numVregs + h.numVregs - 1
<1>1. /\ Len(mod) \in Nat \ {0} /\ ks = 1 .. Len(mod) /\ cur \in ks
      /\ IsIRFunc(F) /\ CallsKnown(F, ks) /\ F.numVregs \in Nat /\ blk \in Blocks(F)
      /\ Len(Insts0) \in Nat /\ DOMAIN Insts0 = 1 .. Len(Insts0)
      /\ Insts0 \in Seq(Sound(Vregs(F), ks)) /\ ix \in 1 .. Len(Insts0)
  BY Here DEF InlineCall, AtInst
<1>2. In \in Sound(Vregs(F), ks) /\ In.op = "Call"
  BY <1>1 DEF In, InlineCall, Takes
<1>3. In.callee \in ks /\ In \in Insts(0 .. F.numVregs - 1)
  BY <1>2 DEF Sound, Vregs
<1>4. IsIRFunc(h) /\ CallsKnown(h, ks) /\ h.numVregs \in Nat
  BY <1>3 DEF InlineInv, InlineTypeOK, IsIRFunc
<1>5. Len(In.args) = Len(h.params)
  BY DEF InlineCall, Takes
<1>6. new \in Seq(Sound(ws, ks))
  BY <1>1, <1>3, <1>4, <1>5, ExpansionType
<1>7. Insts0 \in Seq(Sound(ws, ks))
  <2>1. Vregs(F) \subseteq ws
    BY <1>1, <1>4 DEF Vregs
  <2> QED BY <1>1, <2>1, SoundGrows
<1>8. is \in Seq(Sound(ws, ks)) /\ Len(is) = Len(Insts0) - 1 + Len(new) /\ Len(new) \in Nat
  <2> DEFINE S == Sound(ws, ks)
             n == Len(Insts0)
  <2>1. new \in Seq(S) /\ Insts0 \in Seq(S) /\ n \in Nat /\ ix \in 1 .. n
    BY <1>1, <1>6, <1>7
  <2> HIDE DEF new, S, n
  <2>2. is \in Seq(S) /\ Len(is) = n - 1 + Len(new) /\ Len(new) \in Nat
    BY <2>1, Spliced DEF n
  <2> QED BY <2>2 DEF S, n
<1>9. mod' = [mod EXCEPT ![cur] = g] /\ ix' = ix + Len(new)
      /\ UNCHANGED <<given, cur, blk, pass>> /\ any' = TRUE
  BY <1>1 DEF InlineCall, F, Insts0, Changed
<1> HIDE DEF is, new
<1>10. /\ IsIRFunc(g) /\ CallsKnown(g, ks) /\ g.nb = F.nb /\ g.blocks[blk].insts = is
  <2> DEFINE m == h.numVregs
  <2>1. is \in Seq(Sound(0 .. F.numVregs + m - 1, ks)) /\ m \in Nat
    BY <1>4, <1>8
  <2> HIDE DEF m, ks
  <2>2. /\ IsIRFunc(F) /\ CallsKnown(F, ks) /\ blk \in Blocks(F)
    BY <1>1
  <2> QED BY <2>1, <2>2, ChangedType DEF m
<1> HIDE DEF g, ks
<1>11. /\ DOMAIN mod' = ks /\ mod'[cur] = g
       /\ \A k \in ks \ {cur} : mod'[k] = mod[k]
  BY <1>1, <1>9 DEF ks
<1>12. mod' \in Seq({mod'[k] : k \in DOMAIN mod'}) /\ Len(mod') = Len(mod)
  <2>1. mod \in Seq({mod[k] : k \in ks})
    BY DEF InlineInv, ks
  <2>2. mod' \in Seq({mod[k] : k \in ks} \cup {g}) /\ Len(mod') = Len(mod)
    BY <1>1, <1>9, <2>1
  <2> QED BY <2>2
<1>13. \A k \in ks : IsIRFunc(mod'[k]) /\ CallsKnown(mod'[k], ks)
  BY <1>10, <1>11 DEF InlineInv, InlineTypeOK, ks
<1>14. F' = g /\ Insts0' = is
  BY <1>9, <1>10, <1>11 DEF F, Insts0
<1>15. cur' \in DOMAIN mod' /\ blk' \in Blocks(F') /\ ix' \in 1 .. Len(Insts0') + 1
  BY <1>1, <1>8, <1>9, <1>10, <1>11, <1>14 DEF Blocks
<1>16. any' \in BOOLEAN /\ pass' \in 0 .. Sweeps /\ given' \in Modules
       /\ Len(mod') = Len(given'.funcs)
  BY <1>9, <1>12 DEF InlineInv, InlineTypeOK
<1> QED BY <1>11, <1>12, <1>13, <1>15, <1>16 DEF InlineInv, InlineTypeOK

(* The steps that leave the functions as they are.                         *)
LEMMA MoveOnStep ==
  ASSUME InlineInv, KeepInst \/ NextBlock \/ NextFunction \/ EndSweep
  PROVE  InlineInv'
<1>1. /\ Len(mod) \in Nat \ {0} /\ DOMAIN mod = 1 .. Len(mod) /\ cur \in DOMAIN mod
      /\ F.nb \in Nat \ {0} /\ blk \in Blocks(F)
      /\ Len(Insts0) \in Nat /\ ix \in 1 .. Len(Insts0) + 1
  BY Here
<1>2. UNCHANGED <<given, mod>>
  BY DEF KeepInst, NextBlock, NextFunction, EndSweep
<1>3. any \in BOOLEAN /\ pass \in 0 .. Sweeps /\ Sweeps \in Nat \ {0}
  BY LimitsAssumption DEF InlineInv, InlineTypeOK
<1>4. \A k \in DOMAIN mod : \A b \in Blocks(mod[k]) :
        /\ 0 \in Blocks(mod[k])
        /\ 1 \in 1 .. Len(mod[k].blocks[b].insts) + 1
  <2> TAKE k \in DOMAIN mod
  <2> TAKE b \in Blocks(mod[k])
  <2>1. IsIRFunc(mod[k])
    BY DEF InlineInv, InlineTypeOK
  <2>2. Len(mod[k].blocks[b].insts) \in Nat
    BY <2>1, BlockFacts
  <2> QED BY <2>1, <2>2 DEF IsIRFunc, Blocks
<1>5. \A k \in DOMAIN mod : 0 \in Blocks(mod[k])
  <2> TAKE k \in DOMAIN mod
  <2>1. IsIRFunc(mod[k])
    BY DEF InlineInv, InlineTypeOK
  <2> QED BY <2>1 DEF IsIRFunc, Blocks
<1>6. /\ cur' \in DOMAIN mod' /\ blk' \in Blocks(F') /\ ix' \in 1 .. Len(Insts0') + 1
      /\ any' \in BOOLEAN /\ pass' \in 0 .. Sweeps
  <2>1. CASE KeepInst
    BY <1>1, <1>2, <1>3, <2>1 DEF KeepInst, AtInst, F, Insts0
  <2>2. CASE NextBlock
    <3>1. blk' = blk + 1 /\ ix' = 1 /\ blk + 1 < F.nb /\ UNCHANGED <<cur, any, pass>>
      BY <2>2 DEF NextBlock
    <3>2. blk' \in Blocks(F) /\ F' = F
      BY <1>1, <1>2, <3>1 DEF Blocks, F
    <3>3. 1 \in 1 .. Len(Insts0') + 1
      BY <1>1, <1>2, <1>4, <3>1, <3>2 DEF F, Insts0
    <3> QED BY <1>1, <1>2, <1>3, <3>1, <3>2, <3>3
  <2>3. CASE NextFunction
    <3>1. cur' = cur + 1 /\ cur < Len(mod) /\ blk' = 0 /\ ix' = 1 /\ UNCHANGED <<any, pass>>
      BY <2>3 DEF NextFunction
    <3>2. cur' \in DOMAIN mod
      BY <1>1, <3>1
    <3>3. blk' \in Blocks(F') /\ 1 \in 1 .. Len(Insts0') + 1
      BY <1>2, <1>4, <1>5, <3>1, <3>2 DEF F, Insts0
    <3> QED BY <1>2, <1>3, <3>1, <3>2, <3>3
  <2>4. CASE EndSweep
    <3>1. cur' = 1 /\ blk' = 0 /\ ix' = 1 /\ any' = FALSE /\ pass' \in {pass + 1, Sweeps}
          /\ pass < Sweeps
      BY <2>4 DEF EndSweep, BlockDone, Busy
    <3>2. cur' \in DOMAIN mod
      BY <1>1, <3>1
    <3>3. blk' \in Blocks(F') /\ 1 \in 1 .. Len(Insts0') + 1
      BY <1>2, <1>4, <1>5, <3>1, <3>2 DEF F, Insts0
    <3>4. pass' \in 0 .. Sweeps
      BY <1>3, <3>1
    <3> QED BY <1>2, <3>1, <3>2, <3>3, <3>4
  <2> QED BY <2>1, <2>2, <2>3, <2>4
<1> QED BY <1>2, <1>6 DEF InlineInv, InlineTypeOK

LEMMA InlineInitInv == InlineInit => InlineInv
<1> SUFFICES ASSUME InlineInit PROVE InlineInv
  OBVIOUS
<1>1. /\ given \in Modules /\ mod = given.funcs /\ cur = 1 /\ blk = 0 /\ ix = 1
      /\ any = FALSE /\ pass = 0
  BY DEF InlineInit
<1>2. /\ mod \in Seq({mod[k] : k \in DOMAIN mod}) /\ mod # << >>
      /\ \A k \in DOMAIN mod : IsIRFunc(mod[k])
      /\ \A k \in DOMAIN mod : CallsKnown(mod[k], DOMAIN mod)
  BY <1>1, ModulesAssumption
<1>3. cur \in DOMAIN mod
  BY <1>1, <1>2
<1>4. IsIRFunc(F) /\ 0 \in Blocks(F)
  BY <1>2, <1>3 DEF F, IsIRFunc, Blocks
<1>5. Len(Insts0) \in Nat
  BY <1>1, <1>4, BlockFacts DEF Insts0
<1>6. pass \in 0 .. Sweeps
  BY <1>1, LimitsAssumption
<1>7. ix \in 1 .. Len(Insts0) + 1
  BY <1>1, <1>5
<1>8. any \in BOOLEAN /\ blk \in Blocks(F)
  BY <1>1, <1>4
<1>9. Len(mod) = Len(given.funcs)
  BY <1>1
<1> QED BY <1>1, <1>2, <1>3, <1>6, <1>7, <1>8, <1>9 DEF InlineInv, InlineTypeOK

LEMMA InlineStepInv == InlineInv /\ [InlineNext]_inlineVars => InlineInv'
<1> SUFFICES ASSUME InlineInv, [InlineNext]_inlineVars PROVE InlineInv'
  OBVIOUS
<1>1. CASE InlineCall
  BY <1>1, InlineCallStep
<1>2. CASE KeepInst \/ NextBlock \/ NextFunction \/ EndSweep
  BY <1>2, MoveOnStep
<1>3. CASE UNCHANGED inlineVars
  BY <1>3 DEF inlineVars, InlineInv, InlineTypeOK, F, Insts0
<1> QED BY <1>1, <1>2, <1>3 DEF InlineNext

(* Inlining keeps every function of the module well formed and its own     *)
(* place within them, whatever module it is given and however large the    *)
(* functions that it inlines (inlineSweep, opt/Passes.cpp:83-117).         *)
THEOREM InlineTypeCorrect == InlineSpec => []InlineTypeOK
<1>1. InlineInv => InlineTypeOK
  BY DEF InlineInv
<1> QED BY <1>1, InlineInitInv, InlineStepInv, PTL DEF InlineSpec
-----------------------------------------------------------------------------
(* One sweep of inlining is enough when every call goes backward, for      *)
(* every such module.  Behind the position reached no call is left that    *)
(* could be inlined, and what a copy brings along was behind it already.   *)

(* The position of instruction i of block b of function k has been passed. *)
Behind(k, b, i) ==
  \/ pass > 0
  \/ k < cur
  \/ k = cur /\ (b < blk \/ (b = blk /\ i < ix))

(* A call as the analysis allows it, here one that goes backward.          *)
Fits(k, in) ==
  in.op = "Call" => /\ GoesBack(k, in)
                    /\ Len(in.args) = Len(given.funcs[in.callee].params)

Settled(in) == in.op = "Call" => ~Inlinable(in.callee)

(* What inlining leaves alone of every function.                           *)
SameShape(f, g) ==
  f.nb = g.nb /\ f.params = g.params /\ f.blocks[0].term = g.blocks[0].term

SweepInv ==
  /\ \A k \in DOMAIN mod : SameShape(mod[k], given.funcs[k])
  /\ \A k \in DOMAIN mod : \A b \in Blocks(mod[k]) : \A i \in DOMAIN mod[k].blocks[b].insts :
       /\ Fits(k, mod[k].blocks[b].insts[i])
       /\ Behind(k, b, i) => Settled(mod[k].blocks[b].insts[i])

-----------------------------------------------------------------------------
LEMMA CallsFacts ==
  ASSUME NEW f, NEW in
  PROVE  in \in CallsOf(f) <=>
           /\ in.op = "Call"
           /\ \E b \in Blocks(f) : \E i \in DOMAIN f.blocks[b].insts : in = f.blocks[b].insts[i]
BY DEF CallsOf

(* A function that calls itself is never inlined.                          *)
LEMMA NotItself ==
  ASSUME SweepInv, NEW k \in DOMAIN mod, NEW in, GoesBack(k, in), in.callee = k, k \in Nat
  PROVE  ~Inlinable(k)
BY DEF SweepInv, SameShape, GoesBack, Inlinable, OneBlock

(* At the start nothing is behind the position.                            *)
LEMMA SweepInit ==
  ASSUME InlineInit, InlineInv, Backward
  PROVE  SweepInv
<1>1. /\ given \in Modules /\ mod = given.funcs /\ cur = 1 /\ blk = 0 /\ ix = 1 /\ pass = 0
  BY DEF InlineInit
<1>2. DOMAIN mod = 1 .. Len(mod) /\ Len(mod) \in Nat
  BY Here
<1>3. \A k \in DOMAIN mod : SameShape(mod[k], given.funcs[k])
  BY <1>1 DEF SameShape
<1>4. ASSUME NEW k \in DOMAIN mod, NEW b \in Blocks(mod[k]),
             NEW i \in DOMAIN mod[k].blocks[b].insts
      PROVE  Fits(k, mod[k].blocks[b].insts[i])
  <2> DEFINE in == mod[k].blocks[b].insts[i]
  <2> SUFFICES ASSUME in.op = "Call"
               PROVE  GoesBack(k, in) /\ Len(in.args) = Len(given.funcs[in.callee].params)
    BY DEF Fits
  <2>1. in \in CallsOf(given.funcs[k])
    BY <1>1, CallsFacts
  <2>2. GoesBack(k, in)
    BY <1>1, <2>1 DEF Backward
  <2>3. Len(in.args) = Len(given.funcs[in.callee].params)
    BY <1>1, <2>1, ModulesAssumption DEF ArgsFit
  <2> QED BY <2>2, <2>3
<1>5. ASSUME NEW k \in DOMAIN mod, NEW b \in Blocks(mod[k]),
             NEW i \in DOMAIN mod[k].blocks[b].insts
      PROVE  ~Behind(k, b, i)
  <2>1. k \in Nat \ {0} /\ b \in Nat
    BY <1>2 DEF Blocks
  <2>2. i \in Nat \ {0}
    <3>1. IsIRFunc(mod[k])
      BY DEF InlineInv, InlineTypeOK
    <3>2. Len(mod[k].blocks[b].insts) \in Nat /\ DOMAIN mod[k].blocks[b].insts
            = 1 .. Len(mod[k].blocks[b].insts)
      BY <3>1, BlockFacts
    <3> QED BY <3>2
  <2> QED BY <1>1, <2>1, <2>2 DEF Behind
<1> QED BY <1>3, <1>4, <1>5 DEF SweepInv

-----------------------------------------------------------------------------
(* A function on positions is a sequence.                                  *)
LEMMA FunSeq ==
  ASSUME NEW n \in Nat, NEW S, NEW f \in [1 .. n -> S]
  PROVE  f \in Seq(S) /\ Len(f) = n /\ DOMAIN f = 1 .. n
OBVIOUS

(* The elements of two sequences in a row.                                 *)
LEMMA Joined ==
  ASSUME NEW S, NEW s \in Seq(S), NEW t \in Seq(S)
  PROVE  /\ s \o t \in Seq(S) /\ Len(s \o t) = Len(s) + Len(t)
         /\ Len(s) \in Nat /\ Len(t) \in Nat
         /\ \A k \in 1 .. Len(s) : (s \o t)[k] = s[k]
         /\ \A k \in Len(s) + 1 .. Len(s) + Len(t) : (s \o t)[k] = t[k - Len(s)]
OBVIOUS

(* The parts of a splice.                                                  *)
LEMMA SplicedParts ==
  ASSUME NEW S, NEW s \in Seq(S), NEW t \in Seq(S), NEW j \in 1 .. Len(s),
         NEW i \in DOMAIN (SubSeq(s, 1, j - 1) \o t \o SubSeq(s, j + 1, Len(s)))
  PROVE  LET r == SubSeq(s, 1, j - 1) \o t \o SubSeq(s, j + 1, Len(s))
         IN  \/ i < j /\ i \in DOMAIN s /\ r[i] = s[i]
             \/ i >= j /\ i < j + Len(t) /\ i - j + 1 \in DOMAIN t /\ r[i] = t[i - j + 1]
             \/ i >= j + Len(t) /\ i - Len(t) + 1 \in DOMAIN s /\ r[i] = s[i - Len(t) + 1]
<1> DEFINE p == SubSeq(s, 1, j - 1)
           q == SubSeq(s, j + 1, Len(s))
           u == p \o t
           r == u \o q
           n == Len(s)
           m == Len(t)
<1>1. p \in Seq(S) /\ Len(p) = j - 1 /\ \A k \in 1 .. j - 1 : p[k] = s[k]
  OBVIOUS
<1>2. q \in Seq(S) /\ Len(q) = n - j /\ \A k \in 1 .. n - j : q[k] = s[k + j]
  OBVIOUS
<1>3. n \in Nat /\ j \in 1 .. n /\ m \in Nat /\ DOMAIN s = 1 .. n /\ DOMAIN t = 1 .. m
  OBVIOUS
<1> HIDE DEF p, q, n, m
<1>4. /\ u \in Seq(S) /\ Len(u) = j - 1 + m
      /\ \A k \in 1 .. j - 1 : u[k] = p[k]
      /\ \A k \in j .. j - 1 + m : u[k] = t[k - (j - 1)]
  <2>1. /\ u \in Seq(S) /\ Len(u) = Len(p) + m
        /\ \A k \in 1 .. Len(p) : u[k] = p[k]
        /\ \A k \in Len(p) + 1 .. Len(p) + m : u[k] = t[k - Len(p)]
    BY <1>1, Joined DEF m
  <2> HIDE DEF u
  <2> QED BY <1>1, <1>3, <2>1
<1> HIDE DEF u
<1>5. /\ r \in Seq(S) /\ Len(r) = n - 1 + m
      /\ \A k \in 1 .. j - 1 + m : r[k] = u[k]
      /\ \A k \in j + m .. n - 1 + m : r[k] = q[k - (j - 1 + m)]
  <2>1. /\ r \in Seq(S) /\ Len(r) = Len(u) + Len(q)
        /\ \A k \in 1 .. Len(u) : r[k] = u[k]
        /\ \A k \in Len(u) + 1 .. Len(u) + Len(q) : r[k] = q[k - Len(u)]
    BY <1>2, <1>4, Joined
  <2> HIDE DEF r
  <2> QED BY <1>2, <1>3, <1>4, <2>1
<1>6. i \in DOMAIN r
  BY DEF p, q, u, n
<1>7. \/ i < j /\ i \in DOMAIN s /\ r[i] = s[i]
      \/ i >= j /\ i < j + m /\ i - j + 1 \in DOMAIN t /\ r[i] = t[i - j + 1]
      \/ i >= j + m /\ i - m + 1 \in DOMAIN s /\ r[i] = s[i - m + 1]
  <2> HIDE DEF r
  <2>1. i \in 1 .. n - 1 + m
    BY <1>5, <1>6
  <2>2. CASE i < j
    <3>1. i \in 1 .. j - 1 /\ i \in 1 .. j - 1 + m /\ i \in 1 .. n
      BY <1>3, <2>1, <2>2
    <3> QED BY <1>1, <1>3, <1>4, <1>5, <2>2, <3>1
  <2>3. CASE i >= j /\ i < j + m
    <3>1. i \in j .. j - 1 + m /\ i \in 1 .. j - 1 + m /\ i - (j - 1) = i - j + 1
          /\ i - j + 1 \in 1 .. m
      BY <1>3, <2>1, <2>3
    <3> QED BY <1>3, <1>4, <1>5, <2>3, <3>1
  <2>4. CASE i >= j + m
    <3>1. i \in j + m .. n - 1 + m /\ i - (j - 1 + m) \in 1 .. n - j
          /\ i - (j - 1 + m) + j = i - m + 1 /\ i - m + 1 \in 1 .. n
      BY <1>3, <2>1, <2>4
    <3> QED BY <1>2, <1>3, <1>5, <2>4, <3>1
  <2> QED BY <1>3, <2>1, <2>2, <2>3, <2>4
<1> QED BY <1>7 DEF p, q, u, n, m

(* A call in what replaces a call is a copy of one of the inlined function. *)
LEMMA CopiedCalls ==
  ASSUME NEW ks, NEW n \in Nat, NEW in \in Insts(0 .. n - 1),
         NEW h, IsIRFunc(h), CallsKnown(h, ks), Len(in.args) = Len(h.params),
         NEW j \in DOMAIN Expansion(in, h, n), Expansion(in, h, n)[j].op = "Call"
  PROVE  \E i \in DOMAIN h.blocks[0].insts :
           /\ h.blocks[0].insts[i].op = "Call"
           /\ Expansion(in, h, n)[j].callee = h.blocks[0].insts[i].callee
           /\ Len(Expansion(in, h, n)[j].args) = Len(h.blocks[0].insts[i].args)
<1> DEFINE x == ParamMoves(in, h, n)
           y == Body(h, n)
           z == ResultMove(in, h, n)
           hs == h.blocks[0].insts
           e == Expansion(in, h, n)
<1>1. h.params \in Seq(Vregs(h)) /\ 0 \in Blocks(h)
  BY DEF IsIRFunc, Blocks
<1>2. hs \in Seq(Insts(Vregs(h)))
  BY <1>1, BlockFacts
<1> DEFINE X == {x[k] : k \in DOMAIN x}
           Y == {y[k] : k \in DOMAIN y}
           Z == {z[k] : k \in DOMAIN z}
<1>3. x \in Seq(X) /\ \A k \in DOMAIN x : x[k].op = "Mv"
  <2> DEFINE np == Len(h.params)
  <2>1. np \in Nat /\ DOMAIN h.params = 1 .. np
    BY <1>1
  <2> HIDE DEF np
  <2>2. x \in [1 .. np -> X]
    BY <2>1 DEF ParamMoves
  <2>3. \A k \in DOMAIN x : x[k].op = "Mv"
    BY DEF ParamMoves, Unary, Plain
  <2> HIDE DEF x, X
  <2> QED BY <2>1, <2>2, <2>3, FunSeq
<1>4. y \in Seq(Y) /\ DOMAIN y = DOMAIN hs /\ \A k \in DOMAIN hs : y[k] = Clone(hs[k], n)
  <2> DEFINE nh == Len(hs)
  <2>1. nh \in Nat /\ DOMAIN hs = 1 .. nh
    BY <1>2
  <2> HIDE DEF nh
  <2>2. y \in [1 .. nh -> Y] /\ \A k \in DOMAIN hs : y[k] = Clone(hs[k], n)
    BY <2>1 DEF Body
  <2> HIDE DEF y, Y
  <2> QED BY <2>1, <2>2, FunSeq
<1>5. z \in Seq(Z) /\ \A k \in DOMAIN z : z[k].op = "Mv"
  <2> DEFINE mv == Unary("Mv", in.dst, Renamed(h.blocks[0].ret, n))
  <2>1. mv.op = "Mv"
    BY DEF Unary, Plain
  <2> HIDE DEF mv
  <2>2. z = << >> \/ z = <<mv>>
    BY DEF ResultMove, mv
  <2>3. CASE z = << >>
    <3> HIDE DEF z
    <3> QED BY <2>3
  <2>4. CASE z = <<mv>>
    <3> HIDE DEF z
    <3>1. DOMAIN z = {1} /\ z[1] = mv /\ Z = {mv}
      BY <2>4
    <3>2. z \in Seq({mv})
      BY <2>4
    <3> QED BY <2>1, <3>1, <3>2
  <2> QED BY <2>2, <2>3, <2>4
<1>6. e = x \o y \o z
  BY DEF Expansion
<1> HIDE DEF x, y, z, e, hs
<1>7. \/ e[j] \in {x[k] : k \in DOMAIN x} \cup {z[k] : k \in DOMAIN z}
      \/ \E k \in DOMAIN y : e[j] = y[k]
  <2>2. x \in Seq(X \cup Y \cup Z) /\ y \in Seq(X \cup Y \cup Z) /\ z \in Seq(X \cup Y \cup Z)
    BY <1>3, <1>4, <1>5
  <2>3. e \in Seq(X \cup Y \cup Z)
    <3> HIDE DEF X, Y, Z
    <3> QED BY <1>6, <2>2
  <2>4. j \in DOMAIN e
    BY DEF e
  <2>5. e[j] \in X \cup Y \cup Z
    BY <2>3, <2>4
  <2> QED BY <2>5
<1>8. e[j].op = "Call"
  BY DEF e
<1>9. PICK k \in DOMAIN hs : e[j] = Clone(hs[k], n)
  BY <1>3, <1>4, <1>5, <1>7, <1>8
<1>10. hs[k] \in Insts(Vregs(h)) /\ h.numVregs \in Nat
  BY <1>2 DEF IsIRFunc
<1>11. Clone(hs[k], n).op = hs[k].op /\ Clone(hs[k], n).callee = hs[k].callee
  BY <1>10, CloneType DEF Vregs
<1>12. Len(Clone(hs[k], n).args) = Len(hs[k].args)
  <2>1. hs[k].args \in Seq(Vals(Vregs(h)))
        /\ hs[k] = [op |-> hs[k].op, dst |-> hs[k].dst, a |-> hs[k].a, b |-> hs[k].b,
                    args |-> hs[k].args, callee |-> hs[k].callee, gid |-> hs[k].gid,
                    magic |-> hs[k].magic, unsignedDiv |-> hs[k].unsignedDiv]
    BY <1>10 DEF Insts
  <2> DEFINE ra == [l \in DOMAIN hs[k].args |-> Renamed(hs[k].args[l], n)]
  <2>2. Clone(hs[k], n).args = ra
    BY <2>1 DEF Clone
  <2>3. ra \in Seq({ra[l] : l \in DOMAIN ra}) /\ DOMAIN ra = DOMAIN hs[k].args
    BY <2>1
  <2>4. Len(ra) = Len(hs[k].args)
    <3> HIDE DEF ra
    <3> QED BY <2>1, <2>3
  <2> QED BY <2>2, <2>4
<1> QED BY <1>8, <1>9, <1>11, <1>12 DEF e, hs

-----------------------------------------------------------------------------
(* What the invariant says of one call.                                    *)
LEMMA CallHere ==
  ASSUME InlineInv, SweepInv, NEW k \in DOMAIN mod, NEW b \in Blocks(mod[k]),
         NEW i \in DOMAIN mod[k].blocks[b].insts,
         mod[k].blocks[b].insts[i].op = "Call"
  PROVE  LET in == mod[k].blocks[b].insts[i]
         IN  /\ k \in Nat \ {0} /\ b \in Nat /\ i \in Nat \ {0}
             /\ in.callee \in DOMAIN mod /\ in.callee \in Nat /\ in.callee =< k
             /\ Fits(k, in) /\ GoesBack(k, in)
             /\ Behind(k, b, i) => ~Inlinable(in.callee)
             /\ in.callee = k => ~Inlinable(k)
<1> DEFINE in == mod[k].blocks[b].insts[i]
<1>1. DOMAIN mod = 1 .. Len(mod) /\ Len(mod) \in Nat
  BY Here
<1>2. IsIRFunc(mod[k]) /\ CallsKnown(mod[k], DOMAIN mod)
  BY DEF InlineInv, InlineTypeOK
<1>3. in.callee \in DOMAIN mod
  BY <1>2 DEF CallsKnown
<1>4. Fits(k, in) /\ (Behind(k, b, i) => Settled(in))
  BY DEF SweepInv
<1>5. GoesBack(k, in)
  BY <1>4 DEF Fits
<1>6. mod[k].blocks[b].insts \in Seq(Insts(Vregs(mod[k])))
  BY <1>2, BlockFacts
<1>7. i \in Nat \ {0} /\ k \in Nat \ {0} /\ b \in Nat
  BY <1>1, <1>6 DEF Blocks
<1>8. in.callee \in Nat /\ in.callee =< k
  BY <1>1, <1>3, <1>5, <1>7 DEF GoesBack
<1>9. in.callee = k => ~Inlinable(k)
  BY <1>5, <1>7, NotItself
<1> QED BY <1>3, <1>4, <1>5, <1>7, <1>8, <1>9 DEF Settled

(* A call passed over is settled: what it calls is finished, or itself.    *)
LEMMA KeepSweep ==
  ASSUME InlineInv, SweepInv, KeepInst
  PROVE  SweepInv'
<1>1. /\ AtInst /\ ~Takes(In) /\ ix' = ix + 1
      /\ UNCHANGED <<given, mod, cur, blk, any, pass>>
  BY DEF KeepInst
<1>2. /\ cur \in DOMAIN mod /\ blk \in Blocks(F) /\ ix \in DOMAIN Insts0 /\ ix \in Nat
  BY <1>1, Here DEF AtInst
<1>3. ASSUME NEW k \in DOMAIN mod, NEW b \in Blocks(mod[k]),
             NEW i \in DOMAIN mod[k].blocks[b].insts,
             mod[k].blocks[b].insts[i].op = "Call", Behind(k, b, i)'
      PROVE  ~Inlinable(mod[k].blocks[b].insts[i].callee)
  <2> DEFINE in == mod[k].blocks[b].insts[i]
  <2>1. CASE Behind(k, b, i)
    BY <1>3, <2>1, CallHere
  <2>2. CASE ~Behind(k, b, i)
    <3>1. k = cur /\ b = blk /\ i = ix
      <4>1. k \in Nat /\ b \in Nat /\ i \in Nat
        BY <1>3, CallHere
      <4> QED BY <1>1, <1>2, <1>3, <2>2, <4>1 DEF Behind
    <3>2. in = In
      BY <3>1 DEF In, Insts0, F
    <3>3. in.callee = cur \/ ~Inlinable(in.callee)
             \/ Len(in.args) # Len(mod[in.callee].params)
      BY <1>1, <1>3, <3>2 DEF Takes
    <3>4. /\ in.callee \in DOMAIN mod /\ Fits(k, in)
          /\ in.callee = k => ~Inlinable(k)
      BY <1>3, CallHere
    <3>5. Len(in.args) = Len(mod[in.callee].params)
      BY <1>3, <3>4 DEF Fits, SweepInv, SameShape
    <3> QED BY <3>1, <3>3, <3>4, <3>5
  <2> QED BY <2>1, <2>2
<1>4. \A k : Inlinable(k)' <=> Inlinable(k)
  BY <1>1 DEF Inlinable
<1>5. \A k, in : Fits(k, in)' <=> Fits(k, in)
  BY <1>1 DEF Fits, GoesBack
<1> QED BY <1>1, <1>3, <1>4, <1>5 DEF SweepInv, Settled

(* At the end of a block, a function or the module no call is skipped.     *)
LEMMA MoveSweep ==
  ASSUME InlineInv, SweepInv, NextBlock \/ NextFunction \/ EndSweep
  PROVE  SweepInv'
<1>1. UNCHANGED <<given, mod>> /\ ix > Len(Insts0) /\ pass < Sweeps
  BY DEF NextBlock, NextFunction, EndSweep, BlockDone, Busy
<1>2. /\ cur \in DOMAIN mod /\ DOMAIN mod = 1 .. Len(mod) /\ Len(mod) \in Nat
      /\ blk \in Blocks(F) /\ F.nb \in Nat /\ Len(Insts0) \in Nat /\ ix \in Nat
      /\ DOMAIN Insts0 = 1 .. Len(Insts0)
  BY Here
<1>3. pass \in Nat /\ Sweeps \in Nat
  BY LimitsAssumption DEF InlineInv, InlineTypeOK
<1>4. ASSUME NEW k \in DOMAIN mod, NEW b \in Blocks(mod[k]),
             NEW i \in DOMAIN mod[k].blocks[b].insts,
             mod[k].blocks[b].insts[i].op = "Call", Behind(k, b, i)'
      PROVE  Behind(k, b, i)
  <2>1. k \in Nat \ {0} /\ b \in Nat /\ i \in Nat \ {0}
    BY <1>4, CallHere
  <2>2. k = cur => b < F.nb
    BY <1>2 DEF F, Blocks
  <2>3. k = cur /\ b = blk => i < ix
    <3> SUFFICES ASSUME k = cur, b = blk PROVE i < ix
      OBVIOUS
    <3>1. i \in DOMAIN Insts0
      BY DEF Insts0, F
    <3> QED BY <1>1, <1>2, <3>1
  <2>4. CASE NextBlock
    <3>1. blk' = blk + 1 /\ ix' = 1 /\ UNCHANGED <<cur, pass>>
      BY <2>4 DEF NextBlock
    <3> QED BY <1>2, <1>4, <2>1, <2>3, <3>1 DEF Behind, Blocks
  <2>5. CASE NextFunction
    <3>1. cur' = cur + 1 /\ blk' = 0 /\ ix' = 1 /\ blk + 1 = F.nb /\ pass' = pass
      BY <2>5 DEF NextFunction
    <3>2. pass > 0 \/ k < cur \/ k = cur
      BY <1>2, <1>4, <2>1, <3>1 DEF Behind
    <3>3. CASE k = cur
      <4>1. b < blk \/ b = blk
        BY <1>2, <2>1, <2>2, <3>1, <3>3 DEF Blocks
      <4> QED BY <2>3, <3>3, <4>1 DEF Behind
    <3> QED BY <3>2, <3>3 DEF Behind
  <2>6. CASE EndSweep
    <3>1. cur = Len(mod) /\ blk + 1 = F.nb
      BY <2>6 DEF EndSweep
    <3>2. CASE k = cur
      <4>1. b < blk \/ b = blk
        BY <1>2, <2>1, <2>2, <3>1, <3>2 DEF Blocks
      <4> QED BY <2>3, <3>2, <4>1 DEF Behind
    <3>3. k < cur \/ k = cur
      BY <1>2, <3>1
    <3> QED BY <3>2, <3>3 DEF Behind
  <2> QED BY <2>4, <2>5, <2>6
<1>5. \A k : Inlinable(k)' <=> Inlinable(k)
  BY <1>1 DEF Inlinable
<1>6. \A k, in : Fits(k, in)' <=> Fits(k, in)
  BY <1>1 DEF Fits, GoesBack
<1> QED BY <1>1, <1>4, <1>5, <1>6 DEF SweepInv, Settled

(* Other instructions in a block leave all else of a function.             *)
LEMMA ChangedShape ==
  ASSUME NEW f, IsIRFunc(f), NEW b \in Blocks(f), NEW m, NEW is
  PROVE  /\ SameShape(Changed(f, b, m, is), f) /\ Blocks(Changed(f, b, m, is)) = Blocks(f)
         /\ Changed(f, b, m, is).blocks[b].insts = is
         /\ \A k \in Blocks(f) \ {b} : Changed(f, b, m, is).blocks[k] = f.blocks[k]
<1> DEFINE g == Changed(f, b, m, is)
           bb == [f.blocks[b] EXCEPT !.insts = is]
<1>1. /\ DOMAIN f = {"numVregs", "params", "nb", "blocks"} /\ f.nb \in Nat \ {0}
      /\ f.blocks \in [Blocks(f) -> BasicBlocks(Vregs(f))]
  BY DEF IsIRFunc
<1>2. g.nb = f.nb /\ g.params = f.params /\ g.blocks = [f.blocks EXCEPT ![b] = bb]
  BY <1>1 DEF Changed
<1>3. bb.insts = is /\ bb.term = f.blocks[b].term
  <2>1. f.blocks[b] \in BasicBlocks(Vregs(f))
    BY <1>1
  <2> QED BY <2>1 DEF BasicBlocks
<1> HIDE DEF g, bb
<1>4. g.blocks[b] = bb /\ \A k \in Blocks(f) \ {b} : g.blocks[k] = f.blocks[k]
  BY <1>1, <1>2
<1>5. 0 \in Blocks(f)
  BY <1>1 DEF Blocks
<1>6. g.blocks[0].term = f.blocks[0].term
  BY <1>3, <1>4, <1>5
<1> QED BY <1>2, <1>3, <1>4, <1>6 DEF SameShape, Blocks, g

(* A call replaced.  Its copy brings only calls that were behind the       *)
(* position already: the inlined function is an earlier one.               *)
LEMMA CallSweep ==
  ASSUME InlineInv, SweepInv, InlineCall
  PROVE  SweepInv'
<1> DEFINE c == In.callee
           h == mod[c]
           new == Expansion(In, h, F.numVregs)
           is == SubSeq(Insts0, 1, ix - 1) \o new \o SubSeq(Insts0, ix + 1, Len(Insts0))
           g == Changed(F, blk, h.numVregs, is)
           ks == DOMAIN mod
           ws == 0 .. F.numVregs + h.numVregs - 1
<1>1. /\ AtInst /\ Takes(In) /\ In.op = "Call" /\ c # cur /\ Inlinable(c)
      /\ Len(In.args) = Len(h.params)
      /\ UNCHANGED <<given, cur, blk, pass>> /\ ix' = ix + Len(new)
  BY DEF InlineCall, Takes
<1>2. /\ cur \in ks /\ ks = 1 .. Len(mod) /\ Len(mod) \in Nat
      /\ IsIRFunc(F) /\ CallsKnown(F, ks) /\ blk \in Blocks(F) /\ F.numVregs \in Nat
      /\ Insts0 \in Seq(Sound(Vregs(F), ks)) /\ ix \in 1 .. Len(Insts0)
      /\ DOMAIN Insts0 = 1 .. Len(Insts0) /\ Len(Insts0) \in Nat
  BY <1>1, Here DEF AtInst
<1>3. /\ c \in ks /\ c \in Nat \ {0} /\ c < cur /\ ~(pass > 0) /\ cur \in Nat
  <2>1. /\ cur \in Nat /\ c \in DOMAIN mod /\ c \in Nat /\ c =< cur
        /\ Behind(cur, blk, ix) => ~Inlinable(c)
    BY <1>1, <1>2, CallHere DEF In, Insts0, F
  <2>2. c \in 1 .. Len(mod)
    BY <1>2, <2>1
  <2> QED BY <1>1, <2>1, <2>2 DEF Behind
<1>4. IsIRFunc(h) /\ CallsKnown(h, ks) /\ h.numVregs \in Nat
  BY <1>3 DEF InlineInv, InlineTypeOK, IsIRFunc
<1>5. In \in Insts(0 .. F.numVregs - 1)
  BY <1>2 DEF In, Sound, Vregs
<1>6. /\ new \in Seq(Sound(ws, ks)) /\ Insts0 \in Seq(Sound(ws, ks))
  <2>1. Vregs(F) \subseteq ws
    BY <1>2, <1>4 DEF Vregs
  <2> QED BY <1>1, <1>2, <1>4, <1>5, <2>1, ExpansionType, SoundGrows
<1>7. mod' = [mod EXCEPT ![cur] = g]
  BY <1>2 DEF InlineCall, F, Insts0, Changed
<1>8. ASSUME NEW j \in DOMAIN new, new[j].op = "Call"
      PROVE  Fits(cur, new[j]) /\ ~Inlinable(new[j].callee) /\ new[j].callee < cur
             /\ new[j].callee \in ks
  <2>1. PICK l \in DOMAIN h.blocks[0].insts :
           /\ h.blocks[0].insts[l].op = "Call"
           /\ new[j].callee = h.blocks[0].insts[l].callee
           /\ Len(new[j].args) = Len(h.blocks[0].insts[l].args)
    <3> HIDE DEF h, c, ks
    <3> QED BY <1>1, <1>2, <1>4, <1>5, <1>8, CopiedCalls DEF new
  <2> DEFINE old == h.blocks[0].insts[l]
  <2>2. 0 \in Blocks(h)
    BY <1>4 DEF IsIRFunc, Blocks
  <2>3. /\ old.callee \in ks /\ old.callee \in Nat /\ old.callee =< c /\ Fits(c, old)
        /\ Behind(c, 0, l) => ~Inlinable(old.callee)
    BY <1>3, <2>1, <2>2, CallHere
  <2>4. Behind(c, 0, l)
    BY <1>3 DEF Behind
  <2>5. new[j].callee < cur
    BY <1>3, <2>1, <2>3
  <2>6. Len(new[j].args) = Len(given.funcs[new[j].callee].params)
    BY <2>1, <2>3 DEF Fits
  <2> HIDE DEF new
  <2> QED BY <2>1, <2>3, <2>4, <2>5, <2>6 DEF Fits, GoesBack
<1>9. ASSUME NEW i \in DOMAIN is
      PROVE  \/ i < ix /\ i \in DOMAIN Insts0 /\ is[i] = Insts0[i]
             \/ i < ix + Len(new) /\ \E j \in DOMAIN new : is[i] = new[j]
             \/ ~(i < ix + Len(new)) /\ \E j \in DOMAIN Insts0 : is[i] = Insts0[j]
  <2> DEFINE S == Sound(ws, ks)
             n == Len(new)
  <2>1. new \in Seq(S) /\ Insts0 \in Seq(S) /\ ix \in 1 .. Len(Insts0)
        /\ i \in DOMAIN is
    BY <1>2, <1>6
  <2> HIDE DEF new, S
  <2>2. is \in Seq(S) /\ n \in Nat
    BY <2>1, Spliced
  <2>3. i \in Nat
    <3> HIDE DEF is, n
    <3> QED BY <2>1, <2>2
  <2>4. \/ i < ix /\ i \in DOMAIN Insts0 /\ is[i] = Insts0[i]
        \/ i >= ix /\ i < ix + n /\ i - ix + 1 \in DOMAIN new /\ is[i] = new[i - ix + 1]
        \/ i >= ix + n /\ i - n + 1 \in DOMAIN Insts0 /\ is[i] = Insts0[i - n + 1]
    BY <2>1, SplicedParts
  <2> HIDE DEF is, n
  <2>5. i >= ix + n => ~(i < ix + n)
    BY <1>2, <2>2, <2>3
  <2> QED BY <2>4, <2>5 DEF n
<1> HIDE DEF new, is, h, ws, c
<1>10. /\ SameShape(g, F) /\ Blocks(g) = Blocks(F) /\ g.blocks[blk].insts = is
       /\ \A b \in Blocks(F) \ {blk} : g.blocks[b] = F.blocks[b]
  BY <1>2, ChangedShape
<1> HIDE DEF g
<1>11. /\ DOMAIN mod' = ks /\ mod'[cur] = g /\ F = mod[cur]
       /\ \A k \in ks \ {cur} : mod'[k] = mod[k]
  BY <1>2, <1>7 DEF F
<1>12. \A k \in ks : SameShape(mod'[k], given.funcs[k])
  <2>1. \A k \in ks : SameShape(mod[k], given.funcs[k])
    BY DEF SweepInv
  <2> QED BY <1>10, <1>11, <2>1 DEF SameShape
<1>13. \A k \in ks \ {cur} : Inlinable(k)' <=> Inlinable(k)
  BY <1>1, <1>11 DEF Inlinable
<1>14. \A k \in ks : ~OneBlock(given.funcs[k]) => ~Inlinable(k)'
  BY <1>12 DEF Inlinable, OneBlock, SameShape
<1>15. \A k, in : Fits(k, in)' <=> Fits(k, in)
  BY <1>1 DEF Fits, GoesBack
(* A call that was there: if it is behind now and was, it stays settled.   *)
<1>16. ASSUME NEW k \in ks, NEW b \in Blocks(mod[k]), NEW i \in DOMAIN mod[k].blocks[b].insts,
              mod[k].blocks[b].insts[i].op = "Call", k = cur \/ k < cur,
              NEW d, d = mod[k].blocks[b].insts[i].callee
       PROVE  Behind(k, b, i) => ~Inlinable(d)'
  <2> DEFINE in == mod[k].blocks[b].insts[i]
  <2>1. /\ in.callee \in ks /\ in.callee \in Nat /\ in.callee =< k /\ k \in Nat
        /\ GoesBack(k, in) /\ (Behind(k, b, i) => ~Inlinable(in.callee))
    BY <1>16, CallHere
  <2>2. d \in ks /\ (d = cur => d = k /\ ~OneBlock(given.funcs[cur]))
    BY <1>3, <1>16, <2>1 DEF GoesBack
  <2>3. Behind(k, b, i) => ~Inlinable(d)
    BY <1>16, <2>1
  <2> QED BY <1>13, <1>14, <2>2, <2>3
<1>17. ASSUME NEW k \in ks, NEW b \in Blocks(mod'[k]), NEW i \in DOMAIN mod'[k].blocks[b].insts,
              mod'[k].blocks[b].insts[i].op = "Call",
              NEW d, d = mod'[k].blocks[b].insts[i].callee
       PROVE  /\ Fits(k, mod'[k].blocks[b].insts[i])
              /\ Behind(k, b, i)' => ~Inlinable(d)'
  <2> DEFINE in == mod'[k].blocks[b].insts[i]
  <2>1. CASE k # cur \/ b # blk
    <3>1. b \in Blocks(mod[k]) /\ mod'[k].blocks[b] = mod[k].blocks[b]
      BY <1>10, <1>11, <2>1
    <3>2. Fits(k, in)
      BY <3>1 DEF SweepInv
    <3>3. Behind(k, b, i)' => Behind(k, b, i) /\ (k = cur \/ k < cur)
      BY <1>1, <1>3, <2>1 DEF Behind
    <3> QED BY <1>16, <1>17, <3>1, <3>2, <3>3
  <2>2. CASE k = cur /\ b = blk
    <3>1. mod'[k].blocks[b].insts = is /\ i \in DOMAIN is /\ in = is[i]
      BY <1>10, <1>11, <2>2
    <3>2. \A j \in DOMAIN Insts0 : Fits(k, Insts0[j])
      BY <1>2, <2>2 DEF SweepInv, Insts0, F
    <3>3. CASE i < ix /\ i \in DOMAIN Insts0 /\ is[i] = Insts0[i]
      <4>1. Insts0[i] = mod[k].blocks[b].insts[i] /\ Behind(k, b, i)
            /\ b \in Blocks(mod[k]) /\ i \in DOMAIN mod[k].blocks[b].insts
        BY <1>2, <2>2, <3>3 DEF Insts0, F, Behind
      <4> QED BY <1>16, <1>17, <2>2, <3>1, <3>2, <3>3, <4>1
    <3>4. CASE i < ix + Len(new) /\ \E j \in DOMAIN new : is[i] = new[j]
      <4>1. PICK j \in DOMAIN new : in = new[j]
        BY <3>1, <3>4
      <4>2. Fits(k, in) /\ ~Inlinable(d) /\ d < cur /\ d \in ks
        BY <1>8, <1>17, <2>2, <4>1
      <4>3. d # cur
        BY <1>2, <1>3, <4>2
      <4> QED BY <1>13, <4>2, <4>3
    <3>5. CASE ~(i < ix + Len(new)) /\ \E j \in DOMAIN Insts0 : is[i] = Insts0[j]
      <4>1. ~Behind(k, b, i)'
        <5>1. ~(k < cur) /\ ~(b < blk)
          BY <1>2, <1>3, <2>2 DEF Blocks
        <5> QED BY <1>1, <1>3, <2>2, <3>5, <5>1 DEF Behind
      <4> QED BY <3>1, <3>2, <3>5, <4>1
    <3> QED BY <1>9, <3>1, <3>3, <3>4, <3>5
  <2> QED BY <2>1, <2>2
<1>18. ASSUME NEW k \in ks, NEW b \in Blocks(mod'[k]), NEW i \in DOMAIN mod'[k].blocks[b].insts
       PROVE  (Fits(k, mod[k].blocks[b].insts[i])
                /\ (Behind(k, b, i) => Settled(mod[k].blocks[b].insts[i])))'
  <2>1. PICK x : x = mod'[k].blocks[b].insts[i]
    OBVIOUS
  <2>2. PICK d : d = x.callee
    OBVIOUS
  <2>3. CASE x.op = "Call"
    <3>1. Fits(k, x) /\ (Behind(k, b, i)' => ~Inlinable(d)')
      BY <1>17, <2>1, <2>2, <2>3
    <3>2. Fits(k, x)' /\ (Behind(k, b, i)' => Settled(x)')
      BY <1>15, <2>2, <3>1 DEF Settled
    <3> QED BY <2>1, <3>2 DEF Fits, GoesBack, Settled, Inlinable, OneBlock
  <2>4. CASE x.op # "Call"
    BY <2>1, <2>4 DEF Settled, Fits
  <2> QED BY <2>3, <2>4
<1> QED BY <1>1, <1>11, <1>12, <1>18 DEF SweepInv

LEMMA SweepStutter ==
  ASSUME SweepInv, UNCHANGED inlineVars
  PROVE  SweepInv'
<1>1. /\ mod' = mod /\ given' = given /\ cur' = cur /\ blk' = blk /\ ix' = ix /\ pass' = pass
  BY DEF inlineVars
<1>2. \A k : Inlinable(k)' <=> Inlinable(k)
  BY <1>1 DEF Inlinable
<1>3. \A k, in : Fits(k, in)' <=> Fits(k, in)
  BY <1>1 DEF Fits, GoesBack
<1>4. \A k, b, i : Behind(k, b, i)' <=> Behind(k, b, i)
  BY <1>1 DEF Behind
<1> QED BY <1>1, <1>2, <1>3, <1>4 DEF SweepInv, Settled

(* When every function calls only what stands before it, or itself with a  *)
(* branch to end on, one sweep leaves no call that could be inlined,       *)
(* whatever the module and the limits (inlineFunctions, whose comment      *)
(* gives the order of calls as the reason that no circles form).           *)
THEOREM OneSweepCorrect == InlineSpec => []OneSweep
<1> DEFINE Inv == InlineInv /\ (Backward => SweepInv)
<1>1. InlineInit => Inv
  BY InlineInitInv, SweepInit
<1>2. Inv /\ [InlineNext]_inlineVars => Inv'
  <2> SUFFICES ASSUME Inv, [InlineNext]_inlineVars PROVE Inv'
    OBVIOUS
  <2>1. InlineInv'
    BY InlineStepInv
  <2>2. Backward' <=> Backward
    BY DEF InlineNext, InlineCall, KeepInst, NextBlock, NextFunction, EndSweep, inlineVars,
           Backward, GoesBack
  <2>3. CASE ~Backward
    BY <2>1, <2>2, <2>3
  <2>4. CASE Backward
    <3>1. CASE InlineCall
      BY <2>1, <2>4, <3>1, CallSweep
    <3>2. CASE KeepInst
      BY <2>1, <2>4, <3>2, KeepSweep
    <3>3. CASE NextBlock \/ NextFunction \/ EndSweep
      BY <2>1, <2>4, <3>3, MoveSweep
    <3>4. CASE UNCHANGED inlineVars
      BY <2>1, <2>4, <3>4, SweepStutter
    <3> QED BY <3>1, <3>2, <3>3, <3>4 DEF InlineNext
  <2> QED BY <2>3, <2>4
<1>3. Inv => OneSweep
  <2> SUFFICES ASSUME Inv, pass > 0, Backward, NEW k \in DOMAIN mod, NEW in \in CallsOf(mod[k])
               PROVE  ~Inlinable(in.callee)
    BY DEF OneSweep
  <2>1. PICK b \in Blocks(mod[k]) : \E i \in DOMAIN mod[k].blocks[b].insts :
           in = mod[k].blocks[b].insts[i]
    BY CallsFacts
  <2>2. PICK i \in DOMAIN mod[k].blocks[b].insts : in = mod[k].blocks[b].insts[i]
    BY <2>1
  <2>3. in.op = "Call" /\ Behind(k, b, i)
    BY CallsFacts DEF Behind
  <2> QED BY <2>2, <2>3 DEF SweepInv, Settled
<1> QED BY <1>1, <1>2, <1>3, PTL DEF InlineSpec
-----------------------------------------------------------------------------
(* Reads and writes of code put together from pieces.                      *)

(* The instructions read v before they write it; they write v.             *)
ReadsIn(is, v) ==
  \E m \in DOMAIN is : v \in InstUses(is[m]) /\ \A j \in 1 .. m - 1 : is[j].dst # v

WritesIn(is, v) == \E m \in DOMAIN is : is[m].dst = v

LEMMA BlockReads ==
  ASSUME NEW bb, NEW v
  PROVE  /\ ReadsFirst(bb, v) <=> \/ ReadsIn(bb.insts, v)
                                  \/ v \in TermUses(bb) /\ ~WritesIn(bb.insts, v)
         /\ Writes(bb, v) <=> WritesIn(bb.insts, v)
<1>1. ReadsFirst(bb, v) <=> \/ ReadsIn(bb.insts, v)
                            \/ v \in TermUses(bb) /\ ~WritesIn(bb.insts, v)
  BY Zenon DEF ReadsFirst, ReadsIn, WritesIn
<1>2. Writes(bb, v) <=> WritesIn(bb.insts, v)
  BY Zenon DEF Writes, WritesIn
<1> QED BY <1>1, <1>2

(* Two pieces of code one after the other.                                 *)
LEMMA JoinedReads ==
  ASSUME NEW S, NEW s \in Seq(S), NEW t \in Seq(S), NEW v
  PROVE  /\ WritesIn(s \o t, v) <=> WritesIn(s, v) \/ WritesIn(t, v)
         /\ ReadsIn(s \o t, v) <=> ReadsIn(s, v) \/ (~WritesIn(s, v) /\ ReadsIn(t, v))
<1> DEFINE r == s \o t
           n == Len(s)
           m == Len(t)
<1>1. /\ n \in Nat /\ m \in Nat /\ DOMAIN s = 1 .. n /\ DOMAIN t = 1 .. m
      /\ DOMAIN r = 1 .. n + m
      /\ \A k \in 1 .. n : r[k] = s[k]
      /\ \A k \in n + 1 .. n + m : r[k] = t[k - n]
  BY Joined
<1> HIDE DEF r, n, m
<1>2. \A k \in 1 .. m : n + k \in 1 .. n + m /\ r[n + k] = t[k]
  <2> TAKE k \in 1 .. m
  <2>1. n + k \in n + 1 .. n + m /\ n + k \in 1 .. n + m /\ (n + k) - n = k
    BY <1>1
  <2> QED BY <1>1, <2>1
<1>3. \A k \in 1 .. n : k \in 1 .. n + m /\ r[k] = s[k]
  BY <1>1
<1>4. \A k \in 1 .. n + m : \/ k \in 1 .. n /\ r[k] = s[k]
                            \/ k > n /\ k - n \in 1 .. m /\ r[k] = t[k - n]
  <2> TAKE k \in 1 .. n + m
  <2>1. CASE k \in 1 .. n
    BY <1>1, <2>1
  <2>2. CASE k \notin 1 .. n
    <3>1. k \in n + 1 .. n + m /\ k > n /\ k - n \in 1 .. m
      BY <1>1, <2>2
    <3> QED BY <1>1, <3>1
  <2> QED BY <2>1, <2>2
<1>5. WritesIn(r, v) <=> WritesIn(s, v) \/ WritesIn(t, v)
  <2>1. WritesIn(s, v) => WritesIn(r, v)
    BY <1>1, <1>3 DEF WritesIn
  <2>2. WritesIn(t, v) => WritesIn(r, v)
    BY <1>1, <1>2 DEF WritesIn
  <2>3. WritesIn(r, v) => WritesIn(s, v) \/ WritesIn(t, v)
    BY <1>1, <1>4 DEF WritesIn
  <2> QED BY <2>1, <2>2, <2>3
<1>6. ASSUME ReadsIn(r, v) PROVE ReadsIn(s, v) \/ (~WritesIn(s, v) /\ ReadsIn(t, v))
  <2>1. PICK k \in 1 .. n + m : v \in InstUses(r[k]) /\ \A j \in 1 .. k - 1 : r[j].dst # v
    BY <1>1, <1>6 DEF ReadsIn
  <2>2. CASE k \in 1 .. n /\ r[k] = s[k]
    <3>1. \A j \in 1 .. k - 1 : j \in 1 .. n
      BY <1>1, <2>2
    <3>2. \A j \in 1 .. k - 1 : s[j].dst # v
      BY <1>3, <2>1, <3>1
    <3> QED BY <1>1, <2>1, <2>2, <3>2 DEF ReadsIn
  <2>3. CASE k > n /\ k - n \in 1 .. m /\ r[k] = t[k - n]
    <3>1. \A j \in 1 .. n : j \in 1 .. k - 1
      BY <1>1, <2>3
    <3>2. ~WritesIn(s, v)
      BY <1>1, <1>3, <2>1, <3>1 DEF WritesIn
    <3>3. \A j \in 1 .. (k - n) - 1 : n + j \in 1 .. k - 1 /\ j \in 1 .. m
      BY <1>1, <2>3
    <3>4. \A j \in 1 .. (k - n) - 1 : t[j].dst # v
      BY <1>2, <2>1, <3>3
    <3> QED BY <1>1, <2>1, <2>3, <3>2, <3>4 DEF ReadsIn
  <2> QED BY <1>4, <2>2, <2>3
<1>7. ASSUME ReadsIn(s, v) PROVE ReadsIn(r, v)
  <2>1. PICK k \in 1 .. n : v \in InstUses(s[k]) /\ \A j \in 1 .. k - 1 : s[j].dst # v
    BY <1>1, <1>7 DEF ReadsIn
  <2>2. \A j \in 1 .. k - 1 : j \in 1 .. n
    BY <1>1
  <2>3. \A j \in 1 .. k - 1 : r[j].dst # v
    BY <1>3, <2>1, <2>2
  <2> QED BY <1>1, <1>3, <2>1, <2>3 DEF ReadsIn
<1>8. ASSUME ~WritesIn(s, v), ReadsIn(t, v) PROVE ReadsIn(r, v)
  <2>1. PICK k \in 1 .. m : v \in InstUses(t[k]) /\ \A j \in 1 .. k - 1 : t[j].dst # v
    BY <1>1, <1>8 DEF ReadsIn
  <2>2. \A j \in 1 .. (n + k) - 1 : j \in 1 .. n + m /\ (j \in 1 .. n \/ j - n \in 1 .. k - 1)
    BY <1>1
  <2>3. ASSUME NEW j \in 1 .. (n + k) - 1 PROVE r[j].dst # v
    <3>1. CASE j \in 1 .. n
      BY <1>1, <1>3, <1>8, <3>1 DEF WritesIn
    <3>2. CASE j \notin 1 .. n
      BY <1>4, <2>1, <2>2, <3>2
    <3> QED BY <3>1, <3>2
  <2>4. n + k \in 1 .. n + m /\ r[n + k] = t[k]
    BY <1>2
  <2> QED BY <1>1, <2>1, <2>3, <2>4 DEF ReadsIn
<1> QED BY <1>5, <1>6, <1>7, <1>8 DEF r

(* One instruction.                                                        *)
LEMMA SingleReads ==
  ASSUME NEW in, NEW v
  PROVE  /\ WritesIn(<<in>>, v) <=> in.dst = v
         /\ ReadsIn(<<in>>, v) <=> v \in InstUses(in)
<1>1. DOMAIN <<in>> = {1} /\ <<in>>[1] = in
  OBVIOUS
<1>2. WritesIn(<<in>>, v) <=> in.dst = v
  BY <1>1 DEF WritesIn
<1>3. ReadsIn(<<in>>, v) <=> v \in InstUses(in)
  BY <1>1 DEF ReadsIn
<1> QED BY <1>2, <1>3

(* A sequence around one of its elements.                                  *)
LEMMA Around ==
  ASSUME NEW S, NEW s \in Seq(S), NEW i \in 1 .. Len(s)
  PROVE  /\ SubSeq(s, 1, i - 1) \in Seq(S) /\ SubSeq(s, i + 1, Len(s)) \in Seq(S)
         /\ <<s[i]>> \in Seq(S)
         /\ s = SubSeq(s, 1, i - 1) \o <<s[i]>> \o SubSeq(s, i + 1, Len(s))
<1> DEFINE p == SubSeq(s, 1, i - 1)
           q == SubSeq(s, i + 1, Len(s))
           n == Len(s)
           o == <<s[i]>>
           u == p \o o
<1>1. p \in Seq(S) /\ Len(p) = i - 1 /\ \A k \in 1 .. i - 1 : p[k] = s[k]
  OBVIOUS
<1>2. q \in Seq(S) /\ Len(q) = n - i /\ \A k \in 1 .. n - i : q[k] = s[k + i]
  OBVIOUS
<1>3. n \in Nat /\ i \in 1 .. n /\ s \in [1 .. n -> S] /\ o \in Seq(S) /\ Len(o) = 1 /\ o[1] = s[i]
  OBVIOUS
<1> HIDE DEF p, q, n, o
<1>4. u \in Seq(S) /\ Len(u) = i /\ \A k \in 1 .. i : u[k] = s[k]
  <2>1. /\ u \in Seq(S) /\ Len(u) = Len(p) + Len(o)
        /\ \A k \in 1 .. Len(p) : u[k] = p[k]
        /\ \A k \in Len(p) + 1 .. Len(p) + Len(o) : u[k] = o[k - Len(p)]
    BY <1>1, <1>3, Joined
  <2> HIDE DEF u
  <2>2. Len(u) = i
    BY <1>1, <1>3, <2>1
  <2>3. ASSUME NEW k \in 1 .. i PROVE u[k] = s[k]
    <3>1. CASE k = i
      <4>1. i \in Len(p) + 1 .. Len(p) + Len(o) /\ i - Len(p) = 1
        BY <1>1, <1>3
      <4> QED BY <1>3, <2>1, <3>1, <4>1
    <3>2. CASE k # i
      <4>1. k \in 1 .. i - 1
        BY <1>3, <3>2
      <4> QED BY <1>1, <2>1, <4>1
    <3> QED BY <3>1, <3>2
  <2> QED BY <2>1, <2>2, <2>3
<1> HIDE DEF u
<1> DEFINE r == u \o q
<1>5. r \in Seq(S) /\ Len(r) = n /\ \A k \in 1 .. n : r[k] = s[k]
  <2>0. u \in Seq(S) /\ q \in Seq(S)
    BY <1>2, <1>4
  <2>1. /\ r \in Seq(S) /\ Len(r) = Len(u) + Len(q)
        /\ \A k \in 1 .. Len(u) : r[k] = u[k]
        /\ \A k \in Len(u) + 1 .. Len(u) + Len(q) : r[k] = q[k - Len(u)]
    BY <2>0, Joined
  <2> HIDE DEF r
  <2>2. Len(r) = n
    BY <1>2, <1>3, <1>4, <2>1
  <2>3. ASSUME NEW k \in 1 .. n PROVE r[k] = s[k]
    <3>1. CASE k \in 1 .. i
      BY <1>4, <2>1, <3>1
    <3>2. CASE k \notin 1 .. i
      <4>1. k \in Len(u) + 1 .. Len(u) + Len(q) /\ k - Len(u) \in 1 .. n - i
            /\ (k - Len(u)) + i = k
        BY <1>2, <1>3, <1>4, <3>2
      <4> QED BY <1>2, <2>1, <4>1
    <3> QED BY <3>1, <3>2
  <2> QED BY <2>1, <2>2, <2>3
<1> HIDE DEF r
<1>6. r \in [1 .. n -> S]
  BY <1>5
<1>7. r = s
  BY <1>3, <1>5, <1>6
<1>8. p \in Seq(S) /\ q \in Seq(S) /\ o \in Seq(S) /\ s = p \o o \o q
  BY <1>1, <1>2, <1>3, <1>7 DEF r, u
<1> QED BY <1>8 DEF p, q, o, n
-----------------------------------------------------------------------------
(* The vregs a copied value or instruction names are those of the original *)
(* counted from n.                                                         *)
LEMMA RenamedReads ==
  ASSUME NEW n \in Nat, NEW m \in Nat, NEW val \in Vals(0 .. m - 1),
         NEW v \in OperandRegs(Renamed(val, n))
  PROVE  v \in Int /\ v >= n /\ v - n \in OperandRegs(val)
<1>1. IsReg(val)
  BY DEF OperandRegs, Renamed, IsReg
<1>2. Renamed(val, n).n = val.n + n /\ val.n \in 0 .. m - 1
  BY <1>1 DEF Renamed, Reg, IsReg, Vals
<1>3. v = val.n + n
  BY <1>2 DEF OperandRegs
<1>4. v \in Int /\ v >= n /\ v - n = val.n
  BY <1>2, <1>3
<1> QED BY <1>1, <1>4 DEF OperandRegs

(* A move reads its operand and writes its destination.                    *)
LEMMA MoveReads ==
  \A d, val : Unary("Mv", d, val).dst = d /\ InstUses(Unary("Mv", d, val)) = OperandRegs(val)
<1> TAKE d, val
<1>1. /\ Unary("Mv", d, val).dst = d /\ Unary("Mv", d, val).op = "Mv"
      /\ Unary("Mv", d, val).a = val /\ Unary("Mv", d, val).magic = NoReg
  BY DEF Unary, Plain
<1>2. OpUses(Unary("Mv", d, val)) = OperandRegs(val)
  BY <1>1 DEF OpUses, UnaryOps
<1>3. MagicUses(Unary("Mv", d, val)) = {}
  BY <1>1 DEF MagicUses
<1> QED BY <1>1, <1>2, <1>3 DEF InstUses

LEMMA CloneReads ==
  ASSUME NEW n \in Nat, NEW m \in Nat, NEW in \in Insts(0 .. m - 1), in.magic = NoReg
  PROVE  /\ \A v \in InstUses(Clone(in, n)) : v \in Int /\ v >= n /\ v - n \in InstUses(in)
         /\ \A w \in 0 .. m - 1 : Clone(in, n).dst = n + w <=> in.dst = w
         /\ Clone(in, n).magic = NoReg
<1> DEFINE c == Clone(in, n)
           d == IF in.dst = NoReg THEN NoReg ELSE in.dst + n
           x == Renamed(in.a, n)
           y == Renamed(in.b, n)
           zs == [k \in DOMAIN in.args |-> Renamed(in.args[k], n)]
<1>1. in = [op |-> in.op, dst |-> in.dst, a |-> in.a, b |-> in.b, args |-> in.args,
            callee |-> in.callee, gid |-> in.gid, magic |-> in.magic,
            unsignedDiv |-> in.unsignedDiv]
  BY DEF Insts
<1>2. c = [in EXCEPT !.dst = d, !.a = x, !.b = y, !.args = zs]
  BY Zenon DEF Clone
<1> HIDE DEF c, d, x, y, zs
<1>3. c.op = in.op /\ c.dst = d /\ c.a = x /\ c.b = y /\ c.args = zs /\ c.magic = in.magic
  BY <1>1, <1>2
<1>4. in.a \in Vals(0 .. m - 1) /\ in.b \in Vals(0 .. m - 1) /\ in.args \in Seq(Vals(0 .. m - 1))
  BY DEF Insts
<1>5. ASSUME NEW v \in InstUses(c) PROVE v \in Int /\ v >= n /\ v - n \in InstUses(in)
  <2>1. v \in OpUses(c)
    BY <1>3 DEF InstUses, MagicUses
  <2>2. v \in OperandRegs(x) => v \in Int /\ v >= n /\ v - n \in OperandRegs(in.a)
    BY <1>4, RenamedReads DEF x
  <2>3. v \in OperandRegs(y) => v \in Int /\ v >= n /\ v - n \in OperandRegs(in.b)
    BY <1>4, RenamedReads DEF y
  <2>4. ASSUME NEW k \in DOMAIN in.args, v \in OperandRegs(zs[k])
        PROVE  v \in Int /\ v >= n /\ v - n \in OperandRegs(in.args[k])
    <3>1. zs[k] = Renamed(in.args[k], n) /\ in.args[k] \in Vals(0 .. m - 1)
      BY <1>4 DEF zs
    <3> QED BY <2>4, <3>1, RenamedReads
  <2>5. DOMAIN zs = DOMAIN in.args
    BY DEF zs
  <2>6. CASE in.op \in UnaryOps \cup {"StoreGlobal"}
    <3>1. OpUses(c) = OperandRegs(x) /\ OpUses(in) = OperandRegs(in.a)
      <4>1. in.op # "LoadGlobal" /\ in.op # "Call"
        BY <2>6 DEF UnaryOps
      <4> QED BY <1>3, <2>6, <4>1 DEF OpUses
    <3> QED BY <2>1, <2>2, <3>1 DEF InstUses
  <2>7. CASE in.op = "LoadGlobal"
    BY <1>3, <2>1, <2>7 DEF OpUses, UnaryOps
  <2>8. CASE in.op = "Call"
    <3>1. /\ OpUses(c) = UNION {OperandRegs(zs[k]) : k \in DOMAIN zs}
          /\ OpUses(in) = UNION {OperandRegs(in.args[k]) : k \in DOMAIN in.args}
      BY <1>3, <2>8 DEF OpUses, UnaryOps
    <3>2. PICK k \in DOMAIN in.args : v \in OperandRegs(zs[k])
      BY <2>1, <2>5, <3>1
    <3>3. v \in Int /\ v >= n /\ v - n \in OperandRegs(in.args[k])
      BY <2>4, <3>2
    <3> QED BY <3>1, <3>3 DEF InstUses
  <2>9. CASE in.op \notin UnaryOps \cup {"StoreGlobal", "LoadGlobal", "Call"}
    <3>1. /\ OpUses(c) = OperandRegs(x) \cup OperandRegs(y)
          /\ OpUses(in) = OperandRegs(in.a) \cup OperandRegs(in.b)
      BY <1>3, <2>9 DEF OpUses
    <3> QED BY <2>1, <2>2, <2>3, <3>1 DEF InstUses
  <2> QED BY <2>6, <2>7, <2>8, <2>9
<1>6. ASSUME NEW w \in 0 .. m - 1 PROVE c.dst = n + w <=> in.dst = w
  <2>1. in.dst \in (0 .. m - 1) \cup {NoReg}
    BY DEF Insts
  <2>2. CASE in.dst = NoReg
    BY <1>3, <2>2 DEF d, NoReg
  <2>3. CASE in.dst # NoReg
    BY <1>3, <2>1, <2>3 DEF d
  <2> QED BY <2>2, <2>3
<1>7. c.magic = NoReg
  BY <1>3
<1> QED BY <1>5, <1>6, <1>7 DEF c

(* What replaces a call reads vregs of the caller only where the call did, *)
(* it writes the call's result, and it reads none of its own vregs before  *)
(* a write to it, unless the inlined function does.                        *)
LEMMA ExpansionReads ==
  ASSUME NEW n \in Nat, NEW in \in Insts(0 .. n - 1), in.op = "Call",
         NEW h, IsIRFunc(h), OneBlock(h), Len(in.args) = Len(h.params),
         \A i \in DOMAIN h.blocks[0].insts : h.blocks[0].insts[i].magic = NoReg
  PROVE  /\ \A v \in 0 .. n - 1 : ReadsIn(Expansion(in, h, n), v) => v \in InstUses(in)
         /\ in.dst # NoReg /\ h.blocks[0].hasVal => WritesIn(Expansion(in, h, n), in.dst)
         /\ \A w \in Vregs(h) : ReadsIn(Expansion(in, h, n), n + w) =>
              /\ w \notin {h.params[j] : j \in DOMAIN h.params}
              /\ ReadsFirst(h.blocks[0], w)
<1> DEFINE m == h.numVregs
           ws == 0 .. n + m - 1
           hs == h.blocks[0].insts
           x == ParamMoves(in, h, n)
           y == Body(h, n)
           z == ResultMove(in, h, n)
           e == Expansion(in, h, n)
           X == {x[k] : k \in DOMAIN x}
           Y == {y[k] : k \in DOMAIN y}
           Z == {z[k] : k \in DOMAIN z}
           S == X \cup Y \cup Z
<1>1. /\ m \in Nat /\ 0 \in Blocks(h) /\ h.params \in Seq(0 .. m - 1) /\ Vregs(h) = 0 .. m - 1
      /\ h.blocks[0] \in BasicBlocks(0 .. m - 1)
  BY DEF IsIRFunc, Blocks, Vregs
<1>2. /\ hs \in Seq(Insts(0 .. m - 1)) /\ h.blocks[0].ret \in Vals(0 .. m - 1)
      /\ in.args \in Seq(Vals(0 .. n - 1))
  BY <1>1 DEF BasicBlocks, Insts
<1>3. /\ DOMAIN x = DOMAIN h.params
      /\ \A k \in DOMAIN h.params : x[k].dst = h.params[k] + n
      /\ \A k \in DOMAIN h.params : InstUses(x[k]) = OperandRegs(in.args[k])
  <2>1. DOMAIN x = DOMAIN h.params
        /\ \A k \in DOMAIN h.params : x[k] = Unary("Mv", h.params[k] + n, in.args[k])
    BY DEF ParamMoves
  <2> HIDE DEF x
  <2>2. \A d, val : Unary("Mv", d, val).dst = d /\ InstUses(Unary("Mv", d, val)) = OperandRegs(val)
    BY MoveReads
  <2> QED BY <2>1, <2>2
<1>4. DOMAIN y = DOMAIN hs /\ \A k \in DOMAIN hs : y[k] = Clone(hs[k], n)
  BY DEF Body
<1>5. /\ x \in Seq(S) /\ y \in Seq(S) /\ z \in Seq(S)
  <2> DEFINE np == Len(h.params)
             nh == Len(hs)
  <2>1. np \in Nat /\ DOMAIN h.params = 1 .. np /\ nh \in Nat /\ DOMAIN hs = 1 .. nh
    BY <1>1, <1>2
  <2> HIDE DEF np, nh
  <2>2. x \in [1 .. np -> S]
    BY <1>3, <2>1 DEF ParamMoves
  <2>3. y \in [1 .. nh -> S]
    BY <1>4, <2>1 DEF Body
  <2>4. z \in Seq(S)
    <3> DEFINE mv == Unary("Mv", in.dst, Renamed(h.blocks[0].ret, n))
    <3>1. z = << >> \/ z = <<mv>>
      BY DEF ResultMove
    <3> HIDE DEF z, mv, x, y
    <3>2. CASE z = << >>
      BY <3>2
    <3>3. CASE z = <<mv>>
      <4>1. DOMAIN z = {1} /\ z[1] = mv /\ z \in Seq({mv})
        BY <3>3
      <4>2. mv \in S
        BY <4>1
      <4> QED BY <3>3, <4>2
    <3> QED BY <3>1, <3>2, <3>3
  <2> HIDE DEF S, x, y, z
  <2>5. x \in Seq(S)
    BY <2>1, <2>2, FunSeq
  <2>6. y \in Seq(S)
    BY <2>1, <2>3, FunSeq
  <2> QED BY <2>4, <2>5, <2>6
<1>6. z = IF in.dst # NoReg /\ h.blocks[0].hasVal
          THEN <<Unary("Mv", in.dst, Renamed(h.blocks[0].ret, n))>> ELSE << >>
  BY DEF ResultMove
<1>7. e = (x \o y) \o z
  BY DEF Expansion
<1> HIDE DEF x, y, z, e, S, hs, m
<1>8. ASSUME NEW v
      PROVE  /\ WritesIn(e, v) <=> WritesIn(x, v) \/ WritesIn(y, v) \/ WritesIn(z, v)
             /\ ReadsIn(e, v) => \/ ReadsIn(x, v)
                                 \/ ~WritesIn(x, v) /\ ReadsIn(y, v)
                                 \/ ~WritesIn(x, v) /\ ~WritesIn(y, v) /\ ReadsIn(z, v)
  <2>1. x \o y \in Seq(S)
    BY <1>5
  <2>2. /\ WritesIn(x \o y, v) <=> WritesIn(x, v) \/ WritesIn(y, v)
        /\ ReadsIn(x \o y, v) <=> ReadsIn(x, v) \/ (~WritesIn(x, v) /\ ReadsIn(y, v))
    BY <1>5, JoinedReads
  <2>3. /\ WritesIn((x \o y) \o z, v) <=> WritesIn(x \o y, v) \/ WritesIn(z, v)
        /\ ReadsIn((x \o y) \o z, v)
             <=> ReadsIn(x \o y, v) \/ (~WritesIn(x \o y, v) /\ ReadsIn(z, v))
    BY <1>5, <2>1, JoinedReads
  <2> QED BY <1>7, <2>2, <2>3
<1>9. ASSUME NEW v, ReadsIn(x, v) PROVE v \in 0 .. n - 1 /\ v \in InstUses(in)
  <2>1. PICK k \in DOMAIN h.params : v \in OperandRegs(in.args[k])
    BY <1>3, <1>9 DEF ReadsIn
  <2>2. k \in DOMAIN in.args
    BY <1>1, <1>2
  <2>3. v \in 0 .. n - 1
    BY <1>2, <2>1, <2>2, OperandRegsType
  <2>4. v \in OpUses(in)
    BY <2>1, <2>2 DEF OpUses, UnaryOps
  <2> QED BY <2>3, <2>4 DEF InstUses
<1>10. ASSUME NEW v, ReadsIn(y, v)
       PROVE  /\ v \in Int /\ v >= n /\ v \notin 0 .. n - 1
              /\ v - n \in 0 .. m - 1 => ReadsIn(hs, v - n)
  <2>1. PICK k \in DOMAIN hs : v \in InstUses(y[k]) /\ \A j \in 1 .. k - 1 : y[j].dst # v
    BY <1>4, <1>10 DEF ReadsIn
  <2>2. \A j \in DOMAIN hs : hs[j] \in Insts(0 .. m - 1) /\ hs[j].magic = NoReg
    BY <1>2 DEF hs
  <2>3. v \in Int /\ v >= n /\ v - n \in InstUses(hs[k])
    BY <1>1, <1>4, <2>1, <2>2, CloneReads
  <2>4. ASSUME v - n \in 0 .. m - 1 PROVE ReadsIn(hs, v - n)
    <3>1. \A j \in 1 .. k - 1 : j \in DOMAIN hs
      BY <1>2
    <3>2. n + (v - n) = v
      BY <2>3
    <3>3. ASSUME NEW j \in 1 .. k - 1 PROVE hs[j].dst # v - n
      <4>1. Clone(hs[j], n).dst = n + (v - n) <=> hs[j].dst = v - n
        BY <1>1, <2>2, <2>4, <3>1, CloneReads
      <4> QED BY <1>4, <2>1, <3>1, <3>2, <4>1
    <3> QED BY <2>3, <3>3 DEF ReadsIn
  <2> QED BY <2>3, <2>4
<1>11. ASSUME NEW v, ReadsIn(z, v)
       PROVE  /\ v \in Int /\ v >= n /\ v \notin 0 .. n - 1
              /\ v - n \in TermUses(h.blocks[0])
  <2>1. in.dst # NoReg /\ h.blocks[0].hasVal
    BY <1>6, <1>11 DEF ReadsIn
  <2>2. v \in InstUses(Unary("Mv", in.dst, Renamed(h.blocks[0].ret, n)))
    BY <1>6, <1>11, <2>1, SingleReads
  <2>3. v \in OperandRegs(Renamed(h.blocks[0].ret, n))
    BY <2>2, MoveReads
  <2>4. v \in Int /\ v >= n /\ v - n \in OperandRegs(h.blocks[0].ret)
    BY <1>1, <1>2, <2>3, RenamedReads
  <2>5. v - n \in TermUses(h.blocks[0])
    BY <2>1, <2>4 DEF TermUses, OneBlock
  <2> QED BY <2>4, <2>5
<1>12. \A v \in 0 .. n - 1 : ReadsIn(e, v) => v \in InstUses(in)
  BY <1>8, <1>9, <1>10, <1>11
<1>13. in.dst # NoReg /\ h.blocks[0].hasVal => WritesIn(e, in.dst)
  BY <1>6, <1>8, SingleReads, MoveReads
<1>14. ASSUME NEW w \in 0 .. m - 1, ReadsIn(e, n + w)
       PROVE  /\ w \notin {h.params[j] : j \in DOMAIN h.params}
              /\ ReadsFirst(h.blocks[0], w)
  <2>1. n + w \in Int /\ n + w \notin 0 .. n - 1 /\ (n + w) - n = w /\ w + n = n + w
    BY <1>1
  <2>2. /\ ~WritesIn(x, n + w)
        /\ ReadsIn(y, n + w) \/ (~WritesIn(y, n + w) /\ ReadsIn(z, n + w))
    BY <1>8, <1>9, <1>14, <2>1
  <2>3. w \notin {h.params[j] : j \in DOMAIN h.params}
    <3>1. \A j \in DOMAIN h.params : x[j].dst # n + w
      BY <1>3, <2>2 DEF WritesIn
    <3> QED BY <1>3, <2>1, <3>1
  <2>4. ReadsIn(y, n + w) => ReadsIn(hs, w)
    BY <1>10, <2>1
  <2>5. WritesIn(hs, w) => WritesIn(y, n + w)
    <3> SUFFICES ASSUME NEW k \in DOMAIN hs, hs[k].dst = w PROVE WritesIn(y, n + w)
      BY DEF WritesIn
    <3>1. hs[k] \in Insts(0 .. m - 1) /\ hs[k].magic = NoReg
      BY <1>2 DEF hs
    <3>2. Clone(hs[k], n).dst = n + w
      BY <1>1, <3>1, CloneReads
    <3> QED BY <1>4, <3>2 DEF WritesIn
  <2>6. ReadsIn(z, n + w) => w \in TermUses(h.blocks[0])
    BY <1>11, <2>1
  <2>7. ReadsIn(hs, w) \/ (~WritesIn(hs, w) /\ w \in TermUses(h.blocks[0]))
    BY <2>2, <2>4, <2>5, <2>6
  <2>8. ReadsFirst(h.blocks[0], w)
    BY <2>7, BlockReads DEF hs
  <2> QED BY <2>3, <2>8
<1> QED BY <1>1, <1>12, <1>13, <1>14 DEF e, m


(* Three pieces of code in a row.                                          *)
LEMMA ThreeReads ==
  ASSUME NEW S, NEW s \in Seq(S), NEW t \in Seq(S), NEW u \in Seq(S), NEW v
  PROVE  /\ WritesIn(s \o t \o u, v) <=> WritesIn(s, v) \/ WritesIn(t, v) \/ WritesIn(u, v)
         /\ ReadsIn(s \o t \o u, v) <=>
              \/ ReadsIn(s, v)
              \/ ~WritesIn(s, v) /\ ReadsIn(t, v)
              \/ ~WritesIn(s, v) /\ ~WritesIn(t, v) /\ ReadsIn(u, v)
<1>1. s \o t \in Seq(S)
  BY Joined
<1>2. /\ WritesIn(s \o t, v) <=> WritesIn(s, v) \/ WritesIn(t, v)
      /\ ReadsIn(s \o t, v) <=> ReadsIn(s, v) \/ (~WritesIn(s, v) /\ ReadsIn(t, v))
  BY JoinedReads
<1>3. /\ WritesIn((s \o t) \o u, v) <=> WritesIn(s \o t, v) \/ WritesIn(u, v)
      /\ ReadsIn((s \o t) \o u, v)
           <=> ReadsIn(s \o t, v) \/ (~WritesIn(s \o t, v) /\ ReadsIn(u, v))
  BY <1>1, JoinedReads
<1> QED BY <1>2, <1>3

(* What changing the instructions of block b leaves alone.                 *)
LEMMA ChangedBlock ==
  ASSUME NEW f, IsIRFunc(f), NEW b \in Blocks(f), NEW m, NEW is
  PROVE  /\ Blocks(Changed(f, b, m, is)) = Blocks(f)
         /\ Changed(f, b, m, is).params = f.params /\ Changed(f, b, m, is).nb = f.nb
         /\ Changed(f, b, m, is).numVregs = f.numVregs + m
         /\ Changed(f, b, m, is).blocks[b].insts = is
         /\ Changed(f, b, m, is).blocks[b].term = f.blocks[b].term
         /\ Changed(f, b, m, is).blocks[b].hasVal = f.blocks[b].hasVal
         /\ Succs(Changed(f, b, m, is).blocks[b]) = Succs(f.blocks[b])
         /\ TermUses(Changed(f, b, m, is).blocks[b]) = TermUses(f.blocks[b])
         /\ \A k \in Blocks(f) \ {b} : Changed(f, b, m, is).blocks[k] = f.blocks[k]
<1> DEFINE g == Changed(f, b, m, is)
           bb == [f.blocks[b] EXCEPT !.insts = is]
<1>1. /\ DOMAIN f = {"numVregs", "params", "nb", "blocks"} /\ f.nb \in Nat \ {0}
      /\ f.blocks \in [Blocks(f) -> BasicBlocks(Vregs(f))]
  BY DEF IsIRFunc
<1>2. /\ g.nb = f.nb /\ g.params = f.params /\ g.blocks = [f.blocks EXCEPT ![b] = bb]
      /\ g.numVregs = f.numVregs + m
  BY <1>1 DEF Changed
<1>3. /\ bb.insts = is /\ bb.term = f.blocks[b].term /\ bb.hasVal = f.blocks[b].hasVal
      /\ bb.cond = f.blocks[b].cond /\ bb.ret = f.blocks[b].ret
      /\ bb.succ0 = f.blocks[b].succ0 /\ bb.succ1 = f.blocks[b].succ1
  <2>1. f.blocks[b] \in BasicBlocks(Vregs(f))
    BY <1>1
  <2> QED BY <2>1 DEF BasicBlocks
<1> HIDE DEF g, bb
<1>4. g.blocks[b] = bb /\ \A k \in Blocks(f) \ {b} : g.blocks[k] = f.blocks[k]
  BY <1>1, <1>2
<1>5. Succs(bb) = Succs(f.blocks[b])
  BY <1>3 DEF Succs
<1>6. TermUses(bb) = TermUses(f.blocks[b])
  BY <1>3 DEF TermUses
<1>7. Blocks(g) = Blocks(f)
  BY <1>2 DEF Blocks
<1> QED BY <1>2, <1>3, <1>4, <1>5, <1>6, <1>7 DEF g

(* A call replaced: what was dead into the entry still is, and what the    *)
(* copy brings is written before it is read.                               *)
LEMMA SplicedDead ==
  ASSUME NEW f, IsIRFunc(f), NEW b \in Blocks(f),
         NEW i \in 1 .. Len(f.blocks[b].insts), NEW in, in = f.blocks[b].insts[i],
         in.op = "Call",
         NEW h, IsIRFunc(h), OneBlock(h), Len(in.args) = Len(h.params),
         \A j \in DOMAIN h.blocks[0].insts : h.blocks[0].insts[j].magic = NoReg,
         in.dst # NoReg => h.blocks[0].hasVal,
         NEW is, is = SubSeq(f.blocks[b].insts, 1, i - 1) \o Expansion(in, h, f.numVregs)
                        \o SubSeq(f.blocks[b].insts, i + 1, Len(f.blocks[b].insts)),
         NEW S, f.blocks[b].insts \in Seq(S), Expansion(in, h, f.numVregs) \in Seq(S),
         NEW v
  PROVE  /\ v \in Vregs(f) /\ DeadInto(f, v, 0)
              => DeadInto(Changed(f, b, h.numVregs, is), v, 0)
         /\ \A w \in Vregs(h) :
              /\ v = f.numVregs + w
              /\ w \notin {h.params[j] : j \in DOMAIN h.params} => DeadInto(h, w, 0)
              => DeadInto(Changed(f, b, h.numVregs, is), v, 0)
<1> DEFINE n == f.numVregs
           m == h.numVregs
           s == f.blocks[b].insts
           e == Expansion(in, h, n)
           p == SubSeq(s, 1, i - 1)
           q == SubSeq(s, i + 1, Len(s))
           g == Changed(f, b, m, is)
           bb == f.blocks[b]
           gb == g.blocks[b]
<1>1. /\ n \in Nat /\ m \in Nat /\ in \in Insts(0 .. n - 1) /\ Vregs(f) = 0 .. n - 1
      /\ s \in Seq(Insts(0 .. n - 1)) /\ 0 \in Blocks(f)
  <2>1. n \in Nat /\ m \in Nat /\ Vregs(f) = 0 .. n - 1 /\ 0 \in Blocks(f)
    BY DEF IsIRFunc, Vregs, Blocks
  <2>2. s \in Seq(Insts(Vregs(f)))
    BY BlockFacts
  <2> HIDE DEF n, m
  <2>3. s \in Seq(Insts(0 .. n - 1)) /\ in \in Insts(0 .. n - 1)
    BY <2>1, <2>2
  <2> QED BY <2>1, <2>3
<1>2. p \in Seq(S) /\ q \in Seq(S) /\ <<in>> \in Seq(S) /\ s = p \o <<in>> \o q
      /\ e \in Seq(S) /\ is = p \o e \o q
  <2>1. s \in Seq(S) /\ i \in 1 .. Len(s) /\ in = s[i]
    OBVIOUS
  <2> HIDE DEF s
  <2>2. p \in Seq(S) /\ q \in Seq(S) /\ <<s[i]>> \in Seq(S) /\ s = p \o <<s[i]>> \o q
    BY <2>1, Around
  <2> QED BY <2>1, <2>2 DEF s
<1>3. /\ \A u \in 0 .. n - 1 : ReadsIn(e, u) => u \in InstUses(in)
      /\ in.dst # NoReg => WritesIn(e, in.dst)
      /\ \A w \in Vregs(h) : ReadsIn(e, n + w) =>
           /\ w \notin {h.params[j] : j \in DOMAIN h.params}
           /\ ReadsFirst(h.blocks[0], w)
  BY <1>1, ExpansionReads
<1>4. /\ Blocks(g) = Blocks(f) /\ gb.insts = is
      /\ Succs(gb) = Succs(bb) /\ TermUses(gb) = TermUses(bb)
      /\ \A k \in Blocks(f) \ {b} : g.blocks[k] = f.blocks[k]
  <2> HIDE DEF m
  <2>1. IsIRFunc(f) /\ b \in Blocks(f)
    OBVIOUS
  <2> QED BY ONLY <2>1, ChangedBlock
<1> HIDE DEF s, e, p, q
<1>5. /\ WritesIn(is, v) <=> WritesIn(p, v) \/ WritesIn(e, v) \/ WritesIn(q, v)
      /\ ReadsIn(is, v) <=> \/ ReadsIn(p, v)
                            \/ ~WritesIn(p, v) /\ ReadsIn(e, v)
                            \/ ~WritesIn(p, v) /\ ~WritesIn(e, v) /\ ReadsIn(q, v)
  BY ONLY <1>2, ThreeReads
<1>6. /\ WritesIn(s, v) <=> WritesIn(p, v) \/ in.dst = v \/ WritesIn(q, v)
      /\ ReadsIn(s, v) <=> \/ ReadsIn(p, v)
                           \/ ~WritesIn(p, v) /\ v \in InstUses(in)
                           \/ ~WritesIn(p, v) /\ in.dst # v /\ ReadsIn(q, v)
  <2> DEFINE o == <<in>>
  <2>1. p \in Seq(S) /\ o \in Seq(S) /\ q \in Seq(S) /\ s = p \o o \o q
    BY <1>2
  <2>2. (WritesIn(o, v) <=> in.dst = v) /\ (ReadsIn(o, v) <=> v \in InstUses(in))
    BY SingleReads
  <2> HIDE DEF o
  <2>3. /\ WritesIn(s, v) <=> WritesIn(p, v) \/ WritesIn(o, v) \/ WritesIn(q, v)
        /\ ReadsIn(s, v) <=> \/ ReadsIn(p, v)
                             \/ ~WritesIn(p, v) /\ ReadsIn(o, v)
                             \/ ~WritesIn(p, v) /\ ~WritesIn(o, v) /\ ReadsIn(q, v)
    BY <2>1, ThreeReads
  <2> QED BY <2>2, <2>3
<1>7. /\ ReadsFirst(gb, v) <=> ReadsIn(is, v) \/ (v \in TermUses(bb) /\ ~WritesIn(is, v))
      /\ Writes(gb, v) <=> WritesIn(is, v)
      /\ ReadsFirst(bb, v) <=> ReadsIn(s, v) \/ (v \in TermUses(bb) /\ ~WritesIn(s, v))
      /\ Writes(bb, v) <=> WritesIn(s, v)
  <2>1. ReadsFirst(gb, v) <=> ReadsIn(is, v) \/ (v \in TermUses(bb) /\ ~WritesIn(is, v))
    BY ONLY <1>4, BlockReads
  <2>2. Writes(gb, v) <=> WritesIn(is, v)
    BY ONLY <1>4, BlockReads
  <2>3. /\ ReadsFirst(bb, v) <=> ReadsIn(s, v) \/ (v \in TermUses(bb) /\ ~WritesIn(s, v))
        /\ Writes(bb, v) <=> WritesIn(s, v)
    BY ONLY BlockReads DEF s
  <2> QED BY ONLY <2>1, <2>2, <2>3
<1>8. ASSUME v \in Vregs(f), DeadInto(f, v, 0) PROVE DeadInto(g, v, 0)
  <2>0. v # NoReg
    BY <1>1, <1>8 DEF NoReg
  <2>1. in.dst = v => WritesIn(e, v)
    BY <1>3, <2>0
  <2>2. WritesIn(s, v) => WritesIn(is, v)
    BY <1>5, <1>6, <2>1
  <2>3. ReadsIn(is, v) => ReadsIn(s, v)
    BY <1>1, <1>3, <1>5, <1>6, <1>8, <2>1
  <2>4. (ReadsFirst(gb, v) => ReadsFirst(bb, v)) /\ (Writes(bb, v) => Writes(gb, v))
    BY <1>7, <2>2, <2>3
  <2>5. PICK D \in SUBSET Blocks(f) : 0 \in D /\ DeadSet(f, v, D)
    BY <1>8 DEF DeadInto
  <2> HIDE DEF g
  <2>6. DeadSet(g, v, D)
    <3> SUFFICES ASSUME NEW k \in D
                 PROVE  /\ ~ReadsFirst(g.blocks[k], v)
                        /\ Writes(g.blocks[k], v) \/ Succs(g.blocks[k]) \subseteq D
      BY DEF DeadSet
    <3>1. ~ReadsFirst(f.blocks[k], v) /\ (Writes(f.blocks[k], v) \/ Succs(f.blocks[k]) \subseteq D)
      BY <2>5 DEF DeadSet
    <3>2. CASE k = b
      BY <1>4, <2>4, <3>1, <3>2
    <3>3. CASE k # b
      <4>1. g.blocks[k] = f.blocks[k]
        BY <1>4, <3>3
      <4> QED BY <3>1, <4>1
    <3> QED BY <3>2, <3>3
  <2> QED BY <1>4, <2>5, <2>6 DEF DeadInto
<1>9. ASSUME NEW w \in Vregs(h), v = n + w,
             w \notin {h.params[j] : j \in DOMAIN h.params} => DeadInto(h, w, 0)
      PROVE  DeadInto(g, v, 0)
  <2>1. v \notin Vregs(f) /\ v # NoReg
    BY <1>1, <1>9 DEF Vregs, NoReg
  <2>2. \A k \in Blocks(f) : ~ReadsFirst(f.blocks[k], v) /\ ~Writes(f.blocks[k], v)
    <3> TAKE k \in Blocks(f)
    <3>1. \A j \in DOMAIN f.blocks[k].insts :
            v \notin InstUses(f.blocks[k].insts[j]) /\ f.blocks[k].insts[j].dst # v
      BY <2>1, InstFacts
    <3>2. v \notin TermUses(f.blocks[k])
      BY <2>1, BlockFacts
    <3> QED BY <3>1, <3>2 DEF ReadsFirst, Writes
  <2>3. ~ReadsFirst(bb, v) /\ ~Writes(bb, v)
    BY <2>2
  <2>4. ~ReadsIn(e, v)
    <3> SUFFICES ASSUME ReadsIn(e, v) PROVE FALSE
      OBVIOUS
    <3>1. DeadInto(h, w, 0) /\ ReadsFirst(h.blocks[0], w)
      BY <1>3, <1>9
    <3> QED BY <3>1 DEF DeadInto, DeadSet
  <2>5. v \notin TermUses(bb)
    BY <2>1, BlockFacts
  <2>6. ~ReadsIn(is, v)
    BY <1>5, <1>6, <1>7, <2>3, <2>4
  <2>7. ~ReadsFirst(gb, v)
    BY <1>7, <2>5, <2>6
  <2> HIDE DEF g
  <2>8. \A k \in Blocks(g) : ~ReadsFirst(g.blocks[k], v) /\ Succs(g.blocks[k]) \subseteq Blocks(g)
    <3> TAKE k \in Blocks(g)
    <3>1. Succs(f.blocks[k]) \subseteq Blocks(f) /\ ~ReadsFirst(f.blocks[k], v)
      BY <1>4, <2>2, BlockFacts
    <3>2. CASE k = b
      BY <1>4, <2>7, <3>1, <3>2
    <3>3. CASE k # b
      <4>1. g.blocks[k] = f.blocks[k]
        BY <1>4, <3>3
      <4> QED BY <1>4, <3>1, <4>1
    <3> QED BY <3>2, <3>3
  <2>9. DeadSet(g, v, Blocks(g)) /\ 0 \in Blocks(g)
    BY <1>1, <1>4, <2>8 DEF DeadSet
  <2> QED BY <2>9 DEF DeadInto
<1> QED BY <1>8, <1>9
-----------------------------------------------------------------------------
(* The instructions of a function of which the functions rs are known to   *)
(* give back a value: none has a constant to divide by yet.                *)
Fresh(vs, rs) ==
  {in \in Insts(vs) : /\ in.magic = NoReg
                      /\ in.op = "Call" /\ in.dst # NoReg => in.callee \in rs}

Giving == {k \in DOMAIN mod : OneBlock(mod[k]) => mod[k].blocks[0].hasVal}

Unset(f, v) == v \in Vregs(f) \ {f.params[j] : j \in DOMAIN f.params}

FreshInv ==
  \A k \in DOMAIN mod :
    /\ \A b \in Blocks(mod[k]) :
         mod[k].blocks[b].insts \in Seq(Fresh(Vregs(mod[k]), Giving))
    /\ \A v : Unset(mod[k], v) => DeadInto(mod[k], v, 0)

(* A copy of fresh instructions is fresh.                                  *)
LEMMA FreshExpansion ==
  ASSUME NEW rs, NEW n \in Nat, NEW in \in Insts(0 .. n - 1),
         NEW h, IsIRFunc(h), Len(in.args) = Len(h.params),
         h.blocks[0].insts \in Seq(Fresh(Vregs(h), rs))
  PROVE  Expansion(in, h, n) \in Seq(Fresh(0 .. n + h.numVregs - 1, rs))
<1> DEFINE m == h.numVregs
           ws == 0 .. n + m - 1
           S == Fresh(ws, rs)
           hs == h.blocks[0].insts
<1>0. h.blocks[0] \in BasicBlocks(0 .. m - 1) /\ Vregs(h) = 0 .. m - 1
  BY DEF IsIRFunc, Blocks, Vregs
<1>1. m \in Nat /\ h.params \in Seq(0 .. m - 1)
  BY DEF IsIRFunc, Vregs
<1>2. 0 .. n - 1 \subseteq ws
  BY <1>1
<1>3. \A d \in ws : \A x \in Vals(ws) : Unary("Mv", d, x) \in S
  <2> TAKE d \in ws
  <2> TAKE x \in Vals(ws)
  <2>1. Unary("Mv", d, x) \in Insts(ws) /\ Unary("Mv", d, x).op = "Mv"
    BY MoveType
  <2>2. Unary("Mv", d, x).magic = NoReg
    BY DEF Unary, Plain
  <2> QED BY <2>1, <2>2 DEF Fresh
<1>4. ParamMoves(in, h, n) \in Seq(S)
  <2>1. in.args \in Seq(Vals(0 .. n - 1))
    BY DEF Insts
  <2>2. \A k \in DOMAIN h.params : /\ h.params[k] + n \in ws
                                   /\ in.args[k] \in Vals(ws)
    <3> TAKE k \in DOMAIN h.params
    <3>1. h.params[k] \in 0 .. m - 1 /\ k \in DOMAIN in.args
      BY <1>1, <2>1
    <3>2. in.args[k] \in Vals(0 .. n - 1)
      BY <2>1, <3>1
    <3>3. h.params[k] + n \in ws
      <4> HIDE DEF m
      <4> QED BY ONLY <1>1, <3>1, n \in Nat DEF ws
    <3>4. Vals(0 .. n - 1) \subseteq Vals(ws)
      BY <1>2, ValsGrow
    <3> HIDE DEF ws
    <3> QED BY <3>2, <3>3, <3>4
  <2>3. \A k \in DOMAIN h.params : Unary("Mv", h.params[k] + n, in.args[k]) \in S
    BY <1>3, <2>2
  <2> HIDE DEF S
  <2> QED BY <1>1, <2>3 DEF ParamMoves
<1>5. Body(h, n) \in Seq(S)
  <2>1. hs \in Seq(Fresh(0 .. m - 1, rs))
    BY <1>0
  <2>2. \A k \in DOMAIN hs : Clone(hs[k], n) \in S
    <3> TAKE k \in DOMAIN hs
    <3>1. hs[k] \in Fresh(0 .. m - 1, rs)
      BY <2>1
    <3>2. hs[k] \in Insts(0 .. m - 1) /\ hs[k].magic = NoReg
      BY <3>1 DEF Fresh
    <3>3. /\ Clone(hs[k], n) \in Insts(ws)
          /\ Clone(hs[k], n).op = hs[k].op /\ Clone(hs[k], n).callee = hs[k].callee
          /\ Clone(hs[k], n).dst = NoReg <=> hs[k].dst = NoReg
      BY <1>1, <3>2, CloneType
    <3>4. Clone(hs[k], n).magic = NoReg
      BY <1>1, <3>2, CloneReads
    <3> QED BY <3>1, <3>3, <3>4 DEF Fresh
  <2> HIDE DEF S
  <2> QED BY <2>1, <2>2 DEF Body
<1>6. ResultMove(in, h, n) \in Seq(S)
  <2>1. CASE in.dst # NoReg /\ h.blocks[0].hasVal
    <3>1. in.dst \in ws
      BY <1>2, <2>1 DEF Insts
    <3>3. h.blocks[0].ret \in Vals(0 .. m - 1)
      BY <1>0 DEF BasicBlocks
    <3>4. Renamed(h.blocks[0].ret, n) \in Vals(ws)
      BY <1>1, <3>3, RenamedType
    <3>5. Unary("Mv", in.dst, Renamed(h.blocks[0].ret, n)) \in S
      BY <1>3, <3>1, <3>4
    <3> HIDE DEF S
    <3> QED BY <2>1, <3>5 DEF ResultMove
  <2>2. CASE ~(in.dst # NoReg /\ h.blocks[0].hasVal)
    <3>1. ResultMove(in, h, n) = << >>
      BY <2>2 DEF ResultMove
    <3> HIDE DEF S
    <3> QED BY <3>1
  <2> QED BY <2>1, <2>2
<1> HIDE DEF S
<1>7. Expansion(in, h, n) \in Seq(S)
  BY <1>4, <1>5, <1>6 DEF Expansion
<1> QED BY <1>7 DEF S

LEMMA FreshGrows ==
  ASSUME NEW rs, NEW vs, NEW ws, vs \subseteq ws, NEW is \in Seq(Fresh(vs, rs))
  PROVE  is \in Seq(Fresh(ws, rs))
<1>1. Fresh(vs, rs) \subseteq Fresh(ws, rs)
  BY InstsGrow DEF Fresh
<1> QED BY <1>1

(* The functions the passes are given.                                     *)
LEMMA FreshInit ==
  ASSUME InlineInit, InlineInv, ResultsGiven(given)
  PROVE  FreshInv
<1>1. given \in Modules /\ mod = given.funcs
  BY DEF InlineInit
<1>2. ASSUME NEW k \in DOMAIN mod
      PROVE  /\ IsIRFunc(mod[k]) /\ CallsKnown(mod[k], DOMAIN mod)
             /\ Initialised(mod[k])
             /\ \A b \in Blocks(mod[k]) : \A i \in DOMAIN mod[k].blocks[b].insts :
                  mod[k].blocks[b].insts[i].magic = NoReg
             /\ \A in \in CallsOf(mod[k]) :
                  in.dst # NoReg /\ OneBlock(mod[in.callee]) => mod[in.callee].blocks[0].hasVal
  BY <1>1, FreshAssumption DEF InlineInv, InlineTypeOK, ResultsGiven
<1>3. ASSUME NEW k \in DOMAIN mod, NEW b \in Blocks(mod[k])
      PROVE  mod[k].blocks[b].insts \in Seq(Fresh(Vregs(mod[k]), Giving))
  <2> DEFINE is == mod[k].blocks[b].insts
             FR == Fresh(Vregs(mod[k]), Giving)
  <2>1. is \in Seq(Insts(Vregs(mod[k])))
    BY <1>2, BlockFacts
  <2>2. ASSUME NEW i \in DOMAIN is PROVE is[i] \in FR
    <3>1. is[i] \in Insts(Vregs(mod[k])) /\ is[i].magic = NoReg
      BY <1>2, <2>1
    <3>2. is[i].op = "Call" /\ is[i].dst # NoReg => is[i].callee \in Giving
      <4> SUFFICES ASSUME is[i].op = "Call", is[i].dst # NoReg PROVE is[i].callee \in Giving
        OBVIOUS
      <4>1. is[i] \in CallsOf(mod[k]) /\ is[i].callee \in DOMAIN mod
        BY <1>2, CallsFacts DEF CallsKnown
      <4> QED BY <1>2, <4>1 DEF Giving
    <3> QED BY <3>1, <3>2 DEF Fresh
  <2> HIDE DEF is, FR
  <2>3. is \in Seq(FR)
    BY <2>1, <2>2
  <2> QED BY <2>3 DEF is, FR
<1>4. ASSUME NEW k \in DOMAIN mod, NEW v, Unset(mod[k], v) PROVE DeadInto(mod[k], v, 0)
  <2>1. DeadSet(mod[k], v, Unwritten(mod[k], v))
    BY <1>2, <1>4 DEF Initialised, Unset
  <2> QED BY <1>2, <2>1, UnwrittenShows
<1> QED BY <1>3, <1>4 DEF FreshInv

(* A call replaced.                                                        *)
LEMMA FreshCall ==
  ASSUME InlineInv, FreshInv, InlineCall
  PROVE  FreshInv'
<1> DEFINE c == In.callee
           h == mod[c]
           n == F.numVregs
           m == h.numVregs
           new == Expansion(In, h, n)
           is == SubSeq(Insts0, 1, ix - 1) \o new \o SubSeq(Insts0, ix + 1, Len(Insts0))
           g == Changed(F, blk, m, is)
           ks == DOMAIN mod
           ws == 0 .. n + m - 1
           S == Fresh(ws, Giving)
<1>1. /\ AtInst /\ Takes(In) /\ In.op = "Call" /\ Inlinable(c) /\ Len(In.args) = Len(h.params)
  BY DEF InlineCall, Takes
<1>2. /\ cur \in ks /\ IsIRFunc(F) /\ CallsKnown(F, ks) /\ blk \in Blocks(F) /\ n \in Nat
      /\ Insts0 \in Seq(Sound(Vregs(F), ks)) /\ ix \in 1 .. Len(Insts0) /\ F = mod[cur]
      /\ Insts0 = F.blocks[blk].insts /\ In = Insts0[ix] /\ Vregs(F) = 0 .. n - 1
  BY <1>1, Here DEF AtInst, F, Insts0, In, Vregs
<1>3. c \in ks /\ In \in Insts(0 .. n - 1)
  BY <1>1, <1>2 DEF Sound
<1>4. IsIRFunc(h) /\ m \in Nat /\ 0 \in Blocks(h) /\ OneBlock(h) /\ Vregs(h) = 0 .. m - 1
  <2>1. IsIRFunc(h)
    BY <1>3 DEF InlineInv, InlineTypeOK
  <2>2. OneBlock(h)
    BY <1>1 DEF Inlinable
  <2> HIDE DEF h
  <2> QED BY <2>1, <2>2 DEF IsIRFunc, Blocks, Vregs
<1>0. Vregs(F) \subseteq ws
  <2>1. n \in Nat /\ m \in Nat /\ Vregs(F) = 0 .. n - 1
    BY <1>2, <1>4
  <2> HIDE DEF n, m
  <2> QED BY ONLY <2>1
<1>5. /\ h.blocks[0].insts \in Seq(Fresh(Vregs(h), Giving))
      /\ Insts0 \in Seq(Fresh(Vregs(F), Giving))
  BY <1>2, <1>3, <1>4 DEF FreshInv
<1>6. \A j \in DOMAIN h.blocks[0].insts : h.blocks[0].insts[j].magic = NoReg
  <2>1. \A x \in Fresh(Vregs(h), Giving) : x.magic = NoReg
    BY DEF Fresh
  <2>2. \A j \in DOMAIN h.blocks[0].insts : h.blocks[0].insts[j] \in Fresh(Vregs(h), Giving)
    BY <1>5
  <2> QED BY <2>1, <2>2
<1>7. In.dst # NoReg => h.blocks[0].hasVal
  <2>1. In \in Fresh(Vregs(F), Giving)
    BY <1>2, <1>5
  <2> QED BY <1>1, <1>4, <2>1 DEF Fresh, Giving
<1>8. new \in Seq(S)
  BY <1>1, <1>2, <1>3, <1>4, <1>5, FreshExpansion
<1>9. Insts0 \in Seq(S)
  <2> QED BY <1>0, <1>5, FreshGrows
<1>10. is \in Seq(S)
  <2>1. new \in Seq(S) /\ Insts0 \in Seq(S) /\ ix \in 1 .. Len(Insts0)
    BY <1>2, <1>8, <1>9
  <2> HIDE DEF new, S
  <2> QED BY <2>1, Spliced
<1>11. mod' = [mod EXCEPT ![cur] = g]
  BY <1>2 DEF InlineCall, F, Insts0, Changed
<1>12. \A v : /\ v \in Vregs(F) /\ DeadInto(F, v, 0) => DeadInto(g, v, 0)
              /\ \A w \in Vregs(h) :
                   /\ v = n + w
                   /\ w \notin {h.params[j] : j \in DOMAIN h.params} => DeadInto(h, w, 0)
                   => DeadInto(g, v, 0)
  <2> TAKE v
  <2> HIDE DEF S, ks, c, h
  <2>1. /\ In = F.blocks[blk].insts[ix] /\ ix \in 1 .. Len(F.blocks[blk].insts)
        /\ F.blocks[blk].insts \in Seq(S) /\ Expansion(In, h, F.numVregs) \in Seq(S)
        /\ is = SubSeq(F.blocks[blk].insts, 1, ix - 1) \o Expansion(In, h, F.numVregs)
                  \o SubSeq(F.blocks[blk].insts, ix + 1, Len(F.blocks[blk].insts))
    BY <1>2, <1>8, <1>9
  <2>2. /\ IsIRFunc(F) /\ blk \in Blocks(F) /\ In.op = "Call" /\ IsIRFunc(h) /\ OneBlock(h)
        /\ Len(In.args) = Len(h.params)
    BY <1>1, <1>2, <1>4
  <2> HIDE DEF is
  <2> QED BY ONLY <1>6, <1>7, <2>1, <2>2, SplicedDead
<1> HIDE DEF is, new
<1>13. /\ Blocks(g) = Blocks(F) /\ g.params = F.params /\ g.numVregs = n + m
       /\ g.blocks[blk].insts = is /\ g.nb = F.nb
       /\ g.blocks[blk].term = F.blocks[blk].term /\ g.blocks[blk].hasVal = F.blocks[blk].hasVal
       /\ \A k \in Blocks(F) \ {blk} : g.blocks[k] = F.blocks[k]
  <2> HIDE DEF m, is
  <2> QED BY <1>2, ChangedBlock
<1> HIDE DEF g, h, c
<1>14. /\ DOMAIN mod' = ks /\ mod'[cur] = g
       /\ \A k \in ks \ {cur} : mod'[k] = mod[k]
  BY <1>2, <1>11
<1>15. Giving' = Giving
  <2>1. ASSUME NEW k \in ks
        PROVE  (OneBlock(mod'[k]) => mod'[k].blocks[0].hasVal)
                 <=> (OneBlock(mod[k]) => mod[k].blocks[0].hasVal)
    <3>1. CASE k # cur
      BY <1>14, <3>1
    <3>2. CASE k = cur
      <4>1. 0 \in Blocks(F)
        BY <1>2 DEF IsIRFunc, Blocks
      <4>2. g.blocks[0].term = F.blocks[0].term /\ g.blocks[0].hasVal = F.blocks[0].hasVal
        BY <1>13, <4>1
      <4> QED BY <1>2, <1>13, <1>14, <3>2, <4>2 DEF OneBlock
    <3> QED BY <3>1, <3>2
  <2> QED BY <1>14, <2>1 DEF Giving
<1>16. Vregs(g) = ws
  <2>1. g.numVregs = n + m /\ n \in Nat /\ m \in Nat
    BY <1>2, <1>4, <1>13
  <2> HIDE DEF n, m
  <2>2. Vregs(g) = 0 .. n + m - 1
    BY ONLY <2>1 DEF Vregs
  <2> QED BY <2>2 DEF n, m
<1>17. ASSUME NEW k \in ks, NEW b \in Blocks(mod'[k])
       PROVE  mod'[k].blocks[b].insts \in Seq(Fresh(Vregs(mod'[k]), Giving))
  <2>1. CASE k # cur
    BY <1>14, <1>17, <2>1 DEF FreshInv
  <2>2. CASE k = cur /\ b = blk
    BY <1>10, <1>13, <1>14, <1>16, <2>2
  <2>3. CASE k = cur /\ b # blk
    <3>1. b \in Blocks(F) /\ g.blocks[b] = F.blocks[b]
      BY <1>13, <1>14, <1>17, <2>3
    <3>2. F.blocks[b].insts \in Seq(Fresh(Vregs(F), Giving))
      BY <1>2, <3>1 DEF FreshInv
    <3>3. F.blocks[b].insts \in Seq(Fresh(ws, Giving))
      <4> HIDE DEF ws
      <4> QED BY <1>0, <3>2, FreshGrows
    <3> QED BY <1>14, <1>16, <2>3, <3>1, <3>3
  <2> QED BY <2>1, <2>2, <2>3
<1>18. ASSUME NEW k \in ks, NEW v, Unset(mod'[k], v) PROVE DeadInto(mod'[k], v, 0)
  <2>1. CASE k # cur
    BY <1>14, <1>18, <2>1 DEF FreshInv
  <2>2. CASE k = cur
    <3>1. v \in ws /\ v \notin {F.params[j] : j \in DOMAIN F.params}
      BY <1>13, <1>14, <1>16, <1>18, <2>2 DEF Unset
    <3>2. CASE v \in Vregs(F)
      <4>1. DeadInto(F, v, 0)
        BY <1>2, <3>1, <3>2 DEF FreshInv, Unset
      <4> QED BY <1>12, <1>14, <2>2, <3>2, <4>1
    <3>3. CASE v \notin Vregs(F)
      <4>1. v - n \in 0 .. m - 1 /\ v = n + (v - n)
        BY <1>2, <1>4, <3>1, <3>3
      <4>2. v - n \in Vregs(h)
        BY <1>4, <4>1
      <4>3. v - n \notin {h.params[j] : j \in DOMAIN h.params} => DeadInto(h, v - n, 0)
        BY <1>3, <4>2 DEF FreshInv, Unset, h
      <4>4. DeadInto(g, v, 0)
        BY <1>12, <4>1, <4>2, <4>3
      <4> QED BY <1>14, <2>2, <4>4
    <3> QED BY <3>2, <3>3
  <2> QED BY <2>1, <2>2
<1> QED BY <1>14, <1>15, <1>17, <1>18 DEF FreshInv

LEMMA FreshStep ==
  ASSUME InlineInv, FreshInv, [InlineNext]_inlineVars
  PROVE  FreshInv'
<1>1. CASE InlineCall
  BY <1>1, FreshCall
<1>2. CASE mod' = mod
  BY <1>2 DEF FreshInv, Giving
<1> QED BY <1>1, <1>2
  DEF InlineNext, KeepInst, NextBlock, NextFunction, EndSweep, inlineVars

(* Inlining brings no read of a vreg that nothing has written, whatever    *)
(* module it is given whose small functions give the results that are      *)
(* kept: what a copy's parameters and locals hold is stored before the     *)
(* copy reads it, and a call's result is there wherever the call's was     *)
(* (inlineSweep, opt/Passes.cpp:83-117).                                   *)
THEOREM InlineInitialisedCorrect == InlineSpec => []InlineInitialised
<1> DEFINE Inv == InlineInv /\ (ResultsGiven(given) => FreshInv)
<1>1. InlineInit => Inv
  BY InlineInitInv, FreshInit
<1>2. Inv /\ [InlineNext]_inlineVars => Inv'
  <2> SUFFICES ASSUME Inv, [InlineNext]_inlineVars PROVE Inv'
    OBVIOUS
  <2>1. InlineInv'
    BY InlineStepInv
  <2>2. ResultsGiven(given') <=> ResultsGiven(given)
    <3>1. given' = given
      BY DEF InlineNext, InlineCall, KeepInst, NextBlock, NextFunction, EndSweep, inlineVars
    <3> QED BY <3>1
  <2>3. ResultsGiven(given) => FreshInv'
    BY FreshStep
  <2> QED BY <2>1, <2>2, <2>3
<1>3. Inv => InlineInitialised
  <2> SUFFICES ASSUME Inv, ResultsGiven(given), NEW k \in DOMAIN mod,
                      NEW v \in Vregs(mod[k]) \ {mod[k].params[j] : j \in DOMAIN mod[k].params}
               PROVE  DeadSet(mod[k], v, Unwritten(mod[k], v))
    BY DEF InlineInitialised, Initialised
  <2>1. DeadInto(mod[k], v, 0) /\ IsIRFunc(mod[k])
    BY DEF FreshInv, Unset, InlineInv, InlineTypeOK
  <2> QED BY <2>1, UnwrittenShows
<1> QED BY <1>1, <1>2, <1>3, PTL DEF InlineSpec
=============================================================================
