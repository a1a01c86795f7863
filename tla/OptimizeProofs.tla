--------------------------- MODULE OptimizeProofs ---------------------------
(***************************************************************************)
(* Every pass, in the order and as often as optimizeIR runs it, leaves a   *)
(* well-formed function, and at the end nothing is left to remove: for     *)
(* every function and every word.  A lemma for each pass says that it      *)
(* keeps functions well-formed.  Of a computation in turns, which the      *)
(* passes are full of, the first lemmas say that it never leaves a set     *)
(* that its steps do not leave; a predicate then names the values between  *)
(* the turns.  `how` is "exact" where every division marked unsigned has   *)
(* a divisor that hoistMagicDiv knows a number for, "any" after            *)
(* hoistDivModConstants.                                                   *)
(*                                                                         *)
(* Then the passes that work in place: what runs after one of them is a    *)
(* run of the function it was given (PassRun).                             *)
(***************************************************************************)
EXTENDS Optimize, PassRun, MagicProofs, TLAPS

-----------------------------------------------------------------------------
(* What is computed turn by turn.                                          *)

(* A computation that follows G wherever it is in S stays in S.            *)
LEMMA StaysIn ==
  ASSUME NEW S, NEW x \in S, NEW G \in [S -> [Nat -> S]], NEW n \in Nat, NEW g,
         DOMAIN g = 0 .. n, g = [k \in DOMAIN g |-> g[k]], g[0] = x,
         \A k \in 1 .. n : g[k - 1] \in S => g[k] = G[g[k - 1]][k]
  PROVE  Turned(g, S, x, G, n)
<1> DEFINE D == {k \in Nat : k =< n => g[k] \in S}
<1>0. n \in Nat /\ \A z \in S : \A k \in Nat : G[z][k] \in S
  <2>1. ASSUME NEW z \in S, NEW k \in Nat PROVE G[z][k] \in S
    <3>1. G[z] \in [Nat -> S]
      BY ONLY G \in [S -> [Nat -> S]], z \in S
    <3> QED BY ONLY <3>1, k \in Nat
  <2> QED BY <2>1
<1>1. 0 \in D
  BY <1>0
<1>2. ASSUME NEW k \in Nat, k \in D PROVE k + 1 \in D
  <2>1. CASE k + 1 =< n
    <3>1. k + 1 \in 1 .. n /\ (k + 1) - 1 = k /\ k =< n
      BY ONLY k \in Nat, n \in Nat, <2>1
    <3>2. g[k] \in S
      BY <1>2, <3>1
    <3>3. g[(k + 1) - 1] \in S => g[k + 1] = G[g[(k + 1) - 1]][k + 1]
      BY <3>1
    <3>4. g[k + 1] = G[g[k]][k + 1]
      BY ONLY <3>1, <3>2, <3>3
    <3>5. k + 1 \in Nat
      OBVIOUS
    <3>6. g[k + 1] \in S
      BY ONLY <1>0, <3>2, <3>4, <3>5
    <3> QED BY <3>5, <3>6
  <2>2. CASE ~(k + 1 =< n)
    BY ONLY <2>2, k \in Nat
  <2> QED BY <2>1, <2>2
<1>3. Nat \subseteq D
  <2> HIDE DEF D
  <2> QED BY <1>1, <1>2, Upward
<1>4. \A k \in 0 .. n : g[k] \in S
  BY ONLY <1>0, <1>3
<1>5. g \in [0 .. n -> S]
  BY ONLY <1>4, DOMAIN g = 0 .. n, g = [k \in DOMAIN g |-> g[k]]
<1>6. ASSUME NEW k \in 1 .. n PROVE g[k] = G[g[k - 1]][k]
  <2>1. k - 1 \in 0 .. n
    BY ONLY <1>0, k \in 1 .. n
  <2>2. g[k - 1] \in S => g[k] = G[g[k - 1]][k]
    OBVIOUS
  <2> QED BY ONLY <1>4, <2>1, <2>2
<1> QED BY <1>5, <1>6 DEF Turned

(* The instructions at some positions, in order.                           *)
Picked(g, S, is, ks) ==
  /\ g \in [0 .. Len(is) -> Seq(S)] /\ g[0] = << >>
  /\ \A k \in 1 .. Len(is) : g[k] = IF k \in ks THEN Append(g[k - 1], is[k]) ELSE g[k - 1]
  /\ Only(is, ks) = g[Len(is)]

LEMMA OnlyTurns ==
  ASSUME NEW S, NEW is \in Seq(S), NEW ks
  PROVE  \E g : Picked(g, S, is, ks)
<1> DEFINE n == Len(is)
           Z == Seq(S)
           step(z, k) == IF k \in ks THEN Append(z, is[k]) ELSE z
           G == [z \in Z |-> [k \in Nat |-> IF k \in 1 .. n THEN step(z, k) ELSE z]]
           Is(g) == g = [k \in 0 .. n |-> IF k = 0 THEN << >> ELSE step(g[k - 1], k)]
<1>1. n \in Nat /\ \A k \in 1 .. n : is[k] \in S
  OBVIOUS
<1>2. G \in [Z -> [Nat -> Z]] /\ << >> \in Z
  <2>1. ASSUME NEW z \in Z, NEW k \in Nat PROVE (IF k \in 1 .. n THEN step(z, k) ELSE z) \in Z
    <3>1. k \in 1 .. n => Append(z, is[k]) \in Z
      BY <1>1
    <3> QED BY <3>1
  <2> HIDE DEF Z, step
  <2>2. << >> \in Z
    BY DEF Z
  <2> QED BY <2>1, <2>2
<1>3. \A z \in Z : \A k \in 1 .. n : G[z][k] = step(z, k)
  OBVIOUS
<1>4. Only(is, ks) = (CHOOSE g : Is(g))[n]
  BY DEF Only, Iterated
<1>5. \A g : Is(g) <=> g = [k \in 0 .. n |-> IF k = 0 THEN << >> ELSE step(g[k - 1], k)]
  OBVIOUS
<1> HIDE DEF Z, G, Is, n
<1>6. PICK h : Turned(h, Z, << >>, G, n)
  BY <1>1, <1>2, Turns
<1>7. h \in [0 .. n -> Z] /\ h[0] = << >> /\ \A k \in 1 .. n : h[k] = step(h[k - 1], k)
  <2>1. h \in [0 .. n -> Z] /\ h[0] = << >> /\ \A k \in 1 .. n : h[k] = G[h[k - 1]][k]
    BY <1>6 DEF Turned
  <2>2. ASSUME NEW k \in 1 .. n PROVE h[k] = step(h[k - 1], k)
    <3>1. k - 1 \in 0 .. n
      BY <1>1
    <3>2. h[k - 1] \in Z
      BY <2>1, <3>1
    <3> HIDE DEF step
    <3> QED BY <1>3, <2>1, <3>2
  <2> QED BY <2>1, <2>2
<1> HIDE DEF step
<1>8. Is(h)
  <2>1. ASSUME NEW k \in 0 .. n PROVE h[k] = IF k = 0 THEN << >> ELSE step(h[k - 1], k)
    <3>1. k # 0 => k \in 1 .. n
      BY <1>1
    <3> QED BY <1>7, <3>1
  <2> QED BY <1>5, <1>7, <2>1
<1>9. PICK g : Is(g) /\ Only(is, ks) = g[n]
  BY <1>4, <1>8
<1>10. g = [k \in 0 .. n |-> IF k = 0 THEN << >> ELSE step(g[k - 1], k)]
  BY <1>5, <1>9
<1>11. DOMAIN g = 0 .. n /\ g[0] = << >> /\ \A k \in 1 .. n : g[k] = step(g[k - 1], k)
  BY <1>1, <1>10
<1>12. Turned(g, Z, << >>, G, n)
  <2>1. \A k \in 1 .. n : g[k - 1] \in Z => g[k] = G[g[k - 1]][k]
    BY <1>3, <1>11
  <2>2. g = [k \in DOMAIN g |-> g[k]]
    BY <1>10
  <2> QED BY <1>1, <1>2, <1>11, <2>1, <2>2, StaysIn
<1>13. g \in [0 .. n -> Z]
  BY <1>12 DEF Turned
<1>14. Picked(g, S, is, ks)
  BY <1>9, <1>11, <1>13 DEF n, Z, step, Picked
<1> QED BY <1>14

(* After k turns, at most k instructions, each from its position; if there *)
(* are k, they are the first k.                                            *)
LEMMA OnlyFacts ==
  ASSUME NEW S, NEW is \in Seq(S), NEW ks
  PROVE  /\ Only(is, ks) \in Seq(S) /\ Len(Only(is, ks)) =< Len(is)
         /\ \A j \in DOMAIN Only(is, ks) : \E k \in DOMAIN is \cap ks : Only(is, ks)[j] = is[k]
         /\ Len(Only(is, ks)) = Len(is) => Only(is, ks) = is /\ DOMAIN is \subseteq ks
         /\ DOMAIN is \subseteq ks => Only(is, ks) = is
<1>0. PICK g : Picked(g, S, is, ks)
  BY OnlyTurns
<1> DEFINE n == Len(is)
           From(o, k) == /\ Len(o) =< k
                         /\ \A j \in 1 .. Len(o) : \E i \in 1 .. k : i \in ks /\ o[j] = is[i]
                         /\ Len(o) = k => \A j \in 1 .. k : o[j] = is[j] /\ j \in ks
                         /\ 1 .. k \subseteq ks => Len(o) = k
<1>2. n \in Nat /\ DOMAIN is = 1 .. n /\ \A k \in 1 .. n : is[k] \in S
  OBVIOUS
<1>1. /\ g \in [0 .. n -> Seq(S)] /\ g[0] = << >>
      /\ \A k \in 1 .. n :
           g[k] = IF k \in ks THEN Append(g[k - 1], is[k]) ELSE g[k - 1]
      /\ Only(is, ks) = g[n]
  BY <1>0 DEF Picked
<1> HIDE DEF n
<1> DEFINE D == {k \in Nat : k =< n => From(g[k], k)}
<1>3. 0 \in D
  BY <1>1
<1>4. ASSUME NEW k \in Nat, k \in D PROVE k + 1 \in D
  <2>1. CASE k + 1 =< n
    <3>1. k + 1 \in 1 .. n /\ (k + 1) - 1 = k /\ k =< n /\ k \in 0 .. n /\ k + 1 \in Nat
      BY ONLY k \in Nat, <1>2, <2>1
    <3> DEFINE o == g[k]
               p == g[k + 1]
               x == is[k + 1]
    <3>2. From(o, k) /\ o \in Seq(S) /\ x \in S
      BY <1>1, <1>2, <1>4, <3>1
    <3>3. p = IF k + 1 \in ks THEN Append(o, x) ELSE o
      BY <1>1, <3>1
    <3> HIDE DEF o, p, x
    <3>4. CASE k + 1 \in ks
      <4>1. /\ Len(p) = Len(o) + 1 /\ p[Len(o) + 1] = x /\ Len(o) \in Nat
            /\ \A j \in 1 .. Len(o) : p[j] = o[j]
        BY <3>2, <3>3, <3>4
      <4>2. Len(p) =< k + 1
        BY <3>1, <3>2, <4>1
      <4>3. ASSUME NEW j \in 1 .. Len(p) PROVE \E i \in 1 .. k + 1 : i \in ks /\ p[j] = is[i]
        <5>1. CASE j = Len(o) + 1
          BY <3>1, <3>4, <4>1, <5>1 DEF x
        <5>2. CASE j # Len(o) + 1
          <6>1. j \in 1 .. Len(o)
            BY <4>1, <5>2
          <6>2. PICK i \in 1 .. k : i \in ks /\ o[j] = is[i]
            BY <3>2, <6>1
          <6>3. i \in 1 .. k + 1
            BY <3>1
          <6> QED BY <4>1, <6>1, <6>2, <6>3
        <5> QED BY <5>1, <5>2
      <4>4. ASSUME Len(p) = k + 1, NEW j \in 1 .. k + 1 PROVE p[j] = is[j] /\ j \in ks
        <5>1. Len(o) = k
          BY <3>1, <4>1, <4>4
        <5>2. CASE j = k + 1
          BY <3>4, <4>1, <5>1, <5>2 DEF x
        <5>3. CASE j # k + 1
          <6>1. j \in 1 .. k
            BY <3>1, <5>3
          <6> QED BY <3>2, <4>1, <5>1, <6>1
        <5> QED BY <5>2, <5>3
      <4>5. ASSUME 1 .. k + 1 \subseteq ks PROVE Len(p) = k + 1
        <5>1. 1 .. k \subseteq ks
          BY <3>1, <4>5
        <5> QED BY <3>2, <4>1, <5>1
      <4>6. From(p, k + 1)
        BY <4>2, <4>3, <4>4, <4>5
      <4> QED BY <3>1, <4>6 DEF p
    <3>5. CASE k + 1 \notin ks
      <4>1. p = o /\ Len(o) =< k /\ Len(o) \in Nat
        BY <3>2, <3>3, <3>5
      <4>2. Len(p) =< k + 1 /\ Len(p) # k + 1
        BY <3>1, <4>1
      <4>3. ASSUME NEW j \in 1 .. Len(p) PROVE \E i \in 1 .. k + 1 : i \in ks /\ p[j] = is[i]
        <5>1. PICK i \in 1 .. k : i \in ks /\ o[j] = is[i]
          BY <3>2, <4>1
        <5>2. i \in 1 .. k + 1
          BY <3>1
        <5> QED BY <4>1, <5>1, <5>2
      <4>4. From(p, k + 1)
        <5>1. ~(1 .. k + 1 \subseteq ks)
          BY <3>1, <3>5
        <5> QED BY <4>2, <4>3, <5>1
      <4> QED BY <3>1, <4>4 DEF p
    <3> QED BY <3>4, <3>5
  <2>2. CASE ~(k + 1 =< n)
    BY ONLY <2>2, k \in Nat
  <2> QED BY <2>1, <2>2
<1>5. Nat \subseteq D
  <2> HIDE DEF D
  <2> QED BY <1>3, <1>4, Upward
<1> DEFINE o == Only(is, ks)
<1>6. o = g[n] /\ o \in Seq(S)
  <2>1. n \in 0 .. n
    BY <1>2
  <2> QED BY <1>1, <2>1
<1> HIDE DEF o
<1>7. DOMAIN o = 1 .. Len(o) /\ o \in Seq(S) /\ From(o, n)
  <2>1. From(g[n], n)
    <3> HIDE DEF From
    <3> QED BY <1>2, <1>5
  <2>2. From(o, n)
    BY ONLY <1>6, <2>1
  <2> QED BY ONLY <1>6, <2>2
<1> HIDE DEF D
<1>8. Len(o) = n => o = is /\ DOMAIN is \subseteq ks
  BY <1>2, <1>7
<1>9. \A j \in DOMAIN o : \E k \in DOMAIN is \cap ks : o[j] = is[k]
  BY <1>2, <1>7
<1>10. DOMAIN is \subseteq ks => o = is
  BY <1>2, <1>7, <1>8
<1> QED BY <1>7, <1>8, <1>9, <1>10 DEF o, n

-----------------------------------------------------------------------------
(* Well-formed functions by their parts.                                   *)

(* A division marked unsigned is by a constant that has an unsigned magic  *)
(* number.  That is so as long as no divisor has been put into a vreg;     *)
(* `how` says whether it is to be so.                                      *)
MarkedExactly(in) ==
  in.unsignedDiv /\ in.op \in {"Div", "Mod"} => ~IsReg(in.b) /\ in.b.n \in 3 .. Half - 1

AsMarked(in, how) == how = "exact" => MarkedExactly(in)

Formed(f, how) ==
  /\ IsIRFunc(f)
  /\ \A b \in Blocks(f) : \A k \in DOMAIN f.blocks[b].insts : AsMarked(f.blocks[b].insts[k], how)

(* The instructions a function over the vregs vs may have, and its blocks. *)
Fine(vs, how) ==
  {in \in Insts(vs) : /\ in.op \notin {"StoreGlobal", "Call"} => in.dst # NoReg
                      /\ in.op = "StoreGlobal" => in.dst = NoReg
                      /\ AsMarked(in, how)}

FineBlocks(vs, n, how) ==
  {bb \in BasicBlocks(vs) : bb.insts \in Seq(Fine(vs, how)) /\ Succs(bb) \subseteq 0 .. n - 1}

LEMMA FineWider ==
  ASSUME NEW vs, NEW how, NEW ws, vs \subseteq ws, NEW n
  PROVE  Vals(vs) \subseteq Vals(ws) /\ Fine(vs, how) \subseteq Fine(ws, how)
         /\ FineBlocks(vs, n, how) \subseteq FineBlocks(ws, n, how)
<1>1. Vals(vs) \subseteq Vals(ws)
  BY DEF Vals
<1>2. Insts(vs) \subseteq Insts(ws)
  <2>1. \A x \in Seq(Vals(vs)) : x \in Seq(Vals(ws))
    BY <1>1
  <2> QED BY <1>1, <2>1 DEF Insts
<1>3. Fine(vs, how) \subseteq Fine(ws, how)
  BY <1>2 DEF Fine
<1>4. BasicBlocks(vs) \subseteq BasicBlocks(ws)
  <2>1. \A x \in Seq(Insts(vs)) : x \in Seq(Insts(ws))
    BY <1>2
  <2> QED BY <1>1, <2>1 DEF BasicBlocks
<1>5. \A x \in Seq(Fine(vs, how)) : x \in Seq(Fine(ws, how))
  BY <1>3
<1> QED BY <1>1, <1>3, <1>4, <1>5 DEF FineBlocks

LEMMA FunctionParts ==
  ASSUME NEW f, NEW how, Formed(f, how)
  PROVE  /\ DOMAIN f = {"numVregs", "params", "nb", "blocks"}
         /\ f.numVregs \in Nat /\ f.nb \in Nat \ {0} /\ f.params \in Seq(Vregs(f))
         /\ f.blocks = [b \in Blocks(f) |-> f.blocks[b]]
         /\ \A b \in Blocks(f) : f.blocks[b] \in FineBlocks(Vregs(f), f.nb, how)
         /\ \A i, j \in DOMAIN f.params : f.params[i] = f.params[j] => i = j
<1>1. ASSUME NEW b \in Blocks(f) PROVE f.blocks[b] \in FineBlocks(Vregs(f), f.nb, how)
  <2> DEFINE bb == f.blocks[b]
  <2>1. bb \in BasicBlocks(Vregs(f)) /\ bb.insts \in Seq(Insts(Vregs(f)))
        /\ Succs(bb) \subseteq Blocks(f)
    BY BlockFacts DEF Formed
  <2>2. \A k \in DOMAIN bb.insts : bb.insts[k] \in Fine(Vregs(f), how)
    <3>1. /\ \A k \in DOMAIN bb.insts :
                /\ bb.insts[k].op \notin {"StoreGlobal", "Call"} => bb.insts[k].dst # NoReg
                /\ bb.insts[k].op = "StoreGlobal" => bb.insts[k].dst = NoReg
          /\ \A k \in DOMAIN bb.insts : AsMarked(bb.insts[k], how)
      BY DEF Formed, IsIRFunc
    <3> HIDE DEF bb
    <3> QED BY <2>1, <3>1 DEF Fine
  <2> HIDE DEF bb
  <2>3. bb.insts \in Seq(Fine(Vregs(f), how))
    BY <2>1, <2>2
  <2>4. bb \in FineBlocks(Vregs(f), f.nb, how)
    BY <2>1, <2>3 DEF FineBlocks, Blocks
  <2> QED BY <2>4 DEF bb
<1> QED BY <1>1 DEF Formed, IsIRFunc

(* A function of such parts, with the parameters of f, is well formed.     *)
StaysFunc(g, f, how) == Formed(g, how) /\ g.nb = f.nb /\ g.params = f.params

LEMMA FunctionOfParts ==
  ASSUME NEW f, NEW how, Formed(f, how), NEW g, DOMAIN g = DOMAIN f, g.nb = f.nb, g.params = f.params,
         g.numVregs \in Nat, g.numVregs >= f.numVregs,
         g.blocks = [b \in Blocks(f) |-> g.blocks[b]],
         \A b \in Blocks(f) : g.blocks[b] \in FineBlocks(Vregs(g), f.nb, how)
  PROVE  StaysFunc(g, f, how)
<1>1. /\ DOMAIN f = {"numVregs", "params", "nb", "blocks"}
      /\ f.numVregs \in Nat /\ f.nb \in Nat \ {0} /\ f.params \in Seq(Vregs(f))
      /\ \A i, j \in DOMAIN f.params : f.params[i] = f.params[j] => i = j
  BY FunctionParts
<1>2. Vregs(f) \subseteq Vregs(g) /\ Blocks(g) = Blocks(f)
  BY <1>1 DEF Vregs, Blocks
<1>3. g.params \in Seq(Vregs(g))
  BY <1>1, <1>2
<1>4. ASSUME NEW b \in Blocks(f)
      PROVE  /\ g.blocks[b] \in BasicBlocks(Vregs(g)) /\ Succs(g.blocks[b]) \subseteq Blocks(g)
             /\ \A i \in DOMAIN g.blocks[b].insts :
                  LET in == g.blocks[b].insts[i]
                  IN  /\ in.op \notin {"StoreGlobal", "Call"} => in.dst # NoReg
                      /\ in.op = "StoreGlobal" => in.dst = NoReg
                      /\ AsMarked(in, how)
  <2> DEFINE bb == g.blocks[b]
  <2>1. bb \in FineBlocks(Vregs(g), f.nb, how)
    OBVIOUS
  <2> HIDE DEF bb
  <2>2. bb \in BasicBlocks(Vregs(g)) /\ Succs(bb) \subseteq Blocks(g)
        /\ bb.insts \in Seq(Fine(Vregs(g), how))
    BY <1>2, <2>1 DEF FineBlocks, Blocks
  <2>3. \A i \in DOMAIN bb.insts : bb.insts[i] \in Fine(Vregs(g), how)
    BY <2>2
  <2>4. \A i \in DOMAIN bb.insts :
          LET in == bb.insts[i]
          IN  /\ in.op \notin {"StoreGlobal", "Call"} => in.dst # NoReg
              /\ in.op = "StoreGlobal" => in.dst = NoReg
              /\ AsMarked(in, how)
    BY <2>3 DEF Fine
  <2> QED BY <2>2, <2>4 DEF bb
<1>5. g.blocks \in [Blocks(g) -> BasicBlocks(Vregs(g))]
  BY <1>2, <1>4
<1>6. \A i, j \in DOMAIN g.params : g.params[i] = g.params[j] => i = j
  BY <1>1
<1>7. IsIRFunc(g)
  BY <1>1, <1>2, <1>3, <1>4, <1>5, <1>6 DEF IsIRFunc
<1>8. Formed(g, how)
  BY <1>2, <1>4, <1>7 DEF Formed
<1> QED BY <1>8 DEF StaysFunc

(* A block keeps its form under other instructions.                        *)
LEMMA BlockOf ==
  ASSUME NEW vs, NEW how, NEW n, NEW bb \in FineBlocks(vs, n, how), NEW is \in Seq(Fine(vs, how))
  PROVE  [bb EXCEPT !.insts = is] \in FineBlocks(vs, n, how)
<1> DEFINE cc == [bb EXCEPT !.insts = is]
<1>1. bb \in BasicBlocks(vs) /\ Succs(bb) \subseteq 0 .. n - 1
  BY DEF FineBlocks
<1>2. is \in Seq(Insts(vs))
  <2>1. Fine(vs, how) \subseteq Insts(vs)
    BY DEF Fine
  <2> QED BY <2>1
<1>3. cc \in BasicBlocks(vs) /\ cc.insts = is
  BY <1>1, <1>2 DEF BasicBlocks
<1>4. cc.term = bb.term /\ cc.succ0 = bb.succ0 /\ cc.succ1 = bb.succ1
  BY <1>1 DEF BasicBlocks
<1>5. Succs(cc) = Succs(bb)
  BY <1>4 DEF Succs
<1> HIDE DEF cc
<1>6. cc \in FineBlocks(vs, n, how)
  BY <1>1, <1>3, <1>5 DEF FineBlocks
<1> QED BY <1>6 DEF cc

(* What a block of a well-formed function is made of.                      *)
LEMMA PartsOf ==
  ASSUME NEW f, NEW how, Formed(f, how), NEW b \in Blocks(f)
  PROVE  /\ f.blocks[b].insts \in Seq(Fine(Vregs(f), how))
         /\ DOMAIN f.blocks[b].insts = 1 .. Len(f.blocks[b].insts)
         /\ Len(f.blocks[b].insts) \in Nat
         /\ \A k \in DOMAIN f.blocks[b].insts : f.blocks[b].insts[k] \in Fine(Vregs(f), how)
<1>1. f.blocks[b] \in FineBlocks(Vregs(f), f.nb, how)
  BY FunctionParts
<1> DEFINE is == f.blocks[b].insts
<1>2. is \in Seq(Fine(Vregs(f), how))
  BY <1>1 DEF FineBlocks
<1> HIDE DEF is
<1>3. /\ is \in Seq(Fine(Vregs(f), how)) /\ DOMAIN is = 1 .. Len(is) /\ Len(is) \in Nat
      /\ \A k \in DOMAIN is : is[k] \in Fine(Vregs(f), how)
  BY <1>2
<1> QED BY <1>3 DEF is

(* Other instructions in every block leave a well-formed function.         *)
LEMMA Rebodied ==
  ASSUME NEW f, NEW how, Formed(f, how), NEW h, \A b \in Blocks(f) : h[b] \in Seq(Fine(Vregs(f), how)),
         NEW g,
         g = [f EXCEPT !.blocks = [b \in Blocks(f) |-> [f.blocks[b] EXCEPT !.insts = h[b]]]]
  PROVE  /\ StaysFunc(g, f, how) /\ g.numVregs = f.numVregs
         /\ \A b \in Blocks(f) : g.blocks[b] = [f.blocks[b] EXCEPT !.insts = h[b]]
<1>1. /\ DOMAIN f = {"numVregs", "params", "nb", "blocks"} /\ f.numVregs \in Nat
      /\ \A b \in Blocks(f) : f.blocks[b] \in FineBlocks(Vregs(f), f.nb, how)
  BY FunctionParts
<1>2. /\ DOMAIN g = DOMAIN f /\ g.nb = f.nb /\ g.params = f.params /\ g.numVregs = f.numVregs
      /\ g.blocks = [b \in Blocks(f) |-> [f.blocks[b] EXCEPT !.insts = h[b]]]
  BY <1>1
<1>3. Vregs(g) = Vregs(f)
  BY <1>2 DEF Vregs
<1>4. \A b \in Blocks(f) : g.blocks[b] = [f.blocks[b] EXCEPT !.insts = h[b]]
  BY <1>2
<1>5. \A b \in Blocks(f) : g.blocks[b] \in FineBlocks(Vregs(g), f.nb, how)
  BY <1>1, <1>3, <1>4, BlockOf
<1>6. g.blocks = [b \in Blocks(f) |-> g.blocks[b]]
  BY <1>2
<1>7. StaysFunc(g, f, how)
  <2>1. g.numVregs \in Nat /\ g.numVregs >= f.numVregs
    BY <1>1, <1>2
  <2> QED BY ONLY <1>2, <1>5, <1>6, <2>1, FunctionOfParts, Formed(f, how)
<1> QED BY <1>2, <1>4, <1>7

-----------------------------------------------------------------------------
(* Passes that put one instruction in the place of another.                *)
LEMMA SitesAre ==
  ASSUME NEW f
  PROVE  /\ \A b \in Blocks(f) : \A k \in DOMAIN f.blocks[b].insts :
              <<b, k>> \in Sites(f) /\ At(f, <<b, k>>) = f.blocks[b].insts[k]
         /\ \A p \in Sites(f) : /\ p = <<p[1], p[2]>> /\ p[1] \in Blocks(f)
                                /\ p[2] \in DOMAIN f.blocks[p[1]].insts
BY DEF Sites, At

LEMMA SiteFacts ==
  ASSUME NEW f, NEW how, Formed(f, how), NEW p \in Sites(f)
  PROVE  At(f, p) \in Fine(Vregs(f), how)
<1>1. p[1] \in Blocks(f) /\ p[2] \in DOMAIN f.blocks[p[1]].insts
  BY SitesAre
<1> QED BY <1>1, PartsOf DEF At

LEMMA RewrittenFacts ==
  ASSUME NEW f, NEW how, Formed(f, how), NEW new, \A p \in Sites(f) : new[p] \in Fine(Vregs(f), how)
  PROVE  /\ StaysFunc(Rewritten(f, new), f, how) /\ Rewritten(f, new).numVregs = f.numVregs
         /\ \A b \in Blocks(f) :
              Rewritten(f, new).blocks[b] =
                [f.blocks[b] EXCEPT !.insts = [k \in DOMAIN f.blocks[b].insts |-> new[<<b, k>>]]]
<1> DEFINE h == [b \in Blocks(f) |-> [k \in DOMAIN f.blocks[b].insts |-> new[<<b, k>>]]]
           g == Rewritten(f, new)
<1>1. ASSUME NEW b \in Blocks(f) PROVE h[b] \in Seq(Fine(Vregs(f), how))
  <2>1. /\ DOMAIN f.blocks[b].insts = 1 .. Len(f.blocks[b].insts)
        /\ Len(f.blocks[b].insts) \in Nat
    BY PartsOf
  <2>2. \A k \in DOMAIN f.blocks[b].insts : new[<<b, k>>] \in Fine(Vregs(f), how)
    BY SitesAre
  <2> DEFINE is == f.blocks[b].insts
             F == Fine(Vregs(f), how)
             o == [k \in DOMAIN is |-> new[<<b, k>>]]
  <2>3. h[b] = o /\ DOMAIN is = 1 .. Len(is) /\ Len(is) \in Nat
    BY <2>1
  <2>4. \A k \in DOMAIN is : new[<<b, k>>] \in F
    BY <2>2
  <2> HIDE DEF is, F
  <2>5. o \in Seq(F)
    BY <2>3, <2>4
  <2> QED BY <2>3, <2>5 DEF F
<1>2. g = [f EXCEPT !.blocks = [b \in Blocks(f) |-> [f.blocks[b] EXCEPT !.insts = h[b]]]]
  <2>1. \A b \in Blocks(f) : h[b] = [k \in DOMAIN f.blocks[b].insts |-> new[<<b, k>>]]
    OBVIOUS
  <2> HIDE DEF h
  <2>2. [b \in Blocks(f) |-> [f.blocks[b] EXCEPT !.insts = h[b]]] =
        [b \in Blocks(f) |-> [f.blocks[b] EXCEPT !.insts =
           [k \in DOMAIN f.blocks[b].insts |-> new[<<b, k>>]]]]
    BY <2>1
  <2> QED BY <2>2 DEF Rewritten
<1>3. \A b \in Blocks(f) : h[b] = [k \in DOMAIN f.blocks[b].insts |-> new[<<b, k>>]]
  OBVIOUS
<1> HIDE DEF h, g
<1>4. /\ StaysFunc(g, f, how) /\ g.numVregs = f.numVregs
      /\ \A b \in Blocks(f) : g.blocks[b] = [f.blocks[b] EXCEPT !.insts = h[b]]
  BY <1>1, <1>2, Rebodied
<1> QED BY <1>3, <1>4 DEF g

(* What a fine instruction is made of.                                     *)
LEMMA FineFacts ==
  ASSUME NEW vs, NEW how, NEW in \in Fine(vs, how)
  PROVE  /\ in.op \in Ops /\ in.a \in Vals(vs) /\ in.b \in Vals(vs) /\ in.dst \in vs \cup {NoReg}
         /\ in.magic \in vs \cup {NoReg} /\ in.args \in Seq(Vals(vs))
         /\ DOMAIN in = {"op", "dst", "a", "b", "args", "callee", "gid", "magic", "unsignedDiv"}
         /\ in.callee \in Nat /\ in.gid \in Nat /\ in.unsignedDiv \in BOOLEAN
         /\ in.op \notin {"StoreGlobal", "Call"} => in.dst # NoReg /\ in.dst \in vs
         /\ in.op = "StoreGlobal" => in.dst = NoReg
BY DEF Fine, Insts

LEMMA ValFacts ==
  ASSUME NEW vs, NEW val \in Vals(vs)
  PROVE  /\ IsReg(val) => val.n \in vs /\ val = Reg(val.n)
         /\ ~IsReg(val) => val.n \in Words /\ val = Imm(val.n)
BY DEF Vals, IsReg, Reg, Imm

LEMMA ValsMade ==
  ASSUME NEW vs
  PROVE  /\ \A n \in Words : Imm(n) \in Vals(vs) /\ ~IsReg(Imm(n)) /\ Imm(n).n = n
         /\ \A v \in vs : Reg(v) \in Vals(vs) /\ IsReg(Reg(v)) /\ Reg(v).n = v
BY DEF Vals, Imm, Reg, IsReg

LEMMA SmallWords == 0 \in Words /\ 1 \in Words /\ -1 \in Words /\ 2 * Half \in Nat
BY HalfAssumption DEF Words

(* Folding: every result is a move or a negation to the same vreg.         *)
LEMMA MovedFine ==
  ASSUME NEW vs, NEW how, NEW in \in Fine(vs, how), in.op \notin {"StoreGlobal", "Call"}, NEW val \in Vals(vs)
  PROVE  Moved(in, val) \in Fine(vs, how) /\ Negated(in, val) \in Fine(vs, how)
<1>1. Imm(0) \in Vals(vs)
  BY SmallWords, ValsMade
<1>2. "Mv" \in Ops /\ "Neg" \in Ops
  BY DEF Ops, UnaryOps
<1>3. in \in Insts(vs) /\ in.dst # NoReg
  BY DEF Fine
<1>4. Moved(in, val) \in Insts(vs) /\ Moved(in, val).op = "Mv" /\ Moved(in, val).dst # NoReg
  BY <1>1, <1>2, <1>3 DEF Moved, Insts
<1>5. Negated(in, val) \in Insts(vs) /\ Negated(in, val).op = "Neg" /\ Negated(in, val).dst # NoReg
  BY <1>1, <1>2, <1>3 DEF Negated, Insts
<1>6. AsMarked(Moved(in, val), how) /\ AsMarked(Negated(in, val), how)
  BY <1>4, <1>5 DEF AsMarked, MarkedExactly
<1>7. Moved(in, val).op \notin {"StoreGlobal", "Call"} /\ Negated(in, val).op \notin {"StoreGlobal", "Call"}
  BY <1>4, <1>5
<1>8. Moved(in, val).op # "StoreGlobal" /\ Negated(in, val).op # "StoreGlobal"
  BY <1>4, <1>5
<1> QED BY <1>4, <1>5, <1>6, <1>7, <1>8 DEF Fine

LEMMA FoldFine ==
  ASSUME NEW vs, NEW how, NEW in \in Fine(vs, how)
  PROVE  Fold(in) \in Fine(vs, how)
<1>1. in.a \in Vals(vs) /\ in.b \in Vals(vs) /\ in.op \in Ops
  BY FineFacts
<1>2. Imm(0) \in Vals(vs) /\ Imm(1) \in Vals(vs)
  BY SmallWords, ValsMade
<1>3. in.op \in BinaryOps \cup {"Neg", "Not"} => in.op \notin {"StoreGlobal", "Call"}
  BY DEF BinaryOps
<1>4. ASSUME in.op \in BinaryOps, ~IsReg(in.a), ~IsReg(in.b)
      PROVE  FoldConstants(in) \in Fine(vs, how)
  <2>1. in.a.n \in Words /\ in.b.n \in Words
    BY <1>1, <1>4, ValFacts
  <2>2. EvalBinary(in.op, in.a.n, in.b.n) \in Words
    BY <1>4, <2>1, EvalType
  <2>3. Imm(EvalBinary(in.op, in.a.n, in.b.n)) \in Vals(vs)
    BY <2>2, ValsMade
  <2>4. Moved(in, Imm(EvalBinary(in.op, in.a.n, in.b.n))) \in Fine(vs, how)
    BY <1>3, <1>4, <2>3, MovedFine
  <2> QED BY <2>4 DEF FoldConstants
<1>5. ASSUME in.op \in BinaryOps PROVE Identity(in) \in Fine(vs, how)
  <2>1. \A val \in Vals(vs) : Moved(in, val) \in Fine(vs, how) /\ Negated(in, val) \in Fine(vs, how)
    BY <1>3, <1>5, MovedFine
  <2>2. /\ Moved(in, in.a) \in Fine(vs, how) /\ Moved(in, in.b) \in Fine(vs, how)
        /\ Moved(in, Imm(0)) \in Fine(vs, how) /\ Moved(in, Imm(1)) \in Fine(vs, how)
        /\ Negated(in, in.a) \in Fine(vs, how) /\ Negated(in, in.b) \in Fine(vs, how)
    BY <1>1, <1>2, <2>1
  <2> QED BY <2>2, Zenon DEF Identity
<1>6. ASSUME in.op \in {"Neg", "Not"}, ~IsReg(in.a)
      PROVE  Moved(in, Imm(EvalUnary(in.op, in.a.n))) \in Fine(vs, how)
  <2>1. in.a.n \in Words /\ in.op \in UnaryOps
    BY <1>1, <1>6, ValFacts DEF UnaryOps
  <2>2. EvalUnary(in.op, in.a.n) \in Words
    BY <2>1, EvalType
  <2>3. Imm(EvalUnary(in.op, in.a.n)) \in Vals(vs)
    BY <2>2, ValsMade
  <2> QED BY <1>3, <1>6, <2>3, MovedFine
<1> QED BY <1>4, <1>5, <1>6, Zenon DEF Fold

LEMMA ConstFoldStays ==
  ASSUME NEW f, NEW how, Formed(f, how)
  PROVE  StaysFunc(ConstFold(f), f, how)
<1> DEFINE new == [p \in Sites(f) |-> Fold(At(f, p))]
<1>1. \A p \in Sites(f) : new[p] \in Fine(Vregs(f), how)
  BY SiteFacts, FoldFine
<1>2. ConstFold(f) = Rewritten(f, new)
  BY DEF ConstFold
<1> HIDE DEF new
<1> QED BY <1>1, <1>2, RewrittenFacts

LEMMA MarkedFine ==
  ASSUME NEW vs, NEW how, NEW in \in Fine(vs, how), NEW ws
  PROVE  Marked(in, ws) \in Fine(vs, how)
<1> DEFINE new == [in EXCEPT !.unsignedDiv = TRUE]
<1>1. in \in Insts(vs) /\ in.b \in Vals(vs)
  BY DEF Fine, Insts
<1>2. /\ new \in Insts(vs) /\ new.op = in.op /\ new.b = in.b /\ new.dst = in.dst
  BY <1>1 DEF Insts
<1>3. ASSUME ~IsReg(in.b), in.b.n > 0, NeedsMagic(in.b.n) PROVE in.b.n \in 3 .. Half - 1
  <2>1. in.b.n \in Words /\ Half \in Nat
    BY <1>1, <1>3, ValFacts, HalfAssumption
  <2> QED BY <1>3, <2>1 DEF NeedsMagic, Magnitude, Words
<1> HIDE DEF new
<1>4. ASSUME ~IsReg(in.b), in.b.n > 0, NeedsMagic(in.b.n) PROVE new \in Fine(vs, how)
  <2>1. AsMarked(new, how)
    BY <1>2, <1>3, <1>4 DEF AsMarked, MarkedExactly
  <2> QED BY <1>2, <2>1 DEF Fine
<1>5. Marked(in, ws) =
        IF /\ in.op \in {"Div", "Mod"} /\ ~IsReg(in.b) /\ in.b.n > 0 /\ NeedsMagic(in.b.n)
           /\ IF IsReg(in.a) THEN in.a.n \in ws ELSE in.a.n >= 0
        THEN new ELSE in
  BY DEF Marked, new
<1> QED BY <1>4, <1>5, Zenon

LEMMA MarkStays ==
  ASSUME NEW f, NEW how, Formed(f, how)
  PROVE  StaysFunc(MarkUnsignedDiv(f), f, how)
<1> DEFINE vs == NonNeg(f)
           new == [p \in Sites(f) |-> Marked(At(f, p), vs)]
<1>1. MarkUnsignedDiv(f) = Rewritten(f, new)
  BY DEF MarkUnsignedDiv
<1> HIDE DEF vs
<1>2. \A p \in Sites(f) : new[p] \in Fine(Vregs(f), how)
  BY SiteFacts, MarkedFine
<1> HIDE DEF new
<1> QED BY <1>1, <1>2, RewrittenFacts

-----------------------------------------------------------------------------
(* Passes that change terminators or leave instructions out.               *)
LEMMA ThreadedFine ==
  ASSUME NEW vs, NEW how, NEW n, NEW bb \in FineBlocks(vs, n, how)
  PROVE  Threaded(bb) \in FineBlocks(vs, n, how)
<1> DEFINE t == IF bb.cond.n # 0 THEN bb.succ0 ELSE bb.succ1
           cc == [bb EXCEPT !.term = "Jmp", !.succ0 = t, !.succ1 = NoReg, !.cond = Imm(0)]
<1>1. Threaded(bb) = IF bb.term = "Br" /\ ~IsReg(bb.cond) THEN cc ELSE bb
  BY DEF Threaded
<1>2. bb \in BasicBlocks(vs) /\ bb.insts \in Seq(Fine(vs, how)) /\ Succs(bb) \subseteq 0 .. n - 1
  BY DEF FineBlocks
<1>3. Imm(0) \in Vals(vs) /\ NoReg \in Int
  BY SmallWords, ValsMade DEF NoReg
<1>4. bb.term = "Br" => t \in Succs(bb) /\ t \in Int
  BY <1>2 DEF Succs, BasicBlocks
<1> HIDE DEF t
<1>5. ASSUME bb.term = "Br" PROVE cc \in FineBlocks(vs, n, how)
  <2>1. cc \in BasicBlocks(vs) /\ cc.insts = bb.insts /\ cc.term = "Jmp" /\ cc.succ0 = t
    BY <1>2, <1>3, <1>4, <1>5 DEF BasicBlocks
  <2> HIDE DEF cc
  <2>2. Succs(cc) = {t}
    BY <2>1 DEF Succs
  <2> QED BY <1>2, <1>4, <1>5, <2>1, <2>2 DEF FineBlocks
<1> QED BY <1>1, <1>5

LEMMA ThreadingStays ==
  ASSUME NEW f, NEW how, Formed(f, how)
  PROVE  StaysFunc(JumpThreading(f), f, how)
<1> DEFINE g == JumpThreading(f)
<1>1. /\ DOMAIN f = {"numVregs", "params", "nb", "blocks"} /\ f.numVregs \in Nat
      /\ \A b \in Blocks(f) : f.blocks[b] \in FineBlocks(Vregs(f), f.nb, how)
      /\ f.blocks = [b \in Blocks(f) |-> f.blocks[b]]
  BY FunctionParts
<1>2. /\ DOMAIN g = DOMAIN f /\ g.nb = f.nb /\ g.params = f.params /\ g.numVregs = f.numVregs
      /\ g.blocks = [b \in Blocks(f) |-> Threaded(f.blocks[b])]
  BY <1>1 DEF JumpThreading
<1> HIDE DEF g
<1>3. \A b \in Blocks(f) : g.blocks[b] \in FineBlocks(Vregs(g), f.nb, how)
  <2>1. Vregs(g) = Vregs(f)
    BY <1>2 DEF Vregs
  <2> QED BY <1>1, <1>2, <2>1, ThreadedFine
<1>4. g.blocks = [b \in Blocks(f) |-> g.blocks[b]]
  BY <1>2
<1>5. g.numVregs \in Nat /\ g.numVregs >= f.numVregs
  BY <1>1, <1>2
<1>6. StaysFunc(g, f, how)
  BY ONLY <1>2, <1>3, <1>4, <1>5, FunctionOfParts, Formed(f, how)
<1> QED BY <1>6 DEF g

LEMMA EmptiedStays ==
  ASSUME NEW f, NEW how, Formed(f, how)
  PROVE  /\ StaysFunc(UnreachableElim(f), f, how) /\ UnreachableElim(f).numVregs = f.numVregs
         /\ \A b \in Blocks(f) :
              UnreachableElim(f).blocks[b] =
                IF b \in Reachable(f) THEN f.blocks[b] ELSE [f.blocks[b] EXCEPT !.insts = << >>]
<1> DEFINE g == UnreachableElim(f)
           R == Reachable(f)
<1>1. /\ DOMAIN f = {"numVregs", "params", "nb", "blocks"} /\ f.numVregs \in Nat
      /\ \A b \in Blocks(f) : f.blocks[b] \in FineBlocks(Vregs(f), f.nb, how)
      /\ f.blocks = [b \in Blocks(f) |-> f.blocks[b]]
  BY FunctionParts
<1>2. g = [f EXCEPT !.blocks = [b \in Blocks(f) |->
             IF b \in R THEN f.blocks[b] ELSE [f.blocks[b] EXCEPT !.insts = << >>]]]
  BY DEF UnreachableElim
<1> HIDE DEF R, g
<1>3. /\ DOMAIN g = DOMAIN f /\ g.nb = f.nb /\ g.params = f.params /\ g.numVregs = f.numVregs
      /\ g.blocks = [b \in Blocks(f) |->
             IF b \in R THEN f.blocks[b] ELSE [f.blocks[b] EXCEPT !.insts = << >>]]
  BY <1>1, <1>2
<1>4. \A b \in Blocks(f) : g.blocks[b] \in FineBlocks(Vregs(g), f.nb, how)
  <2>1. Vregs(g) = Vregs(f)
    BY <1>3 DEF Vregs
  <2>2. << >> \in Seq(Fine(Vregs(f), how))
    OBVIOUS
  <2>3. ASSUME NEW b \in Blocks(f) PROVE g.blocks[b] \in FineBlocks(Vregs(f), f.nb, how)
    <3> DEFINE bb == f.blocks[b]
               V == Vregs(f)
    <3>1. bb \in FineBlocks(V, f.nb, how) /\ << >> \in Seq(Fine(V, how))
      BY <1>1, <2>2
    <3>2. g.blocks[b] = IF b \in R THEN bb ELSE [bb EXCEPT !.insts = << >>]
      BY <1>3
    <3> HIDE DEF bb, V
    <3>3. [bb EXCEPT !.insts = << >>] \in FineBlocks(V, f.nb, how)
      BY <3>1, BlockOf
    <3>4. g.blocks[b] \in FineBlocks(V, f.nb, how)
      BY ONLY <3>1, <3>2, <3>3
    <3> QED BY <3>4 DEF V
  <2> QED BY <2>1, <2>3
<1>5. g.blocks = [b \in Blocks(f) |-> g.blocks[b]]
  BY <1>3
<1>6. g.numVregs \in Nat /\ g.numVregs >= f.numVregs
  BY <1>1, <1>3
<1>7. StaysFunc(g, f, how)
  BY ONLY <1>3, <1>4, <1>5, <1>6, FunctionOfParts, Formed(f, how)
<1> QED BY <1>3, <1>7 DEF g, R

LEMMA SweepStays ==
  ASSUME NEW f, NEW how, Formed(f, how)
  PROVE  /\ StaysFunc(SweepDead(f), f, how) /\ SweepDead(f).numVregs = f.numVregs
         /\ \A b \in Blocks(f) :
              SweepDead(f).blocks[b] =
                [f.blocks[b] EXCEPT !.insts = Only(f.blocks[b].insts,
                                                   Kept(f.blocks[b].insts, Read(f)))]
<1> DEFINE R == Read(f)
           h == [b \in Blocks(f) |-> Only(f.blocks[b].insts, Kept(f.blocks[b].insts, R))]
           g == SweepDead(f)
<1>1. ASSUME NEW b \in Blocks(f) PROVE h[b] \in Seq(Fine(Vregs(f), how))
  BY PartsOf, OnlyFacts
<1>2. g = [f EXCEPT !.blocks = [b \in Blocks(f) |-> [f.blocks[b] EXCEPT !.insts = h[b]]]]
  <2>1. \A b \in Blocks(f) : h[b] = Only(f.blocks[b].insts, Kept(f.blocks[b].insts, R))
    OBVIOUS
  <2>2. [b \in Blocks(f) |-> [f.blocks[b] EXCEPT !.insts = h[b]]] =
        [b \in Blocks(f) |-> [f.blocks[b] EXCEPT !.insts =
           Only(f.blocks[b].insts, Kept(f.blocks[b].insts, R))]]
    BY <2>1
  <2>3. g = [f EXCEPT !.blocks = [b \in Blocks(f) |-> [f.blocks[b] EXCEPT !.insts =
               Only(f.blocks[b].insts, Kept(f.blocks[b].insts, R))]]]
    BY DEF SweepDead
  <2> HIDE DEF h, g, R
  <2> QED BY ONLY <2>2, <2>3
<1>3. \A b \in Blocks(f) : h[b] = Only(f.blocks[b].insts, Kept(f.blocks[b].insts, R))
  OBVIOUS
<1> HIDE DEF h, g, R
<1>4. /\ StaysFunc(g, f, how) /\ g.numVregs = f.numVregs
      /\ \A b \in Blocks(f) : g.blocks[b] = [f.blocks[b] EXCEPT !.insts = h[b]]
  BY <1>1, <1>2, Rebodied
<1> QED BY <1>3, <1>4 DEF g, R

(* The well-formed functions with the blocks and parameters of f.          *)
Likenesses(f, how) ==
  {f} \cup
  {g \in [numVregs : Nat, params : {f.params}, nb : {f.nb}, blocks : [Blocks(f) -> BasicBlocks(Nat)]] :
     Formed(g, how)}

IsRecord(g) == g = [k \in DOMAIN g |-> g[k]]

LEMMA LikenessIs ==
  ASSUME NEW f, NEW how, Formed(f, how)
  PROVE  /\ \A g : StaysFunc(g, f, how) /\ IsRecord(g) => g \in Likenesses(f, how)
         /\ \A g \in Likenesses(f, how) : StaysFunc(g, f, how)
         /\ f \in Likenesses(f, how)
<1>1. ASSUME NEW g, StaysFunc(g, f, how), IsRecord(g) PROVE g \in Likenesses(f, how)
  <2>1. /\ IsIRFunc(g) /\ g.nb = f.nb /\ g.params = f.params
        /\ DOMAIN g = {"numVregs", "params", "nb", "blocks"} /\ g.numVregs \in Nat
        /\ g.blocks \in [Blocks(g) -> BasicBlocks(Vregs(g))]
    BY <1>1 DEF StaysFunc, Formed, IsIRFunc
  <2>2. Blocks(g) = Blocks(f)
    BY <2>1 DEF Blocks
  <2>3. BasicBlocks(Vregs(g)) \subseteq BasicBlocks(Nat)
    <3>1. Vregs(g) \subseteq Nat
      BY <2>1 DEF Vregs
    <3>2. Vals(Vregs(g)) \subseteq Vals(Nat)
      BY <3>1 DEF Vals
    <3>3. Insts(Vregs(g)) \subseteq Insts(Nat)
      <4>1. \A x \in Seq(Vals(Vregs(g))) : x \in Seq(Vals(Nat))
        BY <3>2
      <4> QED BY <3>1, <3>2, <4>1 DEF Insts
    <3>4. \A x \in Seq(Insts(Vregs(g))) : x \in Seq(Insts(Nat))
      BY <3>3
    <3> QED BY <3>2, <3>4 DEF BasicBlocks
  <2>4. g.blocks \in [Blocks(f) -> BasicBlocks(Nat)]
    BY <2>1, <2>2, <2>3
  <2>5. g \in [numVregs : Nat, params : {f.params}, nb : {f.nb},
               blocks : [Blocks(f) -> BasicBlocks(Nat)]]
    BY <1>1, <2>1, <2>4 DEF IsRecord
  <2> QED BY <1>1, <2>5 DEF Likenesses, StaysFunc
<1>2. ASSUME NEW g \in Likenesses(f, how) PROVE StaysFunc(g, f, how)
  BY DEF Likenesses, StaysFunc
<1> QED BY <1>1, <1>2 DEF Likenesses

LEMMA ExceptIsRecord ==
  ASSUME NEW f, NEW bs
  PROVE  IsRecord([f EXCEPT !.blocks = bs])
BY DEF IsRecord

-----------------------------------------------------------------------------
(* Dead code elimination sweeps until nothing is left to remove.           *)
LEMMA SweepLikeness ==
  ASSUME NEW f, NEW how, Formed(f, how), NEW g \in Likenesses(f, how)
  PROVE  SweepDead(g) \in Likenesses(f, how)
<1>1. StaysFunc(g, f, how)
  BY LikenessIs
<1>2. StaysFunc(SweepDead(g), g, how)
  BY <1>1, SweepStays DEF StaysFunc
<1>3. IsRecord(SweepDead(g))
  BY ExceptIsRecord DEF SweepDead
<1>4. StaysFunc(SweepDead(g), f, how)
  BY <1>1, <1>2 DEF StaysFunc
<1> QED BY <1>3, <1>4, LikenessIs

(* There are finitely many places.                                         *)
LEMMA SitesFinite ==
  ASSUME NEW f, IsIRFunc(f)
  PROVE  IsFiniteSet(Sites(f)) /\ Cardinality(Sites(f)) \in Nat
<1> DEFINE Row(b) == {<<b, k>> : k \in DOMAIN f.blocks[b].insts}
           rows == [b \in Blocks(f) |-> Row(b)]
           R == {Row(b) : b \in Blocks(f)}
<1>1. ASSUME NEW b \in Blocks(f) PROVE IsFiniteSet(Row(b))
  <2> DEFINE K == DOMAIN f.blocks[b].insts
  <2>1. IsFiniteSet(K)
    <3>1. K = 1 .. Len(f.blocks[b].insts) /\ Len(f.blocks[b].insts) \in Nat
      <4>1. Formed(f, "any")
        BY DEF Formed, AsMarked
      <4> QED BY <4>1, PartsOf
    <3> QED BY <3>1, FS_Interval
  <2> HIDE DEF K
  <2>2. IsFiniteSet({b} \X K)
    BY <2>1, FS_Product, FS_Singleton
  <2>3. Row(b) = {b} \X K
    BY DEF K
  <2> QED BY ONLY <2>2, <2>3
<1>2. IsFiniteSet(Blocks(f))
  <2>1. 0 \in Int /\ f.nb - 1 \in Int
    BY DEF IsIRFunc
  <2> QED BY <2>1, FS_Interval DEF Blocks
<1>3. rows \in Surjection(Blocks(f), R)
  BY DEF Surjection
<1>4. IsFiniteSet(R)
  <2> HIDE DEF rows, R
  <2> QED BY <1>2, <1>3, FS_Surjection
<1>5. \A T \in R : IsFiniteSet(T)
  BY <1>1
<1>6. Sites(f) = UNION R
  BY DEF Sites
<1> HIDE DEF R
<1>7. IsFiniteSet(Sites(f))
  BY <1>4, <1>5, <1>6, FS_UNION
<1> QED BY <1>7, FS_CardinalityType

(* Every result is read.                                                   *)
Clean(f) == \A p \in Sites(f) : HasEffect(At(f, p)) \/ At(f, p).dst \in Read(f)

(* What places, their instructions and reads are made of.                  *)
LEMMA SameBlocks ==
  ASSUME NEW f, NEW g, g.nb = f.nb, \A b \in Blocks(f) : g.blocks[b] = f.blocks[b]
  PROVE  /\ Sites(g) = Sites(f) /\ Read(g) = Read(f)
         /\ \A p \in Sites(f) : At(g, p) = At(f, p)
<1>1. Blocks(g) = Blocks(f)
  BY DEF Blocks
<1>2. Sites(g) = Sites(f)
  BY <1>1 DEF Sites
<1>3. \A p \in Sites(f) : At(g, p) = At(f, p)
  BY SitesAre DEF At
<1>4. Read(g) = Read(f)
  BY <1>1, <1>2, <1>3 DEF Read
<1> QED BY <1>2, <1>3, <1>4

(* A sweep takes an instruction away or there is nothing to sweep.         *)
LEMMA SweepShrinks ==
  ASSUME NEW f, NEW how, Formed(f, how)
  PROVE  /\ Sites(SweepDead(f)) \subseteq Sites(f)
         /\ \A b \in Blocks(f) : Succs(SweepDead(f).blocks[b]) = Succs(f.blocks[b])
         /\ \/ Cardinality(Sites(SweepDead(f))) < Cardinality(Sites(f))
            \/ Clean(SweepDead(f))
<1> DEFINE g == SweepDead(f)
           ks == [b \in Blocks(f) |-> Kept(f.blocks[b].insts, Read(f))]
<1>1. StaysFunc(g, f, how) /\ Blocks(g) = Blocks(f)
  BY SweepStays DEF StaysFunc, Blocks
<1>2. ASSUME NEW b \in Blocks(f)
      PROVE  /\ g.blocks[b] = [f.blocks[b] EXCEPT !.insts = Only(f.blocks[b].insts, ks[b])]
             /\ g.blocks[b].insts = Only(f.blocks[b].insts, ks[b])
             /\ Succs(g.blocks[b]) = Succs(f.blocks[b])
             /\ f.blocks[b] = [f.blocks[b] EXCEPT !.insts = f.blocks[b].insts]
  <2> DEFINE bb == f.blocks[b]
             o == Only(f.blocks[b].insts, ks[b])
             cc == [bb EXCEPT !.insts = o]
  <2>1. g.blocks[b] = cc
    BY SweepStays
  <2>2. bb \in BasicBlocks(Vregs(f))
    BY BlockFacts DEF Formed
  <2> HIDE DEF bb, o, g
  <2>3. cc.insts = o /\ cc.term = bb.term /\ cc.succ0 = bb.succ0 /\ cc.succ1 = bb.succ1
    BY <2>2 DEF BasicBlocks
  <2>4. bb = [bb EXCEPT !.insts = bb.insts]
    BY <2>2 DEF BasicBlocks
  <2> HIDE DEF cc
  <2>5. Succs(cc) = Succs(bb)
    BY <2>3 DEF Succs
  <2>6. g.blocks[b] = cc /\ cc = [bb EXCEPT !.insts = o] /\ g.blocks[b].insts = o
        /\ Succs(g.blocks[b]) = Succs(bb)
    BY <2>1, <2>3, <2>5 DEF cc
  <2> QED BY <2>4, <2>6 DEF bb, o, cc
<1> HIDE DEF g
<1>3. ASSUME NEW b \in Blocks(f)
      PROVE  /\ DOMAIN g.blocks[b].insts \subseteq DOMAIN f.blocks[b].insts
             /\ DOMAIN g.blocks[b].insts = DOMAIN f.blocks[b].insts =>
                  g.blocks[b].insts = f.blocks[b].insts /\ DOMAIN f.blocks[b].insts \subseteq ks[b]
  <2> DEFINE is == f.blocks[b].insts
             o == g.blocks[b].insts
             K == ks[b]
             F == Fine(Vregs(f), how)
  <2>1. is \in Seq(F) /\ o = Only(is, K)
    BY <1>2, PartsOf
  <2> HIDE DEF is, o, K, F
  <2>2. o \in Seq(F) /\ Len(o) =< Len(is) /\ (Len(o) = Len(is) => o = is /\ DOMAIN is \subseteq K)
    BY ONLY <2>1, OnlyFacts
  <2>3. /\ DOMAIN is = 1 .. Len(is) /\ DOMAIN o = 1 .. Len(o)
        /\ Len(is) \in Nat /\ Len(o) \in Nat
    BY <2>1, <2>2
  <2> DEFINE m == Len(is)
             n == Len(o)
  <2>7. /\ DOMAIN is = 1 .. m /\ DOMAIN o = 1 .. n /\ m \in Nat /\ n \in Nat /\ n =< m
        /\ (n = m => o = is /\ DOMAIN is \subseteq K)
    BY ONLY <2>2, <2>3
  <2> HIDE DEF m, n
  <2>4. DOMAIN o \subseteq DOMAIN is
    BY ONLY <2>7
  <2>5. ASSUME DOMAIN o = DOMAIN is PROVE n = m
    BY ONLY <2>5, <2>7
  <2>6. DOMAIN o \subseteq DOMAIN is /\ (DOMAIN o = DOMAIN is => o = is /\ DOMAIN is \subseteq K)
    BY ONLY <2>4, <2>5, <2>7
  <2> QED BY <2>6 DEF is, o, K
<1>4. Sites(g) \subseteq Sites(f)
  BY <1>1, <1>3 DEF Sites
<1>5. IsFiniteSet(Sites(f)) /\ Cardinality(Sites(f)) \in Nat
      /\ IsFiniteSet(Sites(g)) /\ Cardinality(Sites(g)) \in Nat
  BY <1>1, SitesFinite DEF StaysFunc, Formed
<1>6. ASSUME Sites(g) = Sites(f) PROVE Clean(g)
  <2>1. ASSUME NEW b \in Blocks(f) PROVE DOMAIN g.blocks[b].insts = DOMAIN f.blocks[b].insts
    <3>1. ASSUME NEW k \in DOMAIN f.blocks[b].insts PROVE k \in DOMAIN g.blocks[b].insts
      <4>1. <<b, k>> \in Sites(g)
        BY <1>6, SitesAre
      <4> QED BY <4>1 DEF Sites
    <3> QED BY <1>3, <3>1
  <2>2. \A b \in Blocks(f) : g.blocks[b].insts = f.blocks[b].insts
                             /\ DOMAIN f.blocks[b].insts \subseteq ks[b]
    BY <1>3, <2>1
  <2>3. \A b \in Blocks(f) : g.blocks[b] = f.blocks[b]
    <3>1. ASSUME NEW b \in Blocks(f) PROVE g.blocks[b] = f.blocks[b]
      <4> DEFINE bb == f.blocks[b]
      <4>1. g.blocks[b] = [bb EXCEPT !.insts = bb.insts] /\ bb = [bb EXCEPT !.insts = bb.insts]
        BY <1>2, <2>2
      <4> QED BY ONLY <4>1
    <3> QED BY <3>1
  <2>4. /\ Read(g) = Read(f) /\ \A p \in Sites(f) : At(g, p) = At(f, p)
    <3>1. g.nb = f.nb
      BY <1>1 DEF StaysFunc
    <3> QED BY <2>3, <3>1, SameBlocks
  <2>5. ASSUME NEW p \in Sites(f) PROVE HasEffect(At(f, p)) \/ At(f, p).dst \in Read(f)
    <3>1. p[1] \in Blocks(f) /\ p[2] \in DOMAIN f.blocks[p[1]].insts
      BY SitesAre
    <3>2. p[2] \in Kept(f.blocks[p[1]].insts, Read(f))
      BY <2>2, <3>1
    <3> QED BY <3>2 DEF Kept, At
  <2> QED BY <1>6, <2>4, <2>5 DEF Clean
<1>7. Sites(g) # Sites(f) => Cardinality(Sites(g)) < Cardinality(Sites(f))
  <2> DEFINE S == Sites(f)
             T == Sites(g)
  <2>1. IsFiniteSet(S) /\ T \in SUBSET S /\ Cardinality(S) \in Nat /\ Cardinality(T) \in Nat
    BY <1>4, <1>5
  <2> HIDE DEF S, T
  <2>2. Cardinality(T) =< Cardinality(S) /\ (Cardinality(S) = Cardinality(T) => S = T)
    BY ONLY <2>1, FS_Subset
  <2>3. S # T => Cardinality(T) < Cardinality(S)
    BY ONLY <2>1, <2>2
  <2> QED BY <2>3 DEF S, T
<1>8. \A b \in Blocks(f) : Succs(g.blocks[b]) = Succs(f.blocks[b])
  BY <1>2
<1> QED BY <1>4, <1>6, <1>7, <1>8 DEF g

LEMMA CleanStays ==
  ASSUME NEW f, NEW how, Formed(f, how), Clean(f)
  PROVE  Clean(SweepDead(f))
<1> DEFINE g == SweepDead(f)
           ks == [b \in Blocks(f) |-> Kept(f.blocks[b].insts, Read(f))]
<1>1. StaysFunc(g, f, how) /\ Blocks(g) = Blocks(f)
  BY SweepStays DEF StaysFunc, Blocks
<1>2. ASSUME NEW b \in Blocks(f) PROVE g.blocks[b] = f.blocks[b]
  <2> DEFINE is == f.blocks[b].insts
             K == ks[b]
             bb == f.blocks[b]
  <2>1. is \in Seq(Fine(Vregs(f), how)) /\ g.blocks[b] = [bb EXCEPT !.insts = Only(is, K)]
    BY PartsOf, SweepStays
  <2>2. DOMAIN is \subseteq K
    <3>1. ASSUME NEW k \in DOMAIN is PROVE k \in Kept(is, Read(f))
      <4>1. <<b, k>> \in Sites(f) /\ At(f, <<b, k>>) = is[k]
        BY SitesAre
      <4>2. HasEffect(is[k]) \/ is[k].dst \in Read(f)
        BY <4>1 DEF Clean
      <4> QED BY <4>2 DEF Kept
    <3> QED BY <3>1
  <2>3. bb \in BasicBlocks(Vregs(f)) /\ is = bb.insts
    BY BlockFacts DEF Formed
  <2> HIDE DEF is, K, bb, g
  <2>4. Only(is, K) = is
    BY ONLY <2>1, <2>2, OnlyFacts
  <2>5. [bb EXCEPT !.insts = is] = bb
    BY <2>3 DEF BasicBlocks
  <2> QED BY <2>1, <2>4, <2>5 DEF bb
<1> HIDE DEF g
<1>3. /\ Sites(g) = Sites(f) /\ Read(g) = Read(f) /\ \A p \in Sites(f) : At(g, p) = At(f, p)
  <2>1. g.nb = f.nb
    BY <1>1 DEF StaysFunc
  <2> QED BY <1>2, <2>1, SameBlocks
<1>4. Clean(g)
  BY <1>3 DEF Clean
<1> QED BY <1>4 DEF g

(* The functions between one sweep and the next.                           *)
Sweeps(g, f, how) ==
  /\ g \in [0 .. Cardinality(Sites(f)) -> Likenesses(f, how)] /\ g[0] = f
  /\ \A k \in 1 .. Cardinality(Sites(f)) : g[k] = SweepDead(g[k - 1])
  /\ DeadCodeElim(f) = g[Cardinality(Sites(f))]

LEMMA DceTurns ==
  ASSUME NEW f, NEW how, Formed(f, how)
  PROVE  Cardinality(Sites(f)) \in Nat /\ \E g : Sweeps(g, f, how)
<1> DEFINE n == Cardinality(Sites(f))
           Z == Likenesses(f, how)
           base == f
           step(z, k) == SweepDead(z)
           G == [z \in Z |-> [k \in Nat |-> IF k \in 1 .. n THEN step(z, k) ELSE z]]
           Is(g) == g = [k \in 0 .. n |-> IF k = 0 THEN base ELSE step(g[k - 1], k)]
<1>1. n \in Nat
  BY SitesFinite DEF Formed
<1>2. ASSUME NEW z \in Z, NEW k \in 1 .. n PROVE step(z, k) \in Z
  BY SweepLikeness
<1>3. base \in Z
  BY LikenessIs
<1>4. DeadCodeElim(f) = (CHOOSE g : Is(g))[n]
  BY DEF DeadCodeElim, Iterated
<1>5. \A g : Is(g) <=> g = [k \in 0 .. n |-> IF k = 0 THEN base ELSE step(g[k - 1], k)]
  OBVIOUS
<1> HIDE DEF Z, n, step, base, Is
<1>6. G \in [Z -> [Nat -> Z]] /\ \A z \in Z : \A k \in 1 .. n : G[z][k] = step(z, k)
  BY <1>1, <1>2
<1> HIDE DEF G
<1>7. PICK h : Turned(h, Z, base, G, n)
  BY <1>1, <1>3, <1>6, Turns
<1>8. h \in [0 .. n -> Z] /\ h[0] = base /\ \A k \in 1 .. n : h[k] = step(h[k - 1], k)
  <2>1. h \in [0 .. n -> Z] /\ h[0] = base /\ \A k \in 1 .. n : h[k] = G[h[k - 1]][k]
    BY <1>7 DEF Turned
  <2>2. ASSUME NEW k \in 1 .. n PROVE h[k] = step(h[k - 1], k)
    <3>1. k - 1 \in 0 .. n
      BY <1>1
    <3> QED BY <1>6, <2>1, <3>1
  <2> QED BY <2>1, <2>2
<1>9. Is(h)
  <2>1. ASSUME NEW k \in 0 .. n PROVE h[k] = IF k = 0 THEN base ELSE step(h[k - 1], k)
    <3>1. k # 0 => k \in 1 .. n
      BY <1>1
    <3> QED BY <1>8, <3>1
  <2> QED BY <1>5, <1>8, <2>1
<1>10. PICK g : Is(g) /\ DeadCodeElim(f) = g[n]
  BY <1>4, <1>9
<1>11. g = [k \in 0 .. n |-> IF k = 0 THEN base ELSE step(g[k - 1], k)]
  BY <1>5, <1>10
<1>12. DOMAIN g = 0 .. n /\ g[0] = base /\ \A k \in 1 .. n : g[k] = step(g[k - 1], k)
  BY <1>1, <1>11
<1>13. Turned(g, Z, base, G, n)
  <2>1. \A k \in 1 .. n : g[k - 1] \in Z => g[k] = G[g[k - 1]][k]
    BY <1>6, <1>12
  <2>2. g = [k \in DOMAIN g |-> g[k]]
    BY <1>11
  <2> QED BY <1>1, <1>3, <1>6, <1>12, <2>1, <2>2, StaysIn
<1>14. g \in [0 .. n -> Z]
  BY <1>13 DEF Turned
<1>15. Sweeps(g, f, how)
  BY <1>10, <1>12, <1>14 DEF Sweeps, n, Z, base, step
<1> QED BY <1>1, <1>15 DEF n

(* What dead code elimination promises: a well-formed function in which    *)
(* every result is read, of instructions that were there.                  *)
LEMMA DceStays ==
  ASSUME NEW f, NEW how, Formed(f, how)
  PROVE  /\ StaysFunc(DeadCodeElim(f), f, how) /\ Clean(DeadCodeElim(f))
         /\ Sites(DeadCodeElim(f)) \subseteq Sites(f)
         /\ \A b \in Blocks(f) : Succs(DeadCodeElim(f).blocks[b]) = Succs(f.blocks[b])
<1> DEFINE n == Cardinality(Sites(f))
           Like(g) == /\ Sites(g) \subseteq Sites(f)
                      /\ \A b \in Blocks(f) : Succs(g.blocks[b]) = Succs(f.blocks[b])
                      /\ Cardinality(Sites(g)) \in Nat
           Done(g, k) == Clean(g) \/ Cardinality(Sites(g)) + k =< n
<1>1. n \in Nat
  BY SitesFinite DEF Formed
<1>2. PICK h : Sweeps(h, f, how)
  BY DceTurns
<1>3. /\ h \in [0 .. n -> Likenesses(f, how)] /\ h[0] = f
      /\ \A k \in 1 .. n : h[k] = SweepDead(h[k - 1])
      /\ DeadCodeElim(f) = h[n]
  BY <1>2 DEF Sweeps
<1>4. ASSUME NEW g, StaysFunc(g, f, how), Like(g), NEW k \in Nat, Done(g, k)
      PROVE  Like(SweepDead(g)) /\ Done(SweepDead(g), k + 1)
  <2> DEFINE s == SweepDead(g)
  <2>1. Formed(g, how) /\ Blocks(g) = Blocks(f)
    BY <1>4 DEF StaysFunc, Blocks
  <2>2. /\ Sites(s) \subseteq Sites(g)
        /\ \A b \in Blocks(f) : Succs(s.blocks[b]) = Succs(g.blocks[b])
        /\ Cardinality(Sites(s)) < Cardinality(Sites(g)) \/ Clean(s)
    BY <2>1, SweepShrinks
  <2>3. Cardinality(Sites(s)) \in Nat
    <3>1. IsIRFunc(s)
      BY <2>1, SweepStays DEF StaysFunc, Formed
    <3> QED BY <3>1, SitesFinite
  <2>4. Like(s)
    BY <1>4, <2>2, <2>3
  <2>5. ASSUME Clean(g) PROVE Clean(s)
    BY <2>1, <2>5, CleanStays
  <2> HIDE DEF s
  <2>6. Done(s, k + 1)
    <3>1. CASE Clean(g)
      BY <2>5, <3>1
    <3>2. CASE ~Clean(g)
      <4>1. Cardinality(Sites(g)) + k =< n /\ Cardinality(Sites(g)) \in Nat
        BY <1>4, <3>2
      <4>2. CASE Clean(s)
        BY <4>2
      <4>3. CASE ~Clean(s)
        <5> DEFINE a == Cardinality(Sites(s))
                   c == Cardinality(Sites(g))
        <5>1. a < c /\ a \in Nat /\ c \in Nat /\ c + k =< n
          BY <2>2, <2>3, <4>1, <4>3
        <5> HIDE DEF a, c, n
        <5>2. a + (k + 1) =< n
          BY ONLY <5>1, <1>1, k \in Nat
        <5> QED BY <5>2 DEF a, n
      <4> QED BY <4>2, <4>3
    <3> QED BY <3>1, <3>2
  <2> QED BY <2>4, <2>6 DEF s
<1> DEFINE D == {k \in Nat : k =< n => Like(h[k]) /\ Done(h[k], k)}
<1>5. 0 \in D
  <2>1. Like(f) /\ Done(f, 0)
    BY <1>1
  <2> HIDE DEF Like, Done, n
  <2> QED BY <1>3, <2>1
<1>6. ASSUME NEW k \in Nat, k \in D PROVE k + 1 \in D
  <2>1. CASE k + 1 =< n
    <3> HIDE DEF n
    <3>1. k + 1 \in 1 .. n /\ k \in 0 .. n /\ (k + 1) - 1 = k /\ k =< n /\ k + 1 \in Nat
      BY ONLY <1>1, <2>1, k \in Nat
    <3> HIDE DEF Like, Done
    <3>2. h[k + 1] = SweepDead(h[k]) /\ h[k] \in Likenesses(f, how)
      BY <1>3, <3>1
    <3>3. StaysFunc(h[k], f, how)
      BY <3>2, LikenessIs
    <3>4. Like(h[k]) /\ Done(h[k], k)
      BY <1>6, <3>1
    <3>5. Like(h[k + 1]) /\ Done(h[k + 1], k + 1)
      BY ONLY <1>4, <3>2, <3>3, <3>4, k \in Nat
    <3> QED BY <3>1, <3>5
  <2>2. CASE ~(k + 1 =< n)
    <3> HIDE DEF n, Like, Done
    <3> QED BY ONLY <2>2, k \in Nat DEF D
  <2> QED BY <2>1, <2>2
<1>7. Nat \subseteq D
  <2> HIDE DEF D
  <2> QED BY <1>5, <1>6, Upward
<1> DEFINE g == DeadCodeElim(f)
<1>8. Like(g) /\ Done(g, n)
  <2> HIDE DEF Like, Done
  <2> QED BY <1>1, <1>3, <1>7
<1>9. StaysFunc(g, f, how)
  <2>1. n \in 0 .. n
    BY <1>1
  <2>2. g \in Likenesses(f, how)
    BY <1>3, <2>1
  <2> QED BY <2>2, LikenessIs
<1>10. Clean(g)
  <2>1. CASE Clean(g)
    BY <2>1
  <2>2. CASE ~Clean(g)
    <3> DEFINE c == Cardinality(Sites(g))
    <3>1. c + n =< n /\ c \in Nat
      BY <1>8, <2>2
    <3> HIDE DEF c, n
    <3>2. c = 0
      BY ONLY <3>1, <1>1
    <3>3. IsFiniteSet(Sites(g))
      BY <1>9, SitesFinite DEF StaysFunc, Formed
    <3>4. Sites(g) = {}
      BY <3>2, <3>3, FS_EmptySet DEF c
    <3> QED BY <3>4 DEF Clean
  <2> QED BY <2>1, <2>2
<1> QED BY <1>8, <1>9, <1>10

-----------------------------------------------------------------------------
(* What is reachable depends on the successors alone.                      *)
(* The blocks that walks of one length after another meet.                 *)
Reaches(g, f) ==
  /\ g \in [0 .. f.nb -> SUBSET Blocks(f)] /\ g[0] = {0}
  /\ \A k \in 1 .. f.nb : g[k] = (g[k - 1] \cup UNION {Succs(f.blocks[b]) : b \in g[k - 1]})
  /\ Reachable(f) = g[f.nb]

LEMMA ReachTurns ==
  ASSUME NEW f, NEW how, Formed(f, how)
  PROVE  f.nb \in Nat /\ \E g : Reaches(g, f)
<1> DEFINE n == f.nb
           Z == SUBSET Blocks(f)
           base == {0}
           step(z, k) == (z \cup UNION {Succs(f.blocks[b]) : b \in z})
           G == [z \in Z |-> [k \in Nat |-> IF k \in 1 .. n THEN step(z, k) ELSE z]]
           Is(g) == g = [k \in 0 .. n |-> IF k = 0 THEN base ELSE step(g[k - 1], k)]
<1>1. n \in Nat
  BY DEF Formed, IsIRFunc
<1>2. ASSUME NEW z \in Z, NEW k \in 1 .. n PROVE step(z, k) \in Z
  <2>1. \A b \in Blocks(f) : Succs(f.blocks[b]) \subseteq Blocks(f)
    BY DEF Formed, IsIRFunc
  <2> QED BY <2>1
<1>3. base \in Z
  <2>1. f.nb \in Nat \ {0}
    BY DEF Formed, IsIRFunc
  <2> QED BY <2>1 DEF Blocks
<1>4. Reachable(f) = (CHOOSE g : Is(g))[n]
  BY DEF Reachable, Iterated
<1>5. \A g : Is(g) <=> g = [k \in 0 .. n |-> IF k = 0 THEN base ELSE step(g[k - 1], k)]
  OBVIOUS
<1> HIDE DEF Z, n, step, base, Is
<1>6. G \in [Z -> [Nat -> Z]] /\ \A z \in Z : \A k \in 1 .. n : G[z][k] = step(z, k)
  BY <1>1, <1>2
<1> HIDE DEF G
<1>7. PICK h : Turned(h, Z, base, G, n)
  BY <1>1, <1>3, <1>6, Turns
<1>8. h \in [0 .. n -> Z] /\ h[0] = base /\ \A k \in 1 .. n : h[k] = step(h[k - 1], k)
  <2>1. h \in [0 .. n -> Z] /\ h[0] = base /\ \A k \in 1 .. n : h[k] = G[h[k - 1]][k]
    BY <1>7 DEF Turned
  <2>2. ASSUME NEW k \in 1 .. n PROVE h[k] = step(h[k - 1], k)
    <3>1. k - 1 \in 0 .. n
      BY <1>1
    <3> QED BY <1>6, <2>1, <3>1
  <2> QED BY <2>1, <2>2
<1>9. Is(h)
  <2>1. ASSUME NEW k \in 0 .. n PROVE h[k] = IF k = 0 THEN base ELSE step(h[k - 1], k)
    <3>1. k # 0 => k \in 1 .. n
      BY <1>1
    <3> QED BY <1>8, <3>1
  <2> QED BY <1>5, <1>8, <2>1
<1>10. PICK g : Is(g) /\ Reachable(f) = g[n]
  BY <1>4, <1>9
<1>11. g = [k \in 0 .. n |-> IF k = 0 THEN base ELSE step(g[k - 1], k)]
  BY <1>5, <1>10
<1>12. DOMAIN g = 0 .. n /\ g[0] = base /\ \A k \in 1 .. n : g[k] = step(g[k - 1], k)
  BY <1>1, <1>11
<1>13. Turned(g, Z, base, G, n)
  <2>1. \A k \in 1 .. n : g[k - 1] \in Z => g[k] = G[g[k - 1]][k]
    BY <1>6, <1>12
  <2>2. g = [k \in DOMAIN g |-> g[k]]
    BY <1>11
  <2> QED BY <1>1, <1>3, <1>6, <1>12, <2>1, <2>2, StaysIn
<1>14. g \in [0 .. n -> Z]
  BY <1>13 DEF Turned
<1>15. Reaches(g, f)
  BY <1>10, <1>12, <1>14 DEF Reaches, n, Z, base, step
<1> QED BY <1>1, <1>15 DEF n

LEMMA SameReach ==
  ASSUME NEW f, NEW how, Formed(f, how), NEW g, Formed(g, how), g.nb = f.nb,
         \A b \in Blocks(f) : Succs(g.blocks[b]) = Succs(f.blocks[b])
  PROVE  Reachable(g) = Reachable(f)
<1> DEFINE n == f.nb
<1>1. n \in Nat
  BY DEF Formed, IsIRFunc
<1>2. PICK r : Reaches(r, f)
  BY ReachTurns
<1>3. PICK s : Reaches(s, g)
  BY ReachTurns
<1>4. /\ r \in [0 .. n -> SUBSET Blocks(f)] /\ r[0] = {0} /\ Reachable(f) = r[n]
      /\ \A k \in 1 .. n : r[k] = r[k - 1] \cup UNION {Succs(f.blocks[b]) : b \in r[k - 1]}
  BY <1>2 DEF Reaches
<1>5. /\ s[0] = {0} /\ Reachable(g) = s[n]
      /\ \A k \in 1 .. n : s[k] = s[k - 1] \cup UNION {Succs(g.blocks[b]) : b \in s[k - 1]}
  BY <1>3 DEF Reaches
<1> HIDE DEF n
<1> DEFINE D == {k \in Nat : k =< n => s[k] = r[k]}
<1>6. 0 \in D
  BY <1>4, <1>5
<1>7. ASSUME NEW k \in Nat, k \in D PROVE k + 1 \in D
  <2>1. CASE k + 1 =< n
    <3>1. k + 1 \in 1 .. n /\ (k + 1) - 1 = k /\ k =< n /\ k \in 0 .. n /\ k + 1 \in Nat
      BY ONLY k \in Nat, <1>1, <2>1
    <3>2. s[k] = r[k] /\ r[k] \subseteq Blocks(f)
      BY <1>4, <1>7, <3>1
    <3>3. /\ r[k + 1] = r[k] \cup UNION {Succs(f.blocks[b]) : b \in r[k]}
          /\ s[k + 1] = s[k] \cup UNION {Succs(g.blocks[b]) : b \in s[k]}
      BY <1>4, <1>5, <3>1
    <3>4. s[k + 1] = r[k + 1]
      BY <3>2, <3>3
    <3> QED BY <3>1, <3>4
  <2>2. CASE ~(k + 1 =< n)
    BY ONLY <2>2, k \in Nat
  <2> QED BY <2>1, <2>2
<1>8. Nat \subseteq D
  <2> HIDE DEF D
  <2> QED BY <1>6, <1>7, Upward
<1> QED BY <1>1, <1>4, <1>5, <1>8

-----------------------------------------------------------------------------
(* Passes over the instructions of one block.                              *)
LEMMA UnaryFine ==
  ASSUME NEW vs, NEW how, NEW d \in vs, d # NoReg, NEW val \in Vals(vs)
  PROVE  Unary("Mv", d, val) \in Fine(vs, how)
<1> DEFINE in == Unary("Mv", d, val)
<1>1. Imm(0) \in Vals(vs) /\ "Mv" \in Ops
  BY SmallWords, ValsMade DEF Ops, UnaryOps
<1>2. << >> \in Seq(Vals(vs)) /\ 0 \in Nat /\ NoReg \in vs \cup {NoReg} /\ d \in vs \cup {NoReg}
  OBVIOUS
<1>3. Plain \in Insts(vs)
  BY <1>1, <1>2 DEF Plain, Insts
<1>4. in \in Insts(vs) /\ in.op = "Mv" /\ in.dst = d
  BY <1>1, <1>2, <1>3 DEF Unary, Insts
<1> HIDE DEF in
<1>5. AsMarked(in, how)
  BY <1>4 DEF AsMarked, MarkedExactly
<1>6. in \in Fine(vs, how)
  BY <1>4, <1>5 DEF Fine
<1> QED BY <1>6 DEF in

(* A set of positions that is not empty has a last one.                    *)
LEMMA LastPosition ==
  ASSUME NEW n \in Nat, NEW S, S \subseteq 0 .. n, S # {}
  PROVE  \E k \in S : \A j \in S : j =< k
<1> DEFINE T == {n - k : k \in S}
<1>1. T \subseteq Nat /\ T # {}
  <2>1. \A k \in S : n - k \in Nat
    OBVIOUS
  <2> QED BY <2>1
<1>2. PICK t \in T : \A u \in T : t =< u
  <2> HIDE DEF T
  <2> QED BY <1>1, Least
<1>3. PICK k \in S : t = n - k
  BY <1>2
<1>4. ASSUME NEW j \in S PROVE j =< k
  <2>1. n - k =< n - j
    BY <1>2, <1>3
  <2> QED BY <2>1
<1> QED BY <1>4

(* The last definition of a peephole's operand.                            *)
Latest(out, defs) == out[CHOOSE k \in defs : \A j \in defs : j =< k]

LEMMA LatestFacts ==
  ASSUME NEW S, NEW out \in Seq(S), NEW defs, defs \subseteq DOMAIN out, defs # {}
  PROVE  Latest(out, defs) \in S
<1>1. defs \subseteq 0 .. Len(out) /\ Len(out) \in Nat
  OBVIOUS
<1>2. \E k \in defs : \A j \in defs : j =< k
  BY <1>1, LastPosition
<1>3. PICK k \in defs : Latest(out, defs) = out[k]
  BY <1>2 DEF Latest
<1> QED BY <1>3

LEMMA PeepFine ==
  ASSUME NEW vs, NEW how, NEW out \in Seq(Fine(vs, how)), NEW in \in Fine(vs, how)
  PROVE  PeepInst(out, in) \in Seq(Fine(vs, how))
<1> DEFINE F == Fine(vs, how)
           defs == {k \in DOMAIN out : IsReg(in.a) /\ out[k].dst = in.a.n}
           last == Latest(out, defs)
<1>1. PeepInst(out, in) =
        CASE in.op = "Mv" /\ in.a = Reg(in.dst) -> out
          [] in.op \in {"Neg", "Not"} /\ defs # {} /\ last.op = in.op /\ IsReg(last.a) ->
               Append(out, Unary("Mv", in.dst, last.a))
          [] OTHER -> Append(out, in)
  BY DEF PeepInst, Latest
<1>2. defs # {} => last \in F
  <2> HIDE DEF F
  <2>1. out \in Seq(F) /\ defs \subseteq DOMAIN out
    BY DEF F
  <2> HIDE DEF defs
  <2> QED BY <2>1, LatestFacts
<1> HIDE DEF defs, last
<1>3. ASSUME in.op \in {"Neg", "Not"}, defs # {} PROVE Unary("Mv", in.dst, last.a) \in F
  <2>1. in.dst \in vs /\ in.dst # NoReg
    BY <1>3, FineFacts
  <2>2. last.a \in Vals(vs)
    BY <1>2, <1>3, FineFacts
  <2> QED BY <2>1, <2>2, UnaryFine
<1>4. \A x \in F : Append(out, x) \in Seq(F)
  <2> HIDE DEF F
  <2>1. out \in Seq(F)
    BY DEF F
  <2> QED BY <2>1
<1>5. out \in Seq(F) /\ in \in F
  OBVIOUS
<1> HIDE DEF F
<1>6. PeepInst(out, in) \in Seq(F)
  BY <1>1, <1>3, <1>4, <1>5, Zenon
<1> QED BY <1>6 DEF F

(* What a block becomes under the peepholes, instruction by instruction.   *)
Peeps(g, is, vs, how) ==
  /\ g \in [0 .. Len(is) -> Seq(Fine(vs, how))] /\ g[0] = << >>
  /\ \A k \in 1 .. Len(is) : g[k] = PeepInst(g[k - 1], is[k])
  /\ PeepBlock(is) = g[Len(is)]

LEMMA PeepTurns ==
  ASSUME NEW vs, NEW how, NEW is \in Seq(Fine(vs, how))
  PROVE  Len(is) \in Nat /\ \E g : Peeps(g, is, vs, how)
<1> DEFINE n == Len(is)
           Z == Seq(Fine(vs, how))
           base == << >>
           step(z, k) == PeepInst(z, is[k])
           G == [z \in Z |-> [k \in Nat |-> IF k \in 1 .. n THEN step(z, k) ELSE z]]
           Is(g) == g = [k \in 0 .. n |-> IF k = 0 THEN base ELSE step(g[k - 1], k)]
<1>1. n \in Nat
  OBVIOUS
<1>2. ASSUME NEW z \in Z, NEW k \in 1 .. n PROVE step(z, k) \in Z
  <2>1. is[k] \in Fine(vs, how)
    OBVIOUS
  <2> QED BY <2>1, PeepFine
<1>3. base \in Z
  OBVIOUS
<1>4. PeepBlock(is) = (CHOOSE g : Is(g))[n]
  BY DEF PeepBlock, Iterated
<1>5. \A g : Is(g) <=> g = [k \in 0 .. n |-> IF k = 0 THEN base ELSE step(g[k - 1], k)]
  OBVIOUS
<1> HIDE DEF Z, n, step, base, Is
<1>6. G \in [Z -> [Nat -> Z]] /\ \A z \in Z : \A k \in 1 .. n : G[z][k] = step(z, k)
  BY <1>1, <1>2
<1> HIDE DEF G
<1>7. PICK h : Turned(h, Z, base, G, n)
  BY <1>1, <1>3, <1>6, Turns
<1>8. h \in [0 .. n -> Z] /\ h[0] = base /\ \A k \in 1 .. n : h[k] = step(h[k - 1], k)
  <2>1. h \in [0 .. n -> Z] /\ h[0] = base /\ \A k \in 1 .. n : h[k] = G[h[k - 1]][k]
    BY <1>7 DEF Turned
  <2>2. ASSUME NEW k \in 1 .. n PROVE h[k] = step(h[k - 1], k)
    <3>1. k - 1 \in 0 .. n
      BY <1>1
    <3> QED BY <1>6, <2>1, <3>1
  <2> QED BY <2>1, <2>2
<1>9. Is(h)
  <2>1. ASSUME NEW k \in 0 .. n PROVE h[k] = IF k = 0 THEN base ELSE step(h[k - 1], k)
    <3>1. k # 0 => k \in 1 .. n
      BY <1>1
    <3> QED BY <1>8, <3>1
  <2> QED BY <1>5, <1>8, <2>1
<1>10. PICK g : Is(g) /\ PeepBlock(is) = g[n]
  BY <1>4, <1>9
<1>11. g = [k \in 0 .. n |-> IF k = 0 THEN base ELSE step(g[k - 1], k)]
  BY <1>5, <1>10
<1>12. DOMAIN g = 0 .. n /\ g[0] = base /\ \A k \in 1 .. n : g[k] = step(g[k - 1], k)
  BY <1>1, <1>11
<1>13. Turned(g, Z, base, G, n)
  <2>1. \A k \in 1 .. n : g[k - 1] \in Z => g[k] = G[g[k - 1]][k]
    BY <1>6, <1>12
  <2>2. g = [k \in DOMAIN g |-> g[k]]
    BY <1>11
  <2> QED BY <1>1, <1>3, <1>6, <1>12, <2>1, <2>2, StaysIn
<1>14. g \in [0 .. n -> Z]
  BY <1>13 DEF Turned
<1>15. Peeps(g, is, vs, how)
  BY <1>10, <1>12, <1>14 DEF Peeps, n, Z, base, step
<1> QED BY <1>1, <1>15 DEF n

LEMMA PeepStays ==
  ASSUME NEW f, NEW how, Formed(f, how)
  PROVE  StaysFunc(Peephole(f), f, how)
<1> DEFINE h == [b \in Blocks(f) |-> PeepBlock(f.blocks[b].insts)]
<1>1. ASSUME NEW vs, NEW is \in Seq(Fine(vs, how)) PROVE PeepBlock(is) \in Seq(Fine(vs, how))
  <2>1. PICK g : Peeps(g, is, vs, how)
    BY PeepTurns
  <2>2. Len(is) \in 0 .. Len(is)
    OBVIOUS
  <2> QED BY <2>1, <2>2 DEF Peeps
<1>2. \A b \in Blocks(f) : h[b] \in Seq(Fine(Vregs(f), how))
  BY <1>1, PartsOf
<1>3. Peephole(f) = [f EXCEPT !.blocks = [b \in Blocks(f) |-> [f.blocks[b] EXCEPT !.insts = h[b]]]]
  BY DEF Peephole
<1> HIDE DEF h
<1> QED BY <1>2, <1>3, Rebodied

(* What is known while a block is gone through.                            *)
Facts(vs) == [op : Ops, a : Vals(vs), b : Vals(vs), gid : Nat, dst : vs]

CseStates(vs, how) == [facts : SUBSET Facts(vs), out : Seq(Fine(vs, how))]

Known(s, in) == {x \in s.facts : Reusable(in) /\ States(x, in)}

Reuse(s, in) == Unary("Mv", in.dst, Reg((CHOOSE x \in Known(s, in) : TRUE).dst))

LEMMA SurvivingFacts ==
  ASSUME NEW facts, NEW in
  PROVE  Surviving(facts, in) \subseteq facts
<1>1. \A S, vs : Kill(S, vs) \subseteq S
  BY DEF Kill
<1>2. Kill({x \in facts : x.op # "LoadGlobal" \/ x.gid # in.gid}, OperandRegs(in.a)) \subseteq facts
  BY <1>1
<1>3. Kill({x \in facts : x.op # "LoadGlobal"}, OpUses(in) \cup {in.dst}) \subseteq facts
  BY <1>1
<1>4. Kill(facts, {in.dst}) \subseteq facts
  BY <1>1
<1> QED BY <1>2, <1>3, <1>4, Zenon DEF Surviving

LEMMA CseFine ==
  ASSUME NEW vs, NEW how, NEW s \in CseStates(vs, how), NEW in \in Fine(vs, how)
  PROVE  CseInst(s, in) \in CseStates(vs, how)
<1> DEFINE F == Fine(vs, how)
           known == Known(s, in)
           facts == Surviving(s.facts, in)
                      \cup (IF Reusable(in) /\ known = {} THEN {Fact(in)} ELSE {})
           x == IF known = {} THEN in ELSE Reuse(s, in)
<1>1. CseInst(s, in) = [facts |-> facts, out |-> Append(s.out, x)]
  BY DEF CseInst, Known, Reuse
<1>2. s.facts \subseteq Facts(vs) /\ s.out \in Seq(F)
  BY DEF CseStates
<1>3. Reusable(in) => in.op \notin {"StoreGlobal", "Call"}
  BY DEF Reusable, BinaryOps
<1>4. Reusable(in) => in.dst \in vs /\ in.dst # NoReg
  BY <1>3, FineFacts
<1>5. Reusable(in) => Fact(in) \in Facts(vs)
  BY <1>4, FineFacts DEF Fact, Facts
<1>6. facts \subseteq Facts(vs)
  BY <1>2, <1>5, SurvivingFacts
<1>7. known # {} => Reuse(s, in) \in F
  <2> SUFFICES ASSUME known # {} PROVE Reuse(s, in) \in F
    OBVIOUS
  <2>1. known \subseteq Facts(vs) /\ Reusable(in)
    BY <1>2 DEF Known
  <2>2. PICK y \in known : Reuse(s, in) = Unary("Mv", in.dst, Reg(y.dst))
    BY DEF Reuse
  <2>3. y.dst \in vs
    BY <2>1 DEF Facts
  <2>4. Reg(y.dst) \in Vals(vs)
    BY <2>3, ValsMade
  <2> QED BY <1>4, <2>1, <2>2, <2>4, UnaryFine
<1> HIDE DEF known, facts
<1>8. x \in F
  BY <1>7
<1> HIDE DEF x, F
<1>9. Append(s.out, x) \in Seq(F)
  BY <1>2, <1>8
<1> QED BY <1>1, <1>6, <1>9 DEF CseStates, F

(* What is known, and what a block becomes, instruction by instruction.    *)
Cses(g, is, vs, how) ==
  /\ g \in [0 .. Len(is) -> CseStates(vs, how)] /\ g[0] = [facts |-> {}, out |-> << >>]
  /\ \A k \in 1 .. Len(is) : g[k] = CseInst(g[k - 1], is[k])
  /\ CseBlock(is) = g[Len(is)].out

LEMMA CseTurns ==
  ASSUME NEW vs, NEW how, NEW is \in Seq(Fine(vs, how))
  PROVE  Len(is) \in Nat /\ \E g : Cses(g, is, vs, how)
<1> DEFINE n == Len(is)
           Z == CseStates(vs, how)
           base == [facts |-> {}, out |-> << >>]
           step(z, k) == CseInst(z, is[k])
           G == [z \in Z |-> [k \in Nat |-> IF k \in 1 .. n THEN step(z, k) ELSE z]]
           Is(g) == g = [k \in 0 .. n |-> IF k = 0 THEN base ELSE step(g[k - 1], k)]
<1>1. n \in Nat
  OBVIOUS
<1>2. ASSUME NEW z \in Z, NEW k \in 1 .. n PROVE step(z, k) \in Z
  <2>1. is[k] \in Fine(vs, how)
    OBVIOUS
  <2> QED BY <2>1, CseFine
<1>3. base \in Z
  BY DEF CseStates
<1>4. CseBlock(is) = (CHOOSE g : Is(g))[n].out
  BY DEF CseBlock, Iterated
<1>5. \A g : Is(g) <=> g = [k \in 0 .. n |-> IF k = 0 THEN base ELSE step(g[k - 1], k)]
  OBVIOUS
<1> HIDE DEF Z, n, step, base, Is
<1>6. G \in [Z -> [Nat -> Z]] /\ \A z \in Z : \A k \in 1 .. n : G[z][k] = step(z, k)
  BY <1>1, <1>2
<1> HIDE DEF G
<1>7. PICK h : Turned(h, Z, base, G, n)
  BY <1>1, <1>3, <1>6, Turns
<1>8. h \in [0 .. n -> Z] /\ h[0] = base /\ \A k \in 1 .. n : h[k] = step(h[k - 1], k)
  <2>1. h \in [0 .. n -> Z] /\ h[0] = base /\ \A k \in 1 .. n : h[k] = G[h[k - 1]][k]
    BY <1>7 DEF Turned
  <2>2. ASSUME NEW k \in 1 .. n PROVE h[k] = step(h[k - 1], k)
    <3>1. k - 1 \in 0 .. n
      BY <1>1
    <3> QED BY <1>6, <2>1, <3>1
  <2> QED BY <2>1, <2>2
<1>9. Is(h)
  <2>1. ASSUME NEW k \in 0 .. n PROVE h[k] = IF k = 0 THEN base ELSE step(h[k - 1], k)
    <3>1. k # 0 => k \in 1 .. n
      BY <1>1
    <3> QED BY <1>8, <3>1
  <2> QED BY <1>5, <1>8, <2>1
<1>10. PICK g : Is(g) /\ CseBlock(is) = g[n].out
  BY <1>4, <1>9
<1>11. g = [k \in 0 .. n |-> IF k = 0 THEN base ELSE step(g[k - 1], k)]
  BY <1>5, <1>10
<1>12. DOMAIN g = 0 .. n /\ g[0] = base /\ \A k \in 1 .. n : g[k] = step(g[k - 1], k)
  BY <1>1, <1>11
<1>13. Turned(g, Z, base, G, n)
  <2>1. \A k \in 1 .. n : g[k - 1] \in Z => g[k] = G[g[k - 1]][k]
    BY <1>6, <1>12
  <2>2. g = [k \in DOMAIN g |-> g[k]]
    BY <1>11
  <2> QED BY <1>1, <1>3, <1>6, <1>12, <2>1, <2>2, StaysIn
<1>14. g \in [0 .. n -> Z]
  BY <1>13 DEF Turned
<1>15. Cses(g, is, vs, how)
  BY <1>10, <1>12, <1>14 DEF Cses, n, Z, base, step
<1> QED BY <1>1, <1>15 DEF n

LEMMA CseStays ==
  ASSUME NEW f, NEW how, Formed(f, how)
  PROVE  StaysFunc(Cse(f), f, how)
<1> DEFINE h == [b \in Blocks(f) |-> CseBlock(f.blocks[b].insts)]
<1>1. ASSUME NEW vs, NEW is \in Seq(Fine(vs, how)) PROVE CseBlock(is) \in Seq(Fine(vs, how))
  <2>1. PICK g : Cses(g, is, vs, how)
    BY CseTurns
  <2>2. Len(is) \in 0 .. Len(is)
    OBVIOUS
  <2>3. CseBlock(is) = g[Len(is)].out /\ g[Len(is)] \in CseStates(vs, how)
    BY <2>1, <2>2 DEF Cses
  <2> QED BY <2>3 DEF CseStates
<1>2. \A b \in Blocks(f) : h[b] \in Seq(Fine(Vregs(f), how))
  BY <1>1, PartsOf
<1>3. Cse(f) = [f EXCEPT !.blocks = [b \in Blocks(f) |-> [f.blocks[b] EXCEPT !.insts = h[b]]]]
  BY DEF Cse
<1> HIDE DEF h
<1> QED BY <1>2, <1>3, Rebodied

-----------------------------------------------------------------------------
(* Passes that put values in the place of vregs.                           *)

(* An operand through a map.                                               *)
Via(subst, val) == IF IsReg(val) /\ val.n \in DOMAIN subst THEN subst[val.n] ELSE val

LEMMA ViaFine ==
  ASSUME NEW vs, NEW subst, \A v \in DOMAIN subst : subst[v] \in Vals(vs), NEW val \in Vals(vs)
  PROVE  Via(subst, val) \in Vals(vs) /\ (~IsReg(val) => Via(subst, val) = val)
BY DEF Via

(* An instruction with its operands through a map.                         *)
Replaced(in, subst) ==
  IF in.op = "Mv" THEN in
  ELSE [in EXCEPT !.a = Via(subst, in.a), !.b = Via(subst, in.b),
                  !.args = [k \in DOMAIN in.args |-> Via(subst, in.args[k])]]

LEMMA ReplacedFine ==
  ASSUME NEW vs, NEW how, NEW subst, \A v \in DOMAIN subst : subst[v] \in Vals(vs),
         NEW in \in Fine(vs, how)
  PROVE  Replaced(in, subst) \in Fine(vs, how)
<1> DEFINE xs == [k \in DOMAIN in.args |-> Via(subst, in.args[k])]
           x == Via(subst, in.a)
           y == Via(subst, in.b)
           new == [in EXCEPT !.a = x, !.b = y, !.args = xs]
<1>1. in \in Insts(vs) /\ in.a \in Vals(vs) /\ in.b \in Vals(vs) /\ in.args \in Seq(Vals(vs))
  BY DEF Fine, Insts
<1>2. x \in Vals(vs) /\ y \in Vals(vs) /\ (~IsReg(in.b) => y = in.b)
  BY <1>1, ViaFine
<1>3. xs \in Seq(Vals(vs))
  <2> DEFINE V == Vals(vs)
             is == in.args
  <2>1. \A k \in DOMAIN is : Via(subst, is[k]) \in V
    <3>1. \A k \in DOMAIN is : is[k] \in V
      BY <1>1
    <3> QED BY <3>1, ViaFine
  <2>2. is \in Seq(V)
    BY <1>1
  <2> HIDE DEF V, is
  <2>3. DOMAIN is = 1 .. Len(is) /\ Len(is) \in Nat
    BY <2>2
  <2>4. [k \in DOMAIN is |-> Via(subst, is[k])] \in Seq(V)
    BY <2>1, <2>3
  <2> QED BY <2>4 DEF is, V
<1> HIDE DEF xs, x, y
<1>4. /\ new \in Insts(vs) /\ new.op = in.op /\ new.b = y /\ new.dst = in.dst
      /\ new.unsignedDiv = in.unsignedDiv
  BY <1>1, <1>2, <1>3 DEF Insts
<1> HIDE DEF new
<1>5. AsMarked(in, how)
  BY DEF Fine
<1>6. AsMarked(new, how)
  BY <1>2, <1>4, <1>5 DEF AsMarked, MarkedExactly
<1>7. new \in Fine(vs, how)
  BY <1>4, <1>6 DEF Fine
<1>8. Replaced(in, subst) = IF in.op = "Mv" THEN in ELSE new
  BY DEF Replaced, new, x, y, xs
<1> QED BY <1>7, <1>8

(* A block with its terminator's operand through a map.                    *)
Ended(bb, term, hasVal, subst) ==
  [bb EXCEPT !.cond = IF term = "Br" THEN Via(subst, @) ELSE @,
             !.ret = IF term = "Ret" /\ hasVal THEN Via(subst, @) ELSE @]

LEMMA EndedFine ==
  ASSUME NEW vs, NEW how, NEW n, NEW subst, \A v \in DOMAIN subst : subst[v] \in Vals(vs),
         NEW bb \in FineBlocks(vs, n, how), NEW term, NEW hasVal
  PROVE  Ended(bb, term, hasVal, subst) \in FineBlocks(vs, n, how)
<1> DEFINE x == IF term = "Br" THEN Via(subst, bb.cond) ELSE bb.cond
           y == IF term = "Ret" /\ hasVal THEN Via(subst, bb.ret) ELSE bb.ret
           cc == [bb EXCEPT !.cond = x, !.ret = y]
<1>1. bb \in BasicBlocks(vs) /\ bb.insts \in Seq(Fine(vs, how)) /\ Succs(bb) \subseteq 0 .. n - 1
      /\ bb.cond \in Vals(vs) /\ bb.ret \in Vals(vs)
  BY DEF FineBlocks, BasicBlocks
<1>2. Via(subst, bb.cond) \in Vals(vs) /\ Via(subst, bb.ret) \in Vals(vs)
  BY <1>1, ViaFine
<1>3. x \in Vals(vs) /\ y \in Vals(vs)
  BY <1>1, <1>2
<1>4. Ended(bb, term, hasVal, subst) = cc
  BY DEF Ended
<1> HIDE DEF x, y
<1>5. /\ cc \in BasicBlocks(vs) /\ cc.insts = bb.insts /\ cc.term = bb.term
      /\ cc.succ0 = bb.succ0 /\ cc.succ1 = bb.succ1
  BY <1>1, <1>3 DEF BasicBlocks
<1> HIDE DEF cc
<1>6. Succs(cc) = Succs(bb)
  BY <1>5 DEF Succs
<1> QED BY <1>1, <1>4, <1>5, <1>6 DEF FineBlocks

LEMMA SubstituteStays ==
  ASSUME NEW f, NEW how, Formed(f, how),
         NEW subst, \A v \in DOMAIN subst : subst[v] \in Vals(Vregs(f))
  PROVE  StaysFunc(Substitute(f, subst), f, how)
<1> DEFINE new == [p \in Sites(f) |-> Replaced(At(f, p), subst)]
           g == Rewritten(f, new)
           bs == [b \in Blocks(f) |->
                    Ended(g.blocks[b], f.blocks[b].term, f.blocks[b].hasVal, subst)]
           h == [g EXCEPT !.blocks = bs]
<1>1. Substitute(f, subst) = h
  BY DEF Substitute, Replaced, Ended, Via
<1>2. \A p \in Sites(f) : new[p] \in Fine(Vregs(f), how)
  BY SiteFacts, ReplacedFine
<1> HIDE DEF new
<1>3. StaysFunc(g, f, how) /\ g.numVregs = f.numVregs
  BY <1>2, RewrittenFacts
<1> HIDE DEF g
<1>4. Formed(g, how) /\ Blocks(g) = Blocks(f) /\ Vregs(g) = Vregs(f) /\ g.nb = f.nb /\ g.params = f.params
  BY <1>3 DEF StaysFunc, Blocks, Vregs
<1>5. /\ DOMAIN g = {"numVregs", "params", "nb", "blocks"} /\ g.numVregs \in Nat
      /\ \A b \in Blocks(f) : g.blocks[b] \in FineBlocks(Vregs(f), g.nb, how)
  BY <1>4, FunctionParts
<1>6. \A b \in Blocks(f) : bs[b] \in FineBlocks(Vregs(f), g.nb, how)
  BY <1>5, EndedFine
<1>7. /\ DOMAIN h = DOMAIN g /\ h.nb = g.nb /\ h.params = g.params /\ h.numVregs = g.numVregs
      /\ h.blocks = bs
  BY <1>5
<1>8. bs = [b \in Blocks(g) |-> bs[b]]
  BY <1>4
<1> HIDE DEF h, bs
<1>9. \A b \in Blocks(g) : h.blocks[b] \in FineBlocks(Vregs(h), g.nb, how)
  <2>1. Vregs(h) = Vregs(f)
    BY <1>4, <1>7 DEF Vregs
  <2> QED BY <1>4, <1>6, <1>7, <2>1
<1>10. h.blocks = [b \in Blocks(g) |-> h.blocks[b]]
  BY <1>7, <1>8
<1>11. h.numVregs \in Nat /\ h.numVregs >= g.numVregs
  BY <1>5, <1>7
<1>12. StaysFunc(h, g, how)
  BY ONLY <1>4, <1>7, <1>9, <1>10, <1>11, FunctionOfParts
<1> QED BY <1>1, <1>3, <1>12 DEF StaysFunc

LEMMA LastOfFacts ==
  ASSUME NEW f, NEW how, Formed(f, how), NEW S, S \subseteq Sites(f), S # {}
  PROVE  LastOf(S) \in S
<1> DEFINE bs == {p[1] : p \in S}
<1>1. f.nb \in Nat \ {0}
  BY DEF Formed, IsIRFunc
<1>2. \A p \in S : /\ p = <<p[1], p[2]>> /\ p[1] \in Blocks(f)
                   /\ p[2] \in DOMAIN f.blocks[p[1]].insts
  BY SitesAre
<1>3. f.nb \in Nat /\ bs \subseteq 0 .. f.nb /\ bs # {}
  BY <1>1, <1>2 DEF Blocks
<1>4. PICK b \in bs : \A c \in bs : c =< b
  <2> HIDE DEF bs
  <2> QED BY <1>3, LastPosition
<1> DEFINE n == Len(f.blocks[b].insts)
           ks == {p[2] : p \in {q \in S : q[1] = b}}
<1>5. b \in Blocks(f)
  BY <1>2, <1>4
<1>6. n \in Nat /\ DOMAIN f.blocks[b].insts = 1 .. n
  BY <1>5, PartsOf
<1>7. ks \subseteq 0 .. n /\ ks # {}
  <2> HIDE DEF n
  <2>1. ASSUME NEW p \in S, p[1] = b PROVE p[2] \in 0 .. n
    BY <1>2, <1>6, <2>1
  <2> QED BY <1>4, <2>1
<1>8. PICK k \in ks : \A j \in ks : j =< k
  <2> HIDE DEF ks, n
  <2> QED BY <1>6, <1>7, LastPosition
<1>9. PICK p \in S : p[1] = b /\ p[2] = k
  BY <1>8
<1>10. ASSUME NEW q \in S PROVE q = p \/ Before(q, p)
  <2>1. q[1] =< b /\ q[1] \in Int /\ b \in Int
    BY <1>2, <1>3, <1>4
  <2>2. CASE q[1] = b
    <3>1. q[2] =< k /\ q[2] \in 0 .. n /\ k \in 0 .. n /\ n \in Nat
      BY <1>6, <1>7, <1>8, <2>2
    <3>2. q[2] = p[2] => q = p
      <4>1. q = <<q[1], q[2]>> /\ p = <<p[1], p[2]>>
        BY <1>2
      <4> QED BY <1>9, <2>2, <4>1
    <3> HIDE DEF n, ks
    <3>3. q[2] # p[2] => q[2] < p[2]
      BY <1>9, <3>1
    <3> QED BY <1>9, <2>2, <3>2, <3>3 DEF Before
  <2>3. CASE q[1] # b
    <3>1. q[1] < p[1]
      BY ONLY <1>9, <2>1, <2>3
    <3> QED BY <3>1 DEF Before
  <2> QED BY <2>2, <2>3
<1> QED BY <1>10 DEF LastOf

LEMMA SourcesFacts ==
  ASSUME NEW f, NEW how, Formed(f, how), NEW ps, ps \subseteq Sites(f)
  PROVE  \A v \in DOMAIN Sources(f, ps) : Sources(f, ps)[v] \in Vals(Vregs(f))
<1> SUFFICES ASSUME NEW v \in DOMAIN Sources(f, ps)
             PROVE  Sources(f, ps)[v] \in Vals(Vregs(f))
  OBVIOUS
<1> DEFINE S == {p \in ps : At(f, p).dst = v}
<1>1. v \in {At(f, p).dst : p \in ps} /\ Sources(f, ps)[v] = At(f, LastOf(S)).a
  BY DEF Sources
<1>2. S \subseteq Sites(f) /\ S # {}
  BY <1>1
<1> HIDE DEF S
<1>3. LastOf(S) \in Sites(f)
  BY <1>2, LastOfFacts
<1>4. At(f, LastOf(S)) \in Fine(Vregs(f), how)
  BY <1>3, SiteFacts
<1> QED BY <1>1, <1>4, FineFacts

(* The values met along a chain of copies.                                 *)
Resolves(g, copies, v, vs) ==
  /\ g \in [0 .. ChainBound -> Vals(vs)] /\ g[0] = Reg(v)
  /\ \A k \in 1 .. ChainBound : g[k] = (IF g[k - 1].n \in DOMAIN copies THEN copies[g[k - 1].n] ELSE g[k - 1])
  /\ Resolve(copies, v) = g[ChainBound]

LEMMA ResolveTurns ==
  ASSUME NEW vs, NEW copies, \A u \in DOMAIN copies : copies[u] \in Vals(vs), NEW v \in vs
  PROVE  ChainBound \in Nat /\ \E g : Resolves(g, copies, v, vs)
<1> DEFINE n == ChainBound
           Z == Vals(vs)
           base == Reg(v)
           step(z, k) == (IF z.n \in DOMAIN copies THEN copies[z.n] ELSE z)
           G == [z \in Z |-> [k \in Nat |-> IF k \in 1 .. n THEN step(z, k) ELSE z]]
           Is(g) == g = [k \in 0 .. n |-> IF k = 0 THEN base ELSE step(g[k - 1], k)]
<1>1. n \in Nat
  BY DEF ChainBound
<1>2. ASSUME NEW z \in Z, NEW k \in 1 .. n PROVE step(z, k) \in Z
  OBVIOUS
<1>3. base \in Z
  BY ValsMade
<1>4. Resolve(copies, v) = (CHOOSE g : Is(g))[n]
  BY DEF Resolve, Iterated
<1>5. \A g : Is(g) <=> g = [k \in 0 .. n |-> IF k = 0 THEN base ELSE step(g[k - 1], k)]
  OBVIOUS
<1> HIDE DEF Z, n, step, base, Is
<1>6. G \in [Z -> [Nat -> Z]] /\ \A z \in Z : \A k \in 1 .. n : G[z][k] = step(z, k)
  BY <1>1, <1>2
<1> HIDE DEF G
<1>7. PICK h : Turned(h, Z, base, G, n)
  BY <1>1, <1>3, <1>6, Turns
<1>8. h \in [0 .. n -> Z] /\ h[0] = base /\ \A k \in 1 .. n : h[k] = step(h[k - 1], k)
  <2>1. h \in [0 .. n -> Z] /\ h[0] = base /\ \A k \in 1 .. n : h[k] = G[h[k - 1]][k]
    BY <1>7 DEF Turned
  <2>2. ASSUME NEW k \in 1 .. n PROVE h[k] = step(h[k - 1], k)
    <3>1. k - 1 \in 0 .. n
      BY <1>1
    <3> QED BY <1>6, <2>1, <3>1
  <2> QED BY <2>1, <2>2
<1>9. Is(h)
  <2>1. ASSUME NEW k \in 0 .. n PROVE h[k] = IF k = 0 THEN base ELSE step(h[k - 1], k)
    <3>1. k # 0 => k \in 1 .. n
      BY <1>1
    <3> QED BY <1>8, <3>1
  <2> QED BY <1>5, <1>8, <2>1
<1>10. PICK g : Is(g) /\ Resolve(copies, v) = g[n]
  BY <1>4, <1>9
<1>11. g = [k \in 0 .. n |-> IF k = 0 THEN base ELSE step(g[k - 1], k)]
  BY <1>5, <1>10
<1>12. DOMAIN g = 0 .. n /\ g[0] = base /\ \A k \in 1 .. n : g[k] = step(g[k - 1], k)
  BY <1>1, <1>11
<1>13. Turned(g, Z, base, G, n)
  <2>1. \A k \in 1 .. n : g[k - 1] \in Z => g[k] = G[g[k - 1]][k]
    BY <1>6, <1>12
  <2>2. g = [k \in DOMAIN g |-> g[k]]
    BY <1>11
  <2> QED BY <1>1, <1>3, <1>6, <1>12, <2>1, <2>2, StaysIn
<1>14. g \in [0 .. n -> Z]
  BY <1>13 DEF Turned
<1>15. Resolves(g, copies, v, vs)
  BY <1>10, <1>12, <1>14 DEF Resolves, n, Z, base, step
<1> QED BY <1>1, <1>15 DEF n

LEMMA ResolveFacts ==
  ASSUME NEW vs, NEW copies, \A u \in DOMAIN copies : copies[u] \in Vals(vs), NEW v \in vs
  PROVE  Resolve(copies, v) \in Vals(vs)
<1>1. PICK g : Resolves(g, copies, v, vs)
  BY ResolveTurns
<1>2. ChainBound \in 0 .. ChainBound
  BY DEF ChainBound
<1> QED BY <1>1, <1>2 DEF Resolves

LEMMA CopyPropStays ==
  ASSUME NEW f, NEW how, Formed(f, how)
  PROVE  StaysFunc(CopyProp(f), f, how)
<1> DEFINE ps == {p \in Sites(f) : IsMove(At(f, p))}
           copies == Sources(f, ps)
           subst == [v \in DOMAIN copies |-> Resolve(copies, v)]
<1>1. CopyProp(f) = Substitute(f, subst)
  BY DEF CopyProp, CopyMap
<1>2. \A u \in DOMAIN copies : copies[u] \in Vals(Vregs(f))
  <2>1. ps \subseteq Sites(f)
    OBVIOUS
  <2> HIDE DEF ps
  <2> QED BY <2>1, SourcesFacts
<1>3. DOMAIN copies \subseteq Vregs(f)
  <2>1. DOMAIN copies = {At(f, p).dst : p \in ps}
    BY DEF Sources
  <2>2. ASSUME NEW p \in ps PROVE At(f, p).dst \in Vregs(f)
    <3>1. At(f, p) \in Fine(Vregs(f), how) /\ At(f, p).op = "Mv"
      BY SiteFacts DEF IsMove
    <3> QED BY <3>1, FineFacts
  <2> HIDE DEF ps, copies
  <2> QED BY <2>1, <2>2
<1> HIDE DEF copies
<1>4. \A v \in DOMAIN subst : subst[v] \in Vals(Vregs(f))
  BY <1>2, <1>3, ResolveFacts
<1> HIDE DEF subst
<1> QED BY <1>1, <1>4, SubstituteStays

LEMMA ConstPropStays ==
  ASSUME NEW f, NEW how, Formed(f, how)
  PROVE  StaysFunc(ConstProp(f), f, how)
<1> DEFINE ps == {p \in Sites(f) : LET in == At(f, p) IN
                    in.op = "Mv" /\ ~IsReg(in.a) /\ Fits(in.a.n)}
<1>1. ps \subseteq Sites(f) /\ ConstProp(f) = Substitute(f, Sources(f, ps))
  BY DEF ConstProp
<1> HIDE DEF ps
<1>2. \A v \in DOMAIN Sources(f, ps) : Sources(f, ps)[v] \in Vals(Vregs(f))
  BY <1>1, SourcesFacts
<1> QED BY <1>1, <1>2, SubstituteStays

-----------------------------------------------------------------------------
(* The loops the passes work on, and their instructions.                   *)
LoopOf(f, e) ==
  LET members == NaturalLoop(f, e.u, e.v) IN [in |-> members, pre |-> Preheader(f, members, e.v)]

Entered(f) == {l \in {LoopOf(f, Edge(f, j)) : j \in Nat} : l.pre \in Blocks(f)}

LEMMA PreheaderFacts ==
  ASSUME NEW f, NEW how, Formed(f, how), NEW loop, NEW v, Preheader(f, loop, v) # NoReg
  PROVE  Preheader(f, loop, v) \in Blocks(f)
<1> DEFINE outside == Preds(f, v) \ loop
<1>1. outside \subseteq Blocks(f)
  BY DEF Preds
<1>2. IsFiniteSet(outside)
  <2>1. 0 \in Int /\ f.nb - 1 \in Int
    BY DEF Formed, IsIRFunc
  <2>2. IsFiniteSet(Blocks(f))
    BY <2>1, FS_Interval DEF Blocks
  <2> HIDE DEF outside
  <2> QED BY <1>1, <2>2, FS_Subset
<1>3. Cardinality(outside) = 1 /\ Preheader(f, loop, v) = CHOOSE p \in outside : TRUE
  BY DEF Preheader
<1>4. outside # {}
  <2> HIDE DEF outside
  <2>1. PICK x : outside = {x}
    BY <1>2, <1>3, FS_Singleton
  <2> QED BY <2>1
<1> HIDE DEF outside
<1>5. Preheader(f, loop, v) \in outside
  BY <1>3, <1>4
<1> QED BY <1>1, <1>5

(* The loops found, edge by edge.                                          *)
Finds(g, f) ==
  /\ g \in [0 .. 2 * f.nb -> Seq(Entered(f))] /\ g[0] = << >>
  /\ \A k \in 1 .. 2 * f.nb : g[k] = (IF Edge(f, k - 1).v # NoReg /\ <<Edge(f, k - 1).u, Edge(f, k - 1).v>> \notin Undominated(f)
                          /\ LoopOf(f, Edge(f, k - 1)).pre # NoReg
                       THEN Append(g[k - 1], LoopOf(f, Edge(f, k - 1))) ELSE g[k - 1])
  /\ Loops(f) = g[2 * f.nb]

LEMMA LoopTurns ==
  ASSUME NEW f, NEW how, Formed(f, how)
  PROVE  2 * f.nb \in Nat /\ \E g : Finds(g, f)
<1> DEFINE n == 2 * f.nb
           Z == Seq(Entered(f))
           base == << >>
           step(z, k) == (IF Edge(f, k - 1).v # NoReg /\ <<Edge(f, k - 1).u, Edge(f, k - 1).v>> \notin Undominated(f)
                          /\ LoopOf(f, Edge(f, k - 1)).pre # NoReg
                       THEN Append(z, LoopOf(f, Edge(f, k - 1))) ELSE z)
           G == [z \in Z |-> [k \in Nat |-> IF k \in 1 .. n THEN step(z, k) ELSE z]]
           Is(g) == g = [k \in 0 .. n |-> IF k = 0 THEN base ELSE step(g[k - 1], k)]
<1>1. n \in Nat
  BY DEF Formed, IsIRFunc
<1>2. ASSUME NEW z \in Z, NEW k \in 1 .. n PROVE step(z, k) \in Z
  <2> DEFINE e == Edge(f, k - 1)
             l == LoopOf(f, e)
             E == Entered(f)
  <2>1. ASSUME l.pre # NoReg PROVE l \in E
    <3>1. l.pre = Preheader(f, NaturalLoop(f, e.u, e.v), e.v)
      BY DEF LoopOf
    <3>2. l.pre \in Blocks(f)
      BY <2>1, <3>1, PreheaderFacts
    <3>3. k - 1 \in Nat
      BY <1>1
    <3> QED BY <3>2, <3>3 DEF Entered
  <2> HIDE DEF E, l
  <2>2. z \in Seq(E)
    BY DEF E
  <2>3. l.pre # NoReg => Append(z, l) \in Seq(E)
    BY <2>1, <2>2
  <2>4. step(z, k) = IF e.v # NoReg /\ <<e.u, e.v>> \notin Undominated(f) /\ l.pre # NoReg
                     THEN Append(z, l) ELSE z
    BY DEF l
  <2> HIDE DEF step
  <2> QED BY <2>2, <2>3, <2>4 DEF E
<1>3. base \in Z
  OBVIOUS
<1>4. Loops(f) = (CHOOSE g : Is(g))[n]
  BY DEF Loops, Iterated, LoopOf
<1>5. \A g : Is(g) <=> g = [k \in 0 .. n |-> IF k = 0 THEN base ELSE step(g[k - 1], k)]
  OBVIOUS
<1> HIDE DEF Z, n, step, base, Is
<1>6. G \in [Z -> [Nat -> Z]] /\ \A z \in Z : \A k \in 1 .. n : G[z][k] = step(z, k)
  BY <1>1, <1>2
<1> HIDE DEF G
<1>7. PICK h : Turned(h, Z, base, G, n)
  BY <1>1, <1>3, <1>6, Turns
<1>8. h \in [0 .. n -> Z] /\ h[0] = base /\ \A k \in 1 .. n : h[k] = step(h[k - 1], k)
  <2>1. h \in [0 .. n -> Z] /\ h[0] = base /\ \A k \in 1 .. n : h[k] = G[h[k - 1]][k]
    BY <1>7 DEF Turned
  <2>2. ASSUME NEW k \in 1 .. n PROVE h[k] = step(h[k - 1], k)
    <3>1. k - 1 \in 0 .. n
      BY <1>1
    <3> QED BY <1>6, <2>1, <3>1
  <2> QED BY <2>1, <2>2
<1>9. Is(h)
  <2>1. ASSUME NEW k \in 0 .. n PROVE h[k] = IF k = 0 THEN base ELSE step(h[k - 1], k)
    <3>1. k # 0 => k \in 1 .. n
      BY <1>1
    <3> QED BY <1>8, <3>1
  <2> QED BY <1>5, <1>8, <2>1
<1>10. PICK g : Is(g) /\ Loops(f) = g[n]
  BY <1>4, <1>9
<1>11. g = [k \in 0 .. n |-> IF k = 0 THEN base ELSE step(g[k - 1], k)]
  BY <1>5, <1>10
<1>12. DOMAIN g = 0 .. n /\ g[0] = base /\ \A k \in 1 .. n : g[k] = step(g[k - 1], k)
  BY <1>1, <1>11
<1>13. Turned(g, Z, base, G, n)
  <2>1. \A k \in 1 .. n : g[k - 1] \in Z => g[k] = G[g[k - 1]][k]
    BY <1>6, <1>12
  <2>2. g = [k \in DOMAIN g |-> g[k]]
    BY <1>11
  <2> QED BY <1>1, <1>3, <1>6, <1>12, <2>1, <2>2, StaysIn
<1>14. g \in [0 .. n -> Z]
  BY <1>13 DEF Turned
<1>15. Finds(g, f)
  BY <1>10, <1>12, <1>14 DEF Finds, n, Z, base, step
<1> QED BY <1>1, <1>15 DEF n

LEMMA LoopsFacts ==
  ASSUME NEW f, NEW how, Formed(f, how)
  PROVE  /\ Loops(f) \in Seq(Entered(f)) /\ Len(Loops(f)) \in Nat
         /\ \A k \in 1 .. Len(Loops(f)) : Loops(f)[k].pre \in Blocks(f)
<1>1. 2 * f.nb \in Nat
  BY LoopTurns
<1>2. PICK g : Finds(g, f)
  BY LoopTurns
<1>3. Loops(f) \in Seq(Entered(f))
  <2>1. 2 * f.nb \in 0 .. 2 * f.nb
    BY <1>1
  <2> QED BY <1>2, <2>1 DEF Finds
<1> DEFINE ls == Loops(f)
           E == Entered(f)
<1>4. ls \in Seq(E) /\ \A l \in E : l.pre \in Blocks(f)
  BY <1>3 DEF Entered
<1> HIDE DEF ls, E
<1>5. Len(ls) \in Nat /\ \A k \in 1 .. Len(ls) : ls[k] \in E
  BY <1>4
<1> QED BY <1>4, <1>5 DEF ls, E

(* The places of a loop, block by block.                                   *)
Walks(g, f, bs) ==
  /\ g \in [0 .. f.nb -> Seq(Sites(f))] /\ g[0] = << >>
  /\ \A k \in 1 .. f.nb : g[k] = (IF k - 1 \in bs
                       THEN g[k - 1] \o [j \in DOMAIN f.blocks[k - 1].insts |-> <<k - 1, j>>]
                       ELSE g[k - 1])
  /\ Walk(f, bs) = g[f.nb]

LEMMA WalkTurns ==
  ASSUME NEW f, NEW how, Formed(f, how), NEW bs
  PROVE  f.nb \in Nat /\ \E g : Walks(g, f, bs)
<1> DEFINE n == f.nb
           Z == Seq(Sites(f))
           base == << >>
           step(z, k) == (IF k - 1 \in bs
                       THEN z \o [j \in DOMAIN f.blocks[k - 1].insts |-> <<k - 1, j>>]
                       ELSE z)
           G == [z \in Z |-> [k \in Nat |-> IF k \in 1 .. n THEN step(z, k) ELSE z]]
           Is(g) == g = [k \in 0 .. n |-> IF k = 0 THEN base ELSE step(g[k - 1], k)]
<1>1. n \in Nat
  BY DEF Formed, IsIRFunc
<1>2. ASSUME NEW z \in Z, NEW k \in 1 .. n PROVE step(z, k) \in Z
  <2> DEFINE K == DOMAIN f.blocks[k - 1].insts
             row == [j \in K |-> <<k - 1, j>>]
             S == Sites(f)
  <2>1. k - 1 \in Blocks(f)
    BY <1>1 DEF Blocks
  <2>2. K = 1 .. Len(f.blocks[k - 1].insts) /\ Len(f.blocks[k - 1].insts) \in Nat
    BY <2>1, PartsOf
  <2>3. \A j \in K : <<k - 1, j>> \in S
    BY <2>1, SitesAre
  <2>4. row \in Seq(S)
    <3> HIDE DEF K, S
    <3> QED BY <2>2, <2>3
  <2>5. z \in Seq(S)
    OBVIOUS
  <2>6. z \o row \in Seq(S)
    <3> HIDE DEF row, S
    <3> QED BY <2>4, <2>5
  <2> QED BY <2>5, <2>6
<1>3. base \in Z
  OBVIOUS
<1>4. Walk(f, bs) = (CHOOSE g : Is(g))[n]
  BY DEF Walk, Iterated
<1>5. \A g : Is(g) <=> g = [k \in 0 .. n |-> IF k = 0 THEN base ELSE step(g[k - 1], k)]
  OBVIOUS
<1> HIDE DEF Z, n, step, base, Is
<1>6. G \in [Z -> [Nat -> Z]] /\ \A z \in Z : \A k \in 1 .. n : G[z][k] = step(z, k)
  BY <1>1, <1>2
<1> HIDE DEF G
<1>7. PICK h : Turned(h, Z, base, G, n)
  BY <1>1, <1>3, <1>6, Turns
<1>8. h \in [0 .. n -> Z] /\ h[0] = base /\ \A k \in 1 .. n : h[k] = step(h[k - 1], k)
  <2>1. h \in [0 .. n -> Z] /\ h[0] = base /\ \A k \in 1 .. n : h[k] = G[h[k - 1]][k]
    BY <1>7 DEF Turned
  <2>2. ASSUME NEW k \in 1 .. n PROVE h[k] = step(h[k - 1], k)
    <3>1. k - 1 \in 0 .. n
      BY <1>1
    <3> QED BY <1>6, <2>1, <3>1
  <2> QED BY <2>1, <2>2
<1>9. Is(h)
  <2>1. ASSUME NEW k \in 0 .. n PROVE h[k] = IF k = 0 THEN base ELSE step(h[k - 1], k)
    <3>1. k # 0 => k \in 1 .. n
      BY <1>1
    <3> QED BY <1>8, <3>1
  <2> QED BY <1>5, <1>8, <2>1
<1>10. PICK g : Is(g) /\ Walk(f, bs) = g[n]
  BY <1>4, <1>9
<1>11. g = [k \in 0 .. n |-> IF k = 0 THEN base ELSE step(g[k - 1], k)]
  BY <1>5, <1>10
<1>12. DOMAIN g = 0 .. n /\ g[0] = base /\ \A k \in 1 .. n : g[k] = step(g[k - 1], k)
  BY <1>1, <1>11
<1>13. Turned(g, Z, base, G, n)
  <2>1. \A k \in 1 .. n : g[k - 1] \in Z => g[k] = G[g[k - 1]][k]
    BY <1>6, <1>12
  <2>2. g = [k \in DOMAIN g |-> g[k]]
    BY <1>11
  <2> QED BY <1>1, <1>3, <1>6, <1>12, <2>1, <2>2, StaysIn
<1>14. g \in [0 .. n -> Z]
  BY <1>13 DEF Turned
<1>15. Walks(g, f, bs)
  BY <1>10, <1>12, <1>14 DEF Walks, n, Z, base, step
<1> QED BY <1>1, <1>15 DEF n

LEMMA WalkFacts ==
  ASSUME NEW f, NEW how, Formed(f, how), NEW bs
  PROVE  /\ Walk(f, bs) \in Seq(Sites(f)) /\ Len(Walk(f, bs)) \in Nat
         /\ \A k \in 1 .. Len(Walk(f, bs)) : Walk(f, bs)[k] \in Sites(f)
<1>1. f.nb \in Nat
  BY DEF Formed, IsIRFunc
<1>2. PICK g : Walks(g, f, bs)
  BY WalkTurns
<1>3. Walk(f, bs) \in Seq(Sites(f))
  <2>1. f.nb \in 0 .. f.nb
    BY <1>1
  <2> QED BY <1>2, <2>1 DEF Walks
<1> DEFINE w == Walk(f, bs)
           S == Sites(f)
<1>4. w \in Seq(S)
  BY <1>3
<1> HIDE DEF w, S
<1>5. w \in Seq(S) /\ Len(w) \in Nat /\ \A k \in 1 .. Len(w) : w[k] \in S
  BY <1>4
<1> QED BY <1>5 DEF w, S

(* Other instructions in one block.                                        *)
Bodied(f, b, is) == [f EXCEPT !.blocks[b].insts = is]

LEMMA OneBody ==
  ASSUME NEW f, NEW how, Formed(f, how), NEW p \in Blocks(f), NEW is \in Seq(Fine(Vregs(f), how)),
         NEW g, g = Bodied(f, p, is)
  PROVE  /\ StaysFunc(g, f, how) /\ g.numVregs = f.numVregs /\ IsRecord(g)
         /\ g.blocks[p].insts = is
         /\ \A b \in Blocks(f) : b # p => g.blocks[b] = f.blocks[b]
<1> DEFINE cc == [f.blocks[p] EXCEPT !.insts = is]
           bs == [f.blocks EXCEPT ![p] = cc]
<1>1. /\ DOMAIN f = {"numVregs", "params", "nb", "blocks"} /\ f.numVregs \in Nat
      /\ \A b \in Blocks(f) : f.blocks[b] \in FineBlocks(Vregs(f), f.nb, how)
      /\ f.blocks = [b \in Blocks(f) |-> f.blocks[b]]
  BY FunctionParts
<1>2. g = [f EXCEPT !.blocks = bs]
  BY DEF Bodied
<1>3. cc \in FineBlocks(Vregs(f), f.nb, how) /\ cc.insts = is
  <2> DEFINE bb == f.blocks[p]
  <2>1. bb \in FineBlocks(Vregs(f), f.nb, how)
    BY <1>1
  <2>2. bb \in BasicBlocks(Vregs(f))
    BY <2>1 DEF FineBlocks
  <2> HIDE DEF bb
  <2>3. [bb EXCEPT !.insts = is] \in FineBlocks(Vregs(f), f.nb, how)
    BY <2>1, BlockOf
  <2>4. [bb EXCEPT !.insts = is].insts = is
    BY <2>2 DEF BasicBlocks
  <2> QED BY <2>3, <2>4 DEF bb
<1> HIDE DEF cc
<1>4. /\ bs = [b \in Blocks(f) |-> bs[b]] /\ bs[p] = cc
      /\ \A b \in Blocks(f) : b # p => bs[b] = f.blocks[b]
  BY <1>1
<1> HIDE DEF bs
<1>5. /\ DOMAIN g = DOMAIN f /\ g.nb = f.nb /\ g.params = f.params /\ g.numVregs = f.numVregs
      /\ g.blocks = bs
  BY <1>1, <1>2
<1>10. IsRecord(g)
  BY ONLY <1>2 DEF IsRecord
<1>6. \A b \in Blocks(f) : g.blocks[b] \in FineBlocks(Vregs(g), f.nb, how)
  <2>1. Vregs(g) = Vregs(f)
    BY <1>5 DEF Vregs
  <2> QED BY <1>1, <1>3, <1>4, <1>5, <2>1
<1>7. g.blocks = [b \in Blocks(f) |-> g.blocks[b]]
  BY <1>4, <1>5
<1>8. g.numVregs \in Nat /\ g.numVregs >= f.numVregs
  BY <1>1, <1>5
<1>9. StaysFunc(g, f, how)
  BY ONLY <1>5, <1>6, <1>7, <1>8, FunctionOfParts, Formed(f, how)
<1> QED BY <1>3, <1>4, <1>5, <1>9, <1>10

-----------------------------------------------------------------------------
(* licm.                                                                   *)

(* What is judged invariant, instruction by instruction.                   *)
Judges(g, f, bs) ==
  /\ g \in [0 .. Len(Walk(f, bs)) -> [out : Seq(Sites(f)), known : SUBSET (Vregs(f) \cup {NoReg})]] /\ g[0] = [out |-> << >>, known |-> WrittenOutside(f, bs)]
  /\ \A k \in 1 .. Len(Walk(f, bs)) : g[k] = (LET in == At(f, Walk(f, bs)[k])
                       IN  IF Movable(in) /\ OpUses(in) \subseteq g[k - 1].known
                           THEN [out |-> Append(g[k - 1].out, Walk(f, bs)[k]),
                                 known |-> g[k - 1].known \cup {in.dst}]
                           ELSE g[k - 1])
  /\ Invariant(f, bs) = g[Len(Walk(f, bs))].out

LEMMA InvariantTurns ==
  ASSUME NEW f, NEW how, Formed(f, how), NEW bs
  PROVE  Len(Walk(f, bs)) \in Nat /\ \E g : Judges(g, f, bs)
<1> DEFINE n == Len(Walk(f, bs))
           Z == [out : Seq(Sites(f)), known : SUBSET (Vregs(f) \cup {NoReg})]
           base == [out |-> << >>, known |-> WrittenOutside(f, bs)]
           step(z, k) == (LET in == At(f, Walk(f, bs)[k])
                       IN  IF Movable(in) /\ OpUses(in) \subseteq z.known
                           THEN [out |-> Append(z.out, Walk(f, bs)[k]),
                                 known |-> z.known \cup {in.dst}]
                           ELSE z)
           G == [z \in Z |-> [k \in Nat |-> IF k \in 1 .. n THEN step(z, k) ELSE z]]
           Is(g) == g = [k \in 0 .. n |-> IF k = 0 THEN base ELSE step(g[k - 1], k)]
<1>1. n \in Nat
  BY WalkFacts
<1>2. ASSUME NEW z \in Z, NEW k \in 1 .. n PROVE step(z, k) \in Z
  <2> DEFINE p == Walk(f, bs)[k]
             in == At(f, p)
             S == Sites(f)
             V == Vregs(f) \cup {NoReg}
  <2>1. p \in S
    BY WalkFacts
  <2>2. in.dst \in V
    BY <2>1, SiteFacts, FineFacts
  <2>3. z.out \in Seq(S) /\ z.known \subseteq V
    OBVIOUS
  <2>4. step(z, k) = IF Movable(in) /\ OpUses(in) \subseteq z.known
                     THEN [out |-> Append(z.out, p), known |-> z.known \cup {in.dst}]
                     ELSE z
    OBVIOUS
  <2>5. z \in [out : Seq(S), known : SUBSET V]
    OBVIOUS
  <2>6. Z = [out : Seq(S), known : SUBSET V]
    OBVIOUS
  <2> HIDE DEF p, in, S, V, step, Z
  <2>7. Append(z.out, p) \in Seq(S)
    BY <2>1, <2>3
  <2>8. z.known \cup {in.dst} \subseteq V
    BY <2>2, <2>3
  <2> QED BY <2>4, <2>5, <2>6, <2>7, <2>8
<1>3. base \in Z
  <2>1. WrittenOutside(f, bs) \subseteq Vregs(f) \cup {NoReg}
    <3>1. \A p \in Sites(f) : At(f, p).dst \in Vregs(f) \cup {NoReg}
      BY SiteFacts, FineFacts
    <3> QED BY <3>1 DEF WrittenOutside
  <2> QED BY <2>1
<1>4. Invariant(f, bs) = (CHOOSE g : Is(g))[n].out
  BY DEF Invariant, Iterated
<1>5. \A g : Is(g) <=> g = [k \in 0 .. n |-> IF k = 0 THEN base ELSE step(g[k - 1], k)]
  OBVIOUS
<1> HIDE DEF Z, n, step, base, Is
<1>6. G \in [Z -> [Nat -> Z]] /\ \A z \in Z : \A k \in 1 .. n : G[z][k] = step(z, k)
  BY <1>1, <1>2
<1> HIDE DEF G
<1>7. PICK h : Turned(h, Z, base, G, n)
  BY <1>1, <1>3, <1>6, Turns
<1>8. h \in [0 .. n -> Z] /\ h[0] = base /\ \A k \in 1 .. n : h[k] = step(h[k - 1], k)
  <2>1. h \in [0 .. n -> Z] /\ h[0] = base /\ \A k \in 1 .. n : h[k] = G[h[k - 1]][k]
    BY <1>7 DEF Turned
  <2>2. ASSUME NEW k \in 1 .. n PROVE h[k] = step(h[k - 1], k)
    <3>1. k - 1 \in 0 .. n
      BY <1>1
    <3> QED BY <1>6, <2>1, <3>1
  <2> QED BY <2>1, <2>2
<1>9. Is(h)
  <2>1. ASSUME NEW k \in 0 .. n PROVE h[k] = IF k = 0 THEN base ELSE step(h[k - 1], k)
    <3>1. k # 0 => k \in 1 .. n
      BY <1>1
    <3> QED BY <1>8, <3>1
  <2> QED BY <1>5, <1>8, <2>1
<1>10. PICK g : Is(g) /\ Invariant(f, bs) = g[n].out
  BY <1>4, <1>9
<1>11. g = [k \in 0 .. n |-> IF k = 0 THEN base ELSE step(g[k - 1], k)]
  BY <1>5, <1>10
<1>12. DOMAIN g = 0 .. n /\ g[0] = base /\ \A k \in 1 .. n : g[k] = step(g[k - 1], k)
  BY <1>1, <1>11
<1>13. Turned(g, Z, base, G, n)
  <2>1. \A k \in 1 .. n : g[k - 1] \in Z => g[k] = G[g[k - 1]][k]
    BY <1>6, <1>12
  <2>2. g = [k \in DOMAIN g |-> g[k]]
    BY <1>11
  <2> QED BY <1>1, <1>3, <1>6, <1>12, <2>1, <2>2, StaysIn
<1>14. g \in [0 .. n -> Z]
  BY <1>13 DEF Turned
<1>15. Judges(g, f, bs)
  BY <1>10, <1>12, <1>14 DEF Judges, n, Z, base, step
<1> QED BY <1>1, <1>15 DEF n

LEMMA InvariantFacts ==
  ASSUME NEW f, NEW how, Formed(f, how), NEW bs
  PROVE  Invariant(f, bs) \in Seq(Sites(f))
<1>1. Len(Walk(f, bs)) \in 0 .. Len(Walk(f, bs))
  BY WalkFacts
<1>2. PICK g : Judges(g, f, bs)
  BY InvariantTurns
<1>3. /\ Invariant(f, bs) = g[Len(Walk(f, bs))].out
      /\ g[Len(Walk(f, bs))] \in [out : Seq(Sites(f)), known : SUBSET (Vregs(f) \cup {NoReg})]
  BY <1>1, <1>2 DEF Judges
<1> QED BY <1>3

LEMMA MoveOutStays ==
  ASSUME NEW f, NEW how, Formed(f, how), NEW loop, loop.pre \in Blocks(f)
  PROVE  StaysFunc(MoveOut(f, loop), f, how) /\ IsRecord(MoveOut(f, loop))
<1> DEFINE ps == Invariant(f, loop.in)
           gone == {ps[k] : k \in DOMAIN ps}
           left(b) == {k \in DOMAIN f.blocks[b].insts : <<b, k>> \notin gone}
           h == [b \in Blocks(f) |-> Only(f.blocks[b].insts, left(b))]
           cut == [f EXCEPT !.blocks = [b \in Blocks(f) |-> [f.blocks[b] EXCEPT !.insts = h[b]]]]
           out == [k \in DOMAIN ps |-> At(f, ps[k])]
           F == Fine(Vregs(f), how)
           is == cut.blocks[loop.pre].insts \o out
<1>1. MoveOut(f, loop) = [cut EXCEPT !.blocks[loop.pre].insts = is]
  BY DEF MoveOut
<1>2. \A b \in Blocks(f) : h[b] \in Seq(F)
  BY PartsOf, OnlyFacts
<1>3. out \in Seq(F)
  <2>1. ps \in Seq(Sites(f))
    BY InvariantFacts
  <2> HIDE DEF ps
  <2>2. \A p \in Sites(f) : At(f, p) \in F
    BY SiteFacts
  <2> DEFINE S == Sites(f)
  <2>3. DOMAIN ps = 1 .. Len(ps) /\ Len(ps) \in Nat /\ \A k \in DOMAIN ps : ps[k] \in S
    BY <2>1
  <2> HIDE DEF F
  <2> QED BY <2>2, <2>3
<1> HIDE DEF h, ps, out
<1>4. StaysFunc(cut, f, how) /\ cut.numVregs = f.numVregs
  BY <1>2, Rebodied
<1> HIDE DEF cut
<1>5. Formed(cut, how) /\ Vregs(cut) = Vregs(f) /\ Blocks(cut) = Blocks(f)
  BY <1>4 DEF StaysFunc, Vregs, Blocks
<1>6. is \in Seq(F)
  <2> DEFINE x == cut.blocks[loop.pre].insts
  <2>1. x \in Seq(F)
    BY <1>5, PartsOf
  <2> HIDE DEF x, F
  <2>2. x \o out \in Seq(F)
    BY <1>3, <2>1
  <2> QED BY <2>2 DEF x
<1> HIDE DEF is
<1>7. StaysFunc(MoveOut(f, loop), cut, how) /\ IsRecord(MoveOut(f, loop))
  <2>1. MoveOut(f, loop) = Bodied(cut, loop.pre, is)
    BY <1>1 DEF Bodied
  <2> QED BY <1>5, <1>6, <2>1, OneBody
<1> QED BY <1>4, <1>7 DEF StaysFunc

(* What a function alike becomes is alike.                                 *)
LEMMA StillAlike ==
  ASSUME NEW f, NEW how, Formed(f, how), NEW g \in Likenesses(f, how),
         NEW h, StaysFunc(h, g, how), IsRecord(h)
  PROVE  h \in Likenesses(f, how)
<1>1. StaysFunc(g, f, how)
  BY LikenessIs
<1>2. StaysFunc(h, f, how)
  BY <1>1 DEF StaysFunc
<1> QED BY <1>2, LikenessIs

(* The functions between one loop and the next.                            *)
Moves(g, f, how) ==
  /\ g \in [0 .. Len(Loops(f)) -> Likenesses(f, how)] /\ g[0] = f
  /\ \A k \in 1 .. Len(Loops(f)) : g[k] = MoveOut(g[k - 1], Loops(f)[k])
  /\ Licm(f) = g[Len(Loops(f))]

LEMMA LicmTurns ==
  ASSUME NEW f, NEW how, Formed(f, how)
  PROVE  Len(Loops(f)) \in Nat /\ \E g : Moves(g, f, how)
<1> DEFINE n == Len(Loops(f))
           Z == Likenesses(f, how)
           base == f
           step(z, k) == MoveOut(z, Loops(f)[k])
           G == [z \in Z |-> [k \in Nat |-> IF k \in 1 .. n THEN step(z, k) ELSE z]]
           Is(g) == g = [k \in 0 .. n |-> IF k = 0 THEN base ELSE step(g[k - 1], k)]
<1>1. n \in Nat
  BY LoopsFacts
<1>2. ASSUME NEW z \in Z, NEW k \in 1 .. n PROVE step(z, k) \in Z
  <2>1. Loops(f)[k].pre \in Blocks(f) /\ StaysFunc(z, f, how)
    BY LoopsFacts, LikenessIs
  <2>2. Formed(z, how) /\ Blocks(z) = Blocks(f)
    BY <2>1 DEF StaysFunc, Blocks
  <2>3. StaysFunc(MoveOut(z, Loops(f)[k]), z, how) /\ IsRecord(MoveOut(z, Loops(f)[k]))
    BY <2>1, <2>2, MoveOutStays
  <2> QED BY <2>3, StillAlike
<1>3. base \in Z
  BY LikenessIs
<1>4. Licm(f) = (CHOOSE g : Is(g))[n]
  BY DEF Licm, Iterated
<1>5. \A g : Is(g) <=> g = [k \in 0 .. n |-> IF k = 0 THEN base ELSE step(g[k - 1], k)]
  OBVIOUS
<1> HIDE DEF Z, n, step, base, Is
<1>6. G \in [Z -> [Nat -> Z]] /\ \A z \in Z : \A k \in 1 .. n : G[z][k] = step(z, k)
  BY <1>1, <1>2
<1> HIDE DEF G
<1>7. PICK h : Turned(h, Z, base, G, n)
  BY <1>1, <1>3, <1>6, Turns
<1>8. h \in [0 .. n -> Z] /\ h[0] = base /\ \A k \in 1 .. n : h[k] = step(h[k - 1], k)
  <2>1. h \in [0 .. n -> Z] /\ h[0] = base /\ \A k \in 1 .. n : h[k] = G[h[k - 1]][k]
    BY <1>7 DEF Turned
  <2>2. ASSUME NEW k \in 1 .. n PROVE h[k] = step(h[k - 1], k)
    <3>1. k - 1 \in 0 .. n
      BY <1>1
    <3> QED BY <1>6, <2>1, <3>1
  <2> QED BY <2>1, <2>2
<1>9. Is(h)
  <2>1. ASSUME NEW k \in 0 .. n PROVE h[k] = IF k = 0 THEN base ELSE step(h[k - 1], k)
    <3>1. k # 0 => k \in 1 .. n
      BY <1>1
    <3> QED BY <1>8, <3>1
  <2> QED BY <1>5, <1>8, <2>1
<1>10. PICK g : Is(g) /\ Licm(f) = g[n]
  BY <1>4, <1>9
<1>11. g = [k \in 0 .. n |-> IF k = 0 THEN base ELSE step(g[k - 1], k)]
  BY <1>5, <1>10
<1>12. DOMAIN g = 0 .. n /\ g[0] = base /\ \A k \in 1 .. n : g[k] = step(g[k - 1], k)
  BY <1>1, <1>11
<1>13. Turned(g, Z, base, G, n)
  <2>1. \A k \in 1 .. n : g[k - 1] \in Z => g[k] = G[g[k - 1]][k]
    BY <1>6, <1>12
  <2>2. g = [k \in DOMAIN g |-> g[k]]
    BY <1>11
  <2> QED BY <1>1, <1>3, <1>6, <1>12, <2>1, <2>2, StaysIn
<1>14. g \in [0 .. n -> Z]
  BY <1>13 DEF Turned
<1>15. Moves(g, f, how)
  BY <1>10, <1>12, <1>14 DEF Moves, n, Z, base, step
<1> QED BY <1>1, <1>15 DEF n

LEMMA LicmStays ==
  ASSUME NEW f, NEW how, Formed(f, how)
  PROVE  StaysFunc(Licm(f), f, how)
<1>1. Len(Loops(f)) \in 0 .. Len(Loops(f))
  BY LoopsFacts
<1>2. PICK g : Moves(g, f, how)
  BY LicmTurns
<1>3. Licm(f) \in Likenesses(f, how)
  BY <1>1, <1>2 DEF Moves
<1> QED BY <1>3, LikenessIs

-----------------------------------------------------------------------------
(* Constants that get a vreg of their own.                                 *)

(* Another instruction in one place.                                       *)
LEMMA OneInst ==
  ASSUME NEW f, NEW how, Formed(f, how), NEW p \in Sites(f), NEW in \in Fine(Vregs(f), how),
         NEW g, g = [f EXCEPT !.blocks[p[1]].insts[p[2]] = in]
  PROVE  /\ StaysFunc(g, f, how) /\ g.numVregs = f.numVregs /\ IsRecord(g)
         /\ Sites(g) = Sites(f)
<1> DEFINE F == Fine(Vregs(f), how)
           old == f.blocks[p[1]].insts
           is == [old EXCEPT ![p[2]] = in]
<1>1. p[1] \in Blocks(f) /\ p[2] \in DOMAIN old
  BY SitesAre
<1>2. old \in Seq(F)
  BY <1>1, PartsOf
<1>3. is \in Seq(F) /\ DOMAIN is = DOMAIN old
  <2>1. in \in F
    OBVIOUS
  <2> HIDE DEF F, old
  <2> QED BY <1>1, <1>2, <2>1
<1>4. g = [f EXCEPT !.blocks[p[1]].insts = is]
  OBVIOUS
<1> HIDE DEF is
<1>5. /\ StaysFunc(g, f, how) /\ g.numVregs = f.numVregs /\ IsRecord(g)
      /\ g.blocks[p[1]].insts = is
      /\ \A b \in Blocks(f) : b # p[1] => g.blocks[b] = f.blocks[b]
  <2> DEFINE b == p[1]
  <2>1. b \in Blocks(f)
    BY <1>1
  <2>2. is \in Seq(Fine(Vregs(f), how))
    BY <1>3
  <2> HIDE DEF b
  <2>3. /\ StaysFunc(g, f, how) /\ g.numVregs = f.numVregs /\ IsRecord(g)
        /\ g.blocks[b].insts = is
        /\ \A c \in Blocks(f) : c # b => g.blocks[c] = f.blocks[c]
    <3>1. g = Bodied(f, b, is)
      BY <1>4 DEF Bodied, b
    <3> QED BY ONLY Formed(f, how), <2>1, <2>2, <3>1, OneBody
  <2> QED BY <2>3 DEF b
<1>6. Blocks(g) = Blocks(f)
  BY <1>5 DEF StaysFunc, Blocks
<1>7. \A b \in Blocks(f) : DOMAIN g.blocks[b].insts = DOMAIN f.blocks[b].insts
  BY <1>3, <1>5
<1>8. Sites(g) = Sites(f)
  BY <1>6, <1>7 DEF Sites
<1> QED BY <1>5, <1>8

(* One vreg more.                                                          *)
LEMMA FreshStays ==
  ASSUME NEW f, NEW how, Formed(f, how)
  PROVE  /\ StaysFunc(FreshReg(f), f, how) /\ FreshReg(f).numVregs = f.numVregs + 1
         /\ FreshReg(f).blocks = f.blocks
<1> DEFINE g == FreshReg(f)
<1>1. /\ DOMAIN f = {"numVregs", "params", "nb", "blocks"} /\ f.numVregs \in Nat
      /\ \A b \in Blocks(f) : f.blocks[b] \in FineBlocks(Vregs(f), f.nb, how)
      /\ f.blocks = [b \in Blocks(f) |-> f.blocks[b]]
  BY FunctionParts
<1>2. /\ DOMAIN g = DOMAIN f /\ g.nb = f.nb /\ g.params = f.params
      /\ g.numVregs = f.numVregs + 1 /\ g.blocks = f.blocks
  BY <1>1 DEF FreshReg
<1> HIDE DEF g
<1>3. g.numVregs \in Nat /\ g.numVregs >= f.numVregs
  BY <1>1, <1>2
<1>4. \A b \in Blocks(f) : g.blocks[b] \in FineBlocks(Vregs(g), f.nb, how)
  <2>1. Vregs(f) \subseteq Vregs(g)
    BY <1>1, <1>2 DEF Vregs
  <2> QED BY <1>1, <1>2, <2>1, FineWider
<1>5. g.blocks = [b \in Blocks(f) |-> g.blocks[b]]
  BY <1>1, <1>2
<1>6. StaysFunc(g, f, how)
  BY ONLY <1>2, <1>3, <1>4, <1>5, FunctionOfParts, Formed(f, how)
<1> QED BY <1>2, <1>6 DEF g

(* A new vreg that a move at the end of a block gives a constant.          *)
LEMMA MovedInStays ==
  ASSUME NEW f, NEW how, Formed(f, how), NEW b \in Blocks(f), NEW val \in Vals(Vregs(f)),
         NEW g, g = AppendTo(FreshReg(f), b, Unary("Mv", f.numVregs, val))
  PROVE  /\ StaysFunc(g, f, how) /\ IsRecord(g) /\ Vregs(f) \subseteq Vregs(g)
         /\ f.numVregs \in Vregs(g) /\ Sites(f) \subseteq Sites(g)
         /\ \A p \in Sites(f) : At(g, p) = At(f, p)
<1> DEFINE e == FreshReg(f)
           x == Unary("Mv", f.numVregs, val)
           old == e.blocks[b].insts
           is == Append(old, x)
           F == Fine(Vregs(e), how)
<1>1. StaysFunc(e, f, how) /\ e.numVregs = f.numVregs + 1 /\ e.blocks = f.blocks
  BY FreshStays
<1>2. f.numVregs \in Nat
  BY DEF Formed, IsIRFunc
<1>3. g = [e EXCEPT !.blocks[b].insts = is]
  BY DEF AppendTo
<1> HIDE DEF e
<1>4. /\ Formed(e, how) /\ Blocks(e) = Blocks(f) /\ Vregs(f) \subseteq Vregs(e)
      /\ f.numVregs \in Vregs(e) /\ f.numVregs # NoReg
  BY <1>1, <1>2 DEF StaysFunc, Blocks, Vregs, NoReg
<1>5. x \in F
  <2>1. val \in Vals(Vregs(e))
    BY <1>4, FineWider
  <2> QED BY <1>4, <2>1, UnaryFine
<1>6. old \in Seq(F)
  BY <1>4, PartsOf
<1>7. /\ is \in Seq(F) /\ DOMAIN old \subseteq DOMAIN is
      /\ \A k \in DOMAIN old : is[k] = old[k]
  <2> HIDE DEF F, old, x
  <2> QED BY <1>5, <1>6
<1>8. old = f.blocks[b].insts
  BY <1>1
<1> HIDE DEF is, F, old
<1>9. /\ StaysFunc(g, e, how) /\ g.numVregs = e.numVregs /\ IsRecord(g)
      /\ g.blocks[b].insts = is
      /\ \A c \in Blocks(f) : c # b => g.blocks[c] = f.blocks[c]
  <2>1. g = Bodied(e, b, is)
    BY <1>3 DEF Bodied
  <2> QED BY <1>1, <1>4, <1>7, <2>1, OneBody DEF F
<1>10. StaysFunc(g, f, how) /\ Vregs(g) = Vregs(e) /\ Blocks(g) = Blocks(f)
  BY <1>1, <1>9 DEF StaysFunc, Vregs, Blocks
<1>11. ASSUME NEW p \in Sites(f) PROVE p \in Sites(g) /\ At(g, p) = At(f, p)
  <2>1. p = <<p[1], p[2]>> /\ p[1] \in Blocks(f) /\ p[2] \in DOMAIN f.blocks[p[1]].insts
    BY SitesAre
  <2>2. /\ p[2] \in DOMAIN g.blocks[p[1]].insts
        /\ g.blocks[p[1]].insts[p[2]] = f.blocks[p[1]].insts[p[2]]
    BY <1>7, <1>8, <1>9, <2>1
  <2>3. At(g, p) = At(f, p)
    BY <2>2 DEF At
  <2>4. <<p[1], p[2]>> \in Sites(g)
    BY <1>10, <2>1, <2>2, SitesAre
  <2> QED BY <2>1, <2>3, <2>4
<1> QED BY <1>4, <1>9, <1>10, <1>11

(* The vregs held for the keys met.                                        *)
HeldMaps(K) == UNION {[D -> Nat] : D \in SUBSET K}

HoldStates(f, how, K) ==
  {s \in [f : Likenesses(f, how), held : HeldMaps(K)] :
     /\ Sites(f) \subseteq Sites(s.f)
     /\ \A c \in DOMAIN s.held : s.held[c] \in Vregs(s.f)}

Home(s, key) == IF key \in DOMAIN s.held THEN s.held[key] ELSE s.f.numVregs

Provided(s, key, b, val) ==
  IF Home(s, key) = s.f.numVregs
  THEN AppendTo(FreshReg(s.f), b, Unary("Mv", s.f.numVregs, val)) ELSE s.f

HeldWith(s, key) ==
  [c \in DOMAIN s.held \cup {key} |-> IF c = key THEN Home(s, key) ELSE s.held[c]]

LEMMA HeldGrows ==
  ASSUME NEW K, NEW s, s.held \in HeldMaps(K), NEW key \in K, NEW vs, NEW ws,
         \A c \in DOMAIN s.held : s.held[c] \in vs, vs \subseteq ws, Home(s, key) \in ws,
         ws \subseteq Nat
  PROVE  /\ HeldWith(s, key) \in HeldMaps(K)
         /\ \A c \in DOMAIN HeldWith(s, key) : HeldWith(s, key)[c] \in ws
<1> DEFINE D == DOMAIN s.held
           h == HeldWith(s, key)
<1>1. D \subseteq K
  BY DEF HeldMaps
<1>2. /\ DOMAIN h = D \cup {key} /\ h = [c \in D \cup {key} |-> h[c]]
      /\ \A c \in D \cup {key} : h[c] = IF c = key THEN Home(s, key) ELSE s.held[c]
  BY DEF HeldWith
<1> HIDE DEF h
<1>3. \A c \in D \cup {key} : h[c] \in ws
  BY <1>2
<1>4. h \in [D \cup {key} -> Nat]
  BY <1>2, <1>3
<1>5. D \cup {key} \in SUBSET K
  BY <1>1
<1>6. h \in HeldMaps(K)
  <2> HIDE DEF D
  <2> QED BY <1>4, <1>5 DEF HeldMaps
<1> QED BY <1>2, <1>3, <1>6 DEF h

LEMMA ProvidedFacts ==
  ASSUME NEW f, NEW how, Formed(f, how), NEW K, NEW s \in HoldStates(f, how, K),
         NEW key \in K, NEW b \in Blocks(f), NEW n \in Words
  PROVE  /\ StaysFunc(Provided(s, key, b, Imm(n)), s.f, how) /\ Formed(s.f, how)
         /\ Sites(f) \subseteq Sites(Provided(s, key, b, Imm(n)))
         /\ \A p \in Sites(f) : At(Provided(s, key, b, Imm(n)), p) = At(s.f, p)
         /\ Home(s, key) \in Vregs(Provided(s, key, b, Imm(n)))
         /\ HeldWith(s, key) \in HeldMaps(K)
         /\ \A c \in DOMAIN HeldWith(s, key) :
              HeldWith(s, key)[c] \in Vregs(Provided(s, key, b, Imm(n)))
<1> DEFINE g == Provided(s, key, b, Imm(n))
           e == s.f
<1>1. /\ e \in Likenesses(f, how) /\ Sites(f) \subseteq Sites(e) /\ s.held \in HeldMaps(K)
      /\ \A c \in DOMAIN s.held : s.held[c] \in Vregs(e)
  BY DEF HoldStates
<1>2. StaysFunc(e, f, how)
  BY <1>1, LikenessIs
<1>3. /\ Formed(e, how) /\ Blocks(e) = Blocks(f) /\ e.numVregs \in Nat
      /\ Imm(n) \in Vals(Vregs(e)) /\ e.numVregs \notin Vregs(e)
  <2>1. Formed(e, how) /\ Blocks(e) = Blocks(f) /\ e.numVregs \in Nat
    BY <1>2 DEF StaysFunc, Formed, IsIRFunc, Blocks
  <2> QED BY <2>1, ValsMade DEF Vregs
<1>4. CASE key \in DOMAIN s.held
  <2>1. Home(s, key) = s.held[key] /\ Home(s, key) \in Vregs(e)
    BY <1>1, <1>4 DEF Home
  <2>2. g = e
    BY <1>3, <2>1 DEF Provided
  <2>3. /\ StaysFunc(g, e, how) /\ Sites(f) \subseteq Sites(g) /\ Vregs(e) \subseteq Vregs(g)
        /\ \A p \in Sites(f) : At(g, p) = At(e, p)
        /\ Home(s, key) \in Vregs(g)
    BY <1>1, <1>3, <2>1, <2>2 DEF StaysFunc
  <2> HIDE DEF g, e
  <2>4. HeldWith(s, key) \in HeldMaps(K) /\ \A c \in DOMAIN HeldWith(s, key) : HeldWith(s, key)[c] \in Vregs(g)
    <3>1. Vregs(g) \subseteq Nat
      BY <2>3 DEF StaysFunc, Formed, IsIRFunc, Vregs
    <3> QED BY <1>1, <2>3, <3>1, HeldGrows
  <2> QED BY <1>3, <2>3, <2>4 DEF g, e
<1>5. CASE key \notin DOMAIN s.held
  <2>1. Home(s, key) = e.numVregs
    BY <1>5 DEF Home
  <2>2. g = AppendTo(FreshReg(e), b, Unary("Mv", e.numVregs, Imm(n)))
    BY <2>1 DEF Provided
  <2> HIDE DEF g, e
  <2>3. /\ StaysFunc(g, e, how) /\ Vregs(e) \subseteq Vregs(g)
        /\ e.numVregs \in Vregs(g) /\ Sites(e) \subseteq Sites(g)
        /\ \A p \in Sites(e) : At(g, p) = At(e, p)
    BY <1>3, <2>2, MovedInStays
  <2>4. /\ StaysFunc(g, e, how) /\ Sites(f) \subseteq Sites(g) /\ Vregs(e) \subseteq Vregs(g)
        /\ \A p \in Sites(f) : At(g, p) = At(e, p)
        /\ Home(s, key) \in Vregs(g)
    BY <1>1, <2>1, <2>3
  <2>5. HeldWith(s, key) \in HeldMaps(K) /\ \A c \in DOMAIN HeldWith(s, key) : HeldWith(s, key)[c] \in Vregs(g)
    <3>1. Vregs(g) \subseteq Nat
      BY <2>4 DEF StaysFunc, Formed, IsIRFunc, Vregs
    <3> QED BY <1>1, <2>4, <3>1, HeldGrows
  <2> QED BY <1>3, <2>4, <2>5 DEF g, e
<1> QED BY <1>4, <1>5

(* An instruction with a vreg for one operand.                             *)
LEMMA OperandFine ==
  ASSUME NEW vs, NEW how, NEW in \in Fine(vs, how), NEW field \in {"a", "b"}, NEW v \in vs,
         in.op \in CmpOps \/ how # "exact"
  PROVE  [in EXCEPT ![field] = Reg(v)] \in Fine(vs, how)
<1> DEFINE val == Reg(v)
<1>1. val \in Vals(vs)
  BY ValsMade
<1>2. /\ in \in Insts(vs) /\ (in.op \notin {"StoreGlobal", "Call"} => in.dst # NoReg)
      /\ (in.op = "StoreGlobal" => in.dst = NoReg)
  BY DEF Fine
<1> HIDE DEF val
<1>3. CASE field = "a"
  <2> DEFINE new == [in EXCEPT !["a"] = val]
  <2>1. new \in Insts(vs) /\ new.op = in.op /\ new.dst = in.dst
    BY <1>1, <1>2 DEF Insts
  <2> HIDE DEF new
  <2>2. AsMarked(new, how)
    BY <2>1 DEF AsMarked, MarkedExactly, CmpOps
  <2>3. new \in Fine(vs, how)
    BY <1>2, <2>1, <2>2 DEF Fine
  <2> QED BY <1>3, <2>3 DEF new, val
<1>4. CASE field = "b"
  <2> DEFINE new == [in EXCEPT !["b"] = val]
  <2>1. new \in Insts(vs) /\ new.op = in.op /\ new.dst = in.dst
    BY <1>1, <1>2 DEF Insts
  <2> HIDE DEF new
  <2>2. AsMarked(new, how)
    BY <2>1 DEF AsMarked, MarkedExactly, CmpOps
  <2>3. new \in Fine(vs, how)
    BY <1>2, <2>1, <2>2 DEF Fine
  <2> QED BY <1>4, <2>3 DEF new, val
<1> QED BY <1>3, <1>4

(* An instruction that changes, with the vreg provided for it.             *)
Settled(s, key, pre, n, p, in) ==
  LET g == Provided(s, key, pre, Imm(n))
  IN  [f |-> [g EXCEPT !.blocks[p[1]].insts[p[2]] = in], held |-> HeldWith(s, key)]

LEMMA SettledFacts ==
  ASSUME NEW f, NEW how, Formed(f, how), NEW K, NEW s \in HoldStates(f, how, K),
         NEW key \in K, NEW pre \in Blocks(f), NEW n \in Words, NEW p \in Sites(f),
         NEW in \in Fine(Vregs(Provided(s, key, pre, Imm(n))), how)
  PROVE  Settled(s, key, pre, n, p, in) \in HoldStates(f, how, K)
<1> DEFINE g == Provided(s, key, pre, Imm(n))
           h == [g EXCEPT !.blocks[p[1]].insts[p[2]] = in]
<1>1. /\ StaysFunc(g, s.f, how) /\ Sites(f) \subseteq Sites(g)
      /\ HeldWith(s, key) \in HeldMaps(K)
      /\ \A c \in DOMAIN HeldWith(s, key) : HeldWith(s, key)[c] \in Vregs(g)
      /\ s.f \in Likenesses(f, how)
  BY ProvidedFacts DEF HoldStates
<1>2. in \in Fine(Vregs(g), how) /\ p \in Sites(g) /\ Formed(g, how)
  BY <1>1 DEF StaysFunc
<1>6. Settled(s, key, pre, n, p, in) = [f |-> h, held |-> HeldWith(s, key)]
  BY DEF Settled
<1> HIDE DEF g
<1>3. StaysFunc(h, g, how) /\ h.numVregs = g.numVregs /\ IsRecord(h) /\ Sites(h) = Sites(g)
  BY <1>2, OneInst
<1> HIDE DEF h
<1>4. h \in Likenesses(f, how)
  <2>1. StaysFunc(h, s.f, how)
    BY <1>1, <1>3 DEF StaysFunc
  <2> QED BY <1>1, <1>3, <2>1, StillAlike
<1>5. Vregs(h) = Vregs(g) /\ Sites(f) \subseteq Sites(h)
  BY <1>1, <1>3 DEF Vregs
<1>7. \A c \in DOMAIN HeldWith(s, key) : HeldWith(s, key)[c] \in Vregs(h)
  BY <1>1, <1>5
<1> HIDE DEF HeldWith
<1> QED BY <1>1, <1>4, <1>5, <1>6, <1>7 DEF HoldStates

LEMMA HoistFine ==
  ASSUME NEW f, NEW how, Formed(f, how), NEW s \in HoldStates(f, how, Words),
         NEW p \in Sites(f), NEW field \in {"a", "b"}, NEW pre \in Blocks(f),
         ~IsReg(At(s.f, p)[field]), At(s.f, p).op \in CmpOps \/ how # "exact"
  PROVE  Hoist(s, p, field, pre) \in HoldStates(f, how, Words)
<1> DEFINE val == At(s.f, p)[field]
           n == val.n
           g == Provided(s, n, pre, Imm(n))
           in == [At(g, p) EXCEPT ![field] = Reg(Home(s, n))]
<1>1. /\ s.f \in Likenesses(f, how) /\ Sites(f) \subseteq Sites(s.f) /\ Formed(s.f, how)
  BY LikenessIs DEF HoldStates, StaysFunc
<1>2. val \in Vals(Vregs(s.f))
  <2>1. At(s.f, p).a \in Vals(Vregs(s.f)) /\ At(s.f, p).b \in Vals(Vregs(s.f))
    BY <1>1, SiteFacts, FineFacts
  <2>2. CASE field = "a"
    BY <2>1, <2>2
  <2>3. CASE field = "b"
    BY <2>1, <2>3
  <2> QED BY <2>2, <2>3
<1>3. n \in Words /\ val = Imm(n)
  BY <1>2, ValFacts
<1>4. Hoist(s, p, field, pre) = Settled(s, n, pre, n, p, in)
  <2>1. Hoist(s, p, field, pre) =
          [f |-> [Provided(s, n, pre, val) EXCEPT
                    !.blocks[p[1]].insts[p[2]][field] = Reg(Home(s, n))],
           held |-> HeldWith(s, n)]
    BY DEF Hoist, Provided, Home, HeldWith
  <2>2. Provided(s, n, pre, val) = g
    BY <1>3
  <2> HIDE DEF g, n, val
  <2> QED BY <2>1, <2>2 DEF Settled, At, g
<1> HIDE DEF n, val
<1>5. /\ \A q \in Sites(f) : At(g, q) = At(s.f, q)
      /\ Home(s, n) \in Vregs(g) /\ Formed(g, how) /\ Sites(f) \subseteq Sites(g)
  BY <1>3, ProvidedFacts DEF StaysFunc
<1>6. in \in Fine(Vregs(g), how)
  <2> HIDE DEF g
  <2>1. At(g, p) \in Fine(Vregs(g), how) /\ At(g, p).op = At(s.f, p).op
    BY <1>5, SiteFacts
  <2> QED BY <1>5, <2>1, OperandFine
<1> HIDE DEF in
<1> QED BY <1>3, <1>4, <1>6, SettledFacts

LEMMA NothingHeld ==
  ASSUME NEW f, NEW how, Formed(f, how), NEW K, NEW g \in Likenesses(f, how)
  PROVE  [f |-> g, held |-> << >>] \in HoldStates(g, how, K)
<1> DEFINE none == << >>
<1>1. DOMAIN none = {} /\ none \in [{} -> Nat]
  OBVIOUS
<1> HIDE DEF none
<1>2. none \in HeldMaps(K)
  BY <1>1 DEF HeldMaps
<1>3. g \in Likenesses(g, how)
  BY LikenessIs DEF StaysFunc
<1>4. [f |-> g, held |-> none] \in HoldStates(g, how, K)
  BY <1>1, <1>2, <1>3 DEF HoldStates
<1> QED BY <1>4 DEF none

LEMMA AlikeAgain ==
  ASSUME NEW f, NEW how, Formed(f, how), NEW g \in Likenesses(f, how),
         NEW h \in Likenesses(g, how)
  PROVE  h \in Likenesses(f, how)
<1>1. StaysFunc(g, f, how)
  BY LikenessIs
<1>2. g.nb = f.nb /\ g.params = f.params /\ Blocks(g) = Blocks(f)
  BY <1>1 DEF StaysFunc, Blocks
<1>3. CASE h = g
  BY <1>3
<1>4. CASE h # g
  BY <1>2, <1>4 DEF Likenesses
<1> QED BY <1>3, <1>4

(* hoistLoopConstants and hoistDivModConstants keep a function             *)
(* well-formed; the second leaves no division marked as it should be.      *)
LEMMA WantedOperand ==
  ASSUME NEW vs, NEW how, NEW in \in Fine(vs, how), NEW kind, kind = "compare" \/ how # "exact",
         NEW field \in {"a", "b"},
         IF kind = "compare" THEN Comparand(in, field) ELSE Divisor(in, field)
  PROVE  ~IsReg(in[field]) /\ (in.op \in CmpOps \/ how # "exact")
<1>1. CASE kind = "compare"
  BY <1>1 DEF Comparand
<1>2. CASE kind # "compare"
  BY <1>2 DEF Divisor
<1> QED BY <1>1, <1>2


(* The vregs held between one operand and the next.                        *)
Hoists(g, f, loop, kind, how) ==
  /\ g \in [0 .. 2 * Len(Walk(f, loop.in)) -> HoldStates(f, how, Words)] /\ g[0] = [f |-> f, held |-> << >>]
  /\ \A k \in 1 .. 2 * Len(Walk(f, loop.in)) : g[k] = (LET p == Walk(f, loop.in)[(k + 1) \div 2]
                           field == IF k % 2 = 1 THEN "a" ELSE "b"
                       IN  IF (IF kind = "compare" THEN Comparand(At(g[k - 1].f, p), field)
                                                   ELSE Divisor(At(g[k - 1].f, p), field))
                           THEN Hoist(g[k - 1], p, field, loop.pre) ELSE g[k - 1])
  /\ HoistFrom(f, loop, kind) = g[2 * Len(Walk(f, loop.in))].f

LEMMA HoistTurns ==
  ASSUME NEW f, NEW how, Formed(f, how), NEW loop, loop.pre \in Blocks(f),
         NEW kind, kind = "compare" \/ how # "exact"
  PROVE  2 * Len(Walk(f, loop.in)) \in Nat /\ \E g : Hoists(g, f, loop, kind, how)
<1> DEFINE n == 2 * Len(Walk(f, loop.in))
           Z == HoldStates(f, how, Words)
           base == [f |-> f, held |-> << >>]
           step(z, k) == (LET p == Walk(f, loop.in)[(k + 1) \div 2]
                           field == IF k % 2 = 1 THEN "a" ELSE "b"
                       IN  IF (IF kind = "compare" THEN Comparand(At(z.f, p), field)
                                                   ELSE Divisor(At(z.f, p), field))
                           THEN Hoist(z, p, field, loop.pre) ELSE z)
           G == [z \in Z |-> [k \in Nat |-> IF k \in 1 .. n THEN step(z, k) ELSE z]]
           Is(g) == g = [k \in 0 .. n |-> IF k = 0 THEN base ELSE step(g[k - 1], k)]
<1>1. n \in Nat
  <2> DEFINE m == Len(Walk(f, loop.in))
  <2>1. m \in Nat
    BY WalkFacts
  <2> HIDE DEF m
  <2>2. 2 * m \in Nat
    BY <2>1
  <2> QED BY <2>2 DEF m
<1>2. ASSUME NEW z \in Z, NEW k \in 1 .. n PROVE step(z, k) \in Z
  <2> DEFINE m == Len(Walk(f, loop.in))
             j == (k + 1) \div 2
             p == Walk(f, loop.in)[j]
             field == IF k % 2 = 1 THEN "a" ELSE "b"
             want == IF kind = "compare" THEN Comparand(At(z.f, p), field)
                                         ELSE Divisor(At(z.f, p), field)
  <2>1. m \in Nat /\ k \in 1 .. 2 * m
    BY WalkFacts
  <2>6. field \in {"a", "b"}
    OBVIOUS
  <2>7. step(z, k) = IF want THEN Hoist(z, p, field, loop.pre) ELSE z
    OBVIOUS
  <2> HIDE DEF m, field
  <2>2. j \in 1 .. m
    BY <2>1
  <2> HIDE DEF j
  <2>3. p \in Sites(f)
    BY <2>2, WalkFacts DEF m
  <2> HIDE DEF p
  <2>4. /\ Formed(z.f, how) /\ p \in Sites(z.f)
    BY <2>3, LikenessIs DEF HoldStates, StaysFunc
  <2>5. At(z.f, p) \in Fine(Vregs(z.f), how)
    BY <2>4, SiteFacts
  <2>8. ASSUME want PROVE Hoist(z, p, field, loop.pre) \in Z
    <3>1. ~IsReg(At(z.f, p)[field]) /\ (At(z.f, p).op \in CmpOps \/ how # "exact")
      BY <2>5, <2>6, <2>8, WantedOperand
    <3>2. z \in HoldStates(f, how, Words)
      OBVIOUS
    <3>3. Hoist(z, p, field, loop.pre) \in HoldStates(f, how, Words)
      BY <2>3, <2>6, <3>1, <3>2, HoistFine
    <3> QED BY <3>3
  <2> HIDE DEF want, step, Z
  <2> QED BY <2>7, <2>8
<1>3. base \in Z
  <2>1. f \in Likenesses(f, how)
    BY LikenessIs
  <2> QED BY <2>1, NothingHeld
<1>4. HoistFrom(f, loop, kind) = (CHOOSE g : Is(g))[n].f
  BY DEF HoistFrom, Iterated
<1>5. \A g : Is(g) <=> g = [k \in 0 .. n |-> IF k = 0 THEN base ELSE step(g[k - 1], k)]
  OBVIOUS
<1> HIDE DEF Z, n, step, base, Is
<1>6. G \in [Z -> [Nat -> Z]] /\ \A z \in Z : \A k \in 1 .. n : G[z][k] = step(z, k)
  BY <1>1, <1>2
<1> HIDE DEF G
<1>7. PICK h : Turned(h, Z, base, G, n)
  BY <1>1, <1>3, <1>6, Turns
<1>8. h \in [0 .. n -> Z] /\ h[0] = base /\ \A k \in 1 .. n : h[k] = step(h[k - 1], k)
  <2>1. h \in [0 .. n -> Z] /\ h[0] = base /\ \A k \in 1 .. n : h[k] = G[h[k - 1]][k]
    BY <1>7 DEF Turned
  <2>2. ASSUME NEW k \in 1 .. n PROVE h[k] = step(h[k - 1], k)
    <3>1. k - 1 \in 0 .. n
      BY <1>1
    <3> QED BY <1>6, <2>1, <3>1
  <2> QED BY <2>1, <2>2
<1>9. Is(h)
  <2>1. ASSUME NEW k \in 0 .. n PROVE h[k] = IF k = 0 THEN base ELSE step(h[k - 1], k)
    <3>1. k # 0 => k \in 1 .. n
      BY <1>1
    <3> QED BY <1>8, <3>1
  <2> QED BY <1>5, <1>8, <2>1
<1>10. PICK g : Is(g) /\ HoistFrom(f, loop, kind) = g[n].f
  BY <1>4, <1>9
<1>11. g = [k \in 0 .. n |-> IF k = 0 THEN base ELSE step(g[k - 1], k)]
  BY <1>5, <1>10
<1>12. DOMAIN g = 0 .. n /\ g[0] = base /\ \A k \in 1 .. n : g[k] = step(g[k - 1], k)
  BY <1>1, <1>11
<1>13. Turned(g, Z, base, G, n)
  <2>1. \A k \in 1 .. n : g[k - 1] \in Z => g[k] = G[g[k - 1]][k]
    BY <1>6, <1>12
  <2>2. g = [k \in DOMAIN g |-> g[k]]
    BY <1>11
  <2> QED BY <1>1, <1>3, <1>6, <1>12, <2>1, <2>2, StaysIn
<1>14. g \in [0 .. n -> Z]
  BY <1>13 DEF Turned
<1>15. Hoists(g, f, loop, kind, how)
  BY <1>10, <1>12, <1>14 DEF Hoists, n, Z, base, step
<1> QED BY <1>1, <1>15 DEF n

LEMMA HoistedFrom ==
  ASSUME NEW f, NEW how, Formed(f, how), NEW loop, loop.pre \in Blocks(f),
         NEW kind, kind = "compare" \/ how # "exact"
  PROVE  HoistFrom(f, loop, kind) \in Likenesses(f, how)
<1> DEFINE n == 2 * Len(Walk(f, loop.in))
<1>1. n \in Nat
  BY HoistTurns
<1>2. PICK g : Hoists(g, f, loop, kind, how)
  BY HoistTurns
<1>3. g \in [0 .. n -> HoldStates(f, how, Words)] /\ HoistFrom(f, loop, kind) = g[n].f
  BY <1>2 DEF Hoists
<1> HIDE DEF n
<1>4. g[n] \in HoldStates(f, how, Words)
  BY <1>1, <1>3
<1> QED BY <1>3, <1>4 DEF HoldStates

(* The functions between one loop and the next.                            *)
HoistsAll(g, f, kind, how) ==
  /\ g \in [0 .. Len(Loops(f)) -> Likenesses(f, how)] /\ g[0] = f
  /\ \A k \in 1 .. Len(Loops(f)) : g[k] = HoistFrom(g[k - 1], Loops(f)[k], kind)
  /\ HoistAll(f, kind) = g[Len(Loops(f))]

LEMMA HoistAllTurns ==
  ASSUME NEW f, NEW how, Formed(f, how), NEW kind, kind = "compare" \/ how # "exact"
  PROVE  Len(Loops(f)) \in Nat /\ \E g : HoistsAll(g, f, kind, how)
<1> DEFINE n == Len(Loops(f))
           Z == Likenesses(f, how)
           base == f
           step(z, k) == HoistFrom(z, Loops(f)[k], kind)
           G == [z \in Z |-> [k \in Nat |-> IF k \in 1 .. n THEN step(z, k) ELSE z]]
           Is(g) == g = [k \in 0 .. n |-> IF k = 0 THEN base ELSE step(g[k - 1], k)]
<1>1. n \in Nat
  BY LoopsFacts
<1>2. ASSUME NEW z \in Z, NEW k \in 1 .. n PROVE step(z, k) \in Z
  <2>1. Loops(f)[k].pre \in Blocks(f) /\ StaysFunc(z, f, how)
    BY LoopsFacts, LikenessIs
  <2>2. Formed(z, how) /\ Blocks(z) = Blocks(f)
    BY <2>1 DEF StaysFunc, Blocks
  <2>3. HoistFrom(z, Loops(f)[k], kind) \in Likenesses(z, how)
    BY <2>1, <2>2, HoistedFrom
  <2> QED BY <2>3, AlikeAgain
<1>3. base \in Z
  BY LikenessIs
<1>4. HoistAll(f, kind) = (CHOOSE g : Is(g))[n]
  BY DEF HoistAll, Iterated
<1>5. \A g : Is(g) <=> g = [k \in 0 .. n |-> IF k = 0 THEN base ELSE step(g[k - 1], k)]
  OBVIOUS
<1> HIDE DEF Z, n, step, base, Is
<1>6. G \in [Z -> [Nat -> Z]] /\ \A z \in Z : \A k \in 1 .. n : G[z][k] = step(z, k)
  BY <1>1, <1>2
<1> HIDE DEF G
<1>7. PICK h : Turned(h, Z, base, G, n)
  BY <1>1, <1>3, <1>6, Turns
<1>8. h \in [0 .. n -> Z] /\ h[0] = base /\ \A k \in 1 .. n : h[k] = step(h[k - 1], k)
  <2>1. h \in [0 .. n -> Z] /\ h[0] = base /\ \A k \in 1 .. n : h[k] = G[h[k - 1]][k]
    BY <1>7 DEF Turned
  <2>2. ASSUME NEW k \in 1 .. n PROVE h[k] = step(h[k - 1], k)
    <3>1. k - 1 \in 0 .. n
      BY <1>1
    <3> QED BY <1>6, <2>1, <3>1
  <2> QED BY <2>1, <2>2
<1>9. Is(h)
  <2>1. ASSUME NEW k \in 0 .. n PROVE h[k] = IF k = 0 THEN base ELSE step(h[k - 1], k)
    <3>1. k # 0 => k \in 1 .. n
      BY <1>1
    <3> QED BY <1>8, <3>1
  <2> QED BY <1>5, <1>8, <2>1
<1>10. PICK g : Is(g) /\ HoistAll(f, kind) = g[n]
  BY <1>4, <1>9
<1>11. g = [k \in 0 .. n |-> IF k = 0 THEN base ELSE step(g[k - 1], k)]
  BY <1>5, <1>10
<1>12. DOMAIN g = 0 .. n /\ g[0] = base /\ \A k \in 1 .. n : g[k] = step(g[k - 1], k)
  BY <1>1, <1>11
<1>13. Turned(g, Z, base, G, n)
  <2>1. \A k \in 1 .. n : g[k - 1] \in Z => g[k] = G[g[k - 1]][k]
    BY <1>6, <1>12
  <2>2. g = [k \in DOMAIN g |-> g[k]]
    BY <1>11
  <2> QED BY <1>1, <1>3, <1>6, <1>12, <2>1, <2>2, StaysIn
<1>14. g \in [0 .. n -> Z]
  BY <1>13 DEF Turned
<1>15. HoistsAll(g, f, kind, how)
  BY <1>10, <1>12, <1>14 DEF HoistsAll, n, Z, base, step
<1> QED BY <1>1, <1>15 DEF n

LEMMA HoistAllStays ==
  ASSUME NEW f, NEW how, Formed(f, how), NEW kind, kind = "compare" \/ how # "exact"
  PROVE  StaysFunc(HoistAll(f, kind), f, how)
<1>1. Len(Loops(f)) \in 0 .. Len(Loops(f))
  BY LoopsFacts
<1>2. PICK g : HoistsAll(g, f, kind, how)
  BY HoistAllTurns
<1>3. HoistAll(f, kind) \in Likenesses(f, how)
  BY <1>1, <1>2 DEF HoistsAll
<1> QED BY <1>3, LikenessIs

-----------------------------------------------------------------------------
(* hoistMagicDiv.                                                          *)

MagicKeys == Words \X BOOLEAN

LEMMA GivenMagic ==
  ASSUME NEW f, Formed(f, "exact"), NEW s \in HoldStates(f, "exact", MagicKeys),
         NEW p \in Sites(f), NEW pre \in Blocks(f), WantsMagic(At(s.f, p))
  PROVE  GiveMagic(s, p, pre) \in HoldStates(f, "exact", MagicKeys)
<1> DEFINE how == "exact"
           was == At(s.f, p)
           n == MagicOf(was)
           key == MagicKey(was)
           g == Provided(s, key, pre, Imm(n))
           in == [At(g, p) EXCEPT !.magic = Home(s, key)]
<1>1. /\ s.f \in Likenesses(f, how) /\ Sites(f) \subseteq Sites(s.f) /\ Formed(s.f, how)
  BY LikenessIs DEF HoldStates, StaysFunc
<1>2. was \in Fine(Vregs(s.f), how) /\ WantsMagic(was)
  BY <1>1, SiteFacts
<1>4. GiveMagic(s, p, pre) = Settled(s, key, pre, n, p, in)
  <2>1. GiveMagic(s, p, pre) =
          [f |-> [g EXCEPT !.blocks[p[1]].insts[p[2]].magic = Home(s, key)],
           held |-> HeldWith(s, key)]
    BY DEF GiveMagic, Provided, Home, HeldWith
  <2> HIDE DEF g, n, key
  <2> QED BY <2>1 DEF Settled, At, g
<1>3. n \in Words /\ key \in MagicKeys
  <2> HIDE DEF was
  <2>1. /\ was.b.n \in Words /\ was.unsignedDiv \in BOOLEAN /\ NeedsMagic(was.b.n)
        /\ was.op \in {"Div", "Mod"}
    BY <1>2, FineFacts, ValFacts DEF WantsMagic
  <2>2. was.unsignedDiv => was.b.n \in 3 .. Half - 1
    BY <1>2, <2>1 DEF Fine, AsMarked, MarkedExactly
  <2>3. was.b.n \in Divisors
    BY <2>1 DEF Divisors
  <2>4. n \in Words
    BY <2>2, <2>3, MagicWords DEF MagicOf
  <2>5. key \in MagicKeys
    BY <2>1 DEF MagicKey, MagicKeys
  <2> QED BY <2>4, <2>5
<1> HIDE DEF was, n, key
<1>5. /\ \A q \in Sites(f) : At(g, q) = At(s.f, q)
      /\ Home(s, key) \in Vregs(g) /\ Formed(g, how) /\ Sites(f) \subseteq Sites(g)
  BY <1>3, ProvidedFacts DEF StaysFunc
<1>6. in \in Fine(Vregs(g), how)
  <2> DEFINE old == At(g, p)
  <2>1. old \in Fine(Vregs(g), how)
    BY <1>5, SiteFacts
  <2> HIDE DEF g, old
  <2>2. /\ old \in Insts(Vregs(g)) /\ AsMarked(old, how)
        /\ (old.op \notin {"StoreGlobal", "Call"} => old.dst # NoReg)
        /\ (old.op = "StoreGlobal" => old.dst = NoReg)
    BY <2>1 DEF Fine
  <2>3. /\ in \in Insts(Vregs(g)) /\ in.op = old.op /\ in.dst = old.dst
        /\ in.unsignedDiv = old.unsignedDiv /\ in.b = old.b
    BY <1>5, <2>2 DEF Insts, old
  <2> HIDE DEF in
  <2>4. AsMarked(in, how)
    BY <2>2, <2>3 DEF AsMarked, MarkedExactly
  <2> QED BY <2>2, <2>3, <2>4 DEF Fine
<1> HIDE DEF in
<1> QED BY <1>3, <1>4, <1>6, SettledFacts

(* The vregs held between one division and the next.                       *)
Magics(g, f, loop) ==
  /\ g \in [0 .. Len(Walk(f, loop.in)) -> HoldStates(f, "exact", MagicKeys)] /\ g[0] = [f |-> f, held |-> << >>]
  /\ \A k \in 1 .. Len(Walk(f, loop.in)) : g[k] = (IF WantsMagic(At(g[k - 1].f, Walk(f, loop.in)[k]))
                       THEN GiveMagic(g[k - 1], Walk(f, loop.in)[k], loop.pre) ELSE g[k - 1])
  /\ MagicFrom(f, loop) = g[Len(Walk(f, loop.in))].f

LEMMA MagicTurns ==
  ASSUME NEW f, Formed(f, "exact"), NEW loop, loop.pre \in Blocks(f)
  PROVE  Len(Walk(f, loop.in)) \in Nat /\ \E g : Magics(g, f, loop)
<1> DEFINE n == Len(Walk(f, loop.in))
           Z == HoldStates(f, "exact", MagicKeys)
           base == [f |-> f, held |-> << >>]
           step(z, k) == (IF WantsMagic(At(z.f, Walk(f, loop.in)[k]))
                       THEN GiveMagic(z, Walk(f, loop.in)[k], loop.pre) ELSE z)
           G == [z \in Z |-> [k \in Nat |-> IF k \in 1 .. n THEN step(z, k) ELSE z]]
           Is(g) == g = [k \in 0 .. n |-> IF k = 0 THEN base ELSE step(g[k - 1], k)]
<1>1. n \in Nat
  BY WalkFacts
<1>2. ASSUME NEW z \in Z, NEW k \in 1 .. n PROVE step(z, k) \in Z
  <2> DEFINE p == Walk(f, loop.in)[k]
  <2>1. step(z, k) = IF WantsMagic(At(z.f, p)) THEN GiveMagic(z, p, loop.pre) ELSE z
    OBVIOUS
  <2>2. p \in Sites(f)
    BY WalkFacts
  <2>3. z \in HoldStates(f, "exact", MagicKeys)
    OBVIOUS
  <2> HIDE DEF p, step
  <2>4. WantsMagic(At(z.f, p)) => GiveMagic(z, p, loop.pre) \in HoldStates(f, "exact", MagicKeys)
    BY <2>2, <2>3, GivenMagic
  <2> QED BY <2>1, <2>3, <2>4
<1>3. base \in Z
  <2>1. f \in Likenesses(f, "exact")
    BY LikenessIs
  <2> QED BY <2>1, NothingHeld
<1>4. MagicFrom(f, loop) = (CHOOSE g : Is(g))[n].f
  BY DEF MagicFrom, Iterated
<1>5. \A g : Is(g) <=> g = [k \in 0 .. n |-> IF k = 0 THEN base ELSE step(g[k - 1], k)]
  OBVIOUS
<1> HIDE DEF Z, n, step, base, Is
<1>6. G \in [Z -> [Nat -> Z]] /\ \A z \in Z : \A k \in 1 .. n : G[z][k] = step(z, k)
  BY <1>1, <1>2
<1> HIDE DEF G
<1>7. PICK h : Turned(h, Z, base, G, n)
  BY <1>1, <1>3, <1>6, Turns
<1>8. h \in [0 .. n -> Z] /\ h[0] = base /\ \A k \in 1 .. n : h[k] = step(h[k - 1], k)
  <2>1. h \in [0 .. n -> Z] /\ h[0] = base /\ \A k \in 1 .. n : h[k] = G[h[k - 1]][k]
    BY <1>7 DEF Turned
  <2>2. ASSUME NEW k \in 1 .. n PROVE h[k] = step(h[k - 1], k)
    <3>1. k - 1 \in 0 .. n
      BY <1>1
    <3> QED BY <1>6, <2>1, <3>1
  <2> QED BY <2>1, <2>2
<1>9. Is(h)
  <2>1. ASSUME NEW k \in 0 .. n PROVE h[k] = IF k = 0 THEN base ELSE step(h[k - 1], k)
    <3>1. k # 0 => k \in 1 .. n
      BY <1>1
    <3> QED BY <1>8, <3>1
  <2> QED BY <1>5, <1>8, <2>1
<1>10. PICK g : Is(g) /\ MagicFrom(f, loop) = g[n].f
  BY <1>4, <1>9
<1>11. g = [k \in 0 .. n |-> IF k = 0 THEN base ELSE step(g[k - 1], k)]
  BY <1>5, <1>10
<1>12. DOMAIN g = 0 .. n /\ g[0] = base /\ \A k \in 1 .. n : g[k] = step(g[k - 1], k)
  BY <1>1, <1>11
<1>13. Turned(g, Z, base, G, n)
  <2>1. \A k \in 1 .. n : g[k - 1] \in Z => g[k] = G[g[k - 1]][k]
    BY <1>6, <1>12
  <2>2. g = [k \in DOMAIN g |-> g[k]]
    BY <1>11
  <2> QED BY <1>1, <1>3, <1>6, <1>12, <2>1, <2>2, StaysIn
<1>14. g \in [0 .. n -> Z]
  BY <1>13 DEF Turned
<1>15. Magics(g, f, loop)
  BY <1>10, <1>12, <1>14 DEF Magics, n, Z, base, step
<1> QED BY <1>1, <1>15 DEF n

LEMMA MagicHoisted ==
  ASSUME NEW f, Formed(f, "exact"), NEW loop, loop.pre \in Blocks(f)
  PROVE  MagicFrom(f, loop) \in Likenesses(f, "exact")
<1> DEFINE n == Len(Walk(f, loop.in))
<1>1. n \in Nat
  BY MagicTurns
<1>2. PICK g : Magics(g, f, loop)
  BY MagicTurns
<1>3. g \in [0 .. n -> HoldStates(f, "exact", MagicKeys)] /\ MagicFrom(f, loop) = g[n].f
  BY <1>2 DEF Magics
<1> HIDE DEF n
<1>4. g[n] \in HoldStates(f, "exact", MagicKeys)
  BY <1>1, <1>3
<1> QED BY <1>3, <1>4 DEF HoldStates

(* The functions between one loop and the next.                            *)
HoistsMagic(g, f) ==
  /\ g \in [0 .. Len(Loops(f)) -> Likenesses(f, "exact")] /\ g[0] = f
  /\ \A k \in 1 .. Len(Loops(f)) : g[k] = MagicFrom(g[k - 1], Loops(f)[k])
  /\ HoistMagicDiv(f) = g[Len(Loops(f))]

LEMMA HoistMagicTurns ==
  ASSUME NEW f, Formed(f, "exact")
  PROVE  Len(Loops(f)) \in Nat /\ \E g : HoistsMagic(g, f)
<1> DEFINE n == Len(Loops(f))
           Z == Likenesses(f, "exact")
           base == f
           step(z, k) == MagicFrom(z, Loops(f)[k])
           G == [z \in Z |-> [k \in Nat |-> IF k \in 1 .. n THEN step(z, k) ELSE z]]
           Is(g) == g = [k \in 0 .. n |-> IF k = 0 THEN base ELSE step(g[k - 1], k)]
<1>1. n \in Nat
  BY LoopsFacts
<1>2. ASSUME NEW z \in Z, NEW k \in 1 .. n PROVE step(z, k) \in Z
  <2>1. Loops(f)[k].pre \in Blocks(f) /\ StaysFunc(z, f, "exact")
    BY LoopsFacts, LikenessIs
  <2>2. Formed(z, "exact") /\ Blocks(z) = Blocks(f)
    BY <2>1 DEF StaysFunc, Blocks
  <2>3. MagicFrom(z, Loops(f)[k]) \in Likenesses(z, "exact")
    BY <2>1, <2>2, MagicHoisted
  <2> QED BY <2>3, AlikeAgain
<1>3. base \in Z
  BY LikenessIs
<1>4. HoistMagicDiv(f) = (CHOOSE g : Is(g))[n]
  BY DEF HoistMagicDiv, Iterated
<1>5. \A g : Is(g) <=> g = [k \in 0 .. n |-> IF k = 0 THEN base ELSE step(g[k - 1], k)]
  OBVIOUS
<1> HIDE DEF Z, n, step, base, Is
<1>6. G \in [Z -> [Nat -> Z]] /\ \A z \in Z : \A k \in 1 .. n : G[z][k] = step(z, k)
  BY <1>1, <1>2
<1> HIDE DEF G
<1>7. PICK h : Turned(h, Z, base, G, n)
  BY <1>1, <1>3, <1>6, Turns
<1>8. h \in [0 .. n -> Z] /\ h[0] = base /\ \A k \in 1 .. n : h[k] = step(h[k - 1], k)
  <2>1. h \in [0 .. n -> Z] /\ h[0] = base /\ \A k \in 1 .. n : h[k] = G[h[k - 1]][k]
    BY <1>7 DEF Turned
  <2>2. ASSUME NEW k \in 1 .. n PROVE h[k] = step(h[k - 1], k)
    <3>1. k - 1 \in 0 .. n
      BY <1>1
    <3> QED BY <1>6, <2>1, <3>1
  <2> QED BY <2>1, <2>2
<1>9. Is(h)
  <2>1. ASSUME NEW k \in 0 .. n PROVE h[k] = IF k = 0 THEN base ELSE step(h[k - 1], k)
    <3>1. k # 0 => k \in 1 .. n
      BY <1>1
    <3> QED BY <1>8, <3>1
  <2> QED BY <1>5, <1>8, <2>1
<1>10. PICK g : Is(g) /\ HoistMagicDiv(f) = g[n]
  BY <1>4, <1>9
<1>11. g = [k \in 0 .. n |-> IF k = 0 THEN base ELSE step(g[k - 1], k)]
  BY <1>5, <1>10
<1>12. DOMAIN g = 0 .. n /\ g[0] = base /\ \A k \in 1 .. n : g[k] = step(g[k - 1], k)
  BY <1>1, <1>11
<1>13. Turned(g, Z, base, G, n)
  <2>1. \A k \in 1 .. n : g[k - 1] \in Z => g[k] = G[g[k - 1]][k]
    BY <1>6, <1>12
  <2>2. g = [k \in DOMAIN g |-> g[k]]
    BY <1>11
  <2> QED BY <1>1, <1>3, <1>6, <1>12, <2>1, <2>2, StaysIn
<1>14. g \in [0 .. n -> Z]
  BY <1>13 DEF Turned
<1>15. HoistsMagic(g, f)
  BY <1>10, <1>12, <1>14 DEF HoistsMagic, n, Z, base, step
<1> QED BY <1>1, <1>15 DEF n

LEMMA HoistMagicStays ==
  ASSUME NEW f, Formed(f, "exact")
  PROVE  StaysFunc(HoistMagicDiv(f), f, "exact")
<1>1. Len(Loops(f)) \in 0 .. Len(Loops(f))
  BY LoopsFacts
<1>2. PICK g : HoistsMagic(g, f)
  BY HoistMagicTurns
<1>3. HoistMagicDiv(f) \in Likenesses(f, "exact")
  BY <1>1, <1>2 DEF HoistsMagic
<1> QED BY <1>3, LikenessIs

-----------------------------------------------------------------------------
(* The passes by name.                                                     *)

PassNames == {"constFold", "deadCodeElim", "markUnsignedDiv", "cse", "copyProp", "constProp",
              "peephole", "jumpThreading", "licm", "hoistLoopConstants", "hoistMagicDiv",
              "hoistDivModConstants", "unreachableElim"}

Phases == {"plain", "first", "structural", "loops", "cleanup", "last", "done"}

LEMMA PassStays ==
  ASSUME NEW f, NEW how, Formed(f, how), NEW name \in PassNames,
         name = "hoistMagicDiv" => how = "exact",
         name = "hoistDivModConstants" => how # "exact"
  PROVE  StaysFunc(Pass(name, f), f, how)
<1>1. CASE name = "constFold"
  BY <1>1, ConstFoldStays DEF Pass
<1>2. CASE name = "deadCodeElim"
  BY <1>2, DceStays DEF Pass
<1>3. CASE name = "markUnsignedDiv"
  BY <1>3, MarkStays DEF Pass
<1>4. CASE name = "cse"
  BY <1>4, CseStays DEF Pass
<1>5. CASE name = "copyProp"
  BY <1>5, CopyPropStays DEF Pass
<1>6. CASE name = "constProp"
  BY <1>6, ConstPropStays DEF Pass
<1>7. CASE name = "peephole"
  BY <1>7, PeepStays DEF Pass
<1>8. CASE name = "jumpThreading"
  BY <1>8, ThreadingStays DEF Pass
<1>9. CASE name = "licm"
  BY <1>9, LicmStays DEF Pass
<1>10. CASE name = "hoistLoopConstants"
  BY <1>10, HoistAllStays DEF Pass, HoistLoopConstants
<1>11. CASE name = "hoistMagicDiv"
  BY <1>11, HoistMagicStays DEF Pass
<1>12. CASE name = "hoistDivModConstants"
  BY <1>12, HoistAllStays DEF Pass, HoistDivModConstants
<1>13. CASE name = "unreachableElim"
  BY <1>13, EmptiedStays DEF Pass
<1> QED BY <1>1, <1>2, <1>3, <1>4, <1>5, <1>6, <1>7, <1>8, <1>9, <1>10, <1>11, <1>12, <1>13
        DEF PassNames

(* hoistMagicDiv runs before any divisor has gone to a vreg, and at the    *)
(* end dead code goes before and after unreachable code.                   *)
LEMMA PassesAre ==
  ASSUME NEW ph \in Phases, NEW k \in Nat \ {0}, k =< Len(PassesOf(ph))
  PROVE  /\ PassesOf(ph)[k] \in PassNames
         /\ PassesOf(ph)[k] = "hoistMagicDiv" => ph = "loops" /\ k = 5
         /\ PassesOf(ph)[k] = "hoistDivModConstants" <=> ph = "loops" /\ k = 6
         /\ ph = "last" /\ k = 2 => PassesOf(ph)[k] = "unreachableElim"
         /\ ph = "last" /\ k # 2 => PassesOf(ph)[k] = "deadCodeElim"
         /\ ph = "last" => k =< 3
         /\ ph = "plain" => PassesOf(ph)[k] = "deadCodeElim" /\ k =< 2
<1>1. CASE ph = "plain"
  <2>1. Len(PassesOf(ph)) = 2
    BY <1>1 DEF PassesOf
  <2>2. k \in {1, 2}
    BY <2>1
  <2> QED BY <1>1, <2>2 DEF PassesOf, PassNames
<1>2. CASE ph = "first"
  <2>1. Len(PassesOf(ph)) = 3
    BY <1>2 DEF PassesOf
  <2>2. k \in {1, 2, 3}
    BY <2>1
  <2> QED BY <1>2, <2>2 DEF PassesOf, PassNames
<1>3. CASE ph = "structural"
  <2>1. Len(PassesOf(ph)) = 6
    BY <1>3 DEF PassesOf
  <2>2. k \in {1, 2, 3, 4, 5, 6}
    BY <2>1
  <2> QED BY <1>3, <2>2 DEF PassesOf, PassNames
<1>4. CASE ph = "loops"
  <2>1. Len(PassesOf(ph)) = 7
    BY <1>4 DEF PassesOf
  <2>2. k \in {1, 2, 3, 4, 5, 6, 7}
    BY <2>1
  <2> QED BY <1>4, <2>2 DEF PassesOf, PassNames
<1>5. CASE ph = "cleanup"
  <2>1. Len(PassesOf(ph)) = 4
    BY <1>5 DEF PassesOf
  <2>2. k \in {1, 2, 3, 4}
    BY <2>1
  <2> QED BY <1>5, <2>2 DEF PassesOf, PassNames
<1>6. CASE ph = "last"
  <2>1. Len(PassesOf(ph)) = 3
    BY <1>6 DEF PassesOf, LastPasses
  <2>2. k \in {1, 2, 3}
    BY <2>1
  <2> QED BY <1>6, <2>2 DEF PassesOf, PassNames, LastPasses
<1>7. CASE ph = "done"
  <2>1. Len(PassesOf(ph)) = 0
    BY <1>7 DEF PassesOf
  <2> QED BY <2>1
<1> QED BY <1>1, <1>2, <1>3, <1>4, <1>5, <1>6, <1>7 DEF Phases

(* No code stands where control cannot come.                               *)
Touched(f) == \A p \in Sites(f) : p[1] \in Reachable(f)

LEMMA EmptiedTouched ==
  ASSUME NEW f, NEW how, Formed(f, how)
  PROVE  Touched(UnreachableElim(f))
<1> DEFINE g == UnreachableElim(f)
<1>1. /\ StaysFunc(g, f, how)
      /\ \A b \in Blocks(f) :
           g.blocks[b] = IF b \in Reachable(f) THEN f.blocks[b]
                         ELSE [f.blocks[b] EXCEPT !.insts = << >>]
  BY EmptiedStays
<1>5. \A b \in Blocks(f) : f.blocks[b] \in FineBlocks(Vregs(f), f.nb, how)
  BY FunctionParts
<1> HIDE DEF g
<1>2. Formed(g, how) /\ g.nb = f.nb /\ Blocks(g) = Blocks(f)
  BY <1>1 DEF StaysFunc, Blocks
<1>3. ASSUME NEW b \in Blocks(f)
      PROVE  /\ Succs(g.blocks[b]) = Succs(f.blocks[b])
             /\ b \notin Reachable(f) => g.blocks[b].insts = << >>
  <2> DEFINE bb == f.blocks[b]
             cc == [bb EXCEPT !.insts = << >>]
  <2>1. bb \in BasicBlocks(Vregs(f))
    BY <1>5 DEF FineBlocks
  <2>2. g.blocks[b] = IF b \in Reachable(f) THEN bb ELSE cc
    BY <1>1
  <2> HIDE DEF bb
  <2>3. /\ cc.term = bb.term /\ cc.succ0 = bb.succ0 /\ cc.succ1 = bb.succ1
        /\ cc.insts = << >>
    BY <2>1 DEF BasicBlocks
  <2> HIDE DEF cc
  <2>4. Succs(cc) = Succs(bb)
    BY <2>3 DEF Succs
  <2> QED BY <2>2, <2>3, <2>4 DEF bb
<1>4. Reachable(g) = Reachable(f)
  BY <1>2, <1>3, SameReach
<1>6. ASSUME NEW p \in Sites(g) PROVE p[1] \in Reachable(g)
  <2>1. p[1] \in Blocks(f) /\ p[2] \in DOMAIN g.blocks[p[1]].insts
    BY <1>2, SitesAre
  <2>2. g.blocks[p[1]].insts # << >>
    BY <2>1
  <2> QED BY <1>3, <1>4, <2>1, <2>2
<1> QED BY <1>6 DEF Touched, g

LEMMA SweptTouched ==
  ASSUME NEW f, NEW how, Formed(f, how), Touched(f)
  PROVE  Touched(DeadCodeElim(f))
<1>1. /\ StaysFunc(DeadCodeElim(f), f, how) /\ Sites(DeadCodeElim(f)) \subseteq Sites(f)
      /\ \A b \in Blocks(f) : Succs(DeadCodeElim(f).blocks[b]) = Succs(f.blocks[b])
  BY DceStays
<1>2. Reachable(DeadCodeElim(f)) = Reachable(f)
  BY <1>1, SameReach DEF StaysFunc
<1> QED BY <1>1, <1>2 DEF Touched

-----------------------------------------------------------------------------
(* The order of the passes.  Until hoistDivModConstants puts divisors into *)
(* vregs, every division marked unsigned has a divisor hoistMagicDiv knows *)
(* a number for.                                                           *)
Manner ==
  IF phase \in {"plain", "first", "structural"} \/ (phase = "loops" /\ next =< 6)
  THEN "exact" ELSE "any"

OptInv ==
  /\ phase \in Phases /\ next \in Nat \ {0} /\ iter \in Nat
  /\ Formed(orig, "exact")
  /\ StaysFunc(fn, orig, Manner)
  /\ Opt => phase # "plain"
  /\ (phase = "last" /\ next >= 3) \/ (phase = "done" /\ Opt) => Touched(fn)
  /\ (phase = "last" /\ next >= 4) \/ (phase = "plain" /\ next >= 2) \/ phase = "done"
       => Clean(fn)

LEMMA Loosened ==
  ASSUME NEW g, NEW f, NEW how, StaysFunc(g, f, how)
  PROVE  StaysFunc(g, f, "any")
BY DEF StaysFunc, Formed, AsMarked

LEMMA StaysOn ==
  ASSUME NEW f, NEW how, NEW g, StaysFunc(g, f, how), NEW h, StaysFunc(h, g, how)
  PROVE  StaysFunc(h, f, how)
BY DEF StaysFunc

LEMMA OptInitInv == OptInit => OptInv
<1> SUFFICES ASSUME OptInit PROVE OptInv
  OBVIOUS
<1>1. orig \in Sources0 /\ fn = orig /\ next = 1 /\ iter = 0
      /\ phase = IF Opt THEN "first" ELSE "plain"
  BY DEF OptInit
<1>2. Formed(orig, "exact")
  BY <1>1, SourcesAssumption DEF Formed, AsMarked, MarkedExactly
<1>3. Manner = "exact" /\ phase \in Phases /\ (Opt => phase # "plain")
      /\ phase \in {"first", "plain"}
  BY <1>1 DEF Manner, Phases
<1>4. StaysFunc(fn, orig, Manner)
  BY <1>1, <1>2, <1>3 DEF StaysFunc
<1> QED BY <1>1, <1>2, <1>3, <1>4 DEF OptInv

LEMMA RunPassInv ==
  ASSUME OptInv, RunPass
  PROVE  OptInv'
<1> DEFINE name == PassesOf(phase)[next]
           how == Manner'
<1>1. /\ phase \in Phases /\ next \in Nat \ {0} /\ iter \in Nat /\ next =< Len(PassesOf(phase))
      /\ Formed(orig, "exact") /\ StaysFunc(fn, orig, Manner) /\ (Opt => phase # "plain")
  BY DEF OptInv, RunPass
<1>2. /\ fn' = Pass(name, fn) /\ next' = next + 1
      /\ orig' = orig /\ phase' = phase /\ iter' = iter
  BY DEF RunPass
<1>3. /\ name \in PassNames
      /\ name = "hoistMagicDiv" => phase = "loops" /\ next = 5
      /\ name = "hoistDivModConstants" <=> phase = "loops" /\ next = 6
      /\ phase = "last" /\ next = 2 => name = "unreachableElim"
      /\ phase = "last" /\ next # 2 => name = "deadCodeElim"
      /\ phase = "last" => next =< 3
      /\ phase = "plain" => name = "deadCodeElim" /\ next =< 2
      /\ phase # "done"
  <2>1. phase # "done"
    BY <1>1 DEF PassesOf
  <2> QED BY <1>1, <2>1, PassesAre
<1> HIDE DEF name
<1>4. /\ how \in {"exact", "any"} /\ (how = "exact" => Manner = "exact")
      /\ (name = "hoistMagicDiv" => how = "exact")
      /\ (name = "hoistDivModConstants" => how # "exact")
  <2>1. how = IF phase \in {"plain", "first", "structural"} \/ (phase = "loops" /\ next + 1 =< 6)
              THEN "exact" ELSE "any"
    BY <1>2 DEF Manner
  <2> HIDE DEF how
  <2> QED BY <1>1, <1>3, <2>1 DEF Manner
<1> HIDE DEF how
<1>5. StaysFunc(fn, orig, how)
  BY <1>1, <1>4, Loosened
<1>6. Formed(fn, how)
  BY <1>5 DEF StaysFunc
<1>7. StaysFunc(fn', fn, how)
  BY <1>2, <1>3, <1>4, <1>6, PassStays
<1>8. StaysFunc(fn', orig', how)
  BY <1>2, <1>5, <1>7, StaysOn
<1>9. name = "deadCodeElim" => Clean(fn')
  BY <1>2, <1>6, DceStays DEF Pass
<1>10. name = "unreachableElim" => Touched(fn')
  BY <1>2, <1>6, EmptiedTouched DEF Pass
<1>11. name = "deadCodeElim" /\ Touched(fn) => Touched(fn')
  BY <1>2, <1>6, SweptTouched DEF Pass
<1>12. phase = "last" /\ next >= 3 => Touched(fn)
  BY DEF OptInv
<1>13. (phase' = "last" /\ next' >= 3) \/ (phase' = "done" /\ Opt) => Touched(fn')
  BY <1>1, <1>2, <1>3, <1>10, <1>11, <1>12
<1>14. (phase' = "last" /\ next' >= 4) \/ (phase' = "plain" /\ next' >= 2) \/ phase' = "done"
         => Clean(fn')
  BY <1>1, <1>2, <1>3, <1>9
<1>15. phase' \in Phases /\ next' \in Nat \ {0} /\ iter' \in Nat /\ Formed(orig', "exact")
       /\ (Opt => phase' # "plain")
  BY <1>1, <1>2
<1> QED BY <1>8, <1>13, <1>14, <1>15 DEF OptInv, how

LEMMA SweptStays ==
  ASSUME OptInv
  PROVE  StaysFunc(Swept, orig, Manner) /\ (phase # "structural" => Swept = fn)
<1>1. StaysFunc(fn, orig, Manner) /\ Formed(fn, Manner)
  BY DEF OptInv, StaysFunc
<1>2. StaysFunc(DeadCodeElim(fn), fn, Manner)
  BY <1>1, DceStays
<1>3. StaysFunc(DeadCodeElim(fn), orig, Manner)
  BY <1>1, <1>2, StaysOn
<1>4. Swept = IF phase = "structural" /\ changed THEN DeadCodeElim(fn) ELSE fn
  BY DEF Swept
<1> QED BY <1>1, <1>3, <1>4

LEMMA AnotherRoundInv ==
  ASSUME OptInv, AnotherRound
  PROVE  OptInv'
<1>1. /\ phase \in Phases /\ iter \in Nat /\ Formed(orig, "exact")
      /\ StaysFunc(Swept, orig, Manner)
  BY SweptStays DEF OptInv
<1>2. /\ fn' = Swept /\ next' = 1 /\ iter' = iter + 1 /\ orig' = orig /\ phase' = phase
      /\ iter + 1 < Rounds(phase)
  BY DEF AnotherRound
<1>3. phase \in {"structural", "cleanup"}
  BY <1>1, <1>2 DEF Rounds
<1>4. Manner' = Manner
  BY <1>2, <1>3 DEF Manner
<1>5. StaysFunc(fn', orig', Manner')
  BY <1>1, <1>2, <1>4
<1> QED BY <1>1, <1>2, <1>3, <1>5 DEF OptInv

LEMMA EndPhaseInv ==
  ASSUME OptInv, EndPhase
  PROVE  OptInv'
<1>1. /\ phase \in Phases \ {"done"} /\ next \in Nat /\ Formed(orig, "exact")
      /\ StaysFunc(Swept, orig, Manner) /\ (phase # "structural" => Swept = fn)
      /\ next > Len(PassesOf(phase)) /\ (Opt => phase # "plain")
  BY SweptStays DEF OptInv, EndPhase, RoundOver
<1>2. /\ fn' = Swept /\ next' = 1 /\ iter' = 0 /\ orig' = orig /\ phase' = Follower(phase)
  BY DEF EndPhase
<1>3. /\ phase' \in Phases \ {"plain", "first"}
      /\ phase' = "done" => phase \in {"last", "plain"}
      /\ phase' \in {"structural", "loops"} => phase \in {"first", "structural"}
  BY <1>1, <1>2 DEF Phases, Follower
<1>4. Manner' \in {"exact", "any"} /\ (Manner' = "exact" => Manner = "exact")
  BY <1>2, <1>3 DEF Manner
<1>5. StaysFunc(fn', orig', Manner')
  <2>1. StaysFunc(Swept, orig, "any")
    BY <1>1, Loosened
  <2> QED BY <1>1, <1>2, <1>4, <2>1
<1>6. ASSUME phase' = "done" PROVE Clean(fn') /\ (Opt => Touched(fn'))
  <2>1. phase \in {"last", "plain"} /\ fn' = fn
    BY <1>1, <1>2, <1>3, <1>6
  <2>2. CASE phase = "last"
    <3>1. next >= 4
      BY <1>1, <2>2 DEF PassesOf, LastPasses
    <3>2. Clean(fn) /\ Touched(fn)
      BY <2>2, <3>1 DEF OptInv
    <3> QED BY <2>1, <3>2
  <2>3. CASE phase = "plain"
    <3>1. next >= 2
      BY <1>1, <2>3 DEF PassesOf
    <3>2. Clean(fn)
      BY <2>3, <3>1 DEF OptInv
    <3> QED BY <1>1, <2>1, <2>3, <3>2
  <2> QED BY <2>1, <2>2, <2>3
<1> QED BY <1>1, <1>2, <1>3, <1>5, <1>6 DEF OptInv

LEMMA OptStepInv == OptInv /\ [OptNext]_optVars => OptInv'
<1> SUFFICES ASSUME OptInv, [OptNext]_optVars PROVE OptInv'
  OBVIOUS
<1>1. CASE RunPass
  BY <1>1, RunPassInv
<1>2. CASE AnotherRound
  BY <1>2, AnotherRoundInv
<1>3. CASE EndPhase
  BY <1>3, EndPhaseInv
<1>4. CASE UNCHANGED optVars
  <2>1. /\ fn' = fn /\ next' = next /\ iter' = iter /\ orig' = orig /\ phase' = phase
    BY <1>4 DEF optVars
  <2>2. Manner' = Manner
    BY <2>1 DEF Manner
  <2> QED BY <2>1, <2>2 DEF OptInv
<1> QED BY <1>1, <1>2, <1>3, <1>4 DEF OptNext

(* Whatever the functions and the word, every pass, in the order and as    *)
(* often as optimizeIR runs it, leaves a well-formed function with the     *)
(* blocks and the parameters it had: operands are words or vregs that are  *)
(* counted, control stays among the blocks, and what writes a result names *)
(* a vreg for it (opt/Passes.cpp:902-952).                                 *)
THEOREM StaysFunctionCorrect == OptSpec => []StaysFunction
<1>1. OptInit => OptInv
  BY OptInitInv
<1>2. OptInv /\ [OptNext]_optVars => OptInv'
  BY OptStepInv
<1>3. OptInv => StaysFunction
  BY DEF OptInv, StaysFunc, Formed, StaysFunction
<1> QED BY <1>1, <1>2, <1>3, PTL DEF OptSpec

(* When optimizeIR ends, no result is left that nothing reads and no code  *)
(* that control cannot reach, however many rounds the phases took          *)
(* (deadCodeElim and unreachableElim, opt/Passes.cpp).                     *)
THEOREM NothingLeftCorrect == OptSpec => []NothingLeft
<1>1. OptInit => OptInv
  BY OptInitInv
<1>2. OptInv /\ [OptNext]_optVars => OptInv'
  BY OptStepInv
<1>3. OptInv => NothingLeft
  BY DEF OptInv, Clean, Touched, NothingLeft
<1> QED BY <1>1, <1>2, <1>3, PTL DEF OptSpec

-----------------------------------------------------------------------------
(* Passes that work in place: what runs after one is a run of the function *)
(* before it (PassRun).  First, values and what computes the same.         *)

Value(val, vs) == IF IsReg(val) THEN vs[val.n] ELSE val.n

Outcome(in, vs, gs) ==
  CASE in.op \in BinaryOps -> EvalBinary(in.op, Value(in.a, vs), Value(in.b, vs))
    [] in.op \in UnaryOps  -> EvalUnary(in.op, Value(in.a, vs))
    [] in.op = "LoadGlobal" -> gs[in.gid]

Passed(in, vs) == [k \in DOMAIN in.args |-> Value(in.args[k], vs)]

(* An instruction does what another does, with these vregs and globals; if *)
(* `loose`, only where no divisor is zero.                                 *)
ActsAs(new, in, vs, gs, loose) ==
  /\ new.dst = in.dst
  /\ new.op \in {"StoreGlobal", "Call"} \/ in.op \in {"StoreGlobal", "Call"} => new.op = in.op
  /\ in.op = "StoreGlobal" => new.gid = in.gid /\ Value(new.a, vs) = Value(in.a, vs)
  /\ in.op = "Call" => Passed(new, vs) = Passed(in, vs)
  /\ in.op \notin {"StoreGlobal", "Call"} =>
       \/ Outcome(new, vs, gs) = Outcome(in, vs, gs)
       \/ /\ loose /\ in.op \in {"Div", "Mod"} /\ Value(in.b, vs) = 0
          /\ Outcome(new, vs, gs) \in Words

(* Where a jump or a branch leads; a terminator does what another does.    *)
Leads(bb, vs) ==
  IF bb.term = "Jmp" \/ Value(bb.cond, vs) # 0 THEN bb.succ0 ELSE bb.succ1

EndsAs(new, bb, vs) ==
  /\ new.term \in {"Jmp", "Br"} \/ bb.term \in {"Jmp", "Br"} =>
       new.term \in {"Jmp", "Br"} /\ bb.term \in {"Jmp", "Br"} /\ Leads(new, vs) = Leads(bb, vs)
  /\ new.term \notin {"Jmp", "Br"} =>
       /\ new.term = bb.term /\ new.hasVal = bb.hasVal
       /\ bb.term = "Ret" /\ bb.hasVal => Value(new.ret, vs) = Value(bb.ret, vs)

LEMMA ActsLikeItself ==
  ASSUME NEW in, NEW vs, NEW gs, NEW loose
  PROVE  ActsAs(in, in, vs, gs, loose)
BY DEF ActsAs

LEMMA EndsLikeItself ==
  ASSUME NEW bb, NEW vs
  PROVE  EndsAs(bb, bb, vs)
BY DEF EndsAs

LEMMA ValueType ==
  ASSUME NEW vs, NEW regs \in [vs -> Words], NEW val \in Vals(vs)
  PROVE  Value(val, regs) \in Words
BY ValFacts DEF Value

LEMMA ValueIs ==
  ASSUME NEW regs
  PROVE  /\ \A n : Value(Imm(n), regs) = n
         /\ \A v : Value(Reg(v), regs) = regs[v]
BY DEF Value, Imm, Reg, IsReg

(* What a move and a negation made of an instruction compute.              *)
LEMMA MovedOutcome ==
  ASSUME NEW vs, NEW how, NEW in \in Fine(vs, how), NEW val, NEW regs, NEW gs
  PROVE  /\ Outcome(Moved(in, val), regs, gs) = Value(val, regs)
         /\ Outcome(Negated(in, val), regs, gs) = Wrap(-Value(val, regs))
         /\ Moved(in, val).dst = in.dst /\ Negated(in, val).dst = in.dst
         /\ Moved(in, val).op = "Mv" /\ Negated(in, val).op = "Neg"
<1>1. DOMAIN in = {"op", "dst", "a", "b", "args", "callee", "gid", "magic", "unsignedDiv"}
  BY FineFacts
<1>2. /\ Moved(in, val).op = "Mv" /\ Moved(in, val).a = val /\ Moved(in, val).dst = in.dst
      /\ Negated(in, val).op = "Neg" /\ Negated(in, val).a = val /\ Negated(in, val).dst = in.dst
  BY <1>1 DEF Moved, Negated
<1>3. "Mv" \notin BinaryOps /\ "Neg" \notin BinaryOps /\ "Mv" \in UnaryOps /\ "Neg" \in UnaryOps
  BY DEF BinaryOps, UnaryOps
<1>4. /\ Outcome(Moved(in, val), regs, gs) = EvalUnary("Mv", Value(val, regs))
      /\ Outcome(Negated(in, val), regs, gs) = EvalUnary("Neg", Value(val, regs))
  BY <1>2, <1>3 DEF Outcome
<1> QED BY <1>2, <1>4 DEF EvalUnary

(* The identities that folding uses.                                       *)
LEMMA Identities ==
  ASSUME NEW x \in Words
  PROVE  /\ EvalBinary("Add", 0, x) = x /\ EvalBinary("Add", x, 0) = x
         /\ EvalBinary("Sub", x, 0) = x /\ EvalBinary("Sub", 0, x) = Wrap(-x)
         /\ EvalBinary("Mul", 0, x) = 0 /\ EvalBinary("Mul", x, 0) = 0
         /\ EvalBinary("Mul", 1, x) = x /\ EvalBinary("Mul", x, 1) = x
         /\ EvalBinary("Mul", -1, x) = Wrap(-x) /\ EvalBinary("Mul", x, -1) = Wrap(-x)
         /\ EvalBinary("Div", x, 1) = x /\ EvalBinary("Div", x, -1) = Wrap(-x)
         /\ EvalBinary("Mod", x, 1) = 0 /\ EvalBinary("Mod", x, -1) = 0
<1>1. x \in Int /\ Wrap(x) = x /\ Wrap(0) = 0
  BY SmallWords, WrapWord, HalfAssumption DEF Words
<1>2. /\ 0 + x = x /\ x + 0 = x /\ x - 0 = x /\ 0 - x = -x /\ 0 * x = 0 /\ x * 0 = 0
      /\ 1 * x = x /\ x * 1 = x /\ (-1) * x = -x /\ x * (-1) = -x
  BY <1>1
<1>3. -1 # 0
  OBVIOUS
<1>4. /\ EvalBinary("Add", 0, x) = x /\ EvalBinary("Add", x, 0) = x
      /\ EvalBinary("Sub", x, 0) = x /\ EvalBinary("Sub", 0, x) = Wrap(-x)
  BY <1>1, <1>2 DEF EvalBinary
<1>5. /\ EvalBinary("Mul", 0, x) = 0 /\ EvalBinary("Mul", x, 0) = 0
      /\ EvalBinary("Mul", 1, x) = x /\ EvalBinary("Mul", x, 1) = x
      /\ EvalBinary("Mul", -1, x) = Wrap(-x) /\ EvalBinary("Mul", x, -1) = Wrap(-x)
  BY <1>1, <1>2 DEF EvalBinary
<1>6. /\ EvalBinary("Div", x, 1) = x /\ EvalBinary("Div", x, -1) = Wrap(-x)
      /\ EvalBinary("Mod", x, 1) = 0 /\ EvalBinary("Mod", x, -1) = 0
  BY <1>3, QuotientByOne DEF EvalBinary
<1> QED BY <1>4, <1>5, <1>6

LEMMA SameOperands ==
  ASSUME NEW x \in Words
  PROVE  /\ EvalBinary("Sub", x, x) = 0 /\ EvalBinary("Lt", x, x) = 0
         /\ EvalBinary("Gt", x, x) = 0 /\ EvalBinary("Ne", x, x) = 0
         /\ EvalBinary("Le", x, x) = 1 /\ EvalBinary("Ge", x, x) = 1 /\ EvalBinary("Eq", x, x) = 1
         /\ x # 0 => EvalBinary("Div", x, x) = 1 /\ EvalBinary("Mod", x, x) = 0
<1>1. x \in Int /\ x - x = 0 /\ ~(x < x) /\ ~(x > x) /\ x =< x /\ x >= x
  BY HalfAssumption DEF Words
<1>2. Wrap(0) = 0 /\ Wrap(1) = 1
  BY SmallWords, WrapWord
<1>3. /\ EvalBinary("Sub", x, x) = 0 /\ EvalBinary("Lt", x, x) = 0
      /\ EvalBinary("Gt", x, x) = 0 /\ EvalBinary("Ne", x, x) = 0
      /\ EvalBinary("Le", x, x) = 1 /\ EvalBinary("Ge", x, x) = 1 /\ EvalBinary("Eq", x, x) = 1
  BY <1>1, <1>2 DEF EvalBinary, Truth
<1>4. ASSUME x # 0 PROVE TruncDiv(x, x) = 1
  <2> DEFINE n == Magnitude(x)
  <2>1. n \in Nat \ {0}
    BY <1>1, <1>4 DEF Magnitude
  <2> HIDE DEF n
  <2>2. n \div n = 1
    BY <2>1
  <2> QED BY <2>2 DEF TruncDiv, n
<1>5. ASSUME x # 0 PROVE TruncRem(x, x) = 0
  BY <1>1, <1>4, <1>5 DEF TruncRem
<1> QED BY <1>2, <1>3, <1>4, <1>5 DEF EvalBinary

LEMMA BinaryOutcome ==
  ASSUME NEW in, in.op \in BinaryOps, NEW vs, NEW gs
  PROVE  Outcome(in, vs, gs) = EvalBinary(in.op, Value(in.a, vs), Value(in.b, vs))
<1>1. in.op \notin UnaryOps /\ in.op # "LoadGlobal"
  BY DEF BinaryOps, UnaryOps
<1> QED BY <1>1, Zenon DEF Outcome

LEMMA UnaryOutcome ==
  ASSUME NEW in, in.op \in UnaryOps, NEW vs, NEW gs
  PROVE  Outcome(in, vs, gs) = EvalUnary(in.op, Value(in.a, vs))
<1>1. in.op \notin BinaryOps /\ in.op # "LoadGlobal"
  BY DEF BinaryOps, UnaryOps
<1> QED BY <1>1, Zenon DEF Outcome

(* An identity changes no result but that of a division by zero.           *)
LEMMA IdentityMeans ==
  ASSUME NEW vs, NEW how, NEW in \in Fine(vs, how), in.op \in BinaryOps,
         NEW regs \in [vs -> Words], NEW gs
  PROVE  ActsAs(Identity(in), in, regs, gs, TRUE)
<1> DEFINE a == in.a
           b == in.b
           x == Value(a, regs)
           y == Value(b, regs)
           op == in.op
           same == IsReg(a) /\ a = b
           Good(new) == ActsAs(new, in, regs, gs, TRUE)
<1>1. x \in Words /\ y \in Words
  BY FineFacts, ValueType
<1>2. Outcome(in, regs, gs) = EvalBinary(op, x, y)
  BY BinaryOutcome
<1>3. in.op \notin {"StoreGlobal", "Call"}
  BY DEF BinaryOps
<1>4. ASSUME NEW val, \/ Value(val, regs) = EvalBinary(op, x, y)
                      \/ op \in {"Div", "Mod"} /\ y = 0 /\ Value(val, regs) \in Words
      PROVE  Good(Moved(in, val))
  <2>1. Moved(in, val).op \notin {"StoreGlobal", "Call"}
    BY MovedOutcome
  <2> QED BY <1>2, <1>3, <1>4, <2>1, MovedOutcome DEF ActsAs
<1>5. ASSUME NEW val, Wrap(-Value(val, regs)) = EvalBinary(op, x, y)
      PROVE  Good(Negated(in, val))
  <2>1. Negated(in, val).op \notin {"StoreGlobal", "Call"}
    BY MovedOutcome
  <2> QED BY <1>2, <1>3, <1>5, <2>1, MovedOutcome DEF ActsAs
<1>6. Good(in)
  BY ActsLikeItself
<1>7. /\ \A n : a = Imm(n) => x = n
      /\ \A n : b = Imm(n) => y = n
      /\ Value(Imm(0), regs) = 0 /\ Value(Imm(1), regs) = 1
      /\ same => x = y
      /\ 0 \in Words /\ 1 \in Words
  BY ValueIs, SmallWords
<1> HIDE DEF Good, x, y, same
<1>8. op = "Add" /\ a = Imm(0) => Good(Moved(in, b))
  BY <1>1, <1>4, <1>7, Identities DEF x, y
<1>9. op \in {"Add", "Sub"} /\ b = Imm(0) => Good(Moved(in, a))
  BY <1>1, <1>4, <1>7, Identities DEF x, y
<1>10. op = "Sub" /\ a = Imm(0) => Good(Negated(in, b))
  BY <1>1, <1>5, <1>7, Identities DEF x, y
<1>11. op = "Mul" /\ Imm(0) \in {a, b} => Good(Moved(in, Imm(0)))
  BY <1>1, <1>4, <1>7, Identities
<1>12. op = "Mul" /\ a = Imm(1) => Good(Moved(in, b))
  BY <1>1, <1>4, <1>7, Identities DEF x, y
<1>13. op = "Mul" /\ a = Imm(-1) => Good(Negated(in, b))
  BY <1>1, <1>5, <1>7, Identities DEF x, y
<1>14. op \in {"Mul", "Div"} /\ b = Imm(1) => Good(Moved(in, a))
  BY <1>1, <1>4, <1>7, Identities DEF x, y
<1>15. op \in {"Mul", "Div"} /\ b = Imm(-1) => Good(Negated(in, a))
  BY <1>1, <1>5, <1>7, Identities DEF x, y
<1>16. op = "Mod" /\ b \in {Imm(1), Imm(-1)} => Good(Moved(in, Imm(0)))
  BY <1>1, <1>4, <1>7, Identities
<1>17. same /\ op \in {"Sub", "Mod", "Lt", "Gt", "Ne"} => Good(Moved(in, Imm(0)))
  BY <1>1, <1>4, <1>7, SameOperands
<1>18. same /\ op \in {"Div", "Le", "Ge", "Eq"} => Good(Moved(in, Imm(1)))
  BY <1>1, <1>4, <1>7, SameOperands
<1>19. Good(Identity(in))
  BY ONLY <1>6, <1>8, <1>9, <1>10, <1>11, <1>12, <1>13, <1>14, <1>15, <1>16, <1>17, <1>18, Zenon
  DEF Identity, same
<1> QED BY <1>19 DEF Good

LEMMA FoldMeans ==
  ASSUME NEW vs, NEW how, NEW in \in Fine(vs, how), NEW regs \in [vs -> Words], NEW gs
  PROVE  ActsAs(Fold(in), in, regs, gs, TRUE)
<1>1. ASSUME NEW n, in.op \in BinaryOps \cup {"Neg", "Not"}, Outcome(in, regs, gs) = n
      PROVE  ActsAs(Moved(in, Imm(n)), in, regs, gs, TRUE)
  <2>1. in.op \notin {"StoreGlobal", "Call"}
    BY <1>1 DEF BinaryOps
  <2>2. Moved(in, Imm(n)).op \notin {"StoreGlobal", "Call"} /\ Moved(in, Imm(n)).dst = in.dst
        /\ Outcome(Moved(in, Imm(n)), regs, gs) = n
    BY MovedOutcome, ValueIs
  <2> QED BY <1>1, <2>1, <2>2 DEF ActsAs
<1>2. ASSUME in.op \in BinaryOps, ~IsReg(in.a), ~IsReg(in.b)
      PROVE  ActsAs(FoldConstants(in), in, regs, gs, TRUE)
  <2>1. Outcome(in, regs, gs) = EvalBinary(in.op, in.a.n, in.b.n)
    BY <1>2, BinaryOutcome DEF Value
  <2>2. ActsAs(Moved(in, Imm(EvalBinary(in.op, in.a.n, in.b.n))), in, regs, gs, TRUE)
    BY <1>1, <1>2, <2>1
  <2> QED BY <2>2, ActsLikeItself DEF FoldConstants
<1>3. ASSUME in.op \in {"Neg", "Not"}, ~IsReg(in.a)
      PROVE  ActsAs(Moved(in, Imm(EvalUnary(in.op, in.a.n))), in, regs, gs, TRUE)
  <2>1. in.op \notin BinaryOps /\ in.op \in UnaryOps
    BY <1>3 DEF BinaryOps, UnaryOps
  <2>2. Outcome(in, regs, gs) = EvalUnary(in.op, in.a.n)
    BY <1>3, <2>1 DEF Outcome, Value
  <2> QED BY <1>1, <1>3, <2>2
<1>4. in.op \in BinaryOps => ActsAs(Identity(in), in, regs, gs, TRUE)
  BY IdentityMeans
<1>5. ActsAs(in, in, regs, gs, TRUE)
  BY ActsLikeItself
<1> QED BY <1>2, <1>3, <1>4, <1>5, Zenon DEF Fold

(* A mark changes no result.                                               *)
LEMMA MarkMeans ==
  ASSUME NEW vs, NEW how, NEW in \in Fine(vs, how), NEW ws, NEW regs, NEW gs
  PROVE  ActsAs(Marked(in, ws), in, regs, gs, FALSE)
<1> DEFINE new == [in EXCEPT !.unsignedDiv = TRUE]
<1>1. /\ new.op = in.op /\ new.dst = in.dst /\ new.a = in.a /\ new.b = in.b
      /\ new.gid = in.gid /\ new.args = in.args
  BY FineFacts
<1> HIDE DEF new
<1>2. Outcome(new, regs, gs) = Outcome(in, regs, gs) /\ Passed(new, regs) = Passed(in, regs)
  BY <1>1 DEF Outcome, Passed
<1>3. ActsAs(new, in, regs, gs, FALSE)
  BY <1>1, <1>2 DEF ActsAs
<1>4. Marked(in, ws) \in {new, in}
  BY DEF Marked, new
<1> QED BY <1>3, <1>4, ActsLikeItself

(* A branch on a constant leads where the jump in its place leads.         *)
LEMMA ThreadMeans ==
  ASSUME NEW vs, NEW how, NEW n, NEW bb \in FineBlocks(vs, n, how), NEW regs
  PROVE  EndsAs(Threaded(bb), bb, regs) /\ Threaded(bb).insts = bb.insts
<1> DEFINE t == IF bb.cond.n # 0 THEN bb.succ0 ELSE bb.succ1
           cc == [bb EXCEPT !.term = "Jmp", !.succ0 = t, !.succ1 = NoReg, !.cond = Imm(0)]
<1>1. Threaded(bb) = IF bb.term = "Br" /\ ~IsReg(bb.cond) THEN cc ELSE bb
  BY DEF Threaded
<1>2. cc.term = "Jmp" /\ cc.succ0 = t /\ cc.insts = bb.insts
  BY DEF FineBlocks, BasicBlocks
<1>3. ASSUME bb.term = "Br", ~IsReg(bb.cond) PROVE Leads(bb, regs) = t
  BY <1>3 DEF Leads, Value
<1> HIDE DEF t, cc
<1>4. Leads(cc, regs) = t
  BY <1>2 DEF Leads
<1>5. ASSUME bb.term = "Br", ~IsReg(bb.cond) PROVE EndsAs(cc, bb, regs)
  BY <1>2, <1>3, <1>4, <1>5 DEF EndsAs
<1> QED BY <1>1, <1>2, <1>5, EndsLikeItself

-----------------------------------------------------------------------------
(* Code that assigns every vreg once.                                      *)
Params(f) == {f.params[k] : k \in DOMAIN f.params}

(* At instruction i of block b, v may be yet unassigned: some path there   *)
(* from the entry does not write it.                                       *)
Fresh(f, b, i, v) ==
  b \in Unwritten(f, v) /\ \A k \in 1 .. i - 1 : f.blocks[b].insts[k].dst # v

LEMMA OneWriter ==
  ASSUME NEW f, AssignedOnce(f), NEW b \in Blocks(f), NEW j \in DOMAIN f.blocks[b].insts,
         f.blocks[b].insts[j].dst # NoReg
  PROVE  /\ f.blocks[b].insts[j].dst \notin Params(f)
         /\ \A c \in Blocks(f) : \A k \in DOMAIN f.blocks[c].insts :
              f.blocks[c].insts[k].dst = f.blocks[b].insts[j].dst => c = b /\ k = j
<1>1. <<b, j>> \in Sites(f) /\ At(f, <<b, j>>) = f.blocks[b].insts[j]
  BY SitesAre
<1>2. f.blocks[b].insts[j].dst \notin Params(f)
  BY <1>1 DEF AssignedOnce, Params
<1>3. ASSUME NEW c \in Blocks(f), NEW k \in DOMAIN f.blocks[c].insts,
             f.blocks[c].insts[k].dst = f.blocks[b].insts[j].dst
      PROVE  c = b /\ k = j
  <2>1. <<c, k>> \in Sites(f) /\ At(f, <<c, k>>) = f.blocks[c].insts[k]
    BY SitesAre
  <2>2. <<c, k>> = <<b, j>>
    BY <1>1, <1>3, <2>1 DEF AssignedOnce
  <2> QED BY <2>2
<1> QED BY <1>2, <1>3

(* What may be unassigned is not read.                                     *)
LEMMA FreshUnread ==
  ASSUME NEW f, AssignedOnce(f), NEW v \in Vregs(f) \ Params(f), NEW b \in Blocks(f), NEW i,
         Fresh(f, b, i, v)
  PROVE  /\ i \in DOMAIN f.blocks[b].insts => v \notin InstUses(f.blocks[b].insts[i])
         /\ i = Len(f.blocks[b].insts) + 1 => v \notin TermUses(f.blocks[b])
<1> DEFINE bb == f.blocks[b]
<1>1. ~ReadsFirst(bb, v)
  BY DEF AssignedOnce, Params, DeadSet, Fresh
<1>2. \A k \in 1 .. i - 1 : bb.insts[k].dst # v
  BY DEF Fresh
<1> HIDE DEF bb
<1>3. i \in DOMAIN bb.insts => v \notin InstUses(bb.insts[i])
  BY <1>1, <1>2 DEF ReadsFirst
<1>4. ASSUME i = Len(bb.insts) + 1, v \in TermUses(bb) PROVE FALSE
  <2>1. PICK j \in DOMAIN bb.insts : bb.insts[j].dst = v
    BY <1>1, <1>4 DEF ReadsFirst
  <2> QED BY <1>2, <1>4, <2>1
<1> QED BY <1>3, <1>4 DEF bb

(* No instruction that is reached reads what it assigns.                   *)
LEMMA OwnUnread ==
  ASSUME NEW f, NEW how, Formed(f, how), AssignedOnce(f), NEW b \in Blocks(f),
         NEW i \in DOMAIN f.blocks[b].insts, NEW v \in Vregs(f),
         f.blocks[b].insts[i].dst = v, b \in Unwritten(f, v)
  PROVE  v \notin InstUses(f.blocks[b].insts[i])
<1>1. v # NoReg /\ DOMAIN f.blocks[b].insts = 1 .. Len(f.blocks[b].insts)
      /\ Len(f.blocks[b].insts) \in Nat
  BY NoRegFresh, PartsOf DEF Formed
<1>2. /\ v \notin Params(f)
      /\ \A k \in DOMAIN f.blocks[b].insts : f.blocks[b].insts[k].dst = v => k = i
  BY <1>1, OneWriter
<1>3. Fresh(f, b, i, v)
  <2>1. \A k \in 1 .. i - 1 : k \in DOMAIN f.blocks[b].insts /\ k # i
    BY <1>1
  <2> QED BY <1>2, <2>1 DEF Fresh
<1> QED BY <1>2, <1>3, FreshUnread

(* Where x may be unassigned, so may what is moved from it.                *)
LEMMA FreshFollows ==
  ASSUME NEW f, NEW how, Formed(f, how), AssignedOnce(f), NEW c \in Blocks(f),
         NEW m \in DOMAIN f.blocks[c].insts, IsMove(f.blocks[c].insts[m]),
         NEW x \in Vregs(f) \ Params(f), f.blocks[c].insts[m].a = Reg(x),
         NEW y, f.blocks[c].insts[m].dst = y,
         NEW b \in Blocks(f), NEW i \in 1 .. Len(f.blocks[b].insts) + 1, Fresh(f, b, i, x)
  PROVE  Fresh(f, b, i, y)
<1> DEFINE U == Unwritten(f, x)
           W == Unwritten(f, y)
<1>1. IsIRFunc(f) /\ \A d \in Blocks(f) : DOMAIN f.blocks[d].insts = 1 .. Len(f.blocks[d].insts)
                                          /\ Len(f.blocks[d].insts) \in Nat
  BY PartsOf DEF Formed
<1>2. f.blocks[c].insts[m] \in Fine(Vregs(f), how) /\ f.blocks[c].insts[m].op = "Mv"
  BY PartsOf DEF IsMove
<1>3. y # NoReg
  BY <1>2, FineFacts
<1>4. x \in InstUses(f.blocks[c].insts[m])
  BY <1>2 DEF InstUses, OpUses, UnaryOps, OperandRegs, Reg, IsReg
<1>5. \A d \in U : ~ReadsFirst(f.blocks[d], x)
  BY DEF AssignedOnce, Params, DeadSet
<1>6. /\ 0 \in U /\ U \subseteq Blocks(f) /\ Wider(f, x, U) = U
      /\ \A D : 0 \in D /\ Wider(f, x, D) \subseteq D => U \subseteq D
  BY <1>1, UnwrittenFacts
<1>7. 0 \in W /\ Wider(f, y, W) = W
  BY <1>1, UnwrittenFacts
<1> HIDE DEF U, W
<1>8. ASSUME NEW d \in U, NEW k \in DOMAIN f.blocks[d].insts, f.blocks[d].insts[k].dst = y
      PROVE  \E j \in DOMAIN f.blocks[d].insts : j < k /\ f.blocks[d].insts[j].dst = x
  <2>1. d \in Blocks(f)
    BY <1>6
  <2>2. c = d /\ m = k
    BY <1>3, <1>8, <2>1, OneWriter
  <2>3. x \in InstUses(f.blocks[d].insts[k])
    BY <1>4, <2>2
  <2>4. PICK j \in 1 .. k - 1 : f.blocks[d].insts[j].dst = x
    BY <1>5, <2>3 DEF ReadsFirst
  <2>5. j \in DOMAIN f.blocks[d].insts /\ j < k
    BY <1>1, <2>1
  <2> QED BY <2>4, <2>5
<1>9. U \subseteq W
  <2> DEFINE D == U \cap W
  <2>1. ASSUME NEW d \in D, ~Writes(f.blocks[d], x) PROVE Succs(f.blocks[d]) \subseteq D
    <3>1. Succs(f.blocks[d]) \subseteq U
      BY <1>6, <2>1 DEF Wider
    <3>2. ~Writes(f.blocks[d], y)
      BY <1>8, <2>1 DEF Writes
    <3>3. Succs(f.blocks[d]) \subseteq W
      BY <1>7, <3>2 DEF Wider
    <3> QED BY <3>1, <3>3
  <2>2. 0 \in D
    BY <1>6, <1>7
  <2> HIDE DEF D
  <2>3. Wider(f, x, D) \subseteq D
    BY <2>1 DEF Wider
  <2>4. U \subseteq D
    BY <1>6, <2>2, <2>3
  <2> QED BY <2>4 DEF D
<1>10. b \in U /\ \A k \in 1 .. i - 1 : f.blocks[b].insts[k].dst # x
  BY DEF Fresh, U
<1>11. ASSUME NEW k \in 1 .. i - 1 PROVE f.blocks[b].insts[k].dst # y
  <2>1. k \in DOMAIN f.blocks[b].insts /\ \A j \in DOMAIN f.blocks[b].insts : j < k => j \in 1 .. i - 1
    BY <1>1
  <2> QED BY <1>8, <1>10, <2>1
<1> QED BY <1>9, <1>10, <1>11 DEF Fresh, W

-----------------------------------------------------------------------------
(* What replaced operands and reused results compute.                      *)
LEMMA LoadOutcome ==
  ASSUME NEW in, in.op = "LoadGlobal", NEW vs, NEW gs
  PROVE  Outcome(in, vs, gs) = gs[in.gid]
<1>1. in.op \notin BinaryOps /\ in.op \notin UnaryOps
  BY DEF BinaryOps, UnaryOps
<1> QED BY <1>1, Zenon DEF Outcome

(* The result depends on the operator, the operands and the global.        *)
LEMMA SameOutcome ==
  ASSUME NEW in, NEW new, new.op = in.op, NEW vs, NEW ws, NEW gs, NEW hs,
         in.op \in BinaryOps \cup UnaryOps => Value(new.a, ws) = Value(in.a, vs),
         in.op \in BinaryOps => Value(new.b, ws) = Value(in.b, vs),
         in.op = "LoadGlobal" => hs[new.gid] = gs[in.gid],
         in.op \in BinaryOps \cup UnaryOps \cup {"LoadGlobal"}
  PROVE  Outcome(new, ws, hs) = Outcome(in, vs, gs)
<1>1. CASE in.op \in BinaryOps
  BY <1>1, BinaryOutcome
<1>2. CASE in.op \in UnaryOps
  BY <1>2, UnaryOutcome
<1>3. CASE in.op = "LoadGlobal"
  BY <1>3, LoadOutcome
<1> QED BY <1>1, <1>2, <1>3

LEMMA ReplacedMeans ==
  ASSUME NEW vs, NEW how, NEW in \in Fine(vs, how), NEW subst, NEW regs, NEW gs,
         \A v \in OpUses(in) : v \in DOMAIN subst => Value(subst[v], regs) = regs[v]
  PROVE  ActsAs(Replaced(in, subst), in, regs, gs, FALSE)
<1> DEFINE xs == [k \in DOMAIN in.args |-> Via(subst, in.args[k])]
           x == Via(subst, in.a)
           y == Via(subst, in.b)
           new == [in EXCEPT !.a = x, !.b = y, !.args = xs]
<1>1. /\ new.op = in.op /\ new.dst = in.dst /\ new.a = x /\ new.b = y
      /\ new.gid = in.gid /\ new.args = xs
  BY FineFacts
<1>2. ASSUME NEW val, OperandRegs(val) \subseteq OpUses(in)
      PROVE  Value(Via(subst, val), regs) = Value(val, regs)
  BY <1>2 DEF Via, Value, OperandRegs
<1>3. in.op \in Ops
  BY FineFacts
<1>4. in.op \in UnaryOps \cup {"StoreGlobal"} => Value(x, regs) = Value(in.a, regs)
  <2>1. in.op \in UnaryOps \cup {"StoreGlobal"} => OpUses(in) = OperandRegs(in.a)
    <3>1. in.op \in UnaryOps \cup {"StoreGlobal"} => in.op # "LoadGlobal" /\ in.op # "Call"
      BY DEF UnaryOps
    <3> QED BY <3>1, Zenon DEF OpUses
  <2> QED BY <1>2, <2>1
<1>5. in.op \in BinaryOps => Value(x, regs) = Value(in.a, regs) /\ Value(y, regs) = Value(in.b, regs)
  <2>1. ASSUME in.op \in BinaryOps PROVE OpUses(in) = OperandRegs(in.a) \cup OperandRegs(in.b)
    <3>1. in.op \notin UnaryOps \cup {"StoreGlobal"} /\ in.op # "LoadGlobal" /\ in.op # "Call"
      BY <2>1 DEF BinaryOps, UnaryOps
    <3> QED BY <3>1, Zenon DEF OpUses
  <2> QED BY <1>2, <2>1
<1>6. in.op = "Call" => Passed(new, regs) = Passed(in, regs)
  <2> SUFFICES ASSUME in.op = "Call" PROVE Passed(new, regs) = Passed(in, regs)
    OBVIOUS
  <2>1. OpUses(in) = UNION {OperandRegs(in.args[k]) : k \in DOMAIN in.args}
    <3>1. in.op \notin UnaryOps \cup {"StoreGlobal"} /\ in.op # "LoadGlobal"
      BY DEF UnaryOps
    <3> QED BY <3>1, Zenon DEF OpUses
  <2>2. \A k \in DOMAIN in.args : Value(Via(subst, in.args[k]), regs) = Value(in.args[k], regs)
    BY <1>2, <2>1
  <2>3. DOMAIN new.args = DOMAIN in.args /\ \A k \in DOMAIN in.args : new.args[k] = Via(subst, in.args[k])
    BY <1>1
  <2> HIDE DEF new, xs, x, y
  <2> QED BY <2>2, <2>3 DEF Passed
<1>7. Replaced(in, subst) = IF in.op = "Mv" THEN in ELSE new
  BY DEF Replaced
<1> HIDE DEF new, x, y, xs
<1>8. in.op \notin {"StoreGlobal", "Call"} => Outcome(new, regs, gs) = Outcome(in, regs, gs)
  BY <1>1, <1>3, <1>4, <1>5, SameOutcome DEF Ops
<1>9. ActsAs(new, in, regs, gs, FALSE)
  BY <1>1, <1>4, <1>6, <1>8 DEF ActsAs
<1> QED BY <1>7, <1>9, ActsLikeItself

LEMMA EndedMeans ==
  ASSUME NEW vs, NEW how, NEW n, NEW cc \in FineBlocks(vs, n, how), NEW bb, NEW subst, NEW regs,
         cc.term = bb.term, cc.hasVal = bb.hasVal, cc.cond = bb.cond, cc.ret = bb.ret,
         cc.succ0 = bb.succ0, cc.succ1 = bb.succ1, bb.hasVal \in BOOLEAN,
         \A v \in TermUses(bb) : v \in DOMAIN subst => Value(subst[v], regs) = regs[v]
  PROVE  /\ EndsAs(Ended(cc, bb.term, bb.hasVal, subst), bb, regs)
         /\ Ended(cc, bb.term, bb.hasVal, subst).insts = cc.insts
<1> DEFINE x == IF bb.term = "Br" THEN Via(subst, cc.cond) ELSE cc.cond
           y == IF bb.term = "Ret" /\ bb.hasVal THEN Via(subst, cc.ret) ELSE cc.ret
           new == [cc EXCEPT !.cond = x, !.ret = y]
<1>1. Ended(cc, bb.term, bb.hasVal, subst) = new
  BY DEF Ended
<1>2. /\ new.term = bb.term /\ new.hasVal = bb.hasVal /\ new.cond = x /\ new.ret = y
      /\ new.succ0 = bb.succ0 /\ new.succ1 = bb.succ1 /\ new.insts = cc.insts
  BY DEF FineBlocks, BasicBlocks
<1>3. ASSUME NEW val, OperandRegs(val) \subseteq TermUses(bb)
      PROVE  Value(Via(subst, val), regs) = Value(val, regs)
  BY <1>3 DEF Via, Value, OperandRegs
<1>4. bb.term = "Br" => Value(x, regs) = Value(bb.cond, regs)
  BY <1>3 DEF TermUses
<1>5. bb.term = "Ret" /\ bb.hasVal => Value(y, regs) = Value(bb.ret, regs)
  BY <1>3 DEF TermUses
<1> HIDE DEF x, y, new
<1>6. bb.term \in {"Jmp", "Br"} => Leads(new, regs) = Leads(bb, regs)
  BY <1>2, <1>4 DEF Leads
<1>7. EndsAs(new, bb, regs)
  BY <1>2, <1>5, <1>6 DEF EndsAs
<1> QED BY <1>1, <1>2, <1>7

(* A fact about a block tells the result of an instruction.                *)
LEMMA ReuseMeans ==
  ASSUME NEW vs, NEW how, NEW in \in Fine(vs, how), NEW s, NEW regs, NEW gs,
         \A x \in s.facts : regs[x.dst] = Outcome(x, regs, gs)
  PROVE  ActsAs(IF Known(s, in) = {} THEN in ELSE Reuse(s, in), in, regs, gs, FALSE)
<1>1. CASE Known(s, in) = {}
  BY <1>1, ActsLikeItself
<1>2. CASE Known(s, in) # {}
  <2>1. PICK y \in Known(s, in) : Reuse(s, in) = Unary("Mv", in.dst, Reg(y.dst))
    BY <1>2 DEF Reuse
  <2>2. Reusable(in) /\ y.op = in.op /\ y.a = in.a /\ y.b = in.b /\ y.gid = in.gid /\ y \in s.facts
    BY <2>1 DEF Known, States
  <2>3. in.op \in BinaryOps \cup UnaryOps \cup {"LoadGlobal"} /\ in.op \notin {"StoreGlobal", "Call"}
    BY <2>2 DEF Reusable, BinaryOps, UnaryOps
  <2>4. Outcome(y, regs, gs) = Outcome(in, regs, gs)
    BY <2>2, <2>3, SameOutcome
  <2> DEFINE new == Unary("Mv", in.dst, Reg(y.dst))
  <2>5. new.op = "Mv" /\ new.dst = in.dst /\ new.a = Reg(y.dst)
    BY DEF Unary, Plain
  <2> HIDE DEF new
  <2>6. Outcome(new, regs, gs) = EvalUnary("Mv", Value(Reg(y.dst), regs))
    BY <2>5, UnaryOutcome DEF UnaryOps
  <2>7. Outcome(new, regs, gs) = regs[y.dst]
    BY <2>6, ValueIs DEF EvalUnary
  <2>8. ActsAs(new, in, regs, gs, FALSE)
    BY <2>2, <2>3, <2>4, <2>5, <2>7 DEF ActsAs
  <2> QED BY <1>2, <2>1, <2>8 DEF new
<1> QED BY <1>1, <1>2

(* What an instruction leaves known stays so when it is carried out: that  *)
(* takes the vregs from regs to ws, the globals ids from gs to hs.         *)
Carried(in, vs, how, facts, ids, regs, gs, ws, hs) ==
  /\ NoReg \notin vs /\ in \in Fine(vs, how) /\ facts \in SUBSET Facts(vs)
  /\ \A x \in facts : regs[x.dst] = Outcome(x, regs, gs)
  /\ \A x \in facts : x.dst # in.dst /\ x.op \in BinaryOps \cup UnaryOps \cup {"LoadGlobal"}
  /\ \A x \in facts : x.op = "LoadGlobal" => x.gid \in ids
  /\ \A v \in vs : v # in.dst => ws[v] = regs[v]
  /\ in.op \notin {"StoreGlobal", "Call"} => hs = gs
  /\ in.op = "StoreGlobal" => \A g \in ids : g # in.gid => hs[g] = gs[g]

LEMMA SurvivingHold ==
  ASSUME NEW in, NEW vs, NEW how, NEW facts, NEW ids, NEW regs, NEW gs, NEW ws, NEW hs,
         Carried(in, vs, how, facts, ids, regs, gs, ws, hs)
  PROVE  \A x \in Surviving(facts, in) : ws[x.dst] = Outcome(x, ws, hs)
<1> USE DEF Carried
<1> SUFFICES ASSUME NEW x \in Surviving(facts, in) PROVE ws[x.dst] = Outcome(x, ws, hs)
  OBVIOUS
<1>1. x \in facts /\ x \in Facts(vs)
  BY SurvivingFacts
<1>2. ws[x.dst] = regs[x.dst]
  BY <1>1 DEF Facts
<1>3. in.op = "StoreGlobal" => in.dst = NoReg
  BY FineFacts
<1>4. CASE x.op = "LoadGlobal"
  <2>1. in.op # "Call"
    BY <1>4, Zenon DEF Surviving, Kill
  <2>2. in.op = "StoreGlobal" => x.gid # in.gid
    BY <1>4 DEF Surviving, Kill
  <2>3. hs[x.gid] = gs[x.gid]
    BY <1>1, <1>4, <2>1, <2>2
  <2> QED BY <1>1, <1>2, <1>4, <2>3, LoadOutcome
<1>5. CASE x.op # "LoadGlobal"
  <2>1. in.dst \notin OperandRegs(x.a) \cup OperandRegs(x.b)
    <3>1. OperandRegs(x.a) \cup OperandRegs(x.b) \subseteq vs
      BY <1>1, ValFacts DEF Facts, OperandRegs
    <3>2. CASE in.op = "StoreGlobal"
      BY <1>3, <3>1, <3>2
    <3>3. CASE in.op # "StoreGlobal"
      BY <1>5, <3>3, Zenon DEF Surviving, Kill
    <3> QED BY <3>2, <3>3
  <2>2. ASSUME NEW val \in Vals(vs), in.dst \notin OperandRegs(val) PROVE Value(val, ws) = Value(val, regs)
    BY <2>2, ValFacts DEF Value, OperandRegs
  <2>3. Value(x.a, ws) = Value(x.a, regs) /\ Value(x.b, ws) = Value(x.b, regs)
    BY <1>1, <2>1, <2>2 DEF Facts
  <2>4. Outcome(x, ws, hs) = Outcome(x, regs, gs)
    BY <1>1, <1>5, <2>3, SameOutcome
  <2> QED BY <1>1, <1>2, <2>4
<1> QED BY <1>4, <1>5

-----------------------------------------------------------------------------
(* What the passes make of a block.                                        *)

(* The facts are those of instructions before; one instruction comes out   *)
(* of every one.                                                           *)
LEMMA CsesFacts ==
  ASSUME NEW vs, NEW how, NEW is \in Seq(Fine(vs, how)), NEW g, Cses(g, is, vs, how)
  PROVE  /\ \A k \in 0 .. Len(is) : \A x \in g[k].facts :
              \E j \in 1 .. k : Reusable(is[j]) /\ x = Fact(is[j])
         /\ Len(CseBlock(is)) = Len(is)
         /\ \A k \in 1 .. Len(is) :
              CseBlock(is)[k] = IF Known(g[k - 1], is[k]) = {} THEN is[k] ELSE Reuse(g[k - 1], is[k])
<1> DEFINE n == Len(is)
           F == Fine(vs, how)
           New(k) == IF Known(g[k - 1], is[k]) = {} THEN is[k] ELSE Reuse(g[k - 1], is[k])
           Left(k) == Surviving(g[k - 1].facts, is[k])
                        \cup (IF Reusable(is[k]) /\ Known(g[k - 1], is[k]) = {}
                              THEN {Fact(is[k])} ELSE {})
           Old(k) == \A x \in g[k].facts : \E j \in 1 .. k : Reusable(is[j]) /\ x = Fact(is[j])
           Out(k) == Len(g[k].out) = k /\ \A j \in 1 .. k : g[k].out[j] = New(j)
           D == {k \in Nat : k =< n => Old(k) /\ Out(k)}
<1>1. n \in Nat
  OBVIOUS
<1>2. /\ \A k \in 0 .. n : g[k].out \in Seq(F)
      /\ g[0].facts = {} /\ g[0].out = << >> /\ CseBlock(is) = g[n].out
  BY DEF Cses, CseStates
<1>3. \A k \in 1 .. n : g[k].facts = Left(k) /\ g[k].out = Append(g[k - 1].out, New(k))
  <2>1. ASSUME NEW s, NEW in
        PROVE  CseInst(s, in) =
                 [facts |-> Surviving(s.facts, in)
                              \cup (IF Reusable(in) /\ Known(s, in) = {} THEN {Fact(in)} ELSE {}),
                  out |-> Append(s.out, IF Known(s, in) = {} THEN in ELSE Reuse(s, in))]
    BY DEF CseInst, Known, Reuse
  <2>2. \A k \in 1 .. n : g[k] = CseInst(g[k - 1], is[k])
    BY DEF Cses
  <2> HIDE DEF n
  <2>3. ASSUME NEW k \in 1 .. n
        PROVE  g[k].facts = Left(k) /\ g[k].out = Append(g[k - 1].out, New(k))
    <3> DEFINE z == Append(g[k - 1].out, New(k))
    <3>1. g[k] = [facts |-> Left(k), out |-> z]
      BY ONLY <2>1, <2>2, k \in 1 .. n
    <3> HIDE DEF New, Left, z
    <3>2. g[k].facts = Left(k) /\ g[k].out = z
      BY ONLY <3>1
    <3> QED BY ONLY <3>2 DEF z
  <2> QED BY ONLY <2>3
<1> HIDE DEF n, F, New
<1>4. 0 \in D
  BY <1>2
<1>5. ASSUME NEW k \in Nat, k \in D PROVE k + 1 \in D
  <2>1. CASE k + 1 =< n
    <3>1. k + 1 \in 1 .. n /\ (k + 1) - 1 = k /\ k =< n /\ k \in 0 .. n /\ k + 1 \in Nat
      BY ONLY k \in Nat, <1>1, <2>1
    <3>2. Old(k) /\ Out(k)
      BY <1>5, <3>1
    <3>3. Old(k + 1)
      <4>1. ASSUME NEW x \in g[k + 1].facts
            PROVE  \E j \in 1 .. k + 1 : Reusable(is[j]) /\ x = Fact(is[j])
        <5>1. \/ x \in g[k].facts
              \/ Reusable(is[k + 1]) /\ x = Fact(is[k + 1])
          BY <1>3, <3>1, SurvivingFacts
        <5>2. k + 1 \in 1 .. k + 1 /\ \A j \in 1 .. k : j \in 1 .. k + 1
          BY <3>1
        <5> QED BY <3>2, <5>1, <5>2
      <4> QED BY <4>1
    <3>4. Out(k + 1)
      <4>1. g[k + 1].out = Append(g[k].out, New(k + 1)) /\ g[k].out \in Seq(F)
        BY <1>2, <1>3, <3>1
      <4>2. Len(g[k + 1].out) = k + 1
        BY <3>2, <4>1
      <4>3. ASSUME NEW j \in 1 .. k + 1 PROVE g[k + 1].out[j] = New(j)
        <5>1. CASE j = k + 1
          BY <3>2, <4>1, <5>1
        <5>2. CASE j # k + 1
          <6>1. j \in 1 .. k
            BY ONLY <5>2, j \in 1 .. k + 1, k \in Nat
          <6>2. g[k].out[j] = New(j)
            BY <3>2, <6>1
          <6>3. g[k + 1].out[j] = g[k].out[j]
            BY <3>2, <4>1, <6>1
          <6> QED BY <6>2, <6>3
        <5> QED BY <5>1, <5>2
      <4> QED BY <4>2, <4>3
    <3> QED BY <3>1, <3>3, <3>4
  <2>2. CASE ~(k + 1 =< n)
    BY ONLY <2>2, k \in Nat
  <2> QED BY <2>1, <2>2
<1>6. Nat \subseteq D
  <2> HIDE DEF D
  <2> QED BY <1>4, <1>5, Upward
<1>7. \A k \in 0 .. n : Old(k) /\ Out(k)
  <2>1. \A k \in 0 .. n : k \in Nat /\ k =< n
    BY <1>1
  <2> QED BY <1>6, <2>1
<1>8. n \in 0 .. n
  BY <1>1
<1>9. Out(n)
  BY <1>7, <1>8
<1> QED BY <1>2, <1>7, <1>9 DEF n, New

LEMMA CseBlocks ==
  ASSUME NEW f, NEW how, Formed(f, how), NEW b \in Blocks(f)
  PROVE  Cse(f).blocks[b] = [f.blocks[b] EXCEPT !.insts = CseBlock(f.blocks[b].insts)]
<1>1. DOMAIN f = {"numVregs", "params", "nb", "blocks"}
  BY FunctionParts
<1> QED BY <1>1 DEF Cse

(* Operands replaced, block by block.                                      *)
LEMMA SubstituteBlocks ==
  ASSUME NEW f, NEW how, Formed(f, how),
         NEW subst, \A v \in DOMAIN subst : subst[v] \in Vals(Vregs(f)), NEW b \in Blocks(f)
  PROVE  \E cc \in FineBlocks(Vregs(f), f.nb, how) :
           /\ Substitute(f, subst).blocks[b] =
                Ended(cc, f.blocks[b].term, f.blocks[b].hasVal, subst)
           /\ cc = [f.blocks[b] EXCEPT !.insts = [k \in DOMAIN f.blocks[b].insts |->
                                                    Replaced(f.blocks[b].insts[k], subst)]]
<1> DEFINE new == [p \in Sites(f) |-> Replaced(At(f, p), subst)]
           g == Rewritten(f, new)
           bs == [c \in Blocks(f) |->
                    Ended(g.blocks[c], f.blocks[c].term, f.blocks[c].hasVal, subst)]
<1>1. Substitute(f, subst) = [g EXCEPT !.blocks = bs]
  BY DEF Substitute, Replaced, Ended, Via
<1>2. \A p \in Sites(f) : new[p] \in Fine(Vregs(f), how)
  BY SiteFacts, ReplacedFine
<1>3. \A k \in DOMAIN f.blocks[b].insts : new[<<b, k>>] = Replaced(f.blocks[b].insts[k], subst)
  BY SitesAre
<1> HIDE DEF new
<1>4. /\ StaysFunc(g, f, how) /\ g.numVregs = f.numVregs
      /\ \A c \in Blocks(f) : g.blocks[c] =
                [f.blocks[c] EXCEPT !.insts = [k \in DOMAIN f.blocks[c].insts |-> new[<<c, k>>]]]
  BY <1>2, RewrittenFacts
<1>5. [k \in DOMAIN f.blocks[b].insts |-> new[<<b, k>>]] =
      [k \in DOMAIN f.blocks[b].insts |-> Replaced(f.blocks[b].insts[k], subst)]
  BY <1>3
<1> HIDE DEF g
<1>6. Formed(g, how) /\ Blocks(g) = Blocks(f) /\ Vregs(g) = Vregs(f) /\ g.nb = f.nb
  BY <1>4 DEF StaysFunc, Blocks, Vregs
<1>7. DOMAIN g = {"numVregs", "params", "nb", "blocks"}
      /\ g.blocks[b] \in FineBlocks(Vregs(f), f.nb, how)
  BY <1>6, FunctionParts
<1>8. Substitute(f, subst).blocks = bs
  BY <1>1, <1>7
<1>9. bs[b] = Ended(g.blocks[b], f.blocks[b].term, f.blocks[b].hasVal, subst)
  OBVIOUS
<1> HIDE DEF bs
<1> QED BY <1>4, <1>5, <1>7, <1>8, <1>9

(* What a map of copies or constants is made of.                           *)
LEMMA SourceIs ==
  ASSUME NEW f, NEW how, Formed(f, how), NEW ps, ps \subseteq Sites(f), NEW v \in DOMAIN Sources(f, ps)
  PROVE  \E p \in ps : At(f, p).dst = v /\ Sources(f, ps)[v] = At(f, p).a
<1> DEFINE S == {p \in ps : At(f, p).dst = v}
<1>1. v \in {At(f, p).dst : p \in ps} /\ Sources(f, ps)[v] = At(f, LastOf(S)).a
  BY DEF Sources
<1>2. S \subseteq Sites(f) /\ S # {}
  BY <1>1
<1>3. LastOf(S) \in S
  <2> HIDE DEF S
  <2> QED BY <1>2, LastOfFacts
<1> QED BY <1>1, <1>3

-----------------------------------------------------------------------------
(* While it runs, every vreg holds what was moved to it, unless it may be  *)
(* unassigned.                                                             *)
MovesAt(f, b, i, regs) ==
  \A p \in Sites(f) :
    At(f, p).op = "Mv" /\ ~Fresh(f, b, i, At(f, p).dst) => regs[At(f, p).dst] = Value(At(f, p).a, regs)

LEMMA AnyFormed ==
  ASSUME NEW f, IsIRFunc(f)
  PROVE  Formed(f, "any")
BY DEF Formed, AsMarked

(* So does the vreg at the end of a chain of copies.                       *)
LEMMA ChainMeans ==
  ASSUME NEW f, NEW how, Formed(f, how), AssignedOnce(f), NEW b \in Blocks(f),
         NEW i \in 1 .. Len(f.blocks[b].insts) + 1, NEW regs, MovesAt(f, b, i, regs),
         NEW v \in Vregs(f), ~Fresh(f, b, i, v)
  PROVE  Value(Resolve(CopyMap(f), v), regs) = regs[v]
<1> DEFINE ps == {p \in Sites(f) : IsMove(At(f, p))}
           copies == CopyMap(f)
           V == Vregs(f)
<1>1. copies = Sources(f, ps) /\ ps \subseteq Sites(f)
  BY DEF CopyMap
<1>2. \A u \in DOMAIN copies : copies[u] \in Vals(V)
  <2> HIDE DEF ps
  <2> QED BY <1>1, SourcesFacts
<1>3. ASSUME NEW w \in DOMAIN copies
      PROVE  \E p \in ps : At(f, p).dst = w /\ copies[w] = At(f, p).a
  <2> HIDE DEF ps
  <2> QED BY <1>1, SourceIs
<1> HIDE DEF copies, V
<1>4. PICK g : Resolves(g, copies, v, V)
  BY <1>2, ResolveTurns DEF V
<1> DEFINE n == ChainBound
           Good(val) == /\ IsReg(val) /\ val.n \in V /\ regs[val.n] = regs[v]
                        /\ val.n \in Params(f) \/ ~Fresh(f, b, i, val.n)
           D == {k \in Nat : k =< n => Good(g[k])}
<1>5. n \in Nat
  BY DEF ChainBound
<1>6. /\ g[0] = Reg(v) /\ Resolve(copies, v) = g[n]
      /\ \A k \in 1 .. n : g[k] = IF g[k - 1].n \in DOMAIN copies THEN copies[g[k - 1].n] ELSE g[k - 1]
  BY <1>4 DEF Resolves
<1>7. ASSUME NEW val, Good(val), val.n \in DOMAIN copies PROVE Good(copies[val.n])
  <2> DEFINE w == val.n
  <2>1. PICK p \in ps : At(f, p).dst = w /\ copies[w] = At(f, p).a
    BY <1>3, <1>7
  <2>2. p \in Sites(f) /\ At(f, p).op = "Mv" /\ IsReg(At(f, p).a)
    BY <2>1 DEF IsMove
  <2>3. /\ p[1] \in Blocks(f) /\ p[2] \in DOMAIN f.blocks[p[1]].insts
        /\ At(f, p) = f.blocks[p[1]].insts[p[2]] /\ At(f, p) \in Fine(V, how)
    BY <2>2, SitesAre, SiteFacts DEF At, V
  <2>4. w # NoReg
    BY <2>1, <2>2, <2>3, FineFacts
  <2>5. w \notin Params(f)
    BY <2>1, <2>3, <2>4, OneWriter
  <2>6. ~Fresh(f, b, i, w) /\ regs[w] = Value(copies[w], regs)
    BY <1>7, <2>1, <2>2, <2>5 DEF MovesAt
  <2> DEFINE x == copies[w].n
  <2>7. copies[w] = Reg(x) /\ x \in V /\ IsReg(copies[w])
    BY <1>2, <1>7, <2>1, <2>2, ValFacts
  <2>8. x \in Params(f) \/ ~Fresh(f, b, i, x)
    <3>1. IsMove(At(f, p)) /\ At(f, p).a = Reg(x)
      BY <2>1, <2>7
    <3> HIDE DEF w, x
    <3> QED BY <2>1, <2>3, <2>6, <2>7, <3>1, FreshFollows DEF V
  <2>9. regs[x] = regs[v]
    BY <1>7, <2>6, <2>7 DEF Value
  <2> QED BY <2>7, <2>8, <2>9
<1> HIDE DEF Good, n
<1>8. 0 \in D
  <2>1. Good(Reg(v))
    BY DEF Good, V, Reg, IsReg
  <2> QED BY <1>6, <2>1
<1>9. ASSUME NEW k \in Nat, k \in D PROVE k + 1 \in D
  <2>1. CASE k + 1 =< n
    <3>1. k + 1 \in 1 .. n /\ (k + 1) - 1 = k /\ k =< n /\ k + 1 \in Nat
      BY ONLY k \in Nat, <1>5, <2>1
    <3>2. Good(g[k])
      BY <1>9, <3>1
    <3>3. g[k + 1] = IF g[k].n \in DOMAIN copies THEN copies[g[k].n] ELSE g[k]
      BY <1>6, <3>1
    <3>4. Good(g[k + 1])
      BY <1>7, <3>2, <3>3
    <3> QED BY <3>1, <3>4
  <2>2. CASE ~(k + 1 =< n)
    BY ONLY <2>2, k \in Nat
  <2> QED BY <2>1, <2>2
<1>10. Nat \subseteq D
  <2> HIDE DEF D
  <2> QED BY <1>8, <1>9, Upward
<1>11. Good(g[n])
  BY <1>5, <1>10
<1> QED BY <1>6, <1>11 DEF Good, Value, copies

(* What propagation puts in the place of a vreg is what it holds.          *)
Faithful(f, b, i, regs, subst) ==
  /\ \A v \in DOMAIN subst : subst[v] \in Vals(Vregs(f))
  /\ \A v \in DOMAIN subst : v \in Vregs(f) \ Params(f)
  /\ \A v \in DOMAIN subst : ~Fresh(f, b, i, v) => Value(subst[v], regs) = regs[v]

LEMMA CopiesFaithful ==
  ASSUME NEW f, NEW how, Formed(f, how), AssignedOnce(f), NEW b \in Blocks(f),
         NEW i \in 1 .. Len(f.blocks[b].insts) + 1, NEW regs, MovesAt(f, b, i, regs)
  PROVE  \E subst : CopyProp(f) = Substitute(f, subst) /\ Faithful(f, b, i, regs, subst)
<1> DEFINE ps == {p \in Sites(f) : IsMove(At(f, p))}
           copies == CopyMap(f)
           subst == [v \in DOMAIN copies |-> Resolve(copies, v)]
<1>1. CopyProp(f) = Substitute(f, subst)
  BY DEF CopyProp
<1>2. copies = Sources(f, ps) /\ ps \subseteq Sites(f)
  BY DEF CopyMap
<1>3. \A u \in DOMAIN copies : copies[u] \in Vals(Vregs(f))
  <2> HIDE DEF ps
  <2> QED BY <1>2, SourcesFacts
<1>4. ASSUME NEW v \in DOMAIN copies PROVE v \in Vregs(f) \ Params(f)
  <2>1. PICK p \in ps : At(f, p).dst = v
    <3> HIDE DEF ps
    <3> QED BY <1>2, SourceIs
  <2>2. p \in Sites(f) /\ At(f, p).op = "Mv"
    BY <2>1 DEF IsMove
  <2>3. /\ p[1] \in Blocks(f) /\ p[2] \in DOMAIN f.blocks[p[1]].insts
        /\ At(f, p) = f.blocks[p[1]].insts[p[2]] /\ At(f, p) \in Fine(Vregs(f), how)
    BY <2>2, SitesAre, SiteFacts DEF At
  <2>4. v # NoReg /\ v \in Vregs(f)
    BY <2>1, <2>2, <2>3, FineFacts
  <2> QED BY <2>1, <2>3, <2>4, OneWriter
<1>5. ASSUME NEW v \in DOMAIN copies
      PROVE  /\ Resolve(copies, v) \in Vals(Vregs(f))
             /\ ~Fresh(f, b, i, v) => Value(Resolve(copies, v), regs) = regs[v]
  <2>1. v \in Vregs(f)
    BY <1>4
  <2> HIDE DEF ps
  <2> QED BY <1>3, <2>1, ResolveFacts, ChainMeans
<1> HIDE DEF copies, ps
<1>6. Faithful(f, b, i, regs, subst)
  BY <1>4, <1>5 DEF Faithful
<1> QED BY <1>1, <1>6

LEMMA ConstantsFaithful ==
  ASSUME NEW f, NEW how, Formed(f, how), AssignedOnce(f), NEW b \in Blocks(f),
         NEW i \in 1 .. Len(f.blocks[b].insts) + 1, NEW regs, MovesAt(f, b, i, regs)
  PROVE  \E subst : ConstProp(f) = Substitute(f, subst) /\ Faithful(f, b, i, regs, subst)
<1> DEFINE ps == {p \in Sites(f) : LET in == At(f, p) IN
                    in.op = "Mv" /\ ~IsReg(in.a) /\ Fits(in.a.n)}
           subst == Sources(f, ps)
<1>1. ps \subseteq Sites(f) /\ ConstProp(f) = Substitute(f, subst)
  BY DEF ConstProp
<1>2. ASSUME NEW v \in DOMAIN subst
      PROVE  /\ v \in Vregs(f) \ Params(f)
             /\ ~Fresh(f, b, i, v) => Value(subst[v], regs) = regs[v]
  <2>1. PICK p \in ps : At(f, p).dst = v /\ subst[v] = At(f, p).a
    <3> HIDE DEF ps
    <3> QED BY <1>1, SourceIs
  <2>2. p \in Sites(f) /\ At(f, p).op = "Mv"
    BY <2>1
  <2>3. /\ p[1] \in Blocks(f) /\ p[2] \in DOMAIN f.blocks[p[1]].insts
        /\ At(f, p) = f.blocks[p[1]].insts[p[2]] /\ At(f, p) \in Fine(Vregs(f), how)
    BY <2>2, SitesAre, SiteFacts DEF At
  <2>4. v # NoReg /\ v \in Vregs(f)
    BY <2>1, <2>2, <2>3, FineFacts
  <2>5. v \notin Params(f)
    BY <2>1, <2>3, <2>4, OneWriter
  <2> HIDE DEF ps, subst
  <2> QED BY <2>1, <2>2, <2>4, <2>5 DEF MovesAt
<1> HIDE DEF ps
<1>3. \A v \in DOMAIN subst : subst[v] \in Vals(Vregs(f))
  BY <1>1, SourcesFacts
<1> HIDE DEF subst
<1>4. Faithful(f, b, i, regs, subst)
  BY <1>2, <1>3 DEF Faithful
<1> QED BY <1>1, <1>4

-----------------------------------------------------------------------------
(* Pass by pass: at every place control may be, the rewritten function     *)
(* does what the function it was made of does.                             *)
InStep(f, g, b, i, vs, gs, loose) ==
  /\ Len(g.blocks[b].insts) = Len(f.blocks[b].insts)
  /\ i \in DOMAIN f.blocks[b].insts =>
       ActsAs(g.blocks[b].insts[i], f.blocks[b].insts[i], vs, gs, loose)
  /\ i = Len(f.blocks[b].insts) + 1 => EndsAs(g.blocks[b], f.blocks[b], vs)

LEMMA SameLength ==
  ASSUME NEW n \in Nat, NEW S, NEW h, h = [k \in 1 .. n |-> h[k]], \A k \in 1 .. n : h[k] \in S
  PROVE  h \in Seq(S) /\ Len(h) = n
OBVIOUS

(* Other instructions and the terminator there was.                        *)
LEMMA BodyInStep ==
  ASSUME NEW f, NEW how, Formed(f, how), NEW g, NEW b \in Blocks(f), NEW i, NEW vs, NEW gs, NEW loose,
         NEW h, g.blocks[b] = [f.blocks[b] EXCEPT !.insts = h],
         Len(h) = Len(f.blocks[b].insts),
         i \in DOMAIN f.blocks[b].insts => ActsAs(h[i], f.blocks[b].insts[i], vs, gs, loose)
  PROVE  InStep(f, g, b, i, vs, gs, loose)
<1> DEFINE bb == f.blocks[b]
           cc == g.blocks[b]
<1>1. bb \in FineBlocks(Vregs(f), f.nb, how)
  BY FunctionParts
<1>2. cc = [bb EXCEPT !.insts = h]
  OBVIOUS
<1> HIDE DEF bb, cc
<1>3. /\ cc.insts = h /\ cc.term = bb.term /\ cc.succ0 = bb.succ0 /\ cc.succ1 = bb.succ1
      /\ cc.cond = bb.cond /\ cc.ret = bb.ret /\ cc.hasVal = bb.hasVal
  BY <1>1, <1>2 DEF FineBlocks, BasicBlocks
<1>4. EndsAs(cc, bb, vs)
  BY <1>3 DEF EndsAs, Leads
<1> QED BY <1>3, <1>4 DEF InStep, bb, cc

(* Instructions one by one.                                                *)
LEMMA RewrittenInStep ==
  ASSUME NEW f, NEW how, Formed(f, how), NEW new, \A p \in Sites(f) : new[p] \in Fine(Vregs(f), how),
         NEW b \in Blocks(f), NEW i, NEW vs, NEW gs, NEW loose,
         \A p \in Sites(f) : ActsAs(new[p], At(f, p), vs, gs, loose)
  PROVE  InStep(f, Rewritten(f, new), b, i, vs, gs, loose)
<1> DEFINE is == f.blocks[b].insts
           h == [k \in DOMAIN is |-> new[<<b, k>>]]
           n == Len(is)
<1>1. n \in Nat /\ DOMAIN is = 1 .. n
  BY PartsOf
<1>2. Rewritten(f, new).blocks[b] = [f.blocks[b] EXCEPT !.insts = h]
  BY RewrittenFacts
<1>3. \A k \in DOMAIN is : <<b, k>> \in Sites(f) /\ At(f, <<b, k>>) = is[k]
  BY SitesAre
<1>4. \A k \in DOMAIN is : h[k] = new[<<b, k>>]
  OBVIOUS
<1>5. h = [k \in 1 .. n |-> h[k]]
  BY <1>1
<1> HIDE DEF h, n, is
<1>6. \A k \in 1 .. n : h[k] \in Fine(Vregs(f), how)
  BY <1>1, <1>3, <1>4
<1>7. Len(h) = n
  BY ONLY <1>1, <1>5, <1>6, SameLength
<1>8. i \in DOMAIN is => ActsAs(h[i], is[i], vs, gs, loose)
  BY <1>3, <1>4
<1> QED BY ONLY <1>2, <1>7, <1>8, BodyInStep, Formed(f, how), b \in Blocks(f) DEF is, n

LEMMA FoldInStep ==
  ASSUME NEW f, NEW how, Formed(f, how), NEW b \in Blocks(f), NEW i,
         NEW regs \in [Vregs(f) -> Words], NEW gs
  PROVE  InStep(f, ConstFold(f), b, i, regs, gs, TRUE)
<1> DEFINE new == [p \in Sites(f) |-> Fold(At(f, p))]
<1>1. \A p \in Sites(f) : new[p] \in Fine(Vregs(f), how) /\ ActsAs(new[p], At(f, p), regs, gs, TRUE)
  BY SiteFacts, FoldFine, FoldMeans
<1>2. ConstFold(f) = Rewritten(f, new)
  BY DEF ConstFold
<1> HIDE DEF new
<1> QED BY <1>1, <1>2, RewrittenInStep

LEMMA MarkInStep ==
  ASSUME NEW f, NEW how, Formed(f, how), NEW b \in Blocks(f), NEW i, NEW regs, NEW gs
  PROVE  InStep(f, MarkUnsignedDiv(f), b, i, regs, gs, FALSE)
<1> DEFINE vs == NonNeg(f)
           new == [p \in Sites(f) |-> Marked(At(f, p), vs)]
<1>1. MarkUnsignedDiv(f) = Rewritten(f, new)
  BY DEF MarkUnsignedDiv
<1> HIDE DEF vs
<1>2. \A p \in Sites(f) : new[p] \in Fine(Vregs(f), how) /\ ActsAs(new[p], At(f, p), regs, gs, FALSE)
  BY SiteFacts, MarkedFine, MarkMeans
<1> HIDE DEF new
<1> QED BY <1>1, <1>2, RewrittenInStep

LEMMA ThreadInStep ==
  ASSUME NEW f, NEW how, Formed(f, how), NEW b \in Blocks(f), NEW i, NEW regs, NEW gs
  PROVE  InStep(f, JumpThreading(f), b, i, regs, gs, FALSE)
<1> DEFINE g == JumpThreading(f)
<1>1. /\ DOMAIN f = {"numVregs", "params", "nb", "blocks"}
      /\ f.blocks[b] \in FineBlocks(Vregs(f), f.nb, how)
  BY FunctionParts
<1>2. g.blocks[b] = Threaded(f.blocks[b])
  BY <1>1 DEF JumpThreading
<1> HIDE DEF g
<1>3. EndsAs(g.blocks[b], f.blocks[b], regs) /\ g.blocks[b].insts = f.blocks[b].insts
  BY <1>1, <1>2, ThreadMeans
<1>4. InStep(f, g, b, i, regs, gs, FALSE)
  BY <1>3, ActsLikeItself DEF InStep
<1> QED BY <1>4 DEF g

LEMMA EmptiedInStep ==
  ASSUME NEW f, NEW how, Formed(f, how), NEW b \in Blocks(f), b \in Reachable(f), NEW i, NEW regs, NEW gs
  PROVE  InStep(f, UnreachableElim(f), b, i, regs, gs, FALSE)
<1> DEFINE g == UnreachableElim(f)
<1>1. g.blocks[b] = f.blocks[b]
  BY EmptiedStays
<1> HIDE DEF g
<1>2. InStep(f, g, b, i, regs, gs, FALSE)
  BY <1>1, ActsLikeItself, EndsLikeItself DEF InStep
<1> QED BY <1>2 DEF g

(* Propagation, where what a vreg is replaced by is what it holds.         *)
LEMMA SubstituteInStep ==
  ASSUME NEW f, NEW how, Formed(f, how), AssignedOnce(f), NEW b \in Blocks(f),
         NEW i \in 1 .. Len(f.blocks[b].insts) + 1, NEW regs, NEW gs,
         NEW subst, Faithful(f, b, i, regs, subst)
  PROVE  InStep(f, Substitute(f, subst), b, i, regs, gs, FALSE)
<1> DEFINE bb == f.blocks[b]
           g == Substitute(f, subst)
           is == bb.insts
           n == Len(is)
           h == [k \in DOMAIN is |-> Replaced(is[k], subst)]
           Fit(cc) == g.blocks[b] = Ended(cc, bb.term, bb.hasVal, subst) /\ cc = [bb EXCEPT !.insts = h]
<1>1. /\ \A v \in DOMAIN subst : subst[v] \in Vals(Vregs(f)) /\ v \in Vregs(f) \ Params(f)
      /\ \A v \in DOMAIN subst : ~Fresh(f, b, i, v) => Value(subst[v], regs) = regs[v]
  BY DEF Faithful
<1>2. \E cc \in FineBlocks(Vregs(f), f.nb, how) : Fit(cc)
  <2>1. \A v \in DOMAIN subst : subst[v] \in Vals(Vregs(f))
    BY <1>1
  <2> QED BY ONLY <2>1, Formed(f, how), b \in Blocks(f), SubstituteBlocks
<1>3. n \in Nat /\ DOMAIN is = 1 .. n /\ \A k \in DOMAIN is : is[k] \in Fine(Vregs(f), how)
  BY PartsOf
<1>4. bb \in FineBlocks(Vregs(f), f.nb, how)
  BY FunctionParts
<1>5. /\ i \in DOMAIN is => \A v \in InstUses(is[i]) : v \in DOMAIN subst => ~Fresh(f, b, i, v)
      /\ i = n + 1 => \A v \in TermUses(bb) : v \in DOMAIN subst => ~Fresh(f, b, i, v)
  BY <1>1, FreshUnread
<1>6. /\ \A k \in DOMAIN is : h[k] = Replaced(is[k], subst)
      /\ h = [k \in 1 .. n |-> h[k]]
  BY <1>3
<1> HIDE DEF Fit
<1>13. PICK cc \in FineBlocks(Vregs(f), f.nb, how) : Fit(cc)
  BY <1>2
<1>14. g.blocks[b] = Ended(cc, bb.term, bb.hasVal, subst) /\ cc = [bb EXCEPT !.insts = h]
  BY <1>13 DEF Fit
<1> HIDE DEF h, n, is, bb, g
<1>7. Len(h) = n
  <2>1. \A k \in 1 .. n : h[k] \in Fine(Vregs(f), how)
    BY <1>1, <1>3, <1>6, ReplacedFine
  <2> QED BY ONLY <1>3, <1>6, <2>1, SameLength
<1>8. /\ cc.insts = h /\ cc.term = bb.term /\ cc.succ0 = bb.succ0 /\ cc.succ1 = bb.succ1
      /\ cc.cond = bb.cond /\ cc.ret = bb.ret /\ cc.hasVal = bb.hasVal /\ bb.hasVal \in BOOLEAN
  BY <1>14, <1>4 DEF FineBlocks, BasicBlocks
<1>9. ASSUME i \in DOMAIN is PROVE ActsAs(h[i], is[i], regs, gs, FALSE)
  <2>1. \A v \in OpUses(is[i]) : v \in DOMAIN subst => Value(subst[v], regs) = regs[v]
    BY <1>1, <1>5, <1>9 DEF InstUses
  <2>2. ActsAs(Replaced(is[i], subst), is[i], regs, gs, FALSE)
    BY <1>3, <1>9, <2>1, ReplacedMeans
  <2> QED BY <1>6, <1>9, <2>2
<1>10. g.blocks[b].insts = cc.insts
  BY <1>14 DEF Ended, FineBlocks, BasicBlocks
<1>11. ASSUME i = n + 1 PROVE EndsAs(g.blocks[b], bb, regs)
  <2>1. \A v \in TermUses(bb) : v \in DOMAIN subst => Value(subst[v], regs) = regs[v]
    BY <1>1, <1>5, <1>11
  <2>2. EndsAs(Ended(cc, bb.term, bb.hasVal, subst), bb, regs)
    BY ONLY <1>8, <2>1, EndedMeans, cc \in FineBlocks(Vregs(f), f.nb, how)
  <2> QED BY ONLY <1>14, <2>2
<1>12. InStep(f, g, b, i, regs, gs, FALSE)
  BY <1>7, <1>8, <1>9, <1>10, <1>11 DEF InStep, bb, is, n
<1> QED BY <1>12 DEF g

(* Common subexpressions, where the facts collected so far hold.           *)
FactsAt(f, b, i, vs, gs) ==
  \A g : Cses(g, f.blocks[b].insts, Vregs(f), "any") =>
           \A x \in g[i - 1].facts : vs[x.dst] = Outcome(x, vs, gs)

LEMMA CseInStep ==
  ASSUME NEW f, Formed(f, "any"), NEW b \in Blocks(f),
         NEW i \in 1 .. Len(f.blocks[b].insts) + 1, NEW regs, NEW gs, FactsAt(f, b, i, regs, gs)
  PROVE  InStep(f, Cse(f), b, i, regs, gs, FALSE)
<1> DEFINE is == f.blocks[b].insts
           V == Vregs(f)
           h == CseBlock(is)
<1>1. is \in Seq(Fine(V, "any")) /\ DOMAIN is = 1 .. Len(is)
      /\ \A k \in DOMAIN is : is[k] \in Fine(V, "any")
  BY PartsOf
<1>2. Cse(f).blocks[b] = [f.blocks[b] EXCEPT !.insts = h]
  BY CseBlocks
<1>3. PICK g : Cses(g, is, V, "any")
  BY <1>1, CseTurns
<1>4. \A x \in g[i - 1].facts : regs[x.dst] = Outcome(x, regs, gs)
  BY <1>3 DEF FactsAt
<1> HIDE DEF is, V, h
<1>5. /\ Len(h) = Len(is)
      /\ \A k \in 1 .. Len(is) :
           h[k] = IF Known(g[k - 1], is[k]) = {} THEN is[k] ELSE Reuse(g[k - 1], is[k])
  <2>1. is \in Seq(Fine(V, "any")) /\ Cses(g, is, V, "any")
    BY <1>1, <1>3
  <2>2. Len(CseBlock(is)) = Len(is)
    BY <2>1, CsesFacts
  <2>3. ASSUME NEW k \in 1 .. Len(is)
        PROVE  CseBlock(is)[k] = IF Known(g[k - 1], is[k]) = {} THEN is[k] ELSE Reuse(g[k - 1], is[k])
    BY <2>1, CsesFacts
  <2> QED BY ONLY <2>2, <2>3 DEF h
<1>6. ASSUME i \in DOMAIN is PROVE ActsAs(h[i], is[i], regs, gs, FALSE)
  <2>1. i \in 1 .. Len(is) /\ is[i] \in Fine(V, "any")
    BY <1>1, <1>6
  <2>2. ActsAs(IF Known(g[i - 1], is[i]) = {} THEN is[i] ELSE Reuse(g[i - 1], is[i]), is[i], regs, gs, FALSE)
    BY <1>4, <2>1, ReuseMeans
  <2> QED BY <1>5, <2>1, <2>2
<1> QED BY ONLY <1>2, <1>5, <1>6, BodyInStep, Formed(f, "any"), b \in Blocks(f) DEF is

-----------------------------------------------------------------------------
(* Where control may be.  Reachable asks what Unwritten asks of a register *)
(* that no block writes.                                                   *)
LEMMA ReachableClosed ==
  ASSUME NEW f, NEW how, Formed(f, how)
  PROVE  /\ 0 \in Reachable(f) /\ Reachable(f) \subseteq Blocks(f)
         /\ \A b \in Reachable(f) : Succs(f.blocks[b]) \subseteq Reachable(f)
<1> DEFINE n == f.nb
           All(S) == S \cup UNION {Succs(f.blocks[b]) : b \in S}
<1>1. IsIRFunc(f)
  BY DEF Formed
<1>2. ASSUME NEW b \in Blocks(f) PROVE ~Writes(f.blocks[b], -2)
  <2>1. ASSUME NEW m \in DOMAIN f.blocks[b].insts PROVE f.blocks[b].insts[m].dst # -2
    <3>1. f.blocks[b].insts[m].dst \in Vregs(f) \cup {NoReg}
      BY PartsOf, FineFacts
    <3> QED BY <3>1 DEF Vregs, NoReg
  <2> QED BY <2>1 DEF Writes
<1>3. ASSUME NEW S, S \subseteq Blocks(f) PROVE Wider(f, -2, S) = All(S)
  <2>1. {k \in S : ~Writes(f.blocks[k], -2)} = S
    BY <1>2, <1>3
  <2> QED BY <2>1 DEF Wider
<1>4. PICK h : /\ h \in [Nat -> SUBSET Blocks(f)] /\ h[0] = {0}
               /\ \A k \in Nat : h[k + 1] = Wider(f, -2, h[k])
               /\ Unwritten(f, -2) = h[f.nb]
  BY <1>1, UnwrittenTurns
<1>5. n \in Nat /\ \E r : Reaches(r, f)
  BY ReachTurns
<1>6. PICK r : Reaches(r, f)
  BY <1>5
<1>7. /\ r[0] = {0} /\ Reachable(f) = r[n]
      /\ \A k \in 1 .. n : r[k] = All(r[k - 1])
  BY <1>6 DEF Reaches
<1>8. /\ h[0] = {0} /\ Unwritten(f, -2) = h[n]
      /\ \A k \in Nat : h[k + 1] = All(h[k])
  BY <1>3, <1>4
<1> HIDE DEF n, All
<1> DEFINE D == {k \in Nat : k =< n => r[k] = h[k]}
<1>9. 0 \in D
  BY <1>7, <1>8
<1>10. ASSUME NEW k \in Nat, k \in D PROVE k + 1 \in D
  <2>1. CASE k + 1 =< n
    <3>1. k + 1 \in 1 .. n /\ (k + 1) - 1 = k /\ k =< n /\ k + 1 \in Nat
      BY ONLY k \in Nat, <1>5, <2>1
    <3>2. r[k + 1] = All(r[k]) /\ h[k + 1] = All(h[k]) /\ r[k] = h[k]
      BY <1>7, <1>8, <1>10, <3>1
    <3> QED BY <3>1, <3>2
  <2>2. CASE ~(k + 1 =< n)
    BY ONLY <2>2, k \in Nat
  <2> QED BY <2>1, <2>2
<1>11. Nat \subseteq D
  <2> HIDE DEF D
  <2> QED BY <1>9, <1>10, Upward
<1>12. Reachable(f) = Unwritten(f, -2)
  BY <1>5, <1>7, <1>8, <1>11
<1> HIDE DEF D
<1>13. /\ 0 \in Reachable(f) /\ Reachable(f) \subseteq Blocks(f)
       /\ Wider(f, -2, Reachable(f)) = Reachable(f)
  BY <1>1, <1>12, UnwrittenFacts
<1>14. Reachable(f) = All(Reachable(f))
  BY <1>3, <1>13
<1> QED BY <1>13, <1>14 DEF All

(* Every vreg is yet unassigned at block b on some path, or is assigned in *)
(* a block where it was until then.                                        *)
Ahead(f, b) ==
  \A v \in Vregs(f) : \/ b \in Unwritten(f, v)
                      \/ \E c \in Unwritten(f, v) : Writes(f.blocks[c], v)

LEMMA AheadFollows ==
  ASSUME NEW f, NEW how, Formed(f, how)
  PROVE  /\ Ahead(f, 0)
         /\ \A b : Ahead(f, b) => \A c \in Succs(f.blocks[b]) : Ahead(f, c)
<1>1. \A v : 0 \in Unwritten(f, v) /\ Wider(f, v, Unwritten(f, v)) = Unwritten(f, v)
  BY UnwrittenFacts DEF Formed
<1>2. ASSUME NEW b, NEW v, b \in Unwritten(f, v), ~Writes(f.blocks[b], v)
      PROVE  Succs(f.blocks[b]) \subseteq Unwritten(f, v)
  BY <1>1, <1>2 DEF Wider
<1> QED BY <1>1, <1>2 DEF Ahead

(* What is assigned at a place was unassigned until then.                  *)
LEMMA AssignedHere ==
  ASSUME NEW f, NEW how, Formed(f, how), AssignedOnce(f), NEW b \in Blocks(f), Ahead(f, b),
         NEW i \in DOMAIN f.blocks[b].insts, f.blocks[b].insts[i].dst # NoReg
  PROVE  /\ f.blocks[b].insts[i].dst \in Vregs(f) \ Params(f)
         /\ Fresh(f, b, i, f.blocks[b].insts[i].dst)
         /\ f.blocks[b].insts[i].dst \notin InstUses(f.blocks[b].insts[i])
<1> DEFINE v == f.blocks[b].insts[i].dst
<1>1. v \in Vregs(f)
  BY PartsOf, FineFacts
<1>2. /\ v \notin Params(f)
      /\ \A c \in Blocks(f) : \A k \in DOMAIN f.blocks[c].insts :
           f.blocks[c].insts[k].dst = v => c = b /\ k = i
  BY OneWriter
<1>3. DOMAIN f.blocks[b].insts = 1 .. Len(f.blocks[b].insts) /\ Len(f.blocks[b].insts) \in Nat
  BY PartsOf
<1>4. Unwritten(f, v) \subseteq Blocks(f)
  BY UnwrittenFacts DEF Formed
<1> HIDE DEF v
<1>5. b \in Unwritten(f, v)
  BY <1>1, <1>2, <1>4 DEF Ahead, Writes
<1>6. \A k \in 1 .. i - 1 : f.blocks[b].insts[k].dst # v
  <2>1. \A k \in 1 .. i - 1 : k \in DOMAIN f.blocks[b].insts /\ k # i
    BY <1>3
  <2> QED BY <1>2, <2>1
<1>7. Fresh(f, b, i, v)
  BY <1>5, <1>6 DEF Fresh
<1>8. v \notin InstUses(f.blocks[b].insts[i])
  BY <1>1, <1>2, <1>7, FreshUnread
<1> QED BY <1>1, <1>2, <1>7, <1>8 DEF v

(* An instruction changes no vreg but its own.                             *)
LEMMA MovesStay ==
  ASSUME NEW f, NEW how, Formed(f, how), AssignedOnce(f), NEW b \in Blocks(f), Ahead(f, b),
         NEW i \in DOMAIN f.blocks[b].insts,
         NEW regs, NEW ws, \A v \in Vregs(f) : v # f.blocks[b].insts[i].dst => ws[v] = regs[v],
         f.blocks[b].insts[i].op = "Mv" =>
           ws[f.blocks[b].insts[i].dst] = Value(f.blocks[b].insts[i].a, regs),
         MovesAt(f, b, i, regs)
  PROVE  MovesAt(f, b, i + 1, ws)
<1> DEFINE is == f.blocks[b].insts
           in == is[i]
<1>1. NoReg \notin Vregs(f)
  BY NoRegFresh DEF Formed
<1>2. DOMAIN is = 1 .. Len(is) /\ Len(is) \in Nat /\ in \in Fine(Vregs(f), how) /\ in.dst \in Vregs(f) \cup {NoReg}
  BY PartsOf, FineFacts
<1>3. in.dst # NoReg => /\ in.dst \in Vregs(f) \ Params(f) /\ Fresh(f, b, i, in.dst)
                        /\ in.dst \notin InstUses(in)
  BY AssignedHere
<1>4. \A v : v # in.dst /\ Fresh(f, b, i, v) => Fresh(f, b, i + 1, v)
  <2>1. \A k \in 1 .. (i + 1) - 1 : k \in 1 .. i - 1 \/ k = i
    BY <1>2
  <2> QED BY <2>1 DEF Fresh
<1>5. SUFFICES ASSUME NEW p \in Sites(f), At(f, p).op = "Mv", ~Fresh(f, b, i + 1, At(f, p).dst)
               PROVE  ws[At(f, p).dst] = Value(At(f, p).a, ws)
  BY DEF MovesAt
<1> DEFINE mv == At(f, p)
           y == mv.dst
<1>6. /\ p = <<p[1], p[2]>> /\ p[1] \in Blocks(f) /\ p[2] \in DOMAIN f.blocks[p[1]].insts
      /\ mv = f.blocks[p[1]].insts[p[2]] /\ mv \in Fine(Vregs(f), how)
  BY SitesAre, SiteFacts DEF At
<1>7. y \in Vregs(f) /\ y # NoReg /\ mv.a \in Vals(Vregs(f))
  BY <1>1, <1>5, <1>6, FineFacts
<1>8. IsReg(mv.a) => IsMove(mv) /\ mv.a = Reg(mv.a.n) /\ mv.a.n \in Vregs(f) /\ mv.a.n \in InstUses(mv)
  BY <1>5, <1>7, ValFacts DEF IsMove, InstUses, OpUses, UnaryOps, OperandRegs
<1>9. i \in 1 .. Len(is) + 1
  BY <1>2
<1> HIDE DEF in, is, mv, y
<1>10. CASE y = in.dst
  <2>1. mv = in
    <3>1. in.dst # NoReg
      BY <1>7, <1>10
    <3>2. \A c \in Blocks(f) : \A k \in DOMAIN f.blocks[c].insts :
            f.blocks[c].insts[k].dst = in.dst => c = b /\ k = i
      BY <3>1, OneWriter DEF in, is
    <3>3. p[1] = b /\ p[2] = i
      BY <1>6, <1>10, <3>2 DEF y
    <3> QED BY <1>6, <3>3 DEF in, is
  <2>2. ws[y] = Value(mv.a, regs)
    BY <1>5, <1>10, <2>1 DEF in, is, mv
  <2>3. IsReg(mv.a) => mv.a.n # in.dst /\ mv.a.n \in Vregs(f)
    BY <1>3, <1>7, <1>8, <1>10, <2>1
  <2>4. Value(mv.a, ws) = Value(mv.a, regs)
    BY <2>3 DEF Value, in, is
  <2> QED BY <2>2, <2>4 DEF mv, y
<1>11. CASE y # in.dst
  <2>1. ~Fresh(f, b, i, y)
    BY <1>4, <1>5, <1>11 DEF y, mv
  <2>2. regs[y] = Value(mv.a, regs) /\ ws[y] = regs[y]
    BY <1>5, <1>7, <1>11, <2>1 DEF MovesAt, mv, y, in, is
  <2>3. ASSUME IsReg(mv.a) PROVE mv.a.n # in.dst /\ mv.a.n \in Vregs(f)
    <3>1. SUFFICES ASSUME mv.a.n = in.dst PROVE FALSE
      BY <1>8, <2>3
    <3> DEFINE x == mv.a.n
    <3>2. IsMove(mv) /\ mv.a = Reg(x) /\ x \in Vregs(f) \ Params(f) /\ Fresh(f, b, i, x)
      BY <1>1, <1>3, <1>8, <2>3, <3>1
    <3> HIDE DEF x
    <3>3. Fresh(f, b, i, y)
      BY <1>6, <1>9, <3>2, FreshFollows DEF y, is
    <3> QED BY <2>1, <3>3
  <2>4. Value(mv.a, ws) = Value(mv.a, regs)
    BY <2>3 DEF Value, in, is
  <2> QED BY <2>2, <2>4 DEF mv, y
<1> QED BY <1>10, <1>11

LEMMA MovesFollow ==
  ASSUME NEW f, NEW how, Formed(f, how), NEW b \in Blocks(f), NEW c \in Succs(f.blocks[b]), NEW regs,
         MovesAt(f, b, Len(f.blocks[b].insts) + 1, regs)
  PROVE  MovesAt(f, c, 1, regs)
<1> DEFINE bb == f.blocks[b]
<1>1. DOMAIN bb.insts = 1 .. Len(bb.insts) /\ Len(bb.insts) \in Nat
  BY PartsOf
<1>2. ASSUME NEW v, Fresh(f, b, Len(bb.insts) + 1, v) PROVE Fresh(f, c, 1, v)
  <2>1. Wider(f, v, Unwritten(f, v)) = Unwritten(f, v)
    BY UnwrittenFacts DEF Formed
  <2>2. b \in Unwritten(f, v) /\ \A k \in 1 .. (Len(bb.insts) + 1) - 1 : bb.insts[k].dst # v
    BY <1>2 DEF Fresh
  <2> HIDE DEF bb
  <2>3. \A k \in DOMAIN bb.insts : k \in 1 .. (Len(bb.insts) + 1) - 1
    BY <1>1
  <2>4. ~Writes(bb, v)
    BY <2>2, <2>3 DEF Writes
  <2>5. c \in Unwritten(f, v)
    BY <2>1, <2>2, <2>4 DEF Wider, bb
  <2>6. \A k \in 1 .. 1 - 1 : FALSE
    OBVIOUS
  <2> QED BY <2>5, <2>6 DEF Fresh
<1> QED BY <1>2 DEF MovesAt

(* What a block's facts say stays true as its instructions are carried out.*)
LEMMA FactsStay ==
  ASSUME NEW f, Formed(f, "any"), AssignedOnce(f), NEW b \in Blocks(f), Ahead(f, b),
         NEW i \in DOMAIN f.blocks[b].insts, NEW regs, NEW gs, FactsAt(f, b, i, regs, gs),
         NEW ids, \A j \in DOMAIN f.blocks[b].insts :
                    f.blocks[b].insts[j].op = "LoadGlobal" => f.blocks[b].insts[j].gid \in ids,
         NEW ws, \A v \in Vregs(f) : v # f.blocks[b].insts[i].dst => ws[v] = regs[v],
         f.blocks[b].insts[i].op \notin {"StoreGlobal", "Call"} =>
           ws[f.blocks[b].insts[i].dst] = Outcome(f.blocks[b].insts[i], regs, gs),
         NEW hs, f.blocks[b].insts[i].op \notin {"StoreGlobal", "Call"} => hs = gs,
         f.blocks[b].insts[i].op = "StoreGlobal" =>
           \A g \in ids : g # f.blocks[b].insts[i].gid => hs[g] = gs[g]
  PROVE  FactsAt(f, b, i + 1, ws, hs)
<1> DEFINE is == f.blocks[b].insts
           in == is[i]
           V == Vregs(f)
<1>1. NoReg \notin V
  BY NoRegFresh DEF Formed
<1>2. /\ is \in Seq(Fine(V, "any")) /\ DOMAIN is = 1 .. Len(is) /\ Len(is) \in Nat
      /\ in \in Fine(V, "any") /\ \A j \in DOMAIN is : is[j] \in Fine(V, "any")
  BY PartsOf
<1>3. in.dst # NoReg => in.dst \in V /\ in.dst \notin InstUses(in)
  BY AssignedHere
<1>4. \A j \in DOMAIN is : is[j].dst = in.dst /\ in.dst # NoReg => j = i
  BY OneWriter
<1>5. SUFFICES ASSUME NEW g, Cses(g, is, V, "any"), NEW x \in g[(i + 1) - 1].facts
               PROVE  ws[x.dst] = Outcome(x, ws, hs)
  BY DEF FactsAt
<1> DEFINE facts == g[i - 1].facts
<1>6. i \in 1 .. Len(is) /\ i - 1 \in 0 .. Len(is) /\ (i + 1) - 1 = i
  BY <1>2
<1>7. \A y \in facts : regs[y.dst] = Outcome(y, regs, gs)
  BY <1>5 DEF FactsAt
<1>8. /\ \A v \in V : v # in.dst => ws[v] = regs[v]
      /\ in.op \notin {"StoreGlobal", "Call"} => ws[in.dst] = Outcome(in, regs, gs) /\ hs = gs
      /\ in.op = "StoreGlobal" => \A z \in ids : z # in.gid => hs[z] = gs[z]
      /\ \A j \in DOMAIN is : is[j].op = "LoadGlobal" => is[j].gid \in ids
  OBVIOUS
<1> HIDE DEF in, is, V
<1>9. ASSUME NEW k \in 0 .. Len(is), NEW y \in g[k].facts
      PROVE  \E j \in 1 .. k : Reusable(is[j]) /\ y = Fact(is[j])
  BY ONLY <1>2, <1>5, <1>9, CsesFacts
<1>10. facts \in SUBSET Facts(V)
  BY <1>5, <1>6 DEF Cses, CseStates
<1>11. \/ x \in Surviving(facts, in)
       \/ Reusable(in) /\ x = Fact(in)
  <2>1. g[i] = CseInst(g[i - 1], in)
    BY <1>5, <1>6 DEF Cses, in
  <2>2. x \in g[i].facts
    BY <1>5, <1>6
  <2> HIDE DEF facts
  <2>3. g[i].facts \subseteq Surviving(facts, in) \cup (IF Reusable(in) THEN {Fact(in)} ELSE {})
    BY <2>1 DEF CseInst, facts
  <2> QED BY <2>2, <2>3
<1>12. \A y : Reusable(y) => y.op \in BinaryOps \cup UnaryOps \cup {"LoadGlobal"}
  BY DEF Reusable, UnaryOps
<1>13. ASSUME NEW y \in facts
       PROVE  /\ y.dst # in.dst /\ y.op \in BinaryOps \cup UnaryOps \cup {"LoadGlobal"}
              /\ y.op = "LoadGlobal" => y.gid \in ids
  <2>1. PICK j \in 1 .. i - 1 : Reusable(is[j]) /\ y = Fact(is[j])
    BY <1>6, <1>9
  <2>2. j \in DOMAIN is /\ j # i
    BY <1>2, <1>6
  <2>3. y.op = is[j].op /\ y.gid = is[j].gid /\ y.dst = is[j].dst
    BY <2>1 DEF Fact
  <2>4. y.dst \in V
    BY <1>10 DEF Facts
  <2>5. y.dst # in.dst
    BY <1>1, <1>4, <2>2, <2>3, <2>4
  <2> QED BY <1>8, <1>12, <2>1, <2>2, <2>3, <2>5
<1>14. CASE x \in Surviving(facts, in)
  <2> HIDE DEF facts
  <2>1. \A y \in facts : y.dst # in.dst /\ y.op \in BinaryOps \cup UnaryOps \cup {"LoadGlobal"}
    BY <1>13
  <2>2. \A y \in facts : y.op = "LoadGlobal" => y.gid \in ids
    BY <1>13
  <2>3. /\ in.op \notin {"StoreGlobal", "Call"} => hs = gs
        /\ in.op = "StoreGlobal" => \A z \in ids : z # in.gid => hs[z] = gs[z]
        /\ \A v \in V : v # in.dst => ws[v] = regs[v]
    BY <1>8
  <2>4. in \in Fine(V, "any")
    BY <1>2
  <2>5. \A y \in Surviving(facts, in) : ws[y.dst] = Outcome(y, ws, hs)
    <3>1. Carried(in, V, "any", facts, ids, regs, gs, ws, hs)
      BY ONLY <1>1, <1>7, <1>10, <2>1, <2>2, <2>3, <2>4 DEF Carried
    <3> QED BY ONLY <3>1, SurvivingHold
  <2> QED BY <1>14, <2>5
<1>15. CASE Reusable(in) /\ x = Fact(in)
  <2>1. x.op = in.op /\ x.a = in.a /\ x.b = in.b /\ x.gid = in.gid /\ x.dst = in.dst
    BY <1>15 DEF Fact
  <2>2. in.op \in BinaryOps \cup UnaryOps \cup {"LoadGlobal"} /\ in.op \notin {"StoreGlobal", "Call"}
    BY <1>15 DEF Reusable, BinaryOps, UnaryOps
  <2>3. in.dst # NoReg /\ in.dst \in V /\ in.dst \notin OpUses(in)
    BY <1>2, <1>3, <2>2, FineFacts DEF InstUses
  <2>4. hs = gs /\ ws[in.dst] = Outcome(in, regs, gs)
    BY <1>8, <2>2
  <2>5. ASSUME NEW val \in Vals(V), OperandRegs(val) \subseteq OpUses(in)
        PROVE  Value(val, ws) = Value(val, regs)
    <3>1. IsReg(val) => val.n \in V /\ val.n # in.dst
      BY <2>3, <2>5, ValFacts DEF OperandRegs
    <3> QED BY <1>8, <3>1 DEF Value
  <2>6. in.a \in Vals(V) /\ in.b \in Vals(V)
    BY <1>2, FineFacts
  <2>7. in.op \in UnaryOps => Value(in.a, ws) = Value(in.a, regs)
    <3>1. ASSUME in.op \in UnaryOps PROVE OpUses(in) = OperandRegs(in.a)
      <4>1. in.op \in UnaryOps \cup {"StoreGlobal"} /\ in.op # "LoadGlobal" /\ in.op # "Call"
        BY <3>1 DEF UnaryOps
      <4> QED BY <4>1, Zenon DEF OpUses
    <3> QED BY <2>5, <2>6, <3>1
  <2>8. in.op \in BinaryOps => Value(in.a, ws) = Value(in.a, regs) /\ Value(in.b, ws) = Value(in.b, regs)
    <3>1. ASSUME in.op \in BinaryOps PROVE OpUses(in) = OperandRegs(in.a) \cup OperandRegs(in.b)
      <4>1. in.op \notin UnaryOps \cup {"StoreGlobal"} /\ in.op # "LoadGlobal" /\ in.op # "Call"
        BY <3>1 DEF BinaryOps, UnaryOps
      <4> QED BY <4>1, Zenon DEF OpUses
    <3> QED BY <2>5, <2>6, <3>1
  <2>9. Outcome(x, ws, hs) = Outcome(in, regs, gs)
    BY <2>1, <2>2, <2>4, <2>7, <2>8, SameOutcome
  <2> QED BY <2>1, <2>4, <2>9
<1> QED BY <1>11, <1>14, <1>15

LEMMA FactsBegin ==
  ASSUME NEW f, NEW b, NEW regs, NEW gs
  PROVE  FactsAt(f, b, 1, regs, gs)
BY DEF FactsAt, Cses

-----------------------------------------------------------------------------
(* The two machines: what is given, and what was made of it.               *)
LEMMA SameMachine ==
  /\ \A val, vs : Run!Operand(val, vs) = Value(val, vs) /\ Given!Operand(val, vs) = Value(val, vs)
  /\ \A in, vs, gs : Run!Result(in, vs, gs) = Outcome(in, vs, gs)
                     /\ Given!Result(in, vs, gs) = Outcome(in, vs, gs)
  /\ \A in, vs : Run!Arguments(in, vs) = Passed(in, vs) /\ Given!Arguments(in, vs) = Passed(in, vs)
<1>1. /\ \A op, x, y : Run!EvalBinary(op, x, y) = EvalBinary(op, x, y)
      /\ \A op, x : Run!EvalUnary(op, x) = EvalUnary(op, x)
      /\ Run!BinaryOps = BinaryOps /\ Run!UnaryOps = UnaryOps
  BY DEF Run!EvalBinary, Run!EvalUnary, EvalBinary, EvalUnary, Run!Wrap, Wrap, Run!Truth, Truth,
         Run!TruncDiv, TruncDiv, Run!TruncRem, TruncRem, Run!Magnitude, Magnitude,
         Run!BinaryOps, Run!UnaryOps, BinaryOps, UnaryOps
<1>2. /\ \A op, x, y : Given!EvalBinary(op, x, y) = EvalBinary(op, x, y)
      /\ \A op, x : Given!EvalUnary(op, x) = EvalUnary(op, x)
      /\ Given!BinaryOps = BinaryOps /\ Given!UnaryOps = UnaryOps
  BY DEF Given!EvalBinary, Given!EvalUnary, EvalBinary, EvalUnary, Given!Wrap, Wrap, Given!Truth, Truth,
         Given!TruncDiv, TruncDiv, Given!TruncRem, TruncRem, Given!Magnitude, Magnitude,
         Given!BinaryOps, Given!UnaryOps, BinaryOps, UnaryOps
<1>3. \A val, vs : Run!Operand(val, vs) = Value(val, vs) /\ Given!Operand(val, vs) = Value(val, vs)
  BY DEF Run!Operand, Given!Operand, Value, Run!IsReg, Given!IsReg, IsReg
<1>4. \A in, vs, gs : Run!Result(in, vs, gs) = Outcome(in, vs, gs)
                      /\ Given!Result(in, vs, gs) = Outcome(in, vs, gs)
  BY <1>1, <1>2, <1>3 DEF Run!Result, Given!Result, Outcome
<1>5. \A in, vs : Run!Arguments(in, vs) = Passed(in, vs) /\ Given!Arguments(in, vs) = Passed(in, vs)
  BY <1>3 DEF Run!Arguments, Given!Arguments, Passed
<1> QED BY <1>3, <1>4, <1>5

LEMMA SameWords ==
  /\ \A f : Run!Vregs(f) = Vregs(f) /\ Given!Vregs(f) = Vregs(f)
  /\ Run!NoReg = NoReg /\ Given!NoReg = NoReg
  /\ Run!Halted = -1 /\ Given!Halted = -1
  /\ Run!Silent = Given!Silent
  /\ \A xs : Run!Called(xs) = Given!Called(xs)
  /\ \A g, x : Run!Stored(g, x) = Given!Stored(g, x)
  /\ \A x : Run!Returned(x) = Given!Returned(x)
  /\ Run!ReturnedVoid = Given!ReturnedVoid
  /\ Run!Words = Words /\ Given!Words = Words
BY DEF Run!Vregs, Given!Vregs, Vregs, Run!NoReg, Given!NoReg, NoReg, Run!Halted, Given!Halted,
       Run!Silent, Given!Silent, Run!Called, Given!Called, Run!Stored, Given!Stored,
       Run!Returned, Given!Returned, Run!ReturnedVoid, Given!ReturnedVoid,
       Run!Words, Given!Words, Words

LEMMA RewritingsKeep ==
  ASSUME NEW f, Formed(f, "any"), NEW g \in Rewritings(f)
  PROVE  g.numVregs = f.numVregs
<1>1. DOMAIN f = {"numVregs", "params", "nb", "blocks"}
  BY FunctionParts
<1>2. ASSUME NEW new PROVE Rewritten(f, new).numVregs = f.numVregs /\ DOMAIN Rewritten(f, new) = DOMAIN f
  BY <1>1 DEF Rewritten
<1>3. \A subst : Substitute(f, subst).numVregs = f.numVregs
  BY <1>1, <1>2 DEF Substitute
<1>4. CopyProp(f).numVregs = f.numVregs /\ ConstProp(f).numVregs = f.numVregs
  BY <1>3 DEF CopyProp, ConstProp
<1>5. ConstFold(f).numVregs = f.numVregs /\ MarkUnsignedDiv(f).numVregs = f.numVregs
  BY <1>2 DEF ConstFold, MarkUnsignedDiv
<1>6. Cse(f).numVregs = f.numVregs /\ JumpThreading(f).numVregs = f.numVregs
      /\ UnreachableElim(f).numVregs = f.numVregs
  BY <1>1 DEF Cse, JumpThreading, UnreachableElim
<1> QED BY <1>4, <1>5, <1>6 DEF Rewritings

-----------------------------------------------------------------------------
(* The induction.  f is given, g is made of it; control is at instruction  *)
(* i of block b, or has left the function when b is Run!Halted.            *)
Exact(f, g) == AssignedOnce(f) /\ g = Cse(f)

Together(f, g, b, i, regs, gs) ==
  /\ f \in Funcs /\ Runnable(f) /\ g \in Rewritings(f)
  /\ regs \in [Vregs(f) -> Words] /\ gs \in [Gids -> Words]
  /\ b # -1 => b \in Reachable(f) /\ i \in 1 .. Len(f.blocks[b].insts) + 1
  /\ b # -1 /\ AssignedOnce(f) => Ahead(f, b) /\ MovesAt(f, b, i, regs)
  /\ b # -1 /\ Exact(f, g) => FactsAt(f, b, i, regs, gs)

LEMMA TogetherFacts ==
  ASSUME NEW f, NEW g, NEW b, NEW i, NEW regs, NEW gs,
         Together(f, g, b, i, regs, gs), b # -1
  PROVE  /\ Formed(f, "any") /\ b \in Blocks(f) /\ b \in Reachable(f)
         /\ Len(f.blocks[b].insts) \in Nat /\ DOMAIN f.blocks[b].insts = 1 .. Len(f.blocks[b].insts)
         /\ i \in 1 .. Len(f.blocks[b].insts) + 1
         /\ \A k \in DOMAIN f.blocks[b].insts :
              f.blocks[b].insts[k].op \in {"LoadGlobal", "StoreGlobal"} =>
                f.blocks[b].insts[k].gid \in Gids
<1>1. /\ f \in Funcs /\ Runnable(f) /\ b \in Reachable(f)
      /\ i \in 1 .. Len(f.blocks[b].insts) + 1
  BY DEF Together
<1>2. Formed(f, "any")
  BY <1>1, AnyFormed DEF Runnable
<1>3. b \in Blocks(f)
  BY <1>1, <1>2, ReachableClosed
<1>4. \A k \in DOMAIN f.blocks[b].insts :
        f.blocks[b].insts[k].op \in {"LoadGlobal", "StoreGlobal"} => f.blocks[b].insts[k].gid \in Gids
  <2>1. \A p \in Sites(f) : At(f, p).op \in {"LoadGlobal", "StoreGlobal"} => At(f, p).gid \in Gids
    BY <1>1 DEF Runnable
  <2>2. \A k \in DOMAIN f.blocks[b].insts :
          <<b, k>> \in Sites(f) /\ At(f, <<b, k>>) = f.blocks[b].insts[k]
    BY <1>3, SitesAre
  <2> QED BY ONLY <2>1, <2>2
<1> QED BY <1>1, <1>2, <1>3, <1>4, PartsOf

LEMMA LooseInStep ==
  ASSUME NEW f, NEW g, NEW b, NEW i, NEW regs, NEW gs, InStep(f, g, b, i, regs, gs, FALSE)
  PROVE  InStep(f, g, b, i, regs, gs, TRUE)
BY DEF InStep, ActsAs

(* Each pass, in the code it is right about.                               *)
LEMMA TogetherInStep ==
  ASSUME NEW f, NEW g, NEW b, NEW i, NEW regs, NEW gs,
         Together(f, g, b, i, regs, gs), b # -1
  PROVE  InStep(f, g, b, i, regs, gs, ~Exact(f, g))
<1>1. /\ Formed(f, "any") /\ b \in Blocks(f) /\ b \in Reachable(f)
      /\ i \in 1 .. Len(f.blocks[b].insts) + 1
  BY TogetherFacts
<1>2. /\ regs \in [Vregs(f) -> Words] /\ g \in Rewritings(f)
      /\ AssignedOnce(f) => MovesAt(f, b, i, regs)
      /\ Exact(f, g) => FactsAt(f, b, i, regs, gs)
  BY DEF Together
<1>3. CASE Exact(f, g)
  <2>1. InStep(f, Cse(f), b, i, regs, gs, FALSE)
    BY <1>1, <1>2, <1>3, CseInStep
  <2>2. g = Cse(f)
    BY <1>3 DEF Exact
  <2> QED BY <1>3, <2>1, <2>2
<1>4. CASE ~Exact(f, g)
  <2>1. \/ g = ConstFold(f) \/ g = MarkUnsignedDiv(f) \/ g = JumpThreading(f)
        \/ g = UnreachableElim(f)
        \/ AssignedOnce(f) /\ g = CopyProp(f)
        \/ AssignedOnce(f) /\ g = ConstProp(f)
    BY <1>2, <1>4 DEF Rewritings, Exact
  <2>2. g = ConstFold(f) => InStep(f, g, b, i, regs, gs, TRUE)
    BY <1>1, <1>2, FoldInStep
  <2>3. g = MarkUnsignedDiv(f) => InStep(f, g, b, i, regs, gs, FALSE)
    BY <1>1, MarkInStep
  <2>4. g = JumpThreading(f) => InStep(f, g, b, i, regs, gs, FALSE)
    BY <1>1, ThreadInStep
  <2>5. g = UnreachableElim(f) => InStep(f, g, b, i, regs, gs, FALSE)
    BY <1>1, EmptiedInStep
  <2>6. ASSUME AssignedOnce(f), g = CopyProp(f) PROVE InStep(f, g, b, i, regs, gs, FALSE)
    <3>1. PICK subst : CopyProp(f) = Substitute(f, subst) /\ Faithful(f, b, i, regs, subst)
      BY <1>1, <1>2, <2>6, CopiesFaithful
    <3>2. InStep(f, Substitute(f, subst), b, i, regs, gs, FALSE)
      BY <1>1, <2>6, <3>1, SubstituteInStep
    <3> QED BY <2>6, <3>1, <3>2
  <2>7. ASSUME AssignedOnce(f), g = ConstProp(f) PROVE InStep(f, g, b, i, regs, gs, FALSE)
    <3>1. PICK subst : ConstProp(f) = Substitute(f, subst) /\ Faithful(f, b, i, regs, subst)
      BY <1>1, <1>2, <2>7, ConstantsFaithful
    <3>2. InStep(f, Substitute(f, subst), b, i, regs, gs, FALSE)
      BY <1>1, <2>7, <3>1, SubstituteInStep
    <3> QED BY <2>7, <3>1, <3>2
  <2>8. InStep(f, g, b, i, regs, gs, TRUE)
    BY <2>1, <2>2, <2>3, <2>4, <2>5, <2>6, <2>7, LooseInStep
  <2>9. (~Exact(f, g)) = TRUE
    BY <1>4
  <2> QED BY <2>8, <2>9
<1> QED BY <1>3, <1>4

(* After an instruction of f, though a division by zero give any word.     *)
LEMMA TogetherInBody ==
  ASSUME NEW f, NEW g, NEW b, NEW i, NEW regs, NEW gs,
         Together(f, g, b, i, regs, gs), b # -1,
         i \in DOMAIN f.blocks[b].insts,
         NEW ws \in [Vregs(f) -> Words], NEW hs \in [Gids -> Words],
         \A v \in Vregs(f) : v # f.blocks[b].insts[i].dst => ws[v] = regs[v],
         f.blocks[b].insts[i].op \notin {"StoreGlobal", "Call"} =>
           /\ hs = gs
           /\ \/ ws[f.blocks[b].insts[i].dst] = Outcome(f.blocks[b].insts[i], regs, gs)
              \/ ~Exact(f, g) /\ f.blocks[b].insts[i].op \in {"Div", "Mod"},
         f.blocks[b].insts[i].op = "StoreGlobal" =>
           \A z \in Gids : z # f.blocks[b].insts[i].gid => hs[z] = gs[z]
  PROVE  Together(f, g, b, i + 1, ws, hs)
<1> DEFINE is == f.blocks[b].insts
           in == is[i]
<1>1. /\ Formed(f, "any") /\ b \in Blocks(f) /\ b \in Reachable(f) /\ DOMAIN is = 1 .. Len(is)
      /\ Len(is) \in Nat /\ \A k \in DOMAIN is : is[k].op \in {"LoadGlobal", "StoreGlobal"} =>
                                                     is[k].gid \in Gids
  BY TogetherFacts
<1>2. i + 1 \in 1 .. Len(is) + 1
  BY <1>1
<1>3. /\ f \in Funcs /\ Runnable(f) /\ g \in Rewritings(f)
      /\ AssignedOnce(f) => Ahead(f, b) /\ MovesAt(f, b, i, regs)
      /\ Exact(f, g) => FactsAt(f, b, i, regs, gs) /\ AssignedOnce(f)
  BY DEF Together, Exact
<1>4. in.op = "Mv" => ws[in.dst] = Value(in.a, regs)
  <2>1. in.op = "Mv" => in.op \in UnaryOps /\ in.op \notin {"StoreGlobal", "Call", "Div", "Mod"}
    BY DEF UnaryOps
  <2>2. in.op = "Mv" => Outcome(in, regs, gs) = EvalUnary("Mv", Value(in.a, regs))
    BY <2>1, UnaryOutcome
  <2> QED BY <2>1, <2>2 DEF EvalUnary
<1>5. ASSUME AssignedOnce(f) PROVE MovesAt(f, b, i + 1, ws)
  BY <1>1, <1>3, <1>4, <1>5, MovesStay
<1>6. ASSUME Exact(f, g) PROVE FactsAt(f, b, i + 1, ws, hs)
  <2>1. in.op \notin {"StoreGlobal", "Call"} => ws[in.dst] = Outcome(in, regs, gs) /\ hs = gs
    BY <1>6
  <2>2. \A j \in DOMAIN is : is[j].op = "LoadGlobal" => is[j].gid \in Gids
    BY <1>1
  <2> QED BY <1>1, <1>3, <1>6, <2>1, <2>2, FactsStay
<1> QED BY <1>1, <1>2, <1>3, <1>5, <1>6 DEF Together

(* After a jump, and after the return.                                     *)
LEMMA TogetherAtTerm ==
  ASSUME NEW f, NEW g, NEW b, NEW i, NEW regs, NEW gs,
         Together(f, g, b, i, regs, gs), b # -1,
         i = Len(f.blocks[b].insts) + 1
  PROVE  /\ \A c \in Succs(f.blocks[b]) : Together(f, g, c, 1, regs, gs)
         /\ \A j : Together(f, g, -1, j, regs, gs)
<1>1. Formed(f, "any") /\ b \in Blocks(f) /\ b \in Reachable(f)
  BY TogetherFacts
<1>2. /\ f \in Funcs /\ Runnable(f) /\ g \in Rewritings(f)
      /\ regs \in [Vregs(f) -> Words] /\ gs \in [Gids -> Words]
      /\ AssignedOnce(f) => Ahead(f, b) /\ MovesAt(f, b, Len(f.blocks[b].insts) + 1, regs)
  BY DEF Together
<1>3. ASSUME NEW c \in Succs(f.blocks[b]) PROVE Together(f, g, c, 1, regs, gs)
  <2>1. c \in Reachable(f) /\ c \in Blocks(f)
    BY <1>1, ReachableClosed
  <2>2. 1 \in 1 .. Len(f.blocks[c].insts) + 1
    BY <1>1, <2>1, PartsOf
  <2>3. AssignedOnce(f) => Ahead(f, c) /\ MovesAt(f, c, 1, regs)
    BY <1>1, <1>2, AheadFollows, MovesFollow
  <2>4. FactsAt(f, c, 1, regs, gs)
    BY FactsBegin
  <2> QED BY <1>2, <2>1, <2>2, <2>3, <2>4 DEF Together
<1>4. \A j : Together(f, g, -1, j, regs, gs)
  BY <1>2 DEF Together
<1> QED BY <1>3, <1>4

LEMMA TogetherAtFirst ==
  ASSUME NEW f \in Funcs, Runnable(f), NEW g \in Rewritings(f),
         NEW regs \in [Vregs(f) -> Words], NEW gs \in [Gids -> Words]
  PROVE  Together(f, g, 0, 1, regs, gs)
<1>1. Formed(f, "any")
  BY AnyFormed DEF Runnable
<1>2. 0 \in Reachable(f) /\ 0 \in Blocks(f) /\ Ahead(f, 0)
  BY <1>1, ReachableClosed, AheadFollows
<1>3. 1 \in 1 .. Len(f.blocks[0].insts) + 1
  BY <1>1, <1>2, PartsOf
<1>4. \A p \in Sites(f) : Fresh(f, 0, 1, At(f, p).dst)
  <2>1. \A v : 0 \in Unwritten(f, v)
    BY <1>1, UnwrittenFacts DEF Formed
  <2>2. \A k \in 1 .. 1 - 1 : FALSE
    OBVIOUS
  <2> QED BY <2>1, <2>2 DEF Fresh
<1>5. MovesAt(f, 0, 1, regs)
  BY <1>4 DEF MovesAt
<1> QED BY <1>2, <1>3, <1>5, FactsBegin DEF Together

-----------------------------------------------------------------------------
(* Step by step: what runs does a step of the function that was given.     *)
RunInv == Together(given, made, blk, idx, vreg, glob)

LEMMA OutcomeType ==
  ASSUME NEW vs, NEW how, NEW in \in Fine(vs, how), NEW regs \in [vs -> Words],
         NEW gs \in [Gids -> Words], in.op \notin {"StoreGlobal", "Call"},
         in.op = "LoadGlobal" => in.gid \in Gids
  PROVE  Outcome(in, regs, gs) \in Words
<1>1. in.op \in Ops /\ in.a \in Vals(vs) /\ in.b \in Vals(vs)
  BY FineFacts
<1>2. Value(in.a, regs) \in Words /\ Value(in.b, regs) \in Words
  BY <1>1, ValueType
<1>3. CASE in.op \in BinaryOps
  BY <1>2, <1>3, BinaryOutcome, EvalType
<1>4. CASE in.op \in UnaryOps
  BY <1>2, <1>4, UnaryOutcome, EvalType
<1>5. CASE in.op = "LoadGlobal"
  BY <1>5, LoadOutcome
<1> QED BY <1>1, <1>3, <1>4, <1>5 DEF Ops

(* Where control is, in either function.                                   *)
LEMMA BodyMeans ==
  ASSUME RunInv, Run!InBody
  PROVE  /\ blk # -1 /\ idx \in DOMAIN given.blocks[blk].insts
         /\ Given!InBody /\ Given!Current = given.blocks[blk].insts[idx]
         /\ Given!Current \in Fine(Vregs(given), "any")
         /\ Given!Current.op \in {"LoadGlobal", "StoreGlobal"} => Given!Current.gid \in Gids
         /\ ActsAs(Run!Current, Given!Current, vreg, glob, ~Exact(given, made))
<1> DEFINE f == given
           is == f.blocks[blk].insts
           new == made.blocks[blk].insts
<1>1. blk # -1 /\ idx =< Len(new)
  BY DEF Run!InBody, Run!Halted, Run!BB
<1>2. /\ Formed(f, "any") /\ blk \in Blocks(f) /\ DOMAIN is = 1 .. Len(is) /\ Len(is) \in Nat
      /\ idx \in 1 .. Len(is) + 1
      /\ \A k \in DOMAIN is : is[k].op \in {"LoadGlobal", "StoreGlobal"} => is[k].gid \in Gids
  BY <1>1, TogetherFacts DEF RunInv
<1>3. InStep(f, made, blk, idx, vreg, glob, ~Exact(f, made))
  BY <1>1, TogetherInStep DEF RunInv
<1>4. Len(new) = Len(is) /\ (idx \in DOMAIN is => ActsAs(new[idx], is[idx], vreg, glob, ~Exact(f, made)))
  BY <1>3 DEF InStep
<1>5. idx \in DOMAIN is
  <2> HIDE DEF is, new
  <2> QED BY <1>1, <1>2, <1>4
<1>6. is[idx] \in Fine(Vregs(f), "any")
  BY <1>2, <1>5, PartsOf
<1>7. Given!InBody
  <2>1. idx =< Len(is)
    <3> HIDE DEF is
    <3> QED BY <1>2, <1>5
  <2> QED BY <1>1, <2>1 DEF Given!InBody, Given!Halted, Given!BB
<1>8. Given!Current = is[idx] /\ Run!Current = new[idx]
  BY DEF Given!Current, Run!Current, Given!BB, Run!BB
<1> QED BY <1>1, <1>2, <1>4, <1>5, <1>6, <1>7, <1>8

LEMMA ComputeMeans ==
  ASSUME RunInv, Run!Compute, UNCHANGED given
  PROVE  Given!LooseNext /\ RunInv'
<1> DEFINE in == Given!Current
           new == Run!Current
           x == Outcome(new, vreg, glob)
           y == Outcome(in, vreg, glob)
           loose == ~Exact(given, made)
<1>1. /\ Run!InBody /\ new.op \notin {"StoreGlobal", "Call"}
      /\ vreg' = [vreg EXCEPT ![new.dst] = x] /\ idx' = idx + 1 /\ obs' = Run!Silent
      /\ UNCHANGED <<made, blk, glob>>
  BY SameMachine DEF Run!Compute
<1>2. /\ blk # -1 /\ idx \in DOMAIN given.blocks[blk].insts
      /\ Given!InBody /\ in = given.blocks[blk].insts[idx] /\ in \in Fine(Vregs(given), "any")
      /\ in.op \in {"LoadGlobal", "StoreGlobal"} => in.gid \in Gids
      /\ ActsAs(new, in, vreg, glob, loose)
  BY <1>1, BodyMeans
<1>3. /\ vreg \in [Vregs(given) -> Words] /\ glob \in [Gids -> Words]
      /\ Together(given, made, blk, idx, vreg, glob)
  BY DEF RunInv, Together
<1> HIDE DEF in, new, x, y, loose
<1>4. /\ in.op \notin {"StoreGlobal", "Call"} /\ new.dst = in.dst /\ in.dst \in Vregs(given)
      /\ x = y \/ (loose /\ in.op \in {"Div", "Mod"} /\ Value(in.b, vreg) = 0 /\ x \in Words)
  BY <1>1, <1>2, FineFacts DEF ActsAs, x, y
<1>5. x \in Words
  <2>1. y \in Words
    BY <1>2, <1>3, <1>4, OutcomeType DEF y
  <2> QED BY <1>4, <2>1
<1>6. Given!LooseNext
  <2>1. vreg' = [vreg EXCEPT ![in.dst] = x] /\ obs' = Given!Silent
    BY <1>1, <1>4, SameWords
  <2>2. CASE x = y
    <3>1. vreg' = [vreg EXCEPT ![in.dst] = Given!Result(in, vreg, glob)]
      BY <2>1, <2>2, SameMachine DEF y
    <3>2. Given!Compute
      BY <1>1, <1>2, <1>4, <2>1, <3>1 DEF Given!Compute, in
    <3> QED BY <3>2 DEF Given!LooseNext, Given!MachineNext
  <2>3. CASE in.op \in {"Div", "Mod"} /\ Value(in.b, vreg) = 0
    <3>1. Given!Operand(in.b, vreg) = 0
      BY <2>3, SameMachine
    <3>2. Given!DivideByZero
      BY <1>1, <1>2, <1>5, <2>1, <2>3, <3>1 DEF Given!DivideByZero, in
    <3> QED BY <3>2 DEF Given!LooseNext
  <2> QED BY <1>4, <2>2, <2>3
<1>7. RunInv'
  <2> DEFINE ws == [vreg EXCEPT ![in.dst] = x]
  <2>1. ws \in [Vregs(given) -> Words] /\ ws[in.dst] = x
        /\ \A v \in Vregs(given) : v # in.dst => ws[v] = vreg[v]
    BY <1>3, <1>4, <1>5
  <2>2. vreg' = ws
    BY <1>1, <1>4
  <2> HIDE DEF ws
  <2>3. ws[in.dst] = Outcome(in, vreg, glob) \/ (~Exact(given, made) /\ in.op \in {"Div", "Mod"})
    BY <1>4, <2>1 DEF y, loose
  <2>4. Together(given, made, blk, idx + 1, ws, glob)
    BY <1>2, <1>3, <1>4, <2>1, <2>3, TogetherInBody
  <2> QED BY <1>1, <2>2, <2>4 DEF RunInv
<1> QED BY <1>6, <1>7

LEMMA StoreMeans ==
  ASSUME RunInv, Run!StoreGlobal, UNCHANGED given
  PROVE  Given!LooseNext /\ RunInv'
<1> DEFINE in == Given!Current
           new == Run!Current
           x == Value(new.a, vreg)
<1>1. /\ Run!InBody /\ new.op = "StoreGlobal"
      /\ glob' = [glob EXCEPT ![new.gid] = x] /\ idx' = idx + 1 /\ obs' = Run!Stored(new.gid, x)
      /\ UNCHANGED <<made, blk, vreg>>
  BY SameMachine DEF Run!StoreGlobal
<1>2. /\ blk # -1 /\ idx \in DOMAIN given.blocks[blk].insts
      /\ Given!InBody /\ in = given.blocks[blk].insts[idx] /\ in \in Fine(Vregs(given), "any")
      /\ in.op \in {"LoadGlobal", "StoreGlobal"} => in.gid \in Gids
      /\ ActsAs(new, in, vreg, glob, ~Exact(given, made))
  BY <1>1, BodyMeans
<1>3. /\ vreg \in [Vregs(given) -> Words] /\ glob \in [Gids -> Words]
      /\ Together(given, made, blk, idx, vreg, glob)
  BY DEF RunInv, Together
<1> HIDE DEF in, new, x
<1>4. in.op = "StoreGlobal" /\ new.gid = in.gid /\ x = Value(in.a, vreg) /\ in.gid \in Gids
  BY <1>1, <1>2 DEF ActsAs, x
<1>5. x \in Words
  BY <1>2, <1>3, <1>4, FineFacts, ValueType
<1>6. Given!LooseNext
  <2>1. /\ glob' = [glob EXCEPT ![in.gid] = Given!Operand(in.a, vreg)]
        /\ obs' = Given!Stored(in.gid, Given!Operand(in.a, vreg))
    BY <1>1, <1>4, SameMachine, SameWords
  <2>2. Given!StoreGlobal
    BY <1>1, <1>2, <1>4, <2>1 DEF Given!StoreGlobal, in
  <2> QED BY <2>2 DEF Given!LooseNext, Given!MachineNext
<1>7. RunInv'
  <2> DEFINE hs == [glob EXCEPT ![in.gid] = x]
  <2>1. hs \in [Gids -> Words] /\ \A z \in Gids : z # in.gid => hs[z] = glob[z]
    BY <1>3, <1>4, <1>5
  <2>2. glob' = hs
    BY <1>1, <1>4
  <2> HIDE DEF hs
  <2>3. Together(given, made, blk, idx + 1, vreg, hs)
    BY <1>2, <1>3, <1>4, <2>1, TogetherInBody
  <2> QED BY <1>1, <2>2, <2>3 DEF RunInv
<1> QED BY <1>6, <1>7

LEMMA CallMeans ==
  ASSUME RunInv, Run!CallFunction, UNCHANGED given
  PROVE  Given!LooseNext /\ RunInv'
<1> DEFINE in == Given!Current
           new == Run!Current
           CallResult(r) == IF new.dst = NoReg THEN vreg ELSE [vreg EXCEPT ![new.dst] = r]
<1>1. PICK r \in Words :
        /\ Run!InBody /\ new.op = "Call" /\ vreg' = CallResult(r) /\ glob' \in [Gids -> Words]
        /\ idx' = idx + 1 /\ obs' = Run!Called(Passed(new, vreg))
        /\ UNCHANGED <<made, blk>>
  BY SameMachine, SameWords DEF Run!CallFunction
<1>2. /\ blk # -1 /\ idx \in DOMAIN given.blocks[blk].insts
      /\ Given!InBody /\ in = given.blocks[blk].insts[idx] /\ in \in Fine(Vregs(given), "any")
      /\ ActsAs(new, in, vreg, glob, ~Exact(given, made))
  BY <1>1, BodyMeans
<1>3. vreg \in [Vregs(given) -> Words] /\ Together(given, made, blk, idx, vreg, glob)
  BY DEF RunInv, Together
<1> HIDE DEF in, new
<1>4. /\ in.op = "Call" /\ new.dst = in.dst /\ Passed(new, vreg) = Passed(in, vreg)
      /\ in.dst \in Vregs(given) \cup {NoReg}
  BY <1>1, <1>2, FineFacts DEF ActsAs
<1>5. vreg' = IF in.dst = NoReg THEN vreg ELSE [vreg EXCEPT ![in.dst] = r]
  BY <1>1, <1>4
<1>6. Given!LooseNext
  <2>1. obs' = Given!Called(Given!Arguments(in, vreg)) /\ Given!NoReg = NoReg
    BY <1>1, <1>4, SameMachine, SameWords
  <2>2. Given!CallFunction
    BY <1>1, <1>2, <1>4, <1>5, <2>1 DEF Given!CallFunction, in
  <2> QED BY <2>2 DEF Given!LooseNext, Given!MachineNext
<1>7. RunInv'
  <2> DEFINE ws == IF in.dst = NoReg THEN vreg ELSE [vreg EXCEPT ![in.dst] = r]
  <2>1. ws \in [Vregs(given) -> Words] /\ \A v \in Vregs(given) : v # in.dst => ws[v] = vreg[v]
    BY <1>3, <1>4
  <2>2. vreg' = ws
    BY <1>5
  <2> HIDE DEF ws
  <2>3. Together(given, made, blk, idx + 1, ws, glob')
    <3> DEFINE hs == glob'
    <3>1. hs \in [Gids -> Words]
      BY <1>1
    <3> HIDE DEF hs
    <3>2. Together(given, made, blk, idx + 1, ws, hs)
      BY <1>2, <1>3, <1>4, <2>1, <3>1, TogetherInBody
    <3> QED BY <3>2 DEF hs
  <2> QED BY <1>1, <2>2, <2>3 DEF RunInv
<1> QED BY <1>6, <1>7

LEMMA TermMeans ==
  ASSUME RunInv, Run!AtTerm
  PROVE  /\ blk # -1 /\ Given!AtTerm /\ EndsAs(made.blocks[blk], given.blocks[blk], vreg)
         /\ \A c \in Succs(given.blocks[blk]) : Together(given, made, c, 1, vreg, glob)
         /\ \A j : Together(given, made, -1, j, vreg, glob)
<1> DEFINE is == given.blocks[blk].insts
           new == made.blocks[blk].insts
<1>1. blk # -1 /\ idx = Len(new) + 1
  BY DEF Run!AtTerm, Run!Halted, Run!BB
<1>2. InStep(given, made, blk, idx, vreg, glob, ~Exact(given, made))
  BY <1>1, TogetherInStep DEF RunInv
<1>3. Len(new) = Len(is) /\ idx = Len(is) + 1
  BY <1>1, <1>2 DEF InStep
<1>4. EndsAs(made.blocks[blk], given.blocks[blk], vreg)
  BY <1>2, <1>3 DEF InStep
<1>5. Given!AtTerm
  BY <1>1, <1>3 DEF Given!AtTerm, Given!Halted, Given!BB
<1> QED BY <1>1, <1>3, <1>4, <1>5, TogetherAtTerm DEF RunInv

(* A jump and a branch lead where they lead in the function given.         *)
LEMMA GoesMeans ==
  ASSUME RunInv, Run!TakeJump \/ Run!TakeBranch, UNCHANGED given
  PROVE  Given!LooseNext /\ RunInv'
<1> DEFINE bb == given.blocks[blk]
           cc == made.blocks[blk]
           t == Leads(bb, vreg)
<1>1. /\ Run!AtTerm /\ cc.term \in {"Jmp", "Br"}
      /\ blk' = Leads(cc, vreg) /\ idx' = 1 /\ obs' = Run!Silent
      /\ UNCHANGED <<made, vreg, glob>>
  <2>1. CASE Run!TakeJump
    BY <2>1 DEF Run!TakeJump, Run!Goto, Run!BB, Leads
  <2>2. CASE Run!TakeBranch
    <3>1. cc.term = "Br" /\ "Br" # "Jmp"
      BY <2>2 DEF Run!TakeBranch, Run!BB
    <3> QED BY <2>2, <3>1, SameMachine DEF Run!TakeBranch, Run!Goto, Run!BB, Leads
  <2> QED BY <2>1, <2>2
<1>2. /\ blk # -1 /\ Given!AtTerm /\ EndsAs(cc, bb, vreg)
      /\ \A c \in Succs(bb) : Together(given, made, c, 1, vreg, glob)
  BY <1>1, TermMeans
<1>3. Given!BB = bb
  BY DEF Given!BB
<1> HIDE DEF bb, cc, t
<1>4. bb.term \in {"Jmp", "Br"} /\ Leads(cc, vreg) = t
  BY <1>1, <1>2 DEF EndsAs, t
<1>5. blk' = t /\ obs' = Given!Silent
  BY <1>1, <1>4, SameWords
<1>6. CASE bb.term = "Jmp"
  <2>1. t = bb.succ0
    BY <1>6 DEF t, Leads
  <2>2. Given!TakeJump
    BY <1>1, <1>2, <1>3, <1>5, <1>6, <2>1 DEF Given!TakeJump, Given!Goto
  <2>3. t \in Succs(bb)
    BY <1>6, <2>1, Zenon DEF Succs
  <2> QED BY <1>1, <1>2, <1>5, <2>2, <2>3 DEF RunInv, Given!LooseNext, Given!MachineNext
<1>7. CASE bb.term = "Br"
  <2>1. t = IF Given!Operand(bb.cond, vreg) # 0 THEN bb.succ0 ELSE bb.succ1
    BY <1>7, SameMachine DEF t, Leads
  <2>2. Given!TakeBranch
    BY <1>1, <1>2, <1>3, <1>5, <1>7, <2>1 DEF Given!TakeBranch, Given!Goto
  <2>3. t \in Succs(bb)
    <3>1. bb.term # "Jmp"
      BY <1>7
    <3>2. Succs(bb) = {bb.succ0, bb.succ1}
      BY <1>7, <3>1, Zenon DEF Succs
    <3> QED BY <2>1, <3>2
  <2> QED BY <1>1, <1>2, <1>5, <2>2, <2>3 DEF RunInv, Given!LooseNext, Given!MachineNext
<1> QED BY <1>4, <1>6, <1>7

LEMMA ReturnMeans ==
  ASSUME RunInv, Run!ReturnToCaller, UNCHANGED given
  PROVE  Given!LooseNext /\ RunInv'
<1> DEFINE bb == given.blocks[blk]
           cc == made.blocks[blk]
<1>1. /\ Run!AtTerm /\ cc.term \in {"Ret", "None"} /\ blk' = -1
      /\ obs' = IF cc.term = "Ret" /\ cc.hasVal
                THEN Run!Returned(Value(cc.ret, vreg)) ELSE Run!ReturnedVoid
      /\ UNCHANGED <<made, idx, vreg, glob>>
  BY SameMachine DEF Run!ReturnToCaller, Run!BB, Run!Halted
<1>2. /\ blk # -1 /\ Given!AtTerm /\ EndsAs(cc, bb, vreg)
      /\ \A j : Together(given, made, -1, j, vreg, glob)
  BY <1>1, TermMeans
<1>3. Given!BB = bb
  BY DEF Given!BB
<1> HIDE DEF bb, cc
<1>4. /\ cc.term = bb.term /\ cc.hasVal = bb.hasVal
      /\ bb.term = "Ret" /\ bb.hasVal => Value(cc.ret, vreg) = Value(bb.ret, vreg)
  BY <1>1, <1>2 DEF EndsAs
<1>5. obs' = IF bb.term = "Ret" /\ bb.hasVal
             THEN Given!Returned(Given!Operand(bb.ret, vreg)) ELSE Given!ReturnedVoid
  BY <1>1, <1>4, SameMachine, SameWords, Zenon
<1>6. Given!ReturnToCaller
  BY <1>1, <1>2, <1>3, <1>4, <1>5 DEF Given!ReturnToCaller, Given!Halted
<1>7. RunInv'
  BY <1>1, <1>2 DEF RunInv
<1> QED BY <1>6, <1>7 DEF Given!LooseNext, Given!MachineNext

(* What runs after one of the passes that work in place is a run of the    *)
(* function the pass was given: vreg by vreg, global by global and event   *)
(* by event, and where a program does not divide by zero, word by word.    *)
(* It is about constFold, markUnsignedDiv, jumpThreading and               *)
(* unreachableElim of any function, and about the code that assigns no     *)
(* vreg twice also about cse, copyProp and constProp (opt/Passes.cpp).     *)
THEOREM PassesMean == PassRunSpec => MeansGiven
<1>1. PassRunInit => RunInv /\ Given!MachineInit
  <2> SUFFICES ASSUME PassRunInit PROVE RunInv /\ Given!MachineInit
    OBVIOUS
  <2>1. given \in Funcs /\ Runnable(given) /\ made \in Rewritings(given) /\ Run!MachineInit
    BY DEF PassRunInit
  <2>2. Formed(given, "any")
    BY <2>1, AnyFormed DEF Runnable
  <2>3. Vregs(made) = Vregs(given)
    BY <2>1, <2>2, RewritingsKeep DEF Vregs
  <2>4. /\ blk = 0 /\ idx = 1 /\ obs = Given!Silent
        /\ vreg \in [Vregs(given) -> Words] /\ glob \in [Gids -> Words]
    BY <2>1, <2>3, SameWords DEF Run!MachineInit
  <2>5. RunInv
    BY <2>1, <2>4, TogetherAtFirst DEF RunInv
  <2>6. Given!MachineInit
    BY <2>1, <2>4, SameWords DEF Given!MachineInit
  <2> QED BY <2>5, <2>6
<1>2. RunInv /\ [PassRunNext]_<<given, made, runVars>>
        => RunInv' /\ [Given!LooseNext]_Given!machineVars
  <2> SUFFICES ASSUME RunInv, [PassRunNext]_<<given, made, runVars>>
               PROVE  RunInv' /\ [Given!LooseNext]_Given!machineVars
    OBVIOUS
  <2>1. CASE PassRunNext
    <3>1. UNCHANGED given
      BY <2>1 DEF PassRunNext
    <3>2. \/ Run!Compute \/ Run!StoreGlobal \/ Run!CallFunction
          \/ (Run!TakeJump \/ Run!TakeBranch) \/ Run!ReturnToCaller
      BY <2>1 DEF PassRunNext, Run!MachineNext
    <3>3. Given!LooseNext /\ RunInv'
      BY <3>1, <3>2, ComputeMeans, StoreMeans, CallMeans, GoesMeans, ReturnMeans
    <3> QED BY <3>3
  <2>2. CASE UNCHANGED <<given, made, runVars>>
    BY <2>2 DEF runVars, RunInv, Given!machineVars
  <2> QED BY <2>1, <2>2
<1> QED BY <1>1, <1>2, PTL DEF PassRunSpec, MeansGiven, Given!LooseSpec
=============================================================================
