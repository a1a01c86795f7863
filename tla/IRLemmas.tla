------------------------------ MODULE IRLemmas ------------------------------
(***************************************************************************)
(* Facts about words and about well-formed functions of the intermediate   *)
(* representation, and induction over the natural numbers, for the proofs  *)
(* about the back end.                                                     *)
(***************************************************************************)
EXTENDS IR, TLAPS, WellFoundedInduction, FiniteSetTheorems

(* The registers of an operand are vregs.                                  *)
LEMMA OperandRegsType ==
  ASSUME NEW vs, NEW val \in Vals(vs)
  PROVE  OperandRegs(val) \subseteq vs
BY DEF OperandRegs, Vals, IsReg

(* An instruction reads only vregs of its function.                        *)
LEMMA InstUsesType ==
  ASSUME NEW vs, NEW in \in Insts(vs)
  PROVE  InstUses(in) \subseteq vs
<1>1. in.a \in Vals(vs) /\ in.b \in Vals(vs) /\ in.args \in Seq(Vals(vs))
      /\ in.magic \in vs \cup {NoReg}
  BY DEF Insts
<1>2. OperandRegs(in.a) \subseteq vs /\ OperandRegs(in.b) \subseteq vs
  BY <1>1, OperandRegsType
<1>3. UNION {OperandRegs(in.args[k]) : k \in DOMAIN in.args} \subseteq vs
  <2>1. \A k \in DOMAIN in.args : in.args[k] \in Vals(vs)
    BY <1>1
  <2>2. \A k \in DOMAIN in.args : OperandRegs(in.args[k]) \subseteq vs
    BY <2>1, OperandRegsType
  <2> QED BY <2>2
<1>4. OpUses(in) \subseteq vs
  BY <1>2, <1>3 DEF OpUses
<1>5. MagicUses(in) \subseteq vs
  BY <1>1 DEF MagicUses
<1> QED BY <1>4, <1>5 DEF InstUses

(* A terminator uses vregs of the function.                                *)
LEMMA TermUsesType ==
  ASSUME NEW vs, NEW bb \in BasicBlocks(vs)
  PROVE  TermUses(bb) \subseteq vs
<1>1. bb.cond \in Vals(vs) /\ bb.ret \in Vals(vs)
  BY DEF BasicBlocks
<1>2. OperandRegs(bb.cond) \subseteq vs /\ OperandRegs(bb.ret) \subseteq vs
  BY <1>1, OperandRegsType
<1> QED BY <1>2 DEF TermUses

(* What a block of a well-formed function looks like.                      *)
LEMMA BlockFacts ==
  ASSUME NEW f, IsIRFunc(f), NEW k \in Blocks(f)
  PROVE  /\ f.blocks[k] \in BasicBlocks(Vregs(f))
         /\ f.blocks[k].insts \in Seq(Insts(Vregs(f)))
         /\ Len(f.blocks[k].insts) \in Nat
         /\ DOMAIN f.blocks[k].insts = 1 .. Len(f.blocks[k].insts)
         /\ Succs(f.blocks[k]) \subseteq Blocks(f)
         /\ TermUses(f.blocks[k]) \subseteq Vregs(f)
<1>1. f.blocks[k] \in BasicBlocks(Vregs(f)) /\ Succs(f.blocks[k]) \subseteq Blocks(f)
  BY DEF IsIRFunc
<1>2. f.blocks[k].insts \in Seq(Insts(Vregs(f)))
  BY <1>1 DEF BasicBlocks
<1> QED BY <1>1, <1>2, TermUsesType

(* The fields and uses of an instruction of a well-formed function.        *)
LEMMA InstFacts ==
  ASSUME NEW f, IsIRFunc(f), NEW k \in Blocks(f),
         NEW m \in DOMAIN f.blocks[k].insts
  PROVE  /\ f.blocks[k].insts[m] \in Insts(Vregs(f))
         /\ InstUses(f.blocks[k].insts[m]) \subseteq Vregs(f)
         /\ f.blocks[k].insts[m].dst \in Vregs(f) \cup {NoReg}
         /\ IsMove(f.blocks[k].insts[m]) =>
              /\ f.blocks[k].insts[m].a.n \in Vregs(f)
              /\ f.blocks[k].insts[m].dst \in Vregs(f)
         /\ f.blocks[k].insts[m].op \notin {"StoreGlobal", "Call"} =>
              f.blocks[k].insts[m].dst \in Vregs(f)
         /\ f.blocks[k].insts[m].op = "StoreGlobal" =>
              f.blocks[k].insts[m].dst = NoReg
<1> DEFINE in == f.blocks[k].insts[m]
<1>1. f.blocks[k].insts \in Seq(Insts(Vregs(f)))
  BY BlockFacts
<1>2. in \in Insts(Vregs(f))
  BY <1>1
<1>3. in.dst \in Vregs(f) \cup {NoReg} /\ in.a \in Vals(Vregs(f))
  BY <1>2 DEF Insts
<1>4. /\ in.op \notin {"StoreGlobal", "Call"} => in.dst # NoReg
      /\ in.op = "StoreGlobal" => in.dst = NoReg
  BY DEF IsIRFunc
<1>5. IsMove(in) => in.a.n \in Vregs(f)
  BY <1>3 DEF IsMove, IsReg, Vals
<1>6. IsMove(in) => in.op \notin {"StoreGlobal", "Call"}
  BY DEF IsMove
<1>7. InstUses(in) \subseteq Vregs(f)
  BY <1>2, InstUsesType
<1> HIDE DEF in
<1>8. /\ in \in Insts(Vregs(f))
      /\ InstUses(in) \subseteq Vregs(f)
      /\ in.dst \in Vregs(f) \cup {NoReg}
      /\ IsMove(in) => in.a.n \in Vregs(f) /\ in.dst \in Vregs(f)
      /\ in.op \notin {"StoreGlobal", "Call"} => in.dst \in Vregs(f)
      /\ in.op = "StoreGlobal" => in.dst = NoReg
  BY <1>2, <1>3, <1>4, <1>5, <1>6, <1>7
<1> QED BY <1>8 DEF in

(* No vreg has the number that stands for "no register".                   *)
LEMMA NoRegFresh ==
  ASSUME NEW f, IsIRFunc(f)
  PROVE  NoReg \notin Vregs(f)
BY DEF IsIRFunc, Vregs, NoReg

-----------------------------------------------------------------------------
(* Arithmetic stays within a word.                                         *)

(* Wrapping an integer gives a word.                                       *)
LEMMA WrapType == \A n \in Int : Wrap(n) \in Words
<1> SUFFICES ASSUME NEW n \in Int PROVE Wrap(n) \in Words
  OBVIOUS
<1>1. Half \in Nat /\ Half > 0 /\ 2 * Half \in Nat /\ 2 * Half > 0
  BY HalfAssumption
<1>2. (n + Half) % (2 * Half) \in 0 .. 2 * Half - 1
  BY <1>1
<1> QED BY <1>1, <1>2 DEF Wrap, Words

(* Truncating division and remainder give integers.                        *)
LEMMA TruncType ==
  ASSUME NEW x \in Int, NEW y \in Int \ {0}
  PROVE  TruncDiv(x, y) \in Int /\ TruncRem(x, y) \in Int
<1>1. Magnitude(x) \in Nat /\ Magnitude(y) \in Nat \ {0}
  BY DEF Magnitude
<1>2. Magnitude(x) \div Magnitude(y) \in Int
  BY <1>1
<1>3. TruncDiv(x, y) \in Int
  BY <1>2 DEF TruncDiv
<1> QED BY <1>3 DEF TruncRem

(* Every operator applied to words gives a word.                           *)
LEMMA EvalType ==
  ASSUME NEW x \in Words, NEW y \in Words
  PROVE  /\ \A op \in BinaryOps : EvalBinary(op, x, y) \in Words
         /\ \A op \in UnaryOps : EvalUnary(op, x) \in Words
<1>1. Half \in Int /\ x \in Int /\ y \in Int /\ 0 \in Words /\ 1 \in Words
  BY HalfAssumption DEF Words
<1>2. /\ x + y \in Int /\ x - y \in Int /\ x * y \in Int /\ -x \in Int /\ -1 \in Int
      /\ y # 0 => TruncDiv(x, y) \in Int /\ TruncRem(x, y) \in Int
  BY <1>1, TruncType
<1>3. /\ Wrap(x + y) \in Words /\ Wrap(x - y) \in Words /\ Wrap(x * y) \in Words
      /\ Wrap(-x) \in Words /\ Wrap(-1) \in Words
      /\ y # 0 => Wrap(TruncDiv(x, y)) \in Words /\ Wrap(TruncRem(x, y)) \in Words
  BY <1>2, WrapType
<1>4. /\ Truth(x < y) \in Words /\ Truth(x > y) \in Words /\ Truth(x =< y) \in Words
      /\ Truth(x >= y) \in Words /\ Truth(x = y) \in Words /\ Truth(x # y) \in Words
      /\ Truth(x = 0) \in Words
  BY <1>1 DEF Truth
<1>5. \A op \in BinaryOps : EvalBinary(op, x, y) \in Words
  BY <1>3, <1>4 DEF BinaryOps, EvalBinary
<1>6. \A op \in UnaryOps : EvalUnary(op, x) \in Words
  BY <1>3, <1>4 DEF UnaryOps, EvalUnary
<1> QED BY <1>5, <1>6
-----------------------------------------------------------------------------
(* Induction.                                                              *)

(* A set of natural numbers has a least element.                           *)
LEMMA Least ==
  ASSUME NEW S, S \subseteq Nat, S # {}
  PROVE  \E m \in S : \A k \in S : m =< k
<1> DEFINE R == {ss \in Nat \X Nat : ss[1] < ss[2]}
<1>1. IsWellFoundedOn(R, Nat)
  BY NatLessThanWellFounded DEF OpToRel
<1>2. PICK m \in S : \A k \in S : <<k, m>> \notin R
  <2> HIDE DEF R
  <2> QED BY <1>1, WFMin
<1>3. \A k \in S : ~(k < m)
  <2> TAKE k \in S
  <2>1. <<k, m>> \in Nat \X Nat
    OBVIOUS
  <2> QED BY <1>2, <2>1
<1> QED BY <1>3

(* Induction: a set with 0 and all its successors has every number.        *)
LEMMA Upward ==
  ASSUME NEW S, 0 \in S, \A n \in Nat : n \in S => n + 1 \in S
  PROVE  Nat \subseteq S
<1> DEFINE T == Nat \ S
<1>1. CASE T = {}
  BY <1>1
<1>2. CASE T # {}
  <2>1. PICK m \in T : \A k \in T : m =< k
    <3> HIDE DEF T
    <3>1. T \subseteq Nat
      BY DEF T
    <3> QED BY <1>2, <3>1, Least
  <2>2. m \in Nat /\ m # 0 /\ m \notin S
    BY <2>1
  <2>3. m - 1 \in Nat /\ m - 1 < m
    BY <2>2
  <2>4. m - 1 \in S
    BY <2>1, <2>3
  <2>5. (m - 1) + 1 \in S
    BY <2>3, <2>4
  <2> QED BY <2>2, <2>5
<1> QED BY <1>1, <1>2

(* What is computed turn by turn: x after no turn, and from what there is  *)
(* after k turns, w, G[w][k + 1] after one more.                           *)
Turned(f, S, x, G, n) ==
  f \in [0 .. n -> S] /\ f[0] = x /\ \A k \in 1 .. n : f[k] = G[f[k - 1]][k]

LEMMA Turns ==
  ASSUME NEW S, NEW x \in S, NEW G \in [S -> [Nat -> S]]
  PROVE  \A n \in Nat : \E f : Turned(f, S, x, G, n)
<1> DEFINE D == {n \in Nat : \E f : Turned(f, S, x, G, n)}
<1>1. 0 \in D
  <2> DEFINE f == [k \in 0 .. 0 |-> x]
  <2>1. f \in [0 .. 0 -> S] /\ f[0] = x /\ \A k \in 1 .. 0 : f[k] = G[f[k - 1]][k]
    OBVIOUS
  <2> HIDE DEF f
  <2>2. Turned(f, S, x, G, 0)
    BY <2>1 DEF Turned
  <2> QED BY <2>2
<1>2. ASSUME NEW n \in Nat, n \in D PROVE n + 1 \in D
  <2>1. PICK f : Turned(f, S, x, G, n)
    BY <1>2
  <2>2. f \in [0 .. n -> S] /\ f[0] = x /\ \A k \in 1 .. n : f[k] = G[f[k - 1]][k]
    BY <2>1 DEF Turned
  <2> DEFINE g == [k \in 0 .. n + 1 |-> IF k = n + 1 THEN G[f[n]][n + 1] ELSE f[k]]
  <2>3. g \in [0 .. n + 1 -> S]
    BY <2>2
  <2>4. g[0] = x
    BY <2>2
  <2>5. ASSUME NEW k \in 1 .. n + 1 PROVE g[k] = G[g[k - 1]][k]
    <3>1. k - 1 \in 0 .. n + 1 /\ k - 1 # n + 1 /\ k \in 0 .. n + 1
      OBVIOUS
    <3>2. g[k - 1] = f[k - 1]
      BY <3>1
    <3>3. CASE k = n + 1
      <4>1. k - 1 = n
        BY <3>3
      <4> QED BY <3>1, <3>2, <3>3, <4>1
    <3>4. CASE k # n + 1
      <4>1. k \in 1 .. n
        BY <3>4
      <4> QED BY <2>2, <3>1, <3>2, <3>4, <4>1
    <3> QED BY <3>3, <3>4
  <2> HIDE DEF g
  <2>6. Turned(g, S, x, G, n + 1)
    BY <2>3, <2>4, <2>5 DEF Turned
  <2> QED BY <2>6
<1>3. Nat \subseteq D
  <2> HIDE DEF D
  <2> QED BY <1>1, <1>2, Upward
<1> QED BY <1>3

(* Two computations from the same start agree as far as both go.           *)
LEMMA TurnsAgree ==
  ASSUME NEW S, NEW x, NEW G, NEW m \in Nat, NEW n \in Nat, NEW f, NEW g,
         Turned(f, S, x, G, m), Turned(g, S, x, G, n), m =< n
  PROVE  \A k \in 0 .. m : f[k] = g[k]
<1> DEFINE D == {k \in Nat : k =< m => f[k] = g[k]}
<1>1. f[0] = g[0]
  BY DEF Turned
<1>2. ASSUME NEW k \in Nat, k \in D PROVE k + 1 \in D
  <2> SUFFICES ASSUME k + 1 =< m PROVE f[k + 1] = g[k + 1]
    OBVIOUS
  <2>1. f[k] = g[k]
    BY <1>2
  <2>2. k + 1 \in 1 .. m /\ k + 1 \in 1 .. n /\ (k + 1) - 1 = k
    OBVIOUS
  <2>3. f[k + 1] = G[f[(k + 1) - 1]][k + 1] /\ g[k + 1] = G[g[(k + 1) - 1]][k + 1]
    BY <2>2 DEF Turned
  <2> QED BY <2>1, <2>2, <2>3
<1>3. Nat \subseteq D
  <2>1. 0 \in D
    BY <1>1
  <2> HIDE DEF D
  <2> QED BY <1>2, <2>1, Upward
<1> QED BY <1>3

(* A computation that never ends, as one function, exists.                 *)
Endless(f, S, x, G) ==
  f \in [Nat -> S] /\ f[0] = x /\ \A n \in Nat : f[n + 1] = G[f[n]][n + 1]

LEMMA Forever ==
  ASSUME NEW S, NEW x \in S, NEW G \in [S -> [Nat -> S]]
  PROVE  \E f : Endless(f, S, x, G)
<1> DEFINE upTo(n) == CHOOSE g : Turned(g, S, x, G, n)
<1>1. ASSUME NEW n \in Nat PROVE Turned(upTo(n), S, x, G, n)
  <2>1. \E g : Turned(g, S, x, G, n)
    BY Turns
  <2> QED BY <2>1
<1> HIDE DEF upTo
<1> DEFINE f == [n \in Nat |-> upTo(n)[n]]
<1>2. f \in [Nat -> S]
  <2>1. ASSUME NEW n \in Nat PROVE upTo(n)[n] \in S
    BY <1>1 DEF Turned
  <2> QED BY <2>1
<1>3. f[0] = x
  BY <1>1 DEF Turned
<1>4. ASSUME NEW n \in Nat PROVE f[n + 1] = G[f[n]][n + 1]
  <2>1. n + 1 \in Nat /\ n =< n + 1 /\ n \in 0 .. n /\ n + 1 \in 1 .. n + 1 /\ (n + 1) - 1 = n
    OBVIOUS
  <2>2. Turned(upTo(n), S, x, G, n) /\ Turned(upTo(n + 1), S, x, G, n + 1)
    BY <1>1, <2>1
  <2>3. upTo(n)[n] = upTo(n + 1)[n]
    BY <2>1, <2>2, TurnsAgree
  <2>4. upTo(n + 1)[n + 1] = G[upTo(n + 1)[(n + 1) - 1]][n + 1]
    BY <2>1, <2>2 DEF Turned
  <2> QED BY <2>1, <2>3, <2>4
<1> HIDE DEF f
<1>5. Endless(f, S, x, G)
  BY <1>2, <1>3, <1>4 DEF Endless
<1> QED BY <1>5
-----------------------------------------------------------------------------
(* What it is to be read before it is written, block by block.            *)

(* One more turn of Unwritten.                                             *)
Wider(f, v, near) ==
  near \cup UNION {Succs(f.blocks[k]) : k \in {k \in near : ~Writes(f.blocks[k], v)}}

LEMMA WiderFacts ==
  ASSUME NEW f, IsIRFunc(f), NEW v, NEW S, S \subseteq Blocks(f)
  PROVE  S \subseteq Wider(f, v, S) /\ Wider(f, v, S) \subseteq Blocks(f)
<1>1. \A k \in S : Succs(f.blocks[k]) \subseteq Blocks(f)
  BY DEF IsIRFunc
<1> QED BY <1>1 DEF Wider

LEMMA UnwrittenTurns ==
  ASSUME NEW f, IsIRFunc(f), NEW v
  PROVE  \E g : /\ g \in [Nat -> SUBSET Blocks(f)] /\ g[0] = {0}
                /\ \A n \in Nat : g[n + 1] = Wider(f, v, g[n])
                /\ Unwritten(f, v) = g[f.nb]
<1> DEFINE S == SUBSET Blocks(f)
           G == [x \in S |-> [n \in Nat |-> Wider(f, v, x)]]
           Is(g) == g = [n \in Nat |->
                    IF n = 0 THEN {0}
                    ELSE LET near == g[n - 1]
                             open == {k \in near : ~Writes(f.blocks[k], v)}
                         IN  near \cup UNION {Succs(f.blocks[k]) : k \in open}]
<1>1. \E g : Endless(g, S, {0}, G)
  <2>1. \A x \in S : Wider(f, v, x) \in S
    BY WiderFacts
  <2>2. {0} \in S
    BY DEF IsIRFunc, Blocks
  <2> HIDE DEF S
  <2>3. G \in [S -> [Nat -> S]]
    BY <2>1
  <2> HIDE DEF G
  <2> QED BY <2>2, <2>3, Forever
<1>2. \A g : Is(g) <=> g = [n \in Nat |-> IF n = 0 THEN {0} ELSE Wider(f, v, g[n - 1])]
  BY DEF Wider
<1> HIDE DEF Is
<1>3. \E g : Is(g)
  <2>1. PICK g : Endless(g, S, {0}, G)
    BY <1>1
  <2> HIDE DEF S
  <2>2. g \in [Nat -> S] /\ g[0] = {0} /\ \A n \in Nat : g[n + 1] = Wider(f, v, g[n])
    BY <2>1 DEF Endless
  <2>3. \A n \in Nat : g[n] = IF n = 0 THEN {0} ELSE Wider(f, v, g[n - 1])
    <3> TAKE n \in Nat
    <3>1. CASE n # 0
      <4>1. n - 1 \in Nat /\ (n - 1) + 1 = n
        BY <3>1
      <4> QED BY <2>2, <3>1, <4>1
    <3> QED BY <2>2, <3>1
  <2>4. g = [n \in Nat |-> IF n = 0 THEN {0} ELSE Wider(f, v, g[n - 1])]
    BY <2>2, <2>3
  <2> QED BY <1>2, <2>4
<1>4. Unwritten(f, v) = (CHOOSE g : Is(g))[f.nb]
  BY DEF Unwritten, Is
<1>5. PICK g : Is(g) /\ Unwritten(f, v) = g[f.nb]
  BY <1>3, <1>4
<1>6. g = [n \in Nat |-> IF n = 0 THEN {0} ELSE Wider(f, v, g[n - 1])]
  BY <1>2, <1>5
<1>7. g[0] = {0} /\ \A n \in Nat : g[n + 1] = Wider(f, v, g[n])
  <2>1. g[0] = {0}
    BY <1>6
  <2>2. ASSUME NEW n \in Nat PROVE g[n + 1] = Wider(f, v, g[n])
    <3>1. n + 1 \in Nat /\ n + 1 # 0 /\ (n + 1) - 1 = n
      OBVIOUS
    <3> QED BY <1>6, <3>1
  <2> QED BY <2>1, <2>2
<1>8. \A n \in Nat : g[n] \in S
  <2> DEFINE D == {n \in Nat : g[n] \in S}
  <2>1. 0 \in D
    <3>1. {0} \in S
      BY DEF IsIRFunc, Blocks
    <3> HIDE DEF S
    <3> QED BY <1>7, <3>1
  <2>2. ASSUME NEW n \in Nat, n \in D PROVE n + 1 \in D
    <3>1. Wider(f, v, g[n]) \in S
      BY <2>2, WiderFacts
    <3> QED BY <1>7, <3>1
  <2>3. Nat \subseteq D
    <3> HIDE DEF D
    <3> QED BY <2>1, <2>2, Upward
  <2> QED BY <2>3
<1>9. g \in [Nat -> S]
  BY <1>6, <1>8
<1> QED BY <1>5, <1>7, <1>9

(* Unwritten has run to the end: it is the smallest set of blocks with the *)
(* entry that control leaves only through a block that writes v.           *)
LEMMA UnwrittenFacts ==
  ASSUME NEW f, IsIRFunc(f), NEW v
  PROVE  /\ 0 \in Unwritten(f, v) /\ Unwritten(f, v) \subseteq Blocks(f)
         /\ Wider(f, v, Unwritten(f, v)) = Unwritten(f, v)
         /\ \A D : 0 \in D /\ Wider(f, v, D) \subseteq D => Unwritten(f, v) \subseteq D
<1>1. PICK g \in [Nat -> SUBSET Blocks(f)] :
         /\ g[0] = {0} /\ \A n \in Nat : g[n + 1] = Wider(f, v, g[n])
         /\ Unwritten(f, v) = g[f.nb]
  BY UnwrittenTurns
<1>2. f.nb \in Nat \ {0} /\ Blocks(f) = 0 .. f.nb - 1
  BY DEF IsIRFunc, Blocks
<1>3. \A n \in Nat : 0 \in g[n]
  <2> DEFINE D == {n \in Nat : 0 \in g[n]}
  <2>1. 0 \in D
    BY <1>1
  <2>2. ASSUME NEW n \in Nat, n \in D PROVE n + 1 \in D
    BY <1>1, <2>2 DEF Wider
  <2>3. Nat \subseteq D
    <3> HIDE DEF D
    <3> QED BY <2>1, <2>2, Upward
  <2> QED BY <2>3
<1>4. ASSUME NEW C, 0 \in C, Wider(f, v, C) \subseteq C PROVE g[f.nb] \subseteq C
  <2> DEFINE D == {n \in Nat : g[n] \subseteq C}
  <2>1. 0 \in D
    BY <1>1, <1>4
  <2>2. ASSUME NEW n \in Nat, n \in D PROVE n + 1 \in D
    <3>1. Wider(f, v, g[n]) \subseteq Wider(f, v, C)
      BY <2>2 DEF Wider
    <3> QED BY <1>1, <1>4, <3>1
  <2>3. Nat \subseteq D
    <3> HIDE DEF D
    <3> QED BY <2>1, <2>2, Upward
  <2> QED BY <1>2, <2>3
<1>5. \A n \in Nat : IsFiniteSet(g[n]) /\ Cardinality(g[n]) \in Nat
  <2>1. IsFiniteSet(Blocks(f))
    BY <1>2, FS_Interval
  <2>2. \A n \in Nat : g[n] \subseteq Blocks(f)
    BY <1>1
  <2> QED BY <2>1, <2>2, FS_Subset, FS_CardinalityType
<1>6. \A n \in Nat : g[n + 1] = g[n] \/ Cardinality(g[n]) >= n + 1
  <2> DEFINE D == {n \in Nat : g[n + 1] = g[n] \/ Cardinality(g[n]) >= n + 1}
  <2>1. 0 \in D
    <3>1. Cardinality(g[0]) = 1
      BY <1>1, FS_Singleton
    <3>2. Cardinality(g[0]) >= 0 + 1
      BY <3>1
    <3> QED BY <3>2
  <2>2. ASSUME NEW n \in Nat, n \in D PROVE n + 1 \in D
    <3>1. g[n + 1] = Wider(f, v, g[n]) /\ g[(n + 1) + 1] = Wider(f, v, g[n + 1])
      BY <1>1
    <3>2. CASE g[n + 1] = g[n]
      <4>1. g[(n + 1) + 1] = g[n + 1]
        BY <3>1, <3>2
      <4> QED BY <4>1
    <3>3. CASE g[n + 1] # g[n]
      <4>1. g[n] \subseteq g[n + 1]
        BY <3>1 DEF Wider
      <4>2. Cardinality(g[n]) < Cardinality(g[n + 1])
        BY <1>5, <3>3, <4>1, FS_Subset
      <4>3. Cardinality(g[n]) >= n + 1 /\ Cardinality(g[n]) \in Nat
            /\ Cardinality(g[n + 1]) \in Nat
        BY <1>5, <2>2, <3>3
      <4>4. Cardinality(g[n + 1]) >= (n + 1) + 1
        BY <4>2, <4>3
      <4> QED BY <4>4
    <3> QED BY <3>2, <3>3
  <2>3. Nat \subseteq D
    <3> HIDE DEF D
    <3> QED BY <2>1, <2>2, Upward
  <2> QED BY <2>3
<1>7. Cardinality(g[f.nb]) =< f.nb
  <2>1. IsFiniteSet(Blocks(f)) /\ Cardinality(Blocks(f)) = f.nb
    BY <1>2, FS_Interval
  <2>2. g[f.nb] \subseteq Blocks(f)
    BY <1>1, <1>2
  <2> QED BY <2>1, <2>2, FS_Subset
<1>8. g[f.nb + 1] = g[f.nb]
  <2>1. Cardinality(g[f.nb]) \in Nat /\ (g[f.nb + 1] = g[f.nb] \/ Cardinality(g[f.nb]) >= f.nb + 1)
    BY <1>2, <1>5, <1>6
  <2>2. ~(Cardinality(g[f.nb]) >= f.nb + 1)
    BY <1>2, <1>7, <2>1
  <2> QED BY <2>1, <2>2
<1>9. Wider(f, v, g[f.nb]) = g[f.nb] /\ 0 \in g[f.nb] /\ g[f.nb] \subseteq Blocks(f)
  BY <1>1, <1>2, <1>3, <1>8
<1> QED BY <1>1, <1>4, <1>9

(* A vreg is dead into the entry just if the blocks reached without a      *)
(* write to it show it.                                                    *)
LEMMA UnwrittenShows ==
  ASSUME NEW f, IsIRFunc(f), NEW v
  PROVE  DeadSet(f, v, Unwritten(f, v)) <=> DeadInto(f, v, 0)
<1>1. /\ 0 \in Unwritten(f, v) /\ Unwritten(f, v) \subseteq Blocks(f)
      /\ Wider(f, v, Unwritten(f, v)) = Unwritten(f, v)
      /\ \A D : 0 \in D /\ Wider(f, v, D) \subseteq D => Unwritten(f, v) \subseteq D
  BY UnwrittenFacts
<1>2. ASSUME DeadInto(f, v, 0) PROVE DeadSet(f, v, Unwritten(f, v))
  <2>1. PICK D \in SUBSET Blocks(f) : 0 \in D /\ DeadSet(f, v, D)
    BY <1>2 DEF DeadInto
  <2>2. Wider(f, v, D) \subseteq D
    BY <2>1 DEF Wider, DeadSet
  <2>3. Unwritten(f, v) \subseteq D
    BY <1>1, <2>1, <2>2
  <2>4. \A k \in Unwritten(f, v) :
          Writes(f.blocks[k], v) \/ Succs(f.blocks[k]) \subseteq Unwritten(f, v)
    BY <1>1 DEF Wider
  <2> QED BY <2>1, <2>3, <2>4 DEF DeadSet
<1>3. ASSUME DeadSet(f, v, Unwritten(f, v)) PROVE DeadInto(f, v, 0)
  BY <1>1, <1>3 DEF DeadInto
<1> QED BY <1>2, <1>3
=============================================================================
