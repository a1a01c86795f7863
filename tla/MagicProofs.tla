---------------------------- MODULE MagicProofs ----------------------------
(***************************************************************************)
(* The arithmetic behind instruction selection, for words of any width:    *)
(* shifts are multiplications and divisions by powers of two, and a signed *)
(* magic number and its shift divide every word as truncating division     *)
(* does.                                                                   *)
(***************************************************************************)
EXTENDS Select, IRLemmas

-----------------------------------------------------------------------------
(* Division of integers.                                                   *)
LEMMA DivisionFacts ==
  ASSUME NEW a \in Int, NEW m \in Nat \ {0}
  PROVE  /\ a \div m \in Int /\ a % m \in 0 .. m - 1
         /\ a = m * (a \div m) + (a % m)
OBVIOUS

LEMMA DivisionUnique ==
  ASSUME NEW a \in Int, NEW m \in Nat \ {0}, NEW q \in Int, NEW r \in 0 .. m - 1,
         a = m * q + r
  PROVE  a \div m = q /\ a % m = r
OBVIOUS

LEMMA Between ==
  ASSUME NEW a \in Int, NEW m \in Nat \ {0}, NEW q \in Int,
         m * q =< a, a < m * (q + 1)
  PROVE  a \div m = q
OBVIOUS

LEMMA DivisionOfDivision ==
  ASSUME NEW a \in Int, NEW m \in Nat \ {0}, NEW k \in Nat \ {0}
  PROVE  (a \div m) \div k = a \div (m * k)
OBVIOUS

LEMMA Scaled ==
  ASSUME NEW a \in Int, NEW c \in Int, NEW k \in Nat, a =< c
  PROVE  a * k =< c * k
OBVIOUS

LEMMA ScaledLess ==
  ASSUME NEW a \in Int, NEW c \in Int, NEW k \in Nat \ {0}
  PROVE  a < c <=> a * k < c * k
OBVIOUS

-----------------------------------------------------------------------------
(* Powers of two.                                                          *)
LEMMA Pow2Def ==
  /\ Pow2 \in [Nat -> Nat \ {0}]
  /\ Pow2[0] = 1
  /\ \A n \in Nat : Pow2[n + 1] = 2 * Pow2[n]
<1> DEFINE S == Nat \ {0}
           G == [y \in S |-> [n \in Nat |-> 2 * y]]
           Is(f) == f = [n \in Nat |-> IF n = 0 THEN 1 ELSE 2 * f[n - 1]]
<1>1. PICK f \in [Nat -> S] : f[0] = 1 /\ \A n \in Nat : f[n + 1] = G[f[n]][n + 1]
  <2>1. G \in [S -> [Nat -> S]] /\ 1 \in S
    OBVIOUS
  <2> HIDE DEF G, Is, S
  <2>2. PICK f : Endless(f, S, 1, G)
    BY <2>1, Forever
  <2> QED BY <2>2 DEF Endless
<1>2. \A n \in Nat : f[n + 1] = 2 * f[n]
  BY <1>1
<1>3. \A n \in Nat : f[n] = IF n = 0 THEN 1 ELSE 2 * f[n - 1]
  <2> TAKE n \in Nat
  <2>1. CASE n # 0
    <3>1. n - 1 \in Nat /\ (n - 1) + 1 = n
      BY <2>1
    <3> QED BY <1>2, <2>1, <3>1
  <2> QED BY <1>1, <2>1
<1>4. Is(f)
  <2> HIDE DEF G
  <2> QED BY <1>1, <1>3
<1>5. Is(Pow2)
  <2>1. Pow2 = CHOOSE g : Is(g)
    BY DEF Pow2
  <2> HIDE DEF Is
  <2> QED BY <1>4, <2>1
<1>6. Pow2[0] = 1 /\ \A n \in Nat : Pow2[n + 1] = 2 * Pow2[n]
  <2>1. Pow2[0] = 1
    BY <1>5
  <2>2. ASSUME NEW n \in Nat PROVE Pow2[n + 1] = 2 * Pow2[n]
    <3>1. n + 1 \in Nat /\ n + 1 # 0 /\ (n + 1) - 1 = n
      OBVIOUS
    <3> QED BY <1>5, <3>1
  <2> QED BY <2>1, <2>2
<1>7. Pow2 = f
  <2> DEFINE D == {n \in Nat : Pow2[n] = f[n]}
  <2>1. 0 \in D
    BY <1>1, <1>6
  <2>2. ASSUME NEW n \in Nat, n \in D PROVE n + 1 \in D
    BY <1>2, <1>6, <2>2
  <2>3. Nat \subseteq D
    <3> HIDE DEF D
    <3> QED BY <2>1, <2>2, Upward
  <2>4. Pow2 = [n \in Nat |-> Pow2[n]] /\ f = [n \in Nat |-> f[n]]
    BY <1>1, <1>5
  <2>5. \A n \in Nat : Pow2[n] = f[n]
    BY <2>3
  <2> HIDE DEF Is
  <2> QED BY <2>4, <2>5
<1> QED BY <1>1, <1>6, <1>7

LEMMA Pow2Sum ==
  ASSUME NEW m \in Nat, NEW n \in Nat
  PROVE  Pow2[m + n] = Pow2[m] * Pow2[n]
<1> DEFINE D == {k \in Nat : Pow2[m + k] = Pow2[m] * Pow2[k]}
<1>1. 0 \in D
  <2>1. Pow2[m] \in Nat /\ m + 0 = m
    BY Pow2Def
  <2> QED BY <2>1, Pow2Def
<1>2. ASSUME NEW k \in Nat, k \in D PROVE k + 1 \in D
  <2>1. m + k \in Nat /\ m + (k + 1) = (m + k) + 1
    OBVIOUS
  <2>2. Pow2[m] \in Nat /\ Pow2[k] \in Nat
    BY Pow2Def
  <2>3. Pow2[m + (k + 1)] = 2 * (Pow2[m] * Pow2[k])
    BY <1>2, <2>1, Pow2Def
  <2>4. Pow2[k + 1] = 2 * Pow2[k]
    BY Pow2Def
  <2>5. 2 * (Pow2[m] * Pow2[k]) = Pow2[m] * (2 * Pow2[k])
    BY <2>2
  <2> QED BY <2>3, <2>4, <2>5
<1>3. Nat \subseteq D
  <2> HIDE DEF D
  <2> QED BY <1>1, <1>2, Upward
<1> QED BY <1>3

LEMMA Pow2Grows ==
  ASSUME NEW m \in Nat, NEW n \in Nat, m < n
  PROVE  2 * Pow2[m] =< Pow2[n]
<1> DEFINE k == n - m - 1
<1>1. k \in Nat /\ m + 1 \in Nat /\ (m + 1) + k = n
  OBVIOUS
<1> HIDE DEF k
<1>2. Pow2[n] = Pow2[m + 1] * Pow2[k]
  BY <1>1, Pow2Sum
<1>3. Pow2[m + 1] = 2 * Pow2[m] /\ Pow2[m] \in Nat /\ Pow2[k] \in Nat \ {0}
  BY <1>1, Pow2Def
<1> QED BY <1>2, <1>3

LEMMA Pow2Unique ==
  ASSUME NEW m \in Nat, NEW n \in Nat, Pow2[m] = Pow2[n]
  PROVE  m = n
<1>1. Pow2[m] \in Nat \ {0} /\ Pow2[n] \in Nat \ {0}
  BY Pow2Def
<1>2. ~(m < n) /\ ~(n < m)
  BY <1>1, Pow2Grows
<1> QED BY <1>2

(* The width of a word.                                                    *)
LEMMA WidthFacts ==
  /\ Width \in Nat /\ Width >= 2 /\ Half = Pow2[Width - 1] /\ Pow2[Width] = 2 * Half
  /\ Half \in Nat /\ Half >= 2
  /\ Pow2[1] = 2
<1>1. Width \in Nat \ {0} /\ Half = Pow2[Width - 1] /\ Half \in Nat \ {0, 1}
  BY WidthAssumption, HalfAssumption
<1>2. Width # 1
  BY <1>1, Pow2Def
<1>3. Width - 1 \in Nat /\ (Width - 1) + 1 = Width
  BY <1>1
<1>4. Pow2[Width] = 2 * Pow2[Width - 1]
  BY <1>3, Pow2Def
<1>5. Pow2[1] = 2
  <2>1. Pow2[0 + 1] = 2 * Pow2[0]
    BY Pow2Def
  <2> QED BY <2>1, Pow2Def
<1> QED BY <1>1, <1>2, <1>4, <1>5

(* What divides a power of two is one.                                     *)
LEMMA DivisorsOfPow2 ==
  ASSUME NEW n \in Nat, NEW x \in Nat, NEW y \in Nat, x * y = Pow2[n]
  PROVE  \E k \in 0 .. n : x = Pow2[k]
<1> DEFINE D == {m \in Nat : \A u, w \in Nat : u * w = Pow2[m] => \E k \in 0 .. m : u = Pow2[k]}
<1>1. 0 \in D
  <2>1. ASSUME NEW u \in Nat, NEW w \in Nat, u * w = 1 PROVE u = 1
    <3>1. u # 0 /\ w # 0
      BY <2>1
    <3>2. CASE u > 1
      <4>1. u * w >= 2 * w
        BY <3>1, <3>2
      <4> QED BY <2>1, <3>1, <4>1
    <3> QED BY <3>1, <3>2
  <2>2. Pow2[0] = 1 /\ 0 \in 0 .. 0
    BY Pow2Def
  <2>3. ASSUME NEW u \in Nat, NEW w \in Nat, u * w = Pow2[0] PROVE \E k \in 0 .. 0 : u = Pow2[k]
    BY <2>1, <2>2, <2>3
  <2> QED BY <2>3
<1>2. ASSUME NEW m \in Nat, m \in D PROVE m + 1 \in D
  <2> SUFFICES ASSUME NEW u \in Nat, NEW w \in Nat, u * w = Pow2[m + 1]
               PROVE  \E k \in 0 .. m + 1 : u = Pow2[k]
    OBVIOUS
  <2>1. u * w = 2 * Pow2[m] /\ Pow2[m] \in Nat
    BY Pow2Def
  <2>2. CASE u % 2 = 0
    <3>1. PICK h \in Nat : u = 2 * h
      <4>1. u = 2 * (u \div 2) /\ u \div 2 \in Nat
        BY <2>2
      <4> QED BY <4>1
    <3>2. h * w = Pow2[m]
      <4>1. u * w = 2 * (h * w) /\ h * w \in Nat
        BY <3>1
      <4> QED BY <2>1, <4>1
    <3>3. PICK k \in 0 .. m : h = Pow2[k]
      BY <1>2, <3>2
    <3>4. u = Pow2[k + 1] /\ k + 1 \in 0 .. m + 1
      <4>1. k \in Nat
        OBVIOUS
      <4>2. Pow2[k + 1] = 2 * Pow2[k]
        BY <4>1, Pow2Def
      <4> QED BY <3>1, <3>3, <4>2
    <3> QED BY <3>4
  <2>3. CASE u % 2 = 1
    <3>1. PICK h \in Nat : u = 2 * h + 1
      <4>1. u = 2 * (u \div 2) + 1 /\ u \div 2 \in Nat
        BY <2>3
      <4> QED BY <4>1
    <3>2. PICK g \in Nat : w = 2 * g
      <4> DEFINE t == h * w
                 uw == u * w
                 z == Pow2[m] - t
      <4>1. uw = 2 * t + w /\ t \in Nat
        BY <3>1
      <4>2. uw = 2 * Pow2[m]
        BY <2>1
      <4> DEFINE e == Pow2[m]
      <4>0. e \in Nat
        BY <2>1
      <4>3. w = 2 * z /\ z \in Int
        <5> HIDE DEF t, uw, e, D
        <5>1. z = e - t
          BY DEF e
        <5>2. uw = 2 * e
          BY <4>2 DEF e
        <5> HIDE DEF z
        <5> QED BY <4>0, <4>1, <5>1, <5>2
      <4> HIDE DEF z
      <4>4. z \in Nat
        BY <4>3
      <4> QED BY <4>3, <4>4
    <3>3. u * g = Pow2[m]
      <4>1. u * w = 2 * (u * g) /\ u * g \in Nat
        BY <3>2
      <4> QED BY <2>1, <4>1
    <3>4. PICK k \in 0 .. m : u = Pow2[k]
      BY <1>2, <3>3
    <3> QED BY <3>4
  <2> QED BY <2>2, <2>3
<1>3. Nat \subseteq D
  <2> HIDE DEF D
  <2> QED BY <1>1, <1>2, Upward
<1>4. n \in D
  BY <1>3
<1> QED BY <1>4
-----------------------------------------------------------------------------
(* A multiplier m that is a little more than p / c divides n by c.         *)
LEMMA Multiplier ==
  ASSUME NEW p \in Nat \ {0}, NEW c \in Nat \ {0}, NEW e \in Nat \ {0}, NEW m \in Nat,
         m * c = p + e,
         NEW n \in Nat, NEW q \in Nat, NEW r \in 0 .. c - 1, n = c * q + r
  PROVE  /\ n * e < (c - r) * p => (n * m) \div p = q
         /\ n # 0 /\ n * e =< (c - r) * p => (-(n * m)) \div p = -q - 1
<1> DEFINE nm == n * m
           np == n * p
           ne == n * e
           qp == q * p
           cr == (c - r) * p
<1>1. nm \in Nat /\ np \in Nat /\ ne \in Nat /\ qp \in Nat /\ cr \in Nat
  OBVIOUS
<1>2. nm * c = np + ne
  <2>1. nm * c = n * (m * c)
    OBVIOUS
  <2>2. n * (p + e) = np + ne
    OBVIOUS
  <2> QED BY <2>1, <2>2
<1>3. np = qp * c + r * p
  <2>1. (c * q + r) * p = (q * p) * c + r * p
    OBVIOUS
  <2> QED BY <2>1
<1>4. cr = c * p - r * p
  OBVIOUS
<1>5. r * p \in Nat /\ c * p \in Nat
  OBVIOUS
<1>6. nm * c = qp * c + r * p + ne
  BY <1>1, <1>2, <1>3, <1>5
<1>7. qp * c =< nm * c /\ (n # 0 => qp * c < nm * c)
  <2>1. n # 0 => ne > 0
    OBVIOUS
  <2> HIDE DEF nm, qp, ne, np
  <2>2. nm * c \in Nat /\ qp * c \in Nat
    BY <1>1
  <2> QED BY <1>1, <1>5, <1>6, <2>1, <2>2
<1>8. (qp + p) * c = qp * c + c * p
  <2> HIDE DEF qp
  <2> QED BY <1>1
<1>9. (ne < cr => nm * c < (qp + p) * c) /\ (ne =< cr => nm * c =< (qp + p) * c)
  <2>1. nm * c \in Nat /\ qp * c \in Nat /\ (qp + p) * c \in Nat
    BY <1>1
  <2> DEFINE x == nm * c
             y == qp * c
             z == (qp + p) * c
             rp == r * p
             cp == c * p
  <2> HIDE DEF nm, qp, ne, np, cr, x, y, z, rp, cp
  <2>2. x = y + rp + ne /\ cr = cp - rp /\ z = y + cp
    BY <1>4, <1>6, <1>8 DEF x, y, z, rp, cp
  <2>3. x \in Nat /\ y \in Nat /\ z \in Nat /\ rp \in Nat /\ cp \in Nat
    BY <1>5, <2>1 DEF x, y, z, rp, cp
  <2>4. (ne < cr => x < z) /\ (ne =< cr => x =< z)
    BY <1>1, <2>2, <2>3
  <2> QED BY <2>4 DEF x, z
<1>10. qp =< nm /\ (n # 0 => qp < nm) /\ (ne < cr => nm < qp + p) /\ (ne =< cr => nm =< qp + p)
  <2> HIDE DEF nm, qp, ne, np, cr
  <2>1. qp =< nm <=> qp * c =< nm * c
    BY <1>1, ScaledLess
  <2>2. qp < nm <=> qp * c < nm * c
    BY <1>1, ScaledLess
  <2>3. nm < qp + p <=> nm * c < (qp + p) * c
    BY <1>1, ScaledLess
  <2>4. nm =< qp + p <=> nm * c =< (qp + p) * c
    <3>1. qp + p < nm <=> (qp + p) * c < nm * c
      BY <1>1, ScaledLess
    <3>2. nm * c \in Nat /\ (qp + p) * c \in Nat
      BY <1>1
    <3> QED BY <1>1, <3>1, <3>2
  <2> QED BY <1>7, <1>9, <2>1, <2>2, <2>3, <2>4
<1>11. ASSUME ne < cr PROVE nm \div p = q
  <2>1. p * q = qp /\ p * (q + 1) = qp + p
    OBVIOUS
  <2> HIDE DEF nm, qp, ne, np, cr
  <2>2. p * q =< nm /\ nm < p * (q + 1)
    BY <1>10, <1>11, <2>1
  <2> QED BY <1>1, <2>2, Between
<1>12. ASSUME n # 0, ne =< cr PROVE (-nm) \div p = -q - 1
  <2>1. p * (-q - 1) = -qp - p /\ p * ((-q - 1) + 1) = -qp
    OBVIOUS
  <2> HIDE DEF nm, qp, ne, np, cr
  <2>2. p * (-q - 1) =< -nm /\ -nm < p * ((-q - 1) + 1)
    BY <1>1, <1>10, <1>12, <2>1
  <2>3. -nm \in Int /\ -q - 1 \in Int
    BY <1>1
  <2> QED BY <2>2, <2>3, Between
<1> QED BY <1>11, <1>12

(* The multiplier is near enough to p / c for every n up to a bound t when *)
(* it is for the largest number below t that leaves the remainder c - 1.   *)
LEMMA NearEnough ==
  ASSUME NEW p \in Nat \ {0}, NEW c \in Nat, c >= 2, NEW e \in Nat \ {0},
         NEW t \in Nat, t >= c, p > (t - 1 - (t % c)) * e,
         NEW n \in Nat, n =< t, n # t \/ t % c # c - 1
  PROVE  n * e < (c - (n % c)) * p
<1> DEFINE u == t \div c
           a == t - 1 - (t % c)
           r == n % c
           q == n \div c
<1>1. /\ u \in Nat /\ u >= 1 /\ t % c \in 0 .. c - 1 /\ t = c * u + (t % c)
      /\ q \in Nat /\ r \in 0 .. c - 1 /\ n = c * q + r
  OBVIOUS
<1> HIDE DEF u, q, r
<1>2. a = c * u - 1 /\ a \in Nat /\ a >= c - 1
  <2>1. c * u >= c
    BY <1>1
  <2> QED BY <1>1, <2>1
<1>3. p > a * e /\ a * e \in Nat
  BY <1>2
<1> DEFINE tr == t % c
<1> HIDE DEF a, tr
<1>4. CASE n =< a
  <2>1. n * e =< a * e
    BY <1>2, <1>4, Scaled
  <2>2. 1 * p =< (c - r) * p
    BY <1>1, Scaled
  <2>3. n * e \in Nat /\ (c - r) * p \in Nat
    BY <1>1
  <2>4. n * e < (c - r) * p
    BY <1>3, <2>1, <2>2, <2>3
  <2> QED BY <2>4 DEF r
<1>5. CASE n > a
  <2>1. c * u =< n /\ n < c * (u + 1)
    <3>1. c * (u + 1) = c * u + c /\ c * u \in Nat
      BY <1>1
    <3> QED BY <1>1, <1>2, <1>5, <3>1
  <2>2. q = u
    <3>1. c \in Nat \ {0} /\ n \in Int /\ u \in Int
      BY <1>1
    <3>2. n \div c = u
      BY <2>1, <3>1, Between
    <3> QED BY <3>2 DEF q
  <2>3. n = a + 1 + r
    BY <1>1, <1>2, <2>2
  <2>4. r =< tr /\ (n # t => r < tr)
    BY <1>1, <2>2 DEF tr
  <2>5. r =< c - 2
    BY <1>1, <2>4 DEF tr
  <2>6. (1 + r) * e =< a * e
    BY <1>1, <1>2, <2>5, Scaled
  <2>7. n * e = a * e + (1 + r) * e
    BY <1>1, <1>2, <2>3
  <2>8. 2 * p =< (c - r) * p
    BY <1>1, <2>5, Scaled
  <2>9. n * e \in Nat /\ (1 + r) * e \in Nat /\ (c - r) * p \in Nat
    BY <1>1
  <2>10. n * e < (c - r) * p
    BY <1>3, <2>6, <2>7, <2>8, <2>9
  <2> QED BY <2>10 DEF r
<1> QED BY <1>2, <1>4, <1>5

(* When that number is t itself and p a multiple of t, up to t as well.    *)
LEMMA NearEnoughAtEnd ==
  ASSUME NEW c \in Nat, c >= 2, NEW t \in Nat, t % c = c - 1,
         NEW k \in Nat \ {0}, k % c # 0
  PROVE  t * (c - ((t * k) % c)) =< t * k
<1> DEFINE u == t \div c
           w == k \div c
           r == k % c
<1>1. /\ u \in Nat /\ t = c * u + (c - 1)
      /\ w \in Nat /\ r \in 1 .. c - 1 /\ k = c * w + r
  OBVIOUS
<1> HIDE DEF u, w, r
<1>2. t * k = c * ((u + 1) * k - w - 1) + (c - r)
  <2>1. t = c * (u + 1) - 1
    BY <1>1
  <2>2. t * k = (c * (u + 1)) * k - k
    BY <1>1, <2>1
  <2>3. (c * (u + 1)) * k = c * ((u + 1) * k)
    BY <1>1
  <2> DEFINE v == (u + 1) * k
  <2>4. v \in Int
    BY <1>1
  <2>5. t * k = c * v - k
    BY <2>2, <2>3
  <2> HIDE DEF v
  <2>6. c * (v - w - 1) = c * v - c * w - c
    BY <1>1, <2>4
  <2>7. c * v \in Int /\ c * w \in Int
    BY <1>1, <2>4
  <2>8. t * k = c * (v - w - 1) + (c - r)
    BY <1>1, <2>5, <2>6, <2>7
  <2> QED BY <2>8 DEF v
<1>3. (t * k) % c = c - r
  <2>1. (u + 1) * k - w - 1 \in Int /\ c - r \in 0 .. c - 1 /\ t * k \in Int
    BY <1>1
  <2> HIDE DEF u
  <2> QED BY <1>2, <2>1, DivisionUnique
<1>4. r =< k
  BY <1>1
<1>5. t * r =< t * k
  BY <1>1, <1>4, Scaled
<1> QED BY <1>1, <1>3, <1>5

-----------------------------------------------------------------------------
(* Doubling what has been divided.                                         *)
LEMMA TwiceDivMod ==
  ASSUME NEW n \in Nat, NEW m \in Nat \ {0}
  PROVE  Twice(DivMod(n, m), m) = DivMod(2 * n, m)
<1> DEFINE q == n \div m
           r == n % m
           x == DivMod(n, m)
<1>1. q \in Int /\ r \in 0 .. m - 1 /\ n = m * q + r
  BY DivisionFacts
<1> HIDE DEF q, r
<1>2. x.q = q /\ x.r = r
  BY DEF DivMod, q, r
<1> HIDE DEF x
<1>3. CASE 2 * r >= m
  <2>1. 2 * n = m * (2 * q + 1) + (2 * r - m)
    <3>1. m * (2 * q + 1) = 2 * (m * q) + m
      BY <1>1
    <3>2. m * q \in Int
      BY <1>1
    <3> QED BY <1>1, <3>1, <3>2
  <2>2. 2 * r - m \in 0 .. m - 1 /\ 2 * q + 1 \in Int /\ 2 * n \in Int
    BY <1>1, <1>3
  <2>3. (2 * n) \div m = 2 * q + 1 /\ (2 * n) % m = 2 * r - m
    BY <2>1, <2>2, DivisionUnique
  <2> QED BY <1>2, <1>3, <2>3 DEF Twice, DivMod, x
<1>4. CASE ~(2 * r >= m)
  <2>1. 2 * n = m * (2 * q) + (2 * r)
    <3>1. m * (2 * q) = 2 * (m * q)
      BY <1>1
    <3>2. m * q \in Int
      BY <1>1
    <3> QED BY <1>1, <3>1, <3>2
  <2>2. 2 * r \in 0 .. m - 1 /\ 2 * q \in Int /\ 2 * n \in Int
    BY <1>1, <1>4
  <2>3. (2 * n) \div m = 2 * q /\ (2 * n) % m = 2 * r
    BY <2>1, <2>2, DivisionUnique
  <2> QED BY <1>2, <1>4, <2>3 DEF Twice, DivMod, x
<1> QED BY <1>3, <1>4

(* The divisors that need a magic number.                                  *)
Divisors == {c \in Words : NeedsMagic(c)}

LEMMA DivisorFacts ==
  ASSUME NEW d \in Divisors
  PROVE  /\ d \in Int /\ Magnitude(d) \in Nat /\ Magnitude(d) >= 3 /\ Magnitude(d) < Half
         /\ \A k \in Nat : Pow2[k] % Magnitude(d) # 0
<1> DEFINE c == Magnitude(d)
<1>1. d \in Words /\ c >= 3 /\ ~IsPow2(c)
  BY DEF Divisors, NeedsMagic
<1>2. d \in -Half .. Half - 1 /\ Half \in Nat
  BY <1>1, WidthFacts DEF Words
<1>3. c \in Nat /\ c =< Half
  BY <1>2 DEF Magnitude
<1>4. \A k \in Nat : c # Pow2[k]
  <2> SUFFICES ASSUME NEW k \in Nat, c = Pow2[k] PROVE FALSE
    OBVIOUS
  <2>1. k # 0
    BY <1>1, Pow2Def
  <2>2. k < Width
    <3>1. CASE k = Width
      BY <1>3, <3>1, WidthFacts
    <3>2. CASE k > Width
      <4>1. 2 * Pow2[Width] =< Pow2[k]
        BY <3>2, WidthFacts, Pow2Grows
      <4> QED BY <1>2, <1>3, <4>1, WidthFacts
    <3> QED BY <3>1, <3>2, WidthFacts
  <2>3. k \in 1 .. Width - 1
    BY <2>1, <2>2, WidthFacts
  <2> HIDE DEF c
  <2> QED BY <1>1, <2>3 DEF IsPow2
<1>5. c # Half
  <2>1. Half = Pow2[Width - 1] /\ Width - 1 \in Nat
    BY WidthFacts
  <2> HIDE DEF c
  <2> QED BY <1>4, <2>1
<1>6. ASSUME NEW k \in Nat, Pow2[k] % c = 0 PROVE FALSE
  <2> HIDE DEF c
  <2>1. Pow2[k] \in Nat
    BY Pow2Def
  <2>2. Pow2[k] = c * (Pow2[k] \div c) /\ Pow2[k] \div c \in Nat
    BY <1>1, <1>3, <1>6, <2>1
  <2>3. PICK j \in 0 .. k : c = Pow2[j]
    BY <1>3, <2>2, DivisorsOfPow2
  <2> QED BY <1>4, <2>3
<1> QED BY <1>1, <1>2, <1>3, <1>5, <1>6

(* The bound t on dividends, and Anc, the largest number below it that     *)
(* leaves the largest remainder.                                           *)
Reach(d) == IF d < 0 THEN Half + 1 ELSE Half

LEMMA AncFacts ==
  ASSUME NEW d \in Divisors
  PROVE  /\ Anc(d) = Reach(d) - 1 - (Reach(d) % Magnitude(d))
         /\ Anc(d) \in Nat \ {0} /\ Anc(d) =< Half
<1> DEFINE c == Magnitude(d)
           t == Reach(d)
<1>1. d \in Int /\ c \in Nat /\ c >= 3 /\ c < Half /\ Half \in Nat
  BY DivisorFacts, WidthFacts
<1>2. t \in Nat /\ t >= c /\ t =< Half + 1
  BY <1>1 DEF Reach
<1>3. Anc(d) = t - 1 - (t % c)
  BY DEF Anc, Reach
<1> HIDE DEF c, t
<1>4. t % c \in 0 .. c - 1 /\ t = c * (t \div c) + (t % c) /\ t \div c \in Nat
  BY <1>1, <1>2
<1>5. t \div c >= 1
  BY <1>1, <1>2
<1>6. c * (t \div c) >= c
  BY <1>1, <1>4, <1>5
<1>7. Anc(d) \in Nat \ {0} /\ Anc(d) =< Half
  BY <1>1, <1>2, <1>3, <1>4, <1>6
<1>8. Anc(d) = Reach(d) - 1 - (Reach(d) % Magnitude(d))
  BY <1>3 DEF c, t
<1> QED BY <1>7, <1>8

(* The loop, as a function of the exponent p it has reached.               *)
Reached(d, p) == [p |-> p, by1 |-> DivMod(Pow2[p], Anc(d)), by2 |-> DivMod(Pow2[p], Magnitude(d))]

Delta(d, p) == Magnitude(d) - (Pow2[p] % Magnitude(d))

CloseAt(d, p) == Pow2[p] > Anc(d) * Delta(d, p)

LEMMA CloseMeans ==
  ASSUME NEW d \in Divisors, NEW p \in Nat
  PROVE  Close(d, Reached(d, p)) <=> CloseAt(d, p)
<1> DEFINE x == Reached(d, p)
           a == Anc(d)
           n == Pow2[p]
           q == n \div a
           r == n % a
           e == Delta(d, p)
<1>1. a \in Nat \ {0} /\ n \in Nat /\ Magnitude(d) \in Nat \ {0}
  BY AncFacts, DivisorFacts, Pow2Def
<1>2. x.by1.q = q /\ x.by1.r = r /\ Magnitude(d) - x.by2.r = e
  BY DEF Reached, DivMod, Delta
<1>3. q \in Int /\ r \in 0 .. a - 1 /\ n = a * q + r
  <2> HIDE DEF a, n
  <2> QED BY <1>1, DivisionFacts
<1>4. e \in Int
  BY <1>1 DEF Delta
<1>5. Close(d, x) <=> ~(q < e \/ (q = e /\ r = 0))
  <2> HIDE DEF x, q, r, e
  <2> QED BY <1>2 DEF Close
<1> HIDE DEF x, a, n, q, r, e
<1>6. CASE q > e
  <2>1. a * e + a =< a * q
    <3>1. (e + 1) * a =< q * a
      BY <1>1, <1>3, <1>4, <1>6, Scaled
    <3> QED BY <1>1, <1>3, <1>4, <3>1
  <2>2. a * e \in Int /\ a * q \in Int
    BY <1>1, <1>3, <1>4
  <2>3. n > a * e
    BY <1>1, <1>3, <2>1, <2>2
  <2> QED BY <1>3, <1>4, <1>5, <1>6, <2>3 DEF CloseAt, a, n, e, x
<1>7. CASE q = e
  <2>1. a * e \in Int
    BY <1>1, <1>4
  <2>2. n > a * e <=> r # 0
    BY <1>1, <1>3, <1>7, <2>1
  <2> QED BY <1>3, <1>4, <1>5, <1>7, <2>2 DEF CloseAt, a, n, e, x
<1>8. CASE q < e
  <2>1. a * q + a =< a * e
    <3>1. (q + 1) * a =< e * a
      BY <1>1, <1>3, <1>4, <1>8, Scaled
    <3> QED BY <1>1, <1>3, <1>4, <3>1
  <2>2. a * e \in Int /\ a * q \in Int
    BY <1>1, <1>3, <1>4
  <2>3. ~(n > a * e)
    BY <1>1, <1>3, <2>1, <2>2
  <2> QED BY <1>3, <1>4, <1>5, <1>8, <2>3 DEF CloseAt, a, n, e, x
<1> QED BY <1>3, <1>4, <1>6, <1>7, <1>8

LEMMA DoubledReached ==
  ASSUME NEW d \in Divisors, NEW p \in Nat
  PROVE  Doubled(d, Reached(d, p)) = Reached(d, p + 1)
<1>1. Anc(d) \in Nat \ {0} /\ Magnitude(d) \in Nat \ {0} /\ Pow2[p] \in Nat
      /\ Pow2[p + 1] = 2 * Pow2[p]
  BY AncFacts, DivisorFacts, Pow2Def
<1>2. /\ Twice(DivMod(Pow2[p], Anc(d)), Anc(d)) = DivMod(2 * Pow2[p], Anc(d))
      /\ Twice(DivMod(Pow2[p], Magnitude(d)), Magnitude(d)) = DivMod(2 * Pow2[p], Magnitude(d))
  BY <1>1, TwiceDivMod
<1> QED BY <1>1, <1>2 DEF Doubled, Reached

(* The loop has come to p after k turns: not close just before, and close  *)
(* at p if it has stopped there.                                           *)
StandsAt(d, p, k) ==
  /\ p \in Width .. Width + k
  /\ p > Width => ~CloseAt(d, p - 1)
  /\ p = Width + k \/ CloseAt(d, p)

LEMMA LoopStands ==
  ASSUME NEW d \in Divisors
  PROVE  \A k \in Nat : \E p : StandsAt(d, p, k) /\ SignedLoop(d)[k] = Reached(d, p)
<1> DEFINE S == {Reached(d, p) : p \in Nat}
           G == [x \in S |-> [k \in Nat |-> IF Close(d, x) THEN x ELSE Doubled(d, x)]]
           s0 == Doubled(d, [p |-> Width - 1, by1 |-> DivMod(Half, Anc(d)),
                             by2 |-> DivMod(Half, Magnitude(d))])
           Is(f) == f = [k \in Nat |-> IF k = 0 THEN s0
                           ELSE IF Close(d, f[k - 1]) THEN f[k - 1] ELSE Doubled(d, f[k - 1])]
           loop == SignedLoop(d)
<1>1. s0 = Reached(d, Width) /\ Width \in Nat
  <2>1. [p |-> Width - 1, by1 |-> DivMod(Half, Anc(d)), by2 |-> DivMod(Half, Magnitude(d))]
          = Reached(d, Width - 1)
    BY WidthFacts DEF Reached
  <2>2. Width - 1 \in Nat /\ (Width - 1) + 1 = Width
    BY WidthFacts
  <2> QED BY <2>1, <2>2, DoubledReached
<1>2. \E f : Endless(f, S, s0, G)
  <2>1. \A x \in S : Doubled(d, x) \in S
    <3> TAKE x \in S
    <3>1. PICK p \in Nat : x = Reached(d, p)
      OBVIOUS
    <3>2. Doubled(d, x) = Reached(d, p + 1) /\ p + 1 \in Nat
      BY <3>1, DoubledReached
    <3> QED BY <3>2
  <2>2. s0 \in S
    BY <1>1
  <2> HIDE DEF S, s0
  <2>3. G \in [S -> [Nat -> S]]
    BY <2>1
  <2> HIDE DEF G
  <2> QED BY <2>2, <2>3, Forever
<1>3. \E f : Is(f)
  <2>1. PICK f : Endless(f, S, s0, G)
    BY <1>2
  <2> HIDE DEF s0, S
  <2>2. /\ f \in [Nat -> S] /\ f[0] = s0
        /\ \A k \in Nat : f[k + 1] = IF Close(d, f[k]) THEN f[k] ELSE Doubled(d, f[k])
    BY <2>1 DEF Endless
  <2>3. \A k \in Nat : f[k] = IF k = 0 THEN s0
                           ELSE IF Close(d, f[k - 1]) THEN f[k - 1] ELSE Doubled(d, f[k - 1])
    <3> TAKE k \in Nat
    <3>1. CASE k # 0
      <4>1. k - 1 \in Nat /\ (k - 1) + 1 = k
        BY <3>1
      <4> QED BY <2>2, <3>1, <4>1
    <3> QED BY <2>2, <3>1
  <2>4. Is(f)
    BY <2>2, <2>3
  <2> QED BY <2>4
<1>4. Is(loop)
  <2>1. loop = CHOOSE f : Is(f)
    BY DEF SignedLoop
  <2> HIDE DEF Is, loop
  <2> QED BY <1>3, <2>1
<1>5. loop[0] = s0
  <2> HIDE DEF s0, loop
  <2> QED BY <1>4
<1>6. ASSUME NEW k \in Nat
      PROVE  loop[k + 1] = IF Close(d, loop[k]) THEN loop[k] ELSE Doubled(d, loop[k])
  <2> HIDE DEF s0, loop
  <2>1. k + 1 \in Nat /\ k + 1 # 0 /\ (k + 1) - 1 = k
    OBVIOUS
  <2> QED BY <1>4, <2>1
<1> HIDE DEF S, G, s0, Is, loop
<1> DEFINE D == {k \in Nat : \E p : StandsAt(d, p, k) /\ loop[k] = Reached(d, p)}
<1>7. 0 \in D
  <2>1. StandsAt(d, Width, 0)
    BY <1>1 DEF StandsAt
  <2> QED BY <1>1, <1>5, <2>1
<1>8. ASSUME NEW k \in Nat, k \in D PROVE k + 1 \in D
  <2>1. PICK p : StandsAt(d, p, k) /\ loop[k] = Reached(d, p)
    BY <1>8
  <2>2. p \in Nat /\ p \in Width .. Width + k
    BY <1>1, <2>1 DEF StandsAt
  <2>3. CASE CloseAt(d, p)
    <3>1. loop[k + 1] = Reached(d, p)
      BY <1>6, <2>1, <2>2, <2>3, CloseMeans
    <3>2. StandsAt(d, p, k + 1)
      BY <1>1, <2>1, <2>2, <2>3 DEF StandsAt
    <3> QED BY <3>1, <3>2
  <2>4. CASE ~CloseAt(d, p)
    <3>1. loop[k + 1] = Reached(d, p + 1)
      BY <1>6, <2>1, <2>2, <2>4, CloseMeans, DoubledReached
    <3>2. p = Width + k /\ (p + 1) - 1 = p
      BY <2>1, <2>2, <2>4 DEF StandsAt
    <3>3. StandsAt(d, p + 1, k + 1)
      BY <1>1, <2>4, <3>2 DEF StandsAt
    <3> QED BY <3>1, <3>3
  <2> QED BY <2>3, <2>4
<1>9. Nat \subseteq D
  <2> HIDE DEF D
  <2> QED BY <1>7, <1>8, Upward
<1> QED BY <1>9 DEF loop

LEMMA CloseInTime ==
  ASSUME NEW d \in Divisors, NEW p \in Nat, p >= 2 * Width - 2
  PROVE  CloseAt(d, p)
<1> DEFINE c == Magnitude(d)
           a == Anc(d)
           e == Delta(d, p)
<1>1. c \in Nat /\ c >= 3 /\ c < Half /\ a \in Nat \ {0} /\ a =< Half /\ Half \in Nat
  BY DivisorFacts, AncFacts, WidthFacts
<1>2. e \in Nat /\ e =< c
  <2>1. Pow2[p] \in Nat
    BY Pow2Def
  <2> HIDE DEF c
  <2>2. Pow2[p] % c \in 0 .. c - 1
    BY <1>1, <2>1
  <2> QED BY <1>1, <2>2 DEF Delta, c
<1>3. Pow2[2 * Width - 2] = Half * Half
  <2>1. Width - 1 \in Nat /\ (Width - 1) + (Width - 1) = 2 * Width - 2
    BY WidthFacts
  <2>2. Pow2[(Width - 1) + (Width - 1)] = Half * Half
    BY <2>1, Pow2Sum, WidthFacts
  <2> QED BY <2>1, <2>2
<1>4. Pow2[p] >= Half * Half
  <2>1. 2 * Width - 2 \in Nat
    BY WidthFacts
  <2>2. CASE p = 2 * Width - 2
    <3>1. Half * Half \in Nat
      BY <1>1
    <3> QED BY <1>3, <2>2, <3>1
  <2>3. CASE p # 2 * Width - 2
    <3>1. 2 * Pow2[2 * Width - 2] =< Pow2[p]
      BY <2>1, <2>3, Pow2Grows
    <3>2. Half * Half \in Nat /\ Pow2[p] \in Nat
      BY <1>1, Pow2Def
    <3> QED BY <1>3, <3>1, <3>2
  <2> QED BY <2>2, <2>3
<1> HIDE DEF c, a, e
<1>5. a * e < Half * Half
  <2>1. a * e =< Half * e
    BY <1>1, <1>2, Scaled
  <2>2. e < Half /\ Half \in Nat \ {0}
    BY <1>1, <1>2
  <2>3. e * Half < Half * Half
    BY <1>2, <2>2, ScaledLess
  <2>4. a * e \in Nat /\ Half * e \in Nat /\ e * Half = Half * e /\ Half * Half \in Nat
    BY <1>1, <1>2
  <2> QED BY <2>1, <2>3, <2>4
<1>6. Pow2[p] \in Nat /\ a * e \in Nat /\ Half * Half \in Nat
  BY <1>1, <1>2, Pow2Def
<1>7. Pow2[p] > a * e
  BY <1>4, <1>5, <1>6
<1> QED BY <1>7 DEF CloseAt, a, e

(* What signedMagic returns: a shift that fits and a multiplier below      *)
(* 2^Width, wrapped, and negated for a negative divisor.                   *)
Multiplies(d, p, m) ==
  /\ p \in Width .. 2 * Width - 2
  /\ m \in 1 .. 2 * Half - 2
  /\ m * Magnitude(d) = Pow2[p] + Delta(d, p)
  /\ CloseAt(d, p)
  /\ SignedMagic[d] = [M |-> IF d < 0 THEN Wrap(-Wrap(m)) ELSE Wrap(m), s |-> p - Width]

LEMMA DeltaFacts ==
  ASSUME NEW d \in Divisors, NEW p \in Nat
  PROVE  /\ Delta(d, p) \in 1 .. Magnitude(d) - 1
         /\ (Pow2[p] \div Magnitude(d) + 1) * Magnitude(d) = Pow2[p] + Delta(d, p)
         /\ Pow2[p] \div Magnitude(d) \in Nat
<1> DEFINE c == Magnitude(d)
           n == Pow2[p]
<1>1. c \in Nat /\ c >= 3 /\ n \in Nat /\ n % c # 0
  BY DivisorFacts, Pow2Def
<1> HIDE DEF c, n
<1>2. n % c \in 0 .. c - 1 /\ n = c * (n \div c) + (n % c) /\ n \div c \in Nat
  BY <1>1
<1>3. (n \div c + 1) * c = c * (n \div c) + c
  BY <1>1, <1>2
<1>4. c * (n \div c) \in Nat
  BY <1>1, <1>2
<1>5. Delta(d, p) = c - (n % c)
  BY DEF Delta, c, n
<1> DEFINE e == Delta(d, p)
<1> HIDE DEF e
<1>6. e \in 1 .. c - 1 /\ (n \div c + 1) * c = n + e /\ n \div c \in Nat
  BY <1>1, <1>2, <1>3, <1>4, <1>5 DEF e
<1>7. Delta(d, p) \in 1 .. c - 1 /\ (n \div c + 1) * c = n + Delta(d, p) /\ n \div c \in Nat
  BY <1>6 DEF e
<1> QED BY ONLY <1>7 DEF c, n

LEMMA MagicFacts ==
  ASSUME NEW d \in Divisors
  PROVE  \E p, m : Multiplies(d, p, m)
<1> DEFINE c == Magnitude(d)
           a == Anc(d)
<1>1. c \in Nat /\ c >= 3 /\ c < Half /\ a \in Nat \ {0} /\ a =< Half /\ Half \in Nat
      /\ Width \in Nat /\ Width >= 2
  BY DivisorFacts, AncFacts, WidthFacts
<1>2. PICK p : StandsAt(d, p, Width) /\ SignedLoop(d)[Width] = Reached(d, p)
  BY <1>1, LoopStands
<1>3. p \in Nat /\ p \in Width .. Width + Width
  BY <1>1, <1>2 DEF StandsAt
<1>4. CloseAt(d, p)
  <2>1. CASE p = Width + Width
    BY <1>1, <1>3, <2>1, CloseInTime
  <2>2. CASE p # Width + Width
    BY <1>2, <2>2 DEF StandsAt
  <2> QED BY <2>1, <2>2
<1>5. p =< 2 * Width - 2
  <2> SUFFICES ASSUME p > 2 * Width - 2 PROVE FALSE
    BY <1>1, <1>3
  <2>1. p - 1 \in Nat /\ p - 1 >= 2 * Width - 2 /\ p > Width
    BY <1>1, <1>3
  <2>2. CloseAt(d, p - 1)
    BY <2>1, CloseInTime
  <2> QED BY <1>2, <2>1, <2>2 DEF StandsAt
<1> DEFINE q == Pow2[p] \div c
           m == q + 1
<1>6. q \in Nat /\ m * c = Pow2[p] + Delta(d, p) /\ q * c =< Pow2[p]
  <2>1. Delta(d, p) \in 1 .. c - 1 /\ m * c = Pow2[p] + Delta(d, p) /\ q \in Nat
    BY <1>3, DeltaFacts
  <2>2. Pow2[p] \in Nat
    BY <1>3, Pow2Def
  <2> HIDE DEF q, c
  <2>3. m * c = q * c + c /\ q * c \in Nat
    BY <1>1, <2>1
  <2> HIDE DEF m
  <2> QED BY <1>1, <2>1, <2>2, <2>3
<1> HIDE DEF q
<1>7. m =< 2 * Half - 2
  <2>1. CASE p = Width
    <3>1. q * 3 =< q * c
      BY <1>1, <1>6
    <3>2. q * 3 =< 2 * Half
      <4>1. q * c \in Nat
        BY <1>1, <1>6
      <4> QED BY <1>6, <2>1, <3>1, <4>1, WidthFacts
    <3> QED BY <1>1, <1>6, <3>2
  <2>2. CASE p # Width
    <3> DEFINE e == Delta(d, p - 1)
               n == Pow2[p - 1]
    <3>1. p - 1 \in Nat /\ p > Width /\ (p - 1) + 1 = p
      BY <1>1, <1>3, <2>2
    <3>2. e \in 1 .. c - 1 /\ n \in Nat /\ Pow2[p] = 2 * n
      BY <3>1, DeltaFacts, Pow2Def
    <3>3. ~(n > a * e)
      BY <1>2, <3>1 DEF StandsAt, CloseAt
    <3> HIDE DEF a, e, n, c
    <3>4. a * e =< Half * e
      BY <1>1, <3>2, Scaled
    <3>5. Half * e =< Half * (c - 1)
      BY <1>1, <3>2, Scaled
    <3>6. a * e \in Nat /\ Half * e \in Nat /\ q * c \in Nat /\ Half * (c - 1) = Half * c - Half
          /\ Half * c \in Nat
      BY <1>1, <1>6, <3>2
    <3>7. q * c =< 2 * (Half * c) - 2 * Half
      BY <1>1, <1>6, <3>2, <3>3, <3>4, <3>5, <3>6
    <3>8. (2 * Half - 2) * c = 2 * (Half * c) - 2 * c
      BY <1>1
    <3>9. q * c < (2 * Half - 2) * c
      BY <1>1, <3>6, <3>7, <3>8
    <3>10. q < 2 * Half - 2
      BY <1>1, <1>6, <3>9, ScaledLess
    <3> QED BY <1>1, <1>6, <3>10
  <2> QED BY <2>1, <2>2
<1>8. SignedMagic[d] = [M |-> IF d < 0 THEN Wrap(-Wrap(m)) ELSE Wrap(m), s |-> p - Width]
  <2>1. Reached(d, p).by2.q = q /\ Reached(d, p).p = p
    BY DEF Reached, DivMod, q
  <2> DEFINE end == SignedLoop(d)[Width]
  <2>2. end.by2.q + 1 = m /\ end.p = p
    BY <1>2, <2>1
  <2>3. d \in {k \in Words : NeedsMagic(k)}
    BY DEF Divisors
  <2> HIDE DEF m, c
  <2>4. SignedMagic[d] = [M |-> IF d < 0 THEN Wrap(-Wrap(end.by2.q + 1)) ELSE Wrap(end.by2.q + 1),
                          s |-> end.p - Width]
    BY <2>3 DEF SignedMagic
  <2> HIDE DEF end
  <2> QED BY <2>2, <2>4
<1>9. m \in 1 .. 2 * Half - 2 /\ p \in Width .. 2 * Width - 2
  BY <1>1, <1>3, <1>5, <1>6, <1>7
<1>10. m * Magnitude(d) = Pow2[p] + Delta(d, p)
  BY <1>6
<1> HIDE DEF m
<1>11. Multiplies(d, p, m)
  BY <1>4, <1>8, <1>9, <1>10 DEF Multiplies
<1> QED BY <1>11

(* Multiplying by m and shifting divides, but for a quotient below zero,   *)
(* which comes out one too small.                                          *)
LEMMA MultipliedQuotient ==
  ASSUME NEW d \in Divisors, NEW p, NEW m, Multiplies(d, p, m), NEW n \in Nat, n =< Half
  PROVE  /\ n < Reach(d) => (n * m) \div Pow2[p] = n \div Magnitude(d)
         /\ n # 0 => (-(n * m)) \div Pow2[p] = -(n \div Magnitude(d)) - 1
<1> DEFINE c == Magnitude(d)
           t == Reach(d)
           e == Delta(d, p)
           q == n \div c
           r == n % c
           pw == Pow2[p]
<1>1. c \in Nat /\ c >= 3 /\ c < Half /\ Half \in Nat /\ d \in Int
      /\ Width \in Nat /\ Width >= 2 /\ Half = Pow2[Width - 1]
  BY DivisorFacts, WidthFacts
<1>2. p \in Nat /\ p >= Width /\ m \in Nat /\ m * c = pw + e /\ CloseAt(d, p)
  BY <1>1 DEF Multiplies
<1>3. pw \in Nat \ {0} /\ e \in Nat \ {0} /\ c >= 2
  <2>1. pw \in Nat \ {0}
    BY <1>2, Pow2Def
  <2>2. e \in 1 .. c - 1
    BY <1>2, DeltaFacts
  <2> HIDE DEF c, e
  <2> QED BY <1>1, <2>1, <2>2
<1>4. t \in Nat /\ t >= c /\ t >= Half
  BY <1>1 DEF Reach
<1>5. Anc(d) = t - 1 - (t % c)
  BY AncFacts
<1>6. pw > (t - 1 - (t % c)) * e
  <2> HIDE DEF t, c, e, pw
  <2> QED BY <1>2, <1>5 DEF CloseAt, e, pw
<1>7. q \in Nat /\ r \in 0 .. c - 1 /\ n = c * q + r
  <2> HIDE DEF c
  <2> QED BY <1>1
<1> HIDE DEF c, t, e, q, r, pw
<1>8. ASSUME n # t \/ t % c # c - 1 PROVE n * e < (c - r) * pw
  <2>1. n =< t
    BY <1>1, <1>4
  <2>2. n * e < (c - (n % c)) * pw
    BY <1>1, <1>3, <1>4, <1>6, <1>8, <2>1, NearEnough, Zenon
  <2> QED BY <2>2 DEF r
<1>9. ASSUME n = t, t % c = c - 1 PROVE n * e =< (c - r) * pw
  <2>1. n = Half /\ t = Half
    BY <1>1, <1>4, <1>9
  <2> DEFINE k == Pow2[p - (Width - 1)]
  <2>2. k \in Nat \ {0} /\ k % c # 0 /\ pw = t * k
    <3>1. p - (Width - 1) \in Nat /\ (Width - 1) + (p - (Width - 1)) = p /\ Width - 1 \in Nat
      BY <1>1, <1>2
    <3>2. k \in Nat \ {0} /\ k % c # 0
      BY <3>1, Pow2Def, DivisorFacts DEF c
    <3>3. Pow2[p] = Pow2[Width - 1] * k
      BY <3>1, Pow2Sum
    <3> HIDE DEF k
    <3> QED BY <1>1, <2>1, <3>2, <3>3 DEF pw
  <2> HIDE DEF k
  <2>3. t * (c - ((t * k) % c)) =< t * k
    BY <1>1, <1>3, <1>4, <1>9, <2>2, NearEnoughAtEnd, Zenon
  <2>4. e = c - ((t * k) % c)
    BY <2>2 DEF e, Delta, pw, c
  <2>5. n * e =< pw
    BY <1>9, <2>2, <2>3, <2>4
  <2>6. 1 * pw =< (c - r) * pw
    BY <1>1, <1>3, <1>7, Scaled
  <2>7. n * e \in Nat /\ (c - r) * pw \in Nat
    BY <1>1, <1>3, <1>7
  <2> QED BY <1>3, <2>5, <2>6, <2>7
<1>10. n * e \in Nat /\ (c - r) * pw \in Nat
  BY <1>1, <1>3, <1>7
<1>11. /\ n * e < (c - r) * pw => (n * m) \div pw = q
       /\ n # 0 /\ n * e =< (c - r) * pw => (-(n * m)) \div pw = -q - 1
  BY <1>1, <1>2, <1>3, <1>7, Multiplier
<1>12. n < t => (n * m) \div pw = q
  BY <1>4, <1>8, <1>11
<1>13. n # 0 => (-(n * m)) \div pw = -q - 1
  BY <1>8, <1>9, <1>10, <1>11
<1> QED BY <1>12, <1>13 DEF t, pw, q, c

(* The multiplier with the sign of the divisor.                            *)
Signed(d, m) == IF d < 0 THEN -m ELSE m

LEMMA SignedQuotient ==
  ASSUME NEW d \in Divisors, NEW p, NEW m, Multiplies(d, p, m), NEW x \in Words
  PROVE  LET y == (x * Signed(d, m)) \div Pow2[p]
         IN  y \in Int /\ y + Truth(y < 0) = TruncDiv(x, d)
<1> DEFINE y == (x * Signed(d, m)) \div Pow2[p]
           n == Magnitude(x)
           c == Magnitude(d)
           q == n \div c
<1>1. /\ x \in Int /\ -Half =< x /\ x < Half /\ Half \in Nat /\ m \in Nat /\ m # 0
      /\ d \in Int /\ d # 0 /\ p \in Nat
  BY DivisorFacts, WidthFacts DEF Words, Multiplies, Magnitude
<1>2. c \in Nat /\ c >= 3 /\ Pow2[p] \in Nat \ {0}
  BY <1>1, DivisorFacts, Pow2Def
<1>3. n \in Nat /\ n =< Half /\ (x >= 0 => n = x /\ n < Half) /\ (x < 0 => n = -x)
  BY <1>1 DEF Magnitude
<1>4. q \in Nat
  <2> HIDE DEF n, c
  <2> QED BY <1>2, <1>3
<1>5. /\ n < Reach(d) => (n * m) \div Pow2[p] = q
      /\ n # 0 => (-(n * m)) \div Pow2[p] = -q - 1
  <2> HIDE DEF n
  <2> QED BY <1>3, MultipliedQuotient
<1>6. TruncDiv(x, d) = IF (x < 0) = (d < 0) THEN q ELSE -q
  BY DEF TruncDiv
<1> HIDE DEF n, c, q
<1>7. x * Signed(d, m) = IF (x < 0) = (d < 0) THEN n * m ELSE -(n * m)
  <2>1. CASE x < 0 /\ d < 0
    BY <1>1, <1>3, <2>1 DEF Signed
  <2>2. CASE x < 0 /\ ~(d < 0)
    BY <1>1, <1>3, <2>2 DEF Signed
  <2>3. CASE ~(x < 0) /\ d < 0
    BY <1>1, <1>3, <2>3 DEF Signed
  <2>4. CASE ~(x < 0) /\ ~(d < 0)
    BY <1>1, <1>3, <2>4 DEF Signed
  <2> QED BY <2>1, <2>2, <2>3, <2>4
<1>8. CASE (x < 0) = (d < 0)
  <2>1. n < Reach(d)
    BY <1>1, <1>3, <1>8 DEF Reach
  <2>2. y = q
    BY <1>5, <1>7, <1>8, <2>1
  <2> HIDE DEF y
  <2>3. y \in Int /\ y + Truth(y < 0) = q
    BY <1>4, <2>2 DEF Truth
  <2> QED BY <1>6, <1>8, <2>3 DEF y
<1>9. CASE (x < 0) # (d < 0) /\ n # 0
  <2>1. y = -q - 1
    BY <1>5, <1>7, <1>9
  <2> HIDE DEF y
  <2>2. y \in Int /\ y + Truth(y < 0) = -q
    BY <1>4, <2>1 DEF Truth
  <2> QED BY <1>6, <1>9, <2>2 DEF y
<1>10. CASE (x < 0) # (d < 0) /\ n = 0
  <2>1. n < Reach(d) /\ -(n * m) = 0 /\ n * m = 0
    BY <1>1, <1>3, <1>10 DEF Reach
  <2>2. y = q
    BY <1>5, <1>7, <1>10, <2>1
  <2>3. q = 0
    BY <1>2, <1>10 DEF q
  <2> HIDE DEF y
  <2>4. y = 0
    BY <2>2, <2>3
  <2>6. 0 - q = 0 /\ q \in Int
    BY <1>4, <2>3
  <2>5. y \in Int /\ y + Truth(y < 0) = -q
    BY <2>4, <2>6 DEF Truth
  <2> QED BY <1>6, <1>10, <2>5 DEF y
<1> QED BY <1>8, <1>9, <1>10

-----------------------------------------------------------------------------
(* Words, modulo 2^Width.                                                  *)
LEMMA WrapIs ==
  ASSUME NEW x \in Int, NEW y \in Words, NEW k \in Int, x = y + k * (2 * Half)
  PROVE  Wrap(x) = y
<1> DEFINE h == 2 * Half
<1>1. h \in Nat \ {0} /\ y \in Int /\ y + Half \in 0 .. h - 1 /\ Half \in Nat
  BY WidthFacts DEF Words
<1>2. x + Half = h * k + (y + Half)
  <2>1. k * h = h * k
    BY <1>1
  <2> QED BY <1>1, <2>1
<1> HIDE DEF h
<1>3. (x + Half) % h = y + Half
  <2> DEFINE z == x + Half
             r == y + Half
  <2>1. z \in Int /\ r \in 0 .. h - 1 /\ z = h * k + r
    BY <1>1, <1>2
  <2> HIDE DEF z, r
  <2>2. z % h = r
    BY <1>1, <2>1, DivisionUnique
  <2> QED BY <2>2 DEF z, r
<1>4. Wrap(x) = ((x + Half) % h) - Half
  BY DEF Wrap, h
<1> QED BY <1>1, <1>3, <1>4

LEMMA WrapBy ==
  ASSUME NEW x \in Int
  PROVE  Wrap(x) \in Words /\ \E k \in Int : x = Wrap(x) + k * (2 * Half)
<1> DEFINE h == 2 * Half
           z == x + Half
           k == z \div h
           r == z % h
<1>1. h \in Nat \ {0} /\ Half \in Nat /\ z \in Int
  BY WidthFacts
<1>2. Wrap(x) = r - Half
  BY DEF Wrap
<1>3. k \in Int /\ r \in 0 .. h - 1 /\ z = h * k + r
  <2> HIDE DEF h, z
  <2> QED BY <1>1, DivisionFacts
<1>4. x = z - Half
  BY <1>1
<1> HIDE DEF z, k, r
<1>5. Wrap(x) \in Words
  BY <1>1, <1>2, <1>3 DEF Words
<1> HIDE DEF h
<1>6. h * k = k * h /\ h * k \in Int
  BY <1>1, <1>3
<1>7. x = Wrap(x) + k * h
  BY <1>1, <1>2, <1>3, <1>4, <1>6
<1> QED BY <1>3, <1>5, <1>7 DEF h

LEMMA WrapWord ==
  ASSUME NEW x \in Words
  PROVE  Wrap(x) = x
<1>1. x \in Int /\ 0 * (2 * Half) = 0
  BY WidthFacts DEF Words
<1>2. x = x + 0 * (2 * Half)
  BY <1>1
<1> QED BY <1>1, <1>2, WrapIs

LEMMA WrapSame ==
  ASSUME NEW x \in Int, NEW y \in Int, NEW k \in Int, x = y + k * (2 * Half)
  PROVE  Wrap(x) = Wrap(y)
<1> DEFINE h == 2 * Half
           w == Wrap(y)
<1>1. PICK j \in Int : y = w + j * h
  BY WrapBy
<1>2. w \in Words
  BY WrapBy
<1>3. w \in Int /\ h \in Int
  BY <1>2, WidthFacts DEF Words
<1>4. x = y + k * h
  OBVIOUS
<1> HIDE DEF h, w
<1>5. (j + k) * h = j * h + k * h /\ j * h \in Int /\ k * h \in Int
  BY <1>1, <1>3
<1>6. x = w + (j + k) * h /\ j + k \in Int
  BY <1>1, <1>3, <1>4, <1>5
<1> QED BY <1>2, <1>6, WrapIs DEF h, w

(* Results may be wrapped early.                                           *)
LEMMA WrapEarly ==
  ASSUME NEW x \in Int, NEW y \in Int
  PROVE  /\ Wrap(Wrap(x) + y) = Wrap(x + y)
         /\ Wrap(y - Wrap(x)) = Wrap(y - x)
         /\ Wrap(Wrap(x) - y) = Wrap(x - y)
         /\ Wrap(-Wrap(x)) = Wrap(-x)
<1> DEFINE h == 2 * Half
           w == Wrap(x)
<1>1. PICK k \in Int : x = w + k * h
  BY WrapBy
<1>2. w \in Int /\ h \in Int
  <2>1. w \in Words
    BY WrapBy
  <2> QED BY <2>1, WidthFacts DEF Words
<1> HIDE DEF w, h
<1>3. k * h \in Int /\ (-k) * h = -(k * h) /\ -k \in Int
  BY <1>1, <1>2
<1>4. /\ w + y = (x + y) + (-k) * h /\ y - w = (y - x) + k * h /\ w - y = (x - y) + (-k) * h
      /\ -w = (-x) + k * h
  BY <1>1, <1>2, <1>3
<1>5. /\ w + y \in Int /\ x + y \in Int /\ y - w \in Int /\ y - x \in Int /\ -w \in Int /\ -x \in Int
      /\ w - y \in Int /\ x - y \in Int
  BY <1>1, <1>2
<1> QED BY <1>1, <1>3, <1>4, <1>5, WrapSame DEF w, h

LEMMA WrapZero ==
  ASSUME NEW x \in Words, NEW y \in Words
  PROVE  Wrap(x - y) = 0 <=> x = y
<1> DEFINE h == 2 * Half
<1>1. /\ x \in Int /\ y \in Int /\ x - y \in Int /\ Half \in Nat /\ Half >= 2 /\ 0 \in Words
      /\ x - y < h /\ -h < x - y /\ h \in Nat \ {0}
  BY WidthFacts DEF Words
<1>2. ASSUME Wrap(x - y) = 0 PROVE x = y
  <2>1. PICK k \in Int : x - y = Wrap(x - y) + k * h
    BY <1>1, WrapBy
  <2> HIDE DEF h
  <2>2. k * h \in Int
    BY <1>1, <2>1
  <2>3. x - y = k * h
    BY <1>1, <1>2, <2>1, <2>2
  <2>4. ~(1 =< k) /\ ~(k =< -1)
    <3>1. 1 =< k => 1 * h =< k * h
      BY <1>1, <2>1, Scaled
    <3>2. k =< -1 => k * h =< (-1) * h
      BY <1>1, <2>1, Scaled
    <3> QED BY <1>1, <2>3, <3>1, <3>2
  <2>5. k = 0
    BY <2>1, <2>4
  <2> QED BY <1>1, <2>3, <2>5
<1>3. ASSUME x = y PROVE Wrap(x - y) = 0
  <2>1. x - y = 0
    BY <1>1, <1>3
  <2> QED BY <1>1, <2>1, WrapWord
<1> QED BY <1>2, <1>3

(* The logarithm of a power of two.                                        *)
LEMMA Log2Facts ==
  ASSUME NEW n, IsPow2(n)
  PROVE  Log2(n) \in 1 .. Width - 1 /\ Pow2[Log2(n)] = n /\ n \in Nat /\ n >= 2
<1>1. PICK k \in 1 .. Width - 1 : n = Pow2[k]
  BY DEF IsPow2
<1>2. k \in 0 .. Width - 1 /\ k \in Nat /\ k >= 1
  BY WidthFacts
<1>3. Log2(n) \in 0 .. Width - 1 /\ n = Pow2[Log2(n)]
  BY <1>1, <1>2 DEF Log2
<1>4. Log2(n) = k
  BY <1>1, <1>2, <1>3, Pow2Unique, WidthFacts
<1>5. n \in Nat /\ n >= 2
  <2>1. k - 1 \in Nat /\ (k - 1) + 1 = k
    BY <1>2
  <2>2. Pow2[k - 1] \in Nat \ {0} /\ Pow2[k] = 2 * Pow2[k - 1]
    BY <2>1, Pow2Def
  <2> QED BY <1>1, <2>2
<1> QED BY <1>1, <1>4, <1>5

-----------------------------------------------------------------------------
(* Shifts.                                                                 *)
LEMMA SignBit ==
  ASSUME NEW x \in Words
  PROVE  /\ Wrap(Unsigned(x) \div Pow2[Width - 1]) = Truth(x < 0)
         /\ x \div Pow2[Width - 1] = IF x < 0 THEN -1 ELSE 0
<1>1. x \in Int /\ -Half =< x /\ x < Half /\ Half \in Nat /\ Half >= 2 /\ Pow2[Width - 1] = Half
      /\ 0 \in Words /\ 1 \in Words
  BY WidthFacts DEF Words
<1>2. CASE x < 0
  <2>1. x = (2 * Half) * (-1) + (x + 2 * Half) /\ x + 2 * Half \in 0 .. 2 * Half - 1
    BY <1>1, <1>2
  <2>2. Unsigned(x) = x + 2 * Half
    <3> DEFINE h == 2 * Half
               u == x + h
    <3>1. h \in Nat \ {0} /\ u \in 0 .. h - 1 /\ x = h * (-1) + u
      BY <1>1, <2>1
    <3> HIDE DEF h, u
    <3>2. x % h = u
      BY <1>1, <3>1, DivisionUnique
    <3> QED BY <3>2 DEF Unsigned, h, u
  <2>3. (x + 2 * Half) \div Half = 1
    <3>1. Half * 1 =< x + 2 * Half /\ x + 2 * Half < Half * (1 + 1)
      BY <1>1, <1>2
    <3>2. x + 2 * Half \in Int /\ Half \in Nat \ {0}
      BY <1>1
    <3> QED BY <3>1, <3>2, Between
  <2>4. x \div Half = -1
    <3>1. Half * (-1) =< x /\ x < Half * (-1 + 1)
      BY <1>1, <1>2
    <3>2. Half \in Nat \ {0} /\ -1 \in Int
      BY <1>1
    <3> QED BY <1>1, <3>1, <3>2, Between
  <2>5. Truth(x < 0) = 1
    BY <1>2 DEF Truth
  <2> QED BY <1>1, <1>2, <2>2, <2>3, <2>4, <2>5, WrapWord
<1>3. CASE ~(x < 0)
  <2>1. Unsigned(x) = x
    BY <1>1, <1>3 DEF Unsigned
  <2>2. x \div Half = 0
    BY <1>1, <1>3
  <2>3. Truth(x < 0) = 0
    BY <1>3 DEF Truth
  <2> QED BY <1>1, <1>3, <2>1, <2>2, <2>3, WrapWord
<1> QED BY <1>2, <1>3

LEMMA ShiftRight ==
  ASSUME NEW x \in Words, NEW k \in Nat
  PROVE  x \div Pow2[k] \in Words
<1> DEFINE n == Pow2[k]
<1>1. x \in Int /\ -Half =< x /\ x < Half /\ Half \in Nat /\ n \in Nat \ {0}
  BY WidthFacts, Pow2Def DEF Words
<1> HIDE DEF n
<1> DEFINE q == x \div n
<1>2. q \in Int /\ n * q =< x /\ x < n * q + n
  BY <1>1
<1> HIDE DEF q
<1>3. -Half =< q
  <2> SUFFICES ASSUME q < -Half PROVE FALSE
    BY <1>1, <1>2
  <2>1. (q + 1) * n =< (-Half) * n
    BY <1>1, <1>2, Scaled
  <2>2. 1 * Half =< n * Half
    BY <1>1, Scaled
  <2>3. (-Half) * n = -(n * Half) /\ (q + 1) * n = n * q + n /\ n * Half \in Int /\ n * q \in Int
    BY <1>1, <1>2
  <2> QED BY <1>1, <1>2, <2>1, <2>2, <2>3
<1>4. q < Half
  <2> SUFFICES ASSUME q >= Half PROVE FALSE
    BY <1>1, <1>2
  <2>1. Half * n =< q * n
    BY <1>1, <1>2, Scaled
  <2>2. 1 * Half =< n * Half
    BY <1>1, Scaled
  <2>3. Half * n = n * Half /\ q * n = n * q /\ n * Half \in Int /\ n * q \in Int
    BY <1>1, <1>2
  <2> QED BY <1>1, <1>2, <2>1, <2>2, <2>3
<1> QED BY <1>1, <1>2, <1>3, <1>4 DEF q, n, Words

(* The bias that makes a shift round towards zero.                         *)
LEMMA AllOnes ==
  ASSUME NEW k \in 1 .. Width - 1
  PROVE  /\ Wrap(Unsigned(-1) \div Pow2[Width - k]) = Pow2[k] - 1
         /\ Pow2[k] \in Nat /\ Pow2[k] >= 2 /\ Pow2[k] =< Half
<1>1. /\ k \in Nat /\ k >= 1 /\ Width - k \in Nat /\ k + (Width - k) = Width /\ Width - 1 \in Nat
      /\ Half \in Nat /\ Half >= 2 /\ Pow2[Width] = 2 * Half /\ k - 1 \in Nat /\ (k - 1) + 1 = k
      /\ Half = Pow2[Width - 1]
  BY WidthFacts
<1> DEFINE n == Pow2[k]
           w == Pow2[Width - k]
           h == 2 * Half
<1>2. n * w = h /\ n \in Nat \ {0} /\ w \in Nat \ {0}
  <2>1. Pow2[k + (Width - k)] = n * w
    BY <1>1, Pow2Sum
  <2> QED BY <1>1, <2>1, Pow2Def
<1>3. n >= 2
  <2>1. Pow2[k] = 2 * Pow2[k - 1] /\ Pow2[k - 1] \in Nat \ {0}
    BY <1>1, Pow2Def
  <2> QED BY <2>1
<1>4. n =< Half
  <2>1. k = Width - 1 \/ k < Width - 1
    BY <1>1
  <2>2. k < Width - 1 => 2 * n =< Half
    BY <1>1, Pow2Grows
  <2>3. k = Width - 1 => n = Half
    BY <1>1
  <2>4. Half \in Nat /\ n \in Nat
    BY <1>1, <1>2
  <2> HIDE DEF n
  <2> QED BY <2>1, <2>2, <2>3, <2>4
<1>5. Unsigned(-1) = h - 1
  <2>0. h \in Nat \ {0}
    BY <1>1
  <2> HIDE DEF h
  <2>1. -1 = h * (-1) + (h - 1) /\ h - 1 \in 0 .. h - 1
    BY <2>0
  <2>2. (-1) % h = h - 1
    BY <2>0, <2>1, DivisionUnique
  <2> QED BY <2>2 DEF Unsigned, h
<1> HIDE DEF n, w, h
<1>6. (h - 1) \div w = n - 1
  <2>1. w * (n - 1) = h - w /\ w * ((n - 1) + 1) = h /\ h \in Nat
    <3>1. w * (n - 1) = n * w - w /\ w * ((n - 1) + 1) = n * w /\ n * w \in Nat
      BY <1>2
    <3> QED BY <1>2, <3>1
  <2>2. w * (n - 1) =< h - 1 /\ h - 1 < w * ((n - 1) + 1) /\ h - 1 \in Int /\ n - 1 \in Int
    BY <1>2, <2>1
  <2> QED BY <1>2, <2>2, Between
<1>7. n - 1 \in Words
  BY <1>1, <1>2, <1>3, <1>4 DEF Words
<1>8. Wrap(n - 1) = n - 1
  BY <1>7, WrapWord
<1> QED BY <1>2, <1>3, <1>4, <1>5, <1>6, <1>8 DEF n, w

Bias(x, k) == IF x < 0 THEN Pow2[k] - 1 ELSE 0

LEMMA Biased ==
  ASSUME NEW x \in Words, NEW k \in 1 .. Width - 1
  PROVE  /\ Bias(x, k) \in Words /\ x + Bias(x, k) \in Words
         /\ (x + Bias(x, k)) \div Pow2[k] = TruncDiv(x, Pow2[k])
<1> DEFINE n == Pow2[k]
           e == Bias(x, k)
<1>1. n \in Nat /\ n >= 2 /\ n =< Half /\ x \in Int /\ -Half =< x /\ x < Half /\ Half \in Nat
  BY AllOnes, WidthFacts DEF Words
<1>2. Magnitude(n) = n /\ ~(n < 0)
  BY <1>1 DEF Magnitude
<1>3. e = IF x < 0 THEN n - 1 ELSE 0
  BY DEF Bias
<1> HIDE DEF n, e
<1>4. e \in Words /\ x + e \in Words
  BY <1>1, <1>3 DEF Words
<1>5. CASE ~(x < 0)
  <2>1. TruncDiv(x, n) = x \div n
    BY <1>1, <1>2, <1>5 DEF TruncDiv, Magnitude
  <2>2. x + e = x
    BY <1>1, <1>3, <1>5
  <2> QED BY <1>4, <2>1, <2>2 DEF n, e
<1>6. CASE x < 0
  <2> DEFINE y == -x
             q == y \div n
             r == y % n
  <2>1. y \in Nat
    BY <1>1, <1>6
  <2>2. TruncDiv(x, n) = -q
    BY <1>1, <1>2, <1>6 DEF TruncDiv, Magnitude
  <2> HIDE DEF y
  <2>3. q \in Nat /\ r \in 0 .. n - 1 /\ y = n * q + r
    BY <1>1, <2>1
  <2> HIDE DEF q, r
  <2>4. x + e = n - 1 - y
    BY <1>1, <1>3, <1>6, <2>1 DEF y
  <2>5. n * (-q) = -(n * q) /\ n * q \in Int /\ n * (-q + 1) = n - n * q /\ -q \in Int
    BY <1>1, <2>3
  <2>6. n * (-q) =< n - 1 - y /\ n - 1 - y < n * (-q + 1) /\ n - 1 - y \in Int
    BY <1>1, <2>1, <2>3, <2>5
  <2>7. n \in Nat \ {0}
    BY <1>1
  <2>8. (n - 1 - y) \div n = -q
    BY <2>5, <2>6, <2>7, Between
  <2> QED BY <1>4, <2>2, <2>4, <2>8 DEF n, e
<1> QED BY <1>5, <1>6

(* Quotients and the sign of the divisor.                                  *)
LEMMA QuotientSign ==
  ASSUME NEW x \in Words, NEW d \in Words, d # 0
  PROVE  /\ TruncDiv(x, d) \in Int /\ TruncDiv(x, Magnitude(d)) \in Int
         /\ d > 0 => TruncDiv(x, d) = TruncDiv(x, Magnitude(d))
         /\ d < 0 => Wrap(-TruncDiv(x, Magnitude(d))) = Wrap(TruncDiv(x, d))
         /\ d * TruncDiv(x, d) = Magnitude(d) * TruncDiv(x, Magnitude(d))
<1> DEFINE n == Magnitude(x)
           c == Magnitude(d)
           q == n \div c
<1>1. x \in Int /\ d \in Int /\ Half \in Nat
  BY WidthFacts DEF Words
<1>2. n \in Nat /\ c \in Nat \ {0} /\ (d > 0 => c = d) /\ (d < 0 => c = -d) /\ ~(c < 0)
  BY <1>1 DEF Magnitude
<1>3. Magnitude(c) = c
  BY <1>2 DEF Magnitude
<1>4. TruncDiv(x, d) = (IF (x < 0) = (d < 0) THEN q ELSE -q)
  BY DEF TruncDiv
<1>5. TruncDiv(x, c) = (IF (x < 0) = (c < 0) THEN q ELSE -q)
  BY <1>3 DEF TruncDiv
<1> HIDE DEF n, c
<1>6. q \in Int
  BY <1>2
<1> HIDE DEF q
<1>7. d > 0 \/ d < 0
  BY <1>1
<1>8. CASE d > 0
  BY <1>1, <1>2, <1>4, <1>5, <1>6, <1>8 DEF c
<1>9. CASE d < 0
  <2>1. x < 0 => TruncDiv(x, d) = q /\ TruncDiv(x, c) = -q
    BY <1>1, <1>2, <1>4, <1>5, <1>9
  <2>2. ~(x < 0) => TruncDiv(x, d) = -q /\ TruncDiv(x, c) = q
    BY <1>1, <1>2, <1>4, <1>5, <1>9
  <2>3. d * q = c * (-q) /\ d * (-q) = c * q
    <3>1. (-c) * q = c * (-q) /\ (-c) * (-q) = c * q /\ -c \in Int
      BY <1>2, <1>6
    <3>2. d = -c
      BY <1>1, <1>2, <1>9
    <3> QED BY <3>1, <3>2
  <2>4. -(-q) = q
    BY <1>6
  <2> QED BY <1>6, <1>9, <2>1, <2>2, <2>3, <2>4, <1>1, <1>2 DEF c
<1> QED BY <1>7, <1>8, <1>9

LEMMA QuotientByOne ==
  ASSUME NEW x \in Words
  PROVE  /\ Wrap(TruncDiv(x, 1)) = x /\ Wrap(TruncDiv(x, -1)) = Wrap(-x)
         /\ Wrap(TruncRem(x, 1)) = 0 /\ Wrap(TruncRem(x, -1)) = 0
<1>1. x \in Int /\ 0 \in Words
  BY WidthFacts DEF Words
<1>2. Magnitude(1) = 1 /\ Magnitude(-1) = 1 /\ Magnitude(x) \in Nat
  <2>1. Magnitude(1) = 1
    BY DEF Magnitude
  <2> DEFINE y == -1
  <2>2. y \in Int /\ y + 1 = 0
    OBVIOUS
  <2> HIDE DEF y
  <2>3. Magnitude(y) = 1
    BY <2>2 DEF Magnitude
  <2>4. Magnitude(x) \in Nat
    BY <1>1 DEF Magnitude
  <2> QED BY <2>1, <2>3, <2>4 DEF y
<1>3. Magnitude(x) \div 1 = Magnitude(x)
  BY <1>2
<1>4. TruncDiv(x, 1) = x
  BY <1>1, <1>2, <1>3 DEF TruncDiv, Magnitude
<1>5. TruncDiv(x, -1) = 0 - x
  BY <1>1, <1>2, <1>3 DEF TruncDiv, Magnitude
<1>6. -x = 0 - x
  BY <1>1
<1>7. TruncRem(x, 1) = 0
  BY <1>1, <1>4 DEF TruncRem
<1>8. TruncRem(x, -1) = 0
  <2>1. TruncRem(x, -1) = x - (-1) * TruncDiv(x, -1)
    BY DEF TruncRem
  <2>2. x - (-1) * (0 - x) = 0
    BY <1>1
  <2> QED BY <1>5, <2>1, <2>2
<1> QED BY <1>1, <1>4, <1>5, <1>6, <1>7, <1>8, WrapWord

LEMMA WrapProduct ==
  ASSUME NEW x \in Int, NEW y \in Int
  PROVE  Wrap(Wrap(x) * y) = Wrap(x * y)
<1> DEFINE h == 2 * Half
           w == Wrap(x)
<1>1. PICK k \in Int : x = w + k * h
  BY WrapBy
<1>2. w \in Int /\ h \in Int
  <2>1. w \in Words
    BY WrapBy
  <2> QED BY <2>1, WidthFacts DEF Words
<1> HIDE DEF w, h
<1>3. w * y = x * y + (-(k * y)) * h /\ w * y \in Int /\ x * y \in Int /\ -(k * y) \in Int
  <2>1. x * y = w * y + (k * h) * y /\ w * y \in Int /\ x * y \in Int /\ k * y \in Int
        /\ (k * h) * y = (k * y) * h /\ (-(k * y)) * h = -((k * y) * h) /\ (k * y) * h \in Int
    BY <1>1, <1>2
  <2> QED BY <2>1
<1> QED BY <1>3, WrapSame DEF w, h

(* Products by shifts: by a power of two, by its neighbours, and negated.  *)
LEMMA ProductForms ==
  ASSUME NEW x \in Words, NEW c \in Words, NEW n \in Int
  PROVE  /\ x * n \in Int
         /\ n = Magnitude(c) /\ c >= 0 => Wrap(x * n) = Wrap(x * c)
         /\ n = Magnitude(c) /\ c < 0 => Wrap(-Wrap(x * n)) = Wrap(x * c)
         /\ n = Magnitude(c) - 1 => Wrap(Wrap(x * n) + x) = Wrap(x * Magnitude(c))
         /\ n = Magnitude(c) + 1 => Wrap(Wrap(x * n) - x) = Wrap(x * Magnitude(c))
<1>1. x \in Int /\ c \in Int
  BY WidthFacts DEF Words
<1> DEFINE p == x * n
           a == Magnitude(c)
<1>2. p \in Int /\ a \in Int
  BY <1>1 DEF Magnitude
<1>3. ASSUME n = a, c >= 0 PROVE Wrap(p) = Wrap(x * c)
  <2>1. n = c
    BY <1>1, <1>3 DEF Magnitude
  <2> QED BY <2>1
<1>4. ASSUME n = a, c < 0 PROVE Wrap(-Wrap(p)) = Wrap(x * c)
  <2>1. c = -n
    BY <1>1, <1>4 DEF Magnitude
  <2>2. -(x * n) = x * (-n)
    BY <1>1
  <2>3. -p = x * c
    BY <2>1, <2>2
  <2> HIDE DEF p
  <2> QED BY <1>2, <2>3, WrapEarly
<1>5. ASSUME n = a - 1 PROVE Wrap(Wrap(p) + x) = Wrap(x * a)
  <2>1. a = n + 1
    BY <1>2, <1>5
  <2>2. p + x = x * a
    <3> HIDE DEF a
    <3> QED BY <1>1, <2>1
  <2> HIDE DEF p, a
  <2>3. Wrap(Wrap(p) + x) = Wrap(p + x)
    BY <1>1, <1>2, WrapEarly
  <2> QED BY <2>2, <2>3
<1>6. ASSUME n = a + 1 PROVE Wrap(Wrap(p) - x) = Wrap(x * a)
  <2>1. a = n - 1
    BY <1>2, <1>6
  <2>2. p - x = x * a
    <3> HIDE DEF a
    <3> QED BY <1>1, <2>1
  <2> HIDE DEF p, a
  <2> QED BY <1>1, <1>2, <2>2, WrapEarly
<1> QED BY <1>2, <1>3, <1>4, <1>5, <1>6

-----------------------------------------------------------------------------
(* The high word of a product, and the correction that the generated code  *)
(* makes when the multiplier does not fit in a word.                       *)
High(x, M) == (x * M) \div (2 * Half)

Corrected(d, x, M) ==
  CASE d > 0 /\ M < 0 -> Wrap(High(x, M) + x)
    [] d < 0 /\ M > 0 -> Wrap(High(x, M) - x)
    [] OTHER -> High(x, M)

(* A quotient by 2^Width of a word times a number below 2^Width is a word. *)
LEMMA HighIsWord ==
  ASSUME NEW x \in Words, NEW M \in Int, M < 2 * Half, -(2 * Half) < M
  PROVE  High(x, M) \in Words
<1> DEFINE h == 2 * Half
           q == (x * M) \div h
<1>1. x \in Int /\ -Half =< x /\ x < Half /\ Half \in Nat /\ h \in Nat \ {0} /\ M < h /\ -h < M
  BY WidthFacts DEF Words
<1> HIDE DEF h
<1>2. q \in Int /\ h * q =< x * M /\ x * M < h * (q + 1) /\ x * M \in Int
  <2>1. x * M \in Int
    BY <1>1
  <2> DEFINE a == x * M
             r == a % h
  <2> HIDE DEF a
  <2>2. a \div h \in Int /\ r \in 0 .. h - 1 /\ a = h * (a \div h) + r
    BY <1>1, <2>1, DivisionFacts DEF a
  <2>3. q = a \div h
    BY DEF a
  <2> HIDE DEF q, r
  <2>4. h * (q + 1) = h * q + h /\ h * q \in Int
    BY <1>1, <2>2, <2>3
  <2>5. q \in Int /\ h * q =< a /\ a < h * (q + 1) /\ a \in Int
    BY <1>1, <2>1, <2>2, <2>3, <2>4 DEF a
  <2> QED BY <2>5 DEF a
<1> HIDE DEF q
<1>3. x * M =< Half * h - 1 /\ -(Half * h) =< x * M /\ Half * h \in Int
  <2> DEFINE n == Magnitude(x)
             c == Magnitude(M)
  <2>1. n \in Nat /\ n =< Half /\ c \in Nat /\ c < h
    BY <1>1 DEF Magnitude
  <2>2. x * M = n * c \/ x * M = -(n * c)
    <3>1. (x = n \/ x = -n) /\ (M = c \/ M = -c)
      BY <1>1 DEF Magnitude
    <3> HIDE DEF n, c
    <3>2. (-n) * c = -(n * c) /\ n * (-c) = -(n * c) /\ (-n) * (-c) = n * c
      BY <2>1
    <3> QED BY <3>1, <3>2
  <2> HIDE DEF n, c
  <2>3. n * c =< Half * c /\ c * Half =< (h - 1) * Half
    BY <1>1, <2>1, Scaled
  <2>4. Half * c = c * Half /\ (h - 1) * Half = Half * h - Half /\ n * c \in Nat /\ Half * h \in Int
        /\ c * Half \in Int
    BY <1>1, <2>1
  <2>5. Half >= 2
    BY WidthFacts
  <2> QED BY <1>1, <2>2, <2>3, <2>4, <2>5
<1>4. -Half =< q
  <2> SUFFICES ASSUME q < -Half PROVE FALSE
    BY <1>1, <1>2
  <2>1. (q + 1) * h =< (-Half) * h
    BY <1>1, <1>2, Scaled
  <2>2. (-Half) * h = -(Half * h) /\ (q + 1) * h = h * (q + 1) /\ h * (q + 1) \in Int
    BY <1>1, <1>2
  <2> QED BY <1>1, <1>2, <1>3, <2>1, <2>2
<1>5. q < Half
  <2> SUFFICES ASSUME q >= Half PROVE FALSE
    BY <1>1, <1>2
  <2>1. Half * h =< q * h
    BY <1>1, <1>2, Scaled
  <2>2. q * h = h * q /\ h * q \in Int
    BY <1>1, <1>2
  <2> QED BY <1>1, <1>2, <1>3, <2>1, <2>2
<1> QED BY <1>1, <1>2, <1>4, <1>5 DEF High, q, h, Words

(* The word that stands for the multiplier.                                *)
LEMMA MultiplierWord ==
  ASSUME NEW d \in Divisors, NEW p, NEW m, Multiplies(d, p, m)
  PROVE  LET M == SignedMagic[d].M
         IN  /\ M \in Words /\ Signed(d, m) \in Int
             /\ Signed(d, m) < 2 * Half /\ -(2 * Half) < Signed(d, m)
             /\ \/ d > 0 /\ M < 0 /\ Signed(d, m) = M + 2 * Half
                \/ d < 0 /\ M > 0 /\ Signed(d, m) = M - 2 * Half
                \/ ~(d > 0 /\ M < 0) /\ ~(d < 0 /\ M > 0) /\ Signed(d, m) = M
<1> DEFINE M == SignedMagic[d].M
           h == 2 * Half
<1>1. /\ d \in Int /\ d # 0 /\ Half \in Nat /\ Half >= 2
      /\ m \in Nat /\ m >= 1 /\ m =< h - 2
      /\ M = IF d < 0 THEN Wrap(-Wrap(m)) ELSE Wrap(m)
  <2>1. d \in Int /\ Magnitude(d) >= 3
    BY DivisorFacts
  <2>2. d # 0
    BY <2>1 DEF Magnitude
  <2>3. SignedMagic[d] = [M |-> IF d < 0 THEN Wrap(-Wrap(m)) ELSE Wrap(m), s |-> p - Width]
        /\ m \in 1 .. 2 * Half - 2
    BY DEF Multiplies
  <2> QED BY <2>1, <2>2, <2>3, WidthFacts
<1> HIDE DEF M
<1>2. Wrap(-Wrap(m)) = Wrap(-m) /\ h \in Int /\ -m \in Int
  BY <1>1, WrapEarly
<1>3. CASE d > 0
  <2>1. M = Wrap(m) /\ Signed(d, m) = m
    BY <1>1, <1>3 DEF Signed
  <2>2. CASE m < Half
    <3>1. m \in Words
      BY <1>1, <2>2 DEF Words
    <3>2. M = m
      BY <2>1, <3>1, WrapWord
    <3> QED BY <1>1, <1>3, <2>1, <3>1, <3>2 DEF M
  <2>3. CASE m >= Half
    <3>1. m - h \in Words /\ m - h \in Int /\ m = (m - h) + 1 * h /\ 1 \in Int
      BY <1>1, <2>3 DEF Words
    <3>2. M = m - h
      <4> DEFINE y == m - h
      <4>1. y \in Words /\ m = y + 1 * h /\ m \in Int
        BY <1>1, <3>1
      <4> HIDE DEF y
      <4>2. Wrap(m) = y
        BY <3>1, <4>1, WrapIs
      <4> QED BY <2>1, <4>2 DEF y
    <3>3. M < 0 /\ m = M + h
      BY <1>1, <3>2
    <3> QED BY <1>1, <1>3, <2>1, <3>1, <3>2, <3>3 DEF M
  <2> QED BY <1>1, <2>2, <2>3
<1>4. CASE d < 0
  <2>1. M = Wrap(-m) /\ Signed(d, m) = -m
    BY <1>1, <1>2, <1>4 DEF Signed
  <2>2. CASE m =< Half
    <3>1. -m \in Words
      BY <1>1, <2>2 DEF Words
    <3>2. M = -m
      BY <2>1, <3>1, WrapWord
    <3> QED BY <1>1, <1>4, <2>1, <3>1, <3>2 DEF M
  <2>3. CASE m > Half
    <3>1. h - m \in Words /\ h - m \in Int /\ -m = (h - m) + (-1) * h /\ -1 \in Int
      BY <1>1, <2>3 DEF Words
    <3>2. M = h - m
      BY <1>1, <1>2, <2>1, <3>1, WrapIs
    <3>3. M > 0 /\ -m = M - h
      BY <1>1, <3>2
    <3> QED BY <1>1, <1>4, <2>1, <3>1, <3>2, <3>3 DEF M
  <2> QED BY <1>1, <2>2, <2>3
<1> QED BY <1>1, <1>3, <1>4

LEMMA CorrectedHigh ==
  ASSUME NEW d \in Divisors, NEW p, NEW m, Multiplies(d, p, m), NEW x \in Words
  PROVE  LET M == SignedMagic[d].M
         IN  /\ High(x, M) \in Words /\ Corrected(d, x, M) \in Words
             /\ Corrected(d, x, M) = (x * Signed(d, m)) \div (2 * Half)
<1> DEFINE M == SignedMagic[d].M
           S == Signed(d, m)
           h == 2 * Half
<1>1. x \in Int /\ Half \in Nat /\ h \in Nat \ {0}
  BY WidthFacts DEF Words
<1>2. /\ M \in Words /\ S \in Int /\ S < h /\ -h < S
      /\ \/ d > 0 /\ M < 0 /\ S = M + h
         \/ d < 0 /\ M > 0 /\ S = M - h
         \/ ~(d > 0 /\ M < 0) /\ ~(d < 0 /\ M > 0) /\ S = M
  BY MultiplierWord
<1> HIDE DEF M, S
<1>3. M \in Int /\ M < h /\ -h < M /\ d \in Int
  <2>1. d \in Int
    BY DivisorFacts
  <2> QED BY <1>1, <1>2, <2>1, WidthFacts DEF Words
<1>4. High(x, M) \in Words /\ High(x, S) \in Words
  BY <1>2, <1>3, HighIsWord
<1>5. High(x, M) \in Int /\ High(x, S) \in Int
  BY <1>1, <1>4 DEF Words
<1>6. ASSUME NEW j \in Int, S = M + j * h
      PROVE  High(x, S) = High(x, M) + x * j
  <2> DEFINE a == x * M
             q == a \div h
             r == a % h
  <2>1. a \in Int /\ q \in Int /\ r \in 0 .. h - 1 /\ a = h * q + r
    <3>1. a \in Int
      BY <1>1, <1>3
    <3> HIDE DEF a, h
    <3> QED BY <1>1, <3>1, DivisionFacts
  <2> HIDE DEF q, r
  <2>2. x * S = a + x * (j * h) /\ x * (j * h) = h * (x * j) /\ x * j \in Int
    <3> HIDE DEF h
    <3> QED BY <1>1, <1>3, <1>6
  <2>3. h * (q + x * j) = h * q + h * (x * j) /\ q + x * j \in Int
    <3> HIDE DEF h
    <3> QED BY <1>1, <2>1, <2>2
  <2> DEFINE b == x * S
             k == q + x * j
  <2>4. b = h * k + r /\ k \in Int /\ b \in Int
    <3>1. h * q \in Int /\ h * (x * j) \in Int /\ h * k \in Int
      <4> HIDE DEF h
      <4> QED BY <1>1, <2>1, <2>2
    <3>2. b \in Int
      BY <1>1, <1>2
    <3> HIDE DEF a
    <3> QED BY <2>1, <2>2, <2>3, <3>1, <3>2
  <2> HIDE DEF b, k, h
  <2>5. b \div h = k
    BY <1>1, <2>1, <2>4, DivisionUnique
  <2>6. High(x, S) = b \div h /\ High(x, M) = a \div h
    BY DEF High, b, h
  <2> QED BY <2>5, <2>6 DEF k, q
<1>7. CASE d > 0 /\ M < 0
  <2>1. S = M + 1 * h
    BY <1>2, <1>7, <1>3, <1>1
  <2>2. High(x, S) = High(x, M) + x * 1
    BY <1>6, <2>1
  <2>3. High(x, M) + x = High(x, S)
    BY <1>1, <1>5, <2>2
  <2>4. Corrected(d, x, M) = Wrap(High(x, M) + x)
    BY <1>3, <1>7 DEF Corrected
  <2>5. Corrected(d, x, M) = High(x, S)
    BY <1>4, <2>3, <2>4, WrapWord
  <2> QED BY <1>4, <2>5 DEF High, S, M
<1>8. CASE d < 0 /\ M > 0
  <2>1. S = M + (-1) * h
    BY <1>2, <1>8, <1>3, <1>1
  <2>2. High(x, S) = High(x, M) + x * (-1)
    BY <1>6, <2>1
  <2>3. High(x, M) - x = High(x, S)
    BY <1>1, <1>5, <2>2
  <2>4. Corrected(d, x, M) = Wrap(High(x, M) - x)
    BY <1>3, <1>8 DEF Corrected
  <2>5. Corrected(d, x, M) = High(x, S)
    BY <1>4, <2>3, <2>4, WrapWord
  <2> QED BY <1>4, <2>5 DEF High, S, M
<1>9. CASE ~(d > 0 /\ M < 0) /\ ~(d < 0 /\ M > 0)
  <2>1. S = M
    BY <1>2, <1>9
  <2>2. Corrected(d, x, M) = High(x, M)
    BY <1>9 DEF Corrected
  <2> QED BY <1>4, <2>1, <2>2 DEF High, S, M
<1> QED BY <1>7, <1>8, <1>9

(* Dividing by a constant with a multiplication: the sequence that the     *)
(* generator writes, correction, shift and sign bit, computes the quotient *)
(* that truncates towards zero, for every divisor that needs it, every     *)
(* dividend and every width (signedMagic, codegen/OptCodeGen.cpp).         *)
THEOREM MagicDivides ==
  ASSUME NEW d \in Divisors, NEW x \in Words
  PROVE  LET M == SignedMagic[d].M
             s == SignedMagic[d].s
             y == Corrected(d, x, M) \div Pow2[s]
         IN  /\ M \in Words /\ s \in Nat /\ High(x, M) \in Words /\ Corrected(d, x, M) \in Words
             /\ y \in Words /\ y + Truth(y < 0) = TruncDiv(x, d)
<1> DEFINE M == SignedMagic[d].M
           s == SignedMagic[d].s
           A == Corrected(d, x, M)
           h == 2 * Half
<1>1. PICK p, m : Multiplies(d, p, m)
  BY MagicFacts
<1>2. s = p - Width /\ p \in Width .. 2 * Width - 2 /\ Width \in Nat
  BY <1>1, WidthFacts DEF Multiplies
<1>3. s \in Nat /\ Width + s = p
  BY <1>2
<1>4. M \in Words /\ Signed(d, m) \in Int
  BY <1>1, MultiplierWord
<1>5. High(x, M) \in Words /\ A \in Words /\ A = (x * Signed(d, m)) \div h
  BY <1>1, CorrectedHigh
<1>6. Pow2[p] = h * Pow2[s] /\ Pow2[s] \in Nat \ {0} /\ h \in Nat \ {0}
  BY <1>2, <1>3, WidthFacts, Pow2Def, Pow2Sum
<1> HIDE DEF A, M, s
<1>7. A \div Pow2[s] = (x * Signed(d, m)) \div Pow2[p]
  <2> DEFINE n == x * Signed(d, m)
             e == Pow2[s]
  <2>1. n \in Int /\ e \in Nat \ {0}
    BY <1>4, <1>6, WidthFacts DEF Words
  <2> HIDE DEF n, e, h
  <2>2. (n \div h) \div e = n \div (h * e)
    BY <1>6, <2>1, DivisionOfDivision
  <2>3. A \div e = n \div Pow2[p]
    BY <1>5, <1>6, <2>2 DEF n, e
  <2> QED BY <2>3 DEF n, e
<1>8. A \div Pow2[s] \in Words
  BY <1>3, <1>5, ShiftRight
<1> DEFINE y == (x * Signed(d, m)) \div Pow2[p]
<1>9. y + Truth(y < 0) = TruncDiv(x, d)
  BY <1>1, SignedQuotient
<1> HIDE DEF y
<1>10. A \div Pow2[s] = y
  BY <1>7 DEF y
<1> QED BY <1>3, <1>4, <1>5, <1>8, <1>9, <1>10 DEF A, M, s

(* A magic number is a word, and what is shifted by a natural number.      *)
LEMMA MagicWords ==
  /\ \A c \in Divisors : SignedMagic[c].M \in Words /\ SignedMagic[c].s \in Nat
  /\ \A c \in 3 .. Half - 1 : UnsignedMagic[c].M \in Words /\ UnsignedMagic[c].s \in Nat
<1>1. ASSUME NEW c \in Divisors PROVE SignedMagic[c].M \in Words /\ SignedMagic[c].s \in Nat
  <2>1. PICK p, m : Multiplies(c, p, m)
    BY MagicFacts
  <2>2. SignedMagic[c].M \in Words
    BY <2>1, MultiplierWord
  <2>3. SignedMagic[c].s = p - Width /\ p \in Width .. 2 * Width - 2
    BY <2>1 DEF Multiplies
  <2>4. p - Width \in Nat
    BY <2>3, WidthFacts
  <2> QED BY <2>2, <2>3, <2>4
<1>2. ASSUME NEW c \in 3 .. Half - 1 PROVE UnsignedMagic[c].M \in Words /\ UnsignedMagic[c].s \in Nat
  <2> DEFINE m(k) == (Pow2[Width + k] + c - 1) \div c
             Is(k) == m(k) < 2 * Half /\ \A j \in 0 .. k - 1 : m(j) >= 2 * Half
             s == CHOOSE k \in 0 .. Width : Is(k)
  <2>1. UnsignedMagic[c] = [M |-> Wrap(m(s)), s |-> s]
    BY DEF UnsignedMagic
  <2>2. c \in Nat \ {0} /\ c >= 3 /\ Half \in Nat /\ Half >= 2 /\ Pow2[Width + 0] = 2 * Half /\ Width \in Nat
    BY WidthFacts
  <2>3. Is(0)
    <3> DEFINE a == 2 * Half + c - 1
               q == a \div c
               r == a % c
    <3>1. a \in Nat /\ q \in Int /\ r \in 0 .. c - 1 /\ a = c * q + r
      <4>1. a \in Nat /\ a \in Int
        BY <2>2
      <4> HIDE DEF a
      <4> QED BY <2>2, <4>1, DivisionFacts
    <3>2. q < 2 * Half
      <4> SUFFICES ASSUME q >= 2 * Half PROVE FALSE
        BY <3>1, <2>2
      <4> DEFINE h == 2 * Half
      <4>1. h * c =< q * c
        BY <2>2, <3>1, Scaled
      <4>2. h * c >= h * 3
        BY <2>2
      <4>3. 2 * h >= a
        BY <2>2
      <4>4. c * q = q * c
        BY <2>2, <3>1
      <4>5. h \in Nat /\ h >= 4 /\ h * c \in Int /\ q * c \in Int /\ a = h + c - 1
        BY <2>2, <3>1
      <4> HIDE DEF a, q, r, h
      <4>6. a >= h * c
        BY <4>1, <4>4, <4>5, <3>1, <2>2
      <4>7. h * 3 = 3 * h
        BY <4>5
      <4> QED BY <4>2, <4>3, <4>5, <4>6, <4>7, <2>2, <3>1
    <3>3. m(0) = q
      BY <2>2
    <3> HIDE DEF a, q, r, m
    <3>4. m(0) < 2 * Half /\ \A j \in 0 .. 0 - 1 : m(j) >= 2 * Half
      BY <3>2, <3>3
    <3> QED BY <3>4
  <2>4. s \in 0 .. Width
    <3>1. 0 \in 0 .. Width
      BY <2>2
    <3> HIDE DEF Is
    <3>2. \E k \in 0 .. Width : Is(k)
      BY <2>3, <3>1
    <3> QED BY <3>2
  <2> HIDE DEF s
  <2>5. m(s) \in Int
    <3>1. Pow2[Width + s] \in Nat
      <4>1. Width + s \in Nat
        BY <2>2, <2>4
      <4> QED BY <4>1, Pow2Def
    <3>2. Pow2[Width + s] + c - 1 \in Int
      BY <2>2, <3>1
    <3> QED BY <2>2, <3>2, DivisionFacts
  <2> HIDE DEF m
  <2>6. Wrap(m(s)) \in Words
    BY <2>5, WrapType
  <2> QED BY <2>1, <2>2, <2>4, <2>6
<1> QED BY <1>1, <1>2
=============================================================================
