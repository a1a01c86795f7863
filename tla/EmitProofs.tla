----------------------------- MODULE EmitProofs -----------------------------
(***************************************************************************)
(* What the sequence for one IR instruction leaves alone and what it       *)
(* computes, whatever the instruction, its constants, the allocation and   *)
(* the width of a word.  First, all selection is shown to write the        *)
(* result's register and the scratch registers only; a slot and a global   *)
(* are written by one kind of instruction each, whose address is followed  *)
(* through the sequence.  Then each piece of selection is followed from    *)
(* the machine before it to the machine after it: which register it leaves *)
(* what value in (Leads), and that the homes of vregs are as they were     *)
(* (Agrees).                                                               *)
(***************************************************************************)
EXTENDS Emit, MagicProofs, TLAPS

(* The sequence s computes into registers of R and does nothing else.      *)
Into(R, s) ==
  /\ s \in Seq({s[k] : k \in DOMAIN s})
  /\ \A k \in DOMAIN s : s[k].op \notin {"sw", "swg"} /\ s[k].rd \in R

LEMMA IntoNone == ASSUME NEW R PROVE Into(R, << >>)
BY DEF Into

LEMMA IntoOne ==
  ASSUME NEW R, NEW i, i.op \notin {"sw", "swg"}, i.rd \in R
  PROVE  Into(R, <<i>>)
<1> DEFINE s == <<i>>
<1>1. DOMAIN s = {1} /\ s[1] = i /\ s \in Seq({i})
  OBVIOUS
<1>2. {s[k] : k \in DOMAIN s} = {i}
  BY <1>1
<1> HIDE DEF s
<1>3. Into(R, s)
  BY <1>1, <1>2 DEF Into
<1> QED BY <1>3 DEF s

LEMMA OneInto ==
  ASSUME NEW R, NEW i, Into(R, <<i>>)
  PROVE  i.op \notin {"sw", "swg"} /\ i.rd \in R
<1>1. 1 \in DOMAIN <<i>> /\ <<i>>[1] = i
  OBVIOUS
<1> QED BY <1>1 DEF Into

LEMMA IntoBoth ==
  ASSUME NEW R, NEW s, NEW t, Into(R, s), Into(R, t)
  PROVE  Into(R, s \o t)
<1> DEFINE S == {s[k] : k \in DOMAIN s}
           T == {t[k] : k \in DOMAIN t}
           u == s \o t
<1>1. s \in Seq(S) /\ t \in Seq(T)
  BY DEF Into
<1>2. \A i \in S \cup T : i.op \notin {"sw", "swg"} /\ i.rd \in R
  BY DEF Into
<1>3. u \in Seq(S \cup T)
  <2>1. s \in Seq(S \cup T) /\ t \in Seq(S \cup T)
    BY <1>1
  <2> HIDE DEF S, T
  <2> QED BY <2>1
<1> HIDE DEF S, T, u
<1>4. \A k \in DOMAIN u : u[k] \in S \cup T
  BY <1>3
<1>5. u \in Seq({u[k] : k \in DOMAIN u})
  BY <1>3
<1>6. Into(R, u)
  BY <1>2, <1>4, <1>5 DEF Into
<1> QED BY <1>6 DEF u

(* Each form of instruction, alone.                                        *)
LEMMA IntoForms ==
  ASSUME NEW R, NEW d \in R, NEW op, op \notin {"sw", "swg"}, NEW s
  PROVE  /\ \A t : Into(R, <<RRR(op, d, s, t)>>)
         /\ \A n : Into(R, <<RRI(op, d, s, n)>>)
         /\ Into(R, <<RR(op, d, s)>>)
<1>1. ASSUME NEW t PROVE Into(R, <<RRR(op, d, s, t)>>)
  <2>1. RRR(op, d, s, t).op = op /\ RRR(op, d, s, t).rd = d
    BY DEF RRR
  <2> QED BY <2>1, IntoOne
<1>2. ASSUME NEW n PROVE Into(R, <<RRI(op, d, s, n)>>)
  <2>1. RRI(op, d, s, n).op = op /\ RRI(op, d, s, n).rd = d
    BY DEF RRI
  <2> QED BY <2>1, IntoOne
<1> QED BY <1>1, <1>2 DEF RR

LEMMA IntoMoves ==
  ASSUME NEW R, NEW d \in R
  PROVE  /\ \A n : Into(R, <<LI(d, n)>>)
         /\ \A s : Into(R, MoveTo(d, s))
<1>1. \A n : Into(R, <<LI(d, n)>>)
  <2> TAKE n
  <2>1. Into(R, <<RRI("li", d, ZERO, n)>>)
    BY IntoForms
  <2> QED BY <2>1 DEF LI
<1>2. ASSUME NEW s PROVE Into(R, MoveTo(d, s))
  <2>1. Into(R, <<RR("mv", d, s)>>)
    BY IntoForms
  <2> QED BY <2>1, IntoNone DEF MoveTo
<1> QED BY <1>1, <1>2

(* Two and three in a row.                                                 *)
LEMMA IntoTwo ==
  ASSUME NEW R, NEW i, NEW j, Into(R, <<i>>), Into(R, <<j>>)
  PROVE  Into(R, <<i, j>>)
<1> DEFINE s == <<i, j>>
<1>1. DOMAIN s = {1, 2} /\ s[1] = i /\ s[2] = j /\ s \in Seq({i, j})
  OBVIOUS
<1>2. {s[k] : k \in DOMAIN s} = {i, j}
  BY <1>1
<1>3. i.op \notin {"sw", "swg"} /\ i.rd \in R /\ j.op \notin {"sw", "swg"} /\ j.rd \in R
  BY OneInto
<1> HIDE DEF s
<1>4. Into(R, s)
  BY <1>1, <1>2, <1>3 DEF Into
<1> QED BY <1>4 DEF s

LEMMA IntoFour ==
  ASSUME NEW R, NEW i, NEW j, NEW l, NEW m,
         Into(R, <<i>>), Into(R, <<j>>), Into(R, <<l>>), Into(R, <<m>>)
  PROVE  Into(R, <<i, j, l, m>>)
<1> DEFINE s == <<i, j, l, m>>
<1>1. /\ DOMAIN s = {1, 2, 3, 4} /\ s[1] = i /\ s[2] = j /\ s[3] = l /\ s[4] = m
      /\ s \in Seq({i, j, l, m})
  OBVIOUS
<1>2. {s[k] : k \in DOMAIN s} = {i, j, l, m}
  BY <1>1
<1>3. \A x \in {i, j, l, m} : x.op \notin {"sw", "swg"} /\ x.rd \in R
  BY OneInto
<1> HIDE DEF s
<1>4. Into(R, s)
  BY <1>1, <1>2, <1>3 DEF Into
<1> QED BY <1>4 DEF s

LEMMA IntoThree ==
  ASSUME NEW R, NEW i, NEW j, NEW l, Into(R, <<i>>), Into(R, <<j>>), Into(R, <<l>>)
  PROVE  Into(R, <<i, j, l>>)
<1> DEFINE s == <<i, j, l>>
<1>1. DOMAIN s = {1, 2, 3} /\ s[1] = i /\ s[2] = j /\ s[3] = l /\ s \in Seq({i, j, l})
  OBVIOUS
<1>2. {s[k] : k \in DOMAIN s} = {i, j, l}
  BY <1>1
<1>3. /\ i.op \notin {"sw", "swg"} /\ i.rd \in R /\ j.op \notin {"sw", "swg"} /\ j.rd \in R
      /\ l.op \notin {"sw", "swg"} /\ l.rd \in R
  BY OneInto
<1> HIDE DEF s
<1>4. Into(R, s)
  BY <1>1, <1>2, <1>3 DEF Into
<1> QED BY <1>4 DEF s

-----------------------------------------------------------------------------
(* Selection, bottom up.  R has the scratch registers.                     *)
LEMMA IntoLoads ==
  ASSUME NEW R, A7 \in R, NEW cg_, NEW val, NEW d \in R, NEW off
  PROVE  /\ Into(R, LoadOff(d, off)) /\ Into(R, ToReg(cg_, val, d))
         /\ Into(R, Materialize(cg_, val, d))
<1>1. \A x : Into(R, LoadOff(d, x))
  <2> TAKE x
  <2>1. Into(R, <<RRI("lw", d, SP, x)>>)
    BY IntoForms
  <2>2. /\ Into(R, <<LI(A7, x)>>) /\ Into(R, <<RRR("add", A7, SP, A7)>>)
        /\ Into(R, <<RRI("lw", d, A7, 0)>>)
    BY IntoForms, IntoMoves
  <2>3. Into(R, <<LI(A7, x), RRR("add", A7, SP, A7), RRI("lw", d, A7, 0)>>)
    BY <2>2, IntoThree
  <2> QED BY <2>1, <2>3 DEF LoadOff
<1>2. \A n : Into(R, <<LI(d, n)>>)
  BY IntoMoves
<1>3. \A r : Into(R, MoveTo(d, r))
  BY IntoMoves
<1>4. Into(R, ToReg(cg_, val, d))
  BY <1>1, <1>2, IntoNone DEF ToReg
<1>5. Into(R, Materialize(cg_, val, d))
  BY <1>1, <1>2, <1>3 DEF Materialize
<1> QED BY <1>1, <1>4, <1>5

LEMMA IntoMulConst ==
  ASSUME NEW R, T6 \in R, NEW rd \in R, NEW ra, NEW c
  PROVE  Into(R, MulConst(rd, ra, c)) /\ Into(R, NegIf(c, rd))
<1>1. Into(R, NegIf(c, rd))
  BY IntoForms, IntoNone DEF NegIf
<1>2. ASSUME NEW n, NEW op \in {"add", "sub"}
      PROVE  Into(R, <<RRI("slli", T6, ra, n), RRR(op, rd, T6, ra)>> \o NegIf(c, rd))
  <2>1. Into(R, <<RRI("slli", T6, ra, n)>>) /\ Into(R, <<RRR(op, rd, T6, ra)>>)
    BY IntoForms
  <2>2. Into(R, <<RRI("slli", T6, ra, n), RRR(op, rd, T6, ra)>>)
    BY <2>1, IntoTwo
  <2> QED BY <1>1, <2>2, IntoBoth
<1>3. Into(R, <<LI(rd, 0)>>) /\ Into(R, MoveTo(rd, ra)) /\ Into(R, <<RR("neg", rd, ra)>>)
  BY IntoForms, IntoMoves
<1>4. ASSUME NEW n
      PROVE  Into(R, <<RRI("slli", rd, ra, n)>> \o NegIf(c, rd))
  <2>1. Into(R, <<RRI("slli", rd, ra, n)>>)
    BY IntoForms
  <2> QED BY <1>1, <2>1, IntoBoth
<1>5. Into(R, <<LI(T6, c), RRR("mul", rd, ra, T6)>>)
  <2>1. Into(R, <<LI(T6, c)>>) /\ Into(R, <<RRR("mul", rd, ra, T6)>>)
    BY IntoForms, IntoMoves
  <2> QED BY <2>1, IntoTwo
<1>6. Into(R, MulConst(rd, ra, c))
  BY <1>2, <1>3, <1>4, <1>5 DEF MulConst
<1> QED BY <1>1, <1>6

LEMMA IntoPow2Bias ==
  ASSUME NEW R, NEW rd \in R, NEW ra, NEW k
  PROVE  Into(R, Pow2Bias(rd, ra, k))
<1>1. /\ Into(R, <<RRI("srli", rd, ra, Width - 1)>>) /\ Into(R, <<RRI("srai", rd, ra, Width - 1)>>)
      /\ Into(R, <<RRI("srli", rd, rd, Width - k)>>)
  BY IntoForms
<1>2. Into(R, <<RRI("srai", rd, ra, Width - 1), RRI("srli", rd, rd, Width - k)>>)
  BY <1>1, IntoTwo
<1> QED BY <1>1, <1>2 DEF Pow2Bias

LEMMA IntoLoadMagic ==
  ASSUME NEW R, A7 \in R, T6 \in R, NEW g, NEW i, NEW M
  PROVE  Into(R, LoadMagic(g, i, M))
<1>1. Into(R, ToReg(g, Reg(i.magic), A7)) /\ Into(R, <<LI(T6, M)>>)
  BY IntoLoads, IntoMoves
<1> QED BY <1>1 DEF LoadMagic

(* The end of a magic division.                                            *)
LEMMA IntoMagicQuotient ==
  ASSUME NEW R, A7 \in R, T6 \in R, NEW g, NEW i, NEW q \in R, NEW ra, NEW c
  PROVE  Into(R, MagicQuotient(g, i, q, ra, c))
<1>1. \A M : Into(R, LoadMagic(g, i, M))
  BY IntoLoadMagic
<1>2. CASE i.unsignedDiv
  <2> DEFINE u == UnsignedMagic[c]
             x == <<RRR("mulhu", A7, ra, MagicIn(g, i))>>
             y == IF u.s > 0 THEN <<RRI("srli", q, A7, u.s)>> ELSE MoveTo(q, A7)
             l == LoadMagic(g, i, u.M)
  <2>1. Into(R, x)
    BY IntoForms
  <2>2. Into(R, y)
    <3>1. Into(R, <<RRI("srli", q, A7, u.s)>>) /\ Into(R, MoveTo(q, A7))
      BY IntoForms, IntoMoves
    <3> QED BY <3>1
  <2>3. Into(R, l)
    BY <1>1
  <2> HIDE DEF x, y, l
  <2>4. Into(R, l \o x \o y)
    BY <2>1, <2>2, <2>3, IntoBoth
  <2> QED BY <1>2, <2>4 DEF MagicQuotient, l, x, y
<1>3. CASE ~i.unsignedDiv
  <2> DEFINE m == SignedMagic[c]
             l == LoadMagic(g, i, m.M)
             x == <<RRR("mulh", A7, ra, MagicIn(g, i))>>
             y == CASE c > 0 /\ m.M < 0 -> <<RRR("add", A7, A7, ra)>>
                    [] c < 0 /\ m.M > 0 -> <<RRR("sub", A7, A7, ra)>>
                    [] OTHER -> << >>
             z == IF m.s > 0 THEN <<RRI("srai", A7, A7, m.s)>> ELSE << >>
             w == <<RRI("srli", T6, A7, Width - 1), RRR("add", q, A7, T6)>>
  <2>1. Into(R, l) /\ Into(R, x)
    BY <1>1, IntoForms
  <2>2. Into(R, y)
    <3>1. Into(R, <<RRR("add", A7, A7, ra)>>) /\ Into(R, <<RRR("sub", A7, A7, ra)>>)
      BY IntoForms
    <3> QED BY <3>1, IntoNone
  <2>3. Into(R, z)
    <3>1. Into(R, <<RRI("srai", A7, A7, m.s)>>)
      BY IntoForms
    <3> QED BY <3>1, IntoNone
  <2>4. Into(R, w)
    <3>1. Into(R, <<RRI("srli", T6, A7, Width - 1)>>) /\ Into(R, <<RRR("add", q, A7, T6)>>)
      BY IntoForms
    <3> QED BY <3>1, IntoTwo
  <2>5. MagicQuotient(g, i, q, ra, c) = l \o x \o y \o z \o w
    BY <1>3 DEF MagicQuotient
  <2> HIDE DEF l, x, y, z, w
  <2>6. Into(R, l \o x \o y \o z \o w)
    BY <2>1, <2>2, <2>3, <2>4, IntoBoth
  <2> QED BY <2>5, <2>6
<1> QED BY <1>2, <1>3

(* Every constant divisor is one of those a shorter form is written for.   *)
LEMMA DivisorForms ==
  ASSUME NEW c \in Words
  PROVE  /\ c = 1 \/ c = -1 \/ c = 0 \/ IsPow2(Magnitude(c)) \/ NeedsMagic(c)
         /\ c # 0 => Magnitude(c) = 1 \/ IsPow2(Magnitude(c)) \/ NeedsMagic(c)
<1>1. c \in Int /\ Magnitude(c) \in Nat
  BY HalfAssumption DEF Words, Magnitude
<1>3. 1 \in 1 .. Width - 1 /\ 2 = Pow2[1]
  BY WidthFacts
<1>4. IsPow2(2)
  BY <1>3 DEF IsPow2
<1>5. Magnitude(c) = 0 <=> c = 0
  BY <1>1 DEF Magnitude
<1>6. Magnitude(c) = 1 <=> c = 1 \/ c = -1
  BY <1>1 DEF Magnitude
<1>7. Magnitude(c) \in {0, 1, 2} \/ Magnitude(c) >= 3
  BY <1>1
<1> QED BY <1>4, <1>5, <1>6, <1>7 DEF NeedsMagic

LEMMA IntoDivConst ==
  ASSUME NEW R, A7 \in R, T6 \in R, NEW g, NEW i, NEW rd \in R, NEW ra, NEW c \in Words
  PROVE  Into(R, DivConst(g, i, rd, ra, c))
<1> DEFINE k == Log2(Magnitude(c))
           x == Pow2Bias(T6, ra, k)
           y == <<RRR("add", T6, ra, T6), RRI("srai", rd, T6, k)>>
           z == NegIf(c, rd)
<1>1. Into(R, MoveTo(rd, ra)) /\ Into(R, <<RR("neg", rd, ra)>>)
  BY IntoForms, IntoMoves
<1>2. Into(R, <<LI(T6, 0), RRR("div", rd, ra, T6)>>)
  <2>1. Into(R, <<LI(T6, 0)>>) /\ Into(R, <<RRR("div", rd, ra, T6)>>)
    BY IntoForms, IntoMoves
  <2> QED BY <2>1, IntoTwo
<1>3. Into(R, y)
  <2>1. Into(R, <<RRR("add", T6, ra, T6)>>) /\ Into(R, <<RRI("srai", rd, T6, k)>>)
    BY IntoForms
  <2> QED BY <2>1, IntoTwo
<1>4. Into(R, x \o y \o z)
  <2>1. Into(R, x) /\ Into(R, z)
    BY IntoPow2Bias, IntoMulConst
  <2> HIDE DEF x, y, z
  <2> QED BY <1>3, <2>1, IntoBoth
<1>5. Into(R, MagicQuotient(g, i, rd, ra, c))
  BY IntoMagicQuotient
<1>6. c = 1 \/ c = -1 \/ c = 0 \/ IsPow2(Magnitude(c)) \/ NeedsMagic(c)
  BY DivisorForms
<1> QED BY <1>1, <1>2, <1>4, <1>5, <1>6 DEF DivConst

LEMMA IntoModConst ==
  ASSUME NEW R, A6 \in R, A7 \in R, T6 \in R, NEW g, NEW i, NEW rd \in R, NEW ra,
         NEW c \in Words, c # 0, i.unsignedDiv \in BOOLEAN
  PROVE  Into(R, ModConst(g, i, rd, ra, c))
<1> DEFINE k == Log2(Magnitude(c))
           u == UnsignedMagic[c]
           q == IF u.s > 0 THEN A6 ELSE A7
           sub == <<RRR("sub", rd, ra, A7)>>
<1>1. Into(R, <<LI(rd, 0)>>) /\ Into(R, sub)
  BY IntoForms, IntoMoves
<1> DEFINE x2 == Pow2Bias(T6, ra, k)
           y2 == <<RRR("add", T6, ra, T6), RRI("srai", T6, T6, k), RRI("slli", T6, T6, k),
                   RRR("sub", rd, ra, T6)>>
<1>2. Into(R, x2 \o y2)
  <2>1. /\ Into(R, <<RRR("add", T6, ra, T6)>>) /\ Into(R, <<RRI("srai", T6, T6, k)>>)
        /\ Into(R, <<RRI("slli", T6, T6, k)>>) /\ Into(R, <<RRR("sub", rd, ra, T6)>>)
    BY IntoForms
  <2>2. Into(R, y2)
    BY <2>1, IntoFour
  <2>3. Into(R, x2)
    BY IntoPow2Bias
  <2> HIDE DEF x2, y2
  <2> QED BY <2>2, <2>3, IntoBoth
<1> DEFINE l3 == LoadMagic(g, i, u.M)
           x3 == <<RRR("mulhu", A7, ra, MagicIn(g, i))>>
           y3 == IF u.s > 0 THEN <<RRI("srli", A6, A7, u.s)>> ELSE << >>
           z3 == MulConst(A7, q, c)
<1>3. Into(R, l3 \o x3 \o y3 \o z3 \o sub)
  <2>1. Into(R, l3) /\ Into(R, x3) /\ Into(R, z3)
    BY IntoLoadMagic, IntoForms, IntoMulConst
  <2>2. Into(R, y3)
    <3>1. Into(R, <<RRI("srli", A6, A7, u.s)>>)
      BY IntoForms
    <3> QED BY <3>1, IntoNone
  <2> HIDE DEF l3, x3, y3, z3, sub
  <2> QED BY <1>1, <2>1, <2>2, IntoBoth
<1> DEFINE l4 == MagicQuotient(g, i, A6, ra, c)
           z4 == MulConst(A7, A6, c)
<1>4. Into(R, l4 \o z4 \o sub)
  <2>1. Into(R, l4) /\ Into(R, z4)
    BY IntoMagicQuotient, IntoMulConst
  <2> HIDE DEF l4, z4, sub
  <2> QED BY <1>1, <2>1, IntoBoth
<1>5. i.unsignedDiv \/ ~i.unsignedDiv
  OBVIOUS
<1>6. Magnitude(c) = 1 \/ IsPow2(Magnitude(c)) \/ NeedsMagic(c)
  BY DivisorForms
<1> QED BY <1>1, <1>2, <1>3, <1>4, <1>5, <1>6 DEF ModConst

-----------------------------------------------------------------------------
(* The sequence for instruction i computes into registers of R, and then   *)
(* writes a spilled result back.                                           *)
Selected(R, g, i, s) ==
  \E body : Into(R, body) /\ s = body \o WriteBack(g, i.dst, DstReg(g, i.dst))

LEMMA FramedSelected ==
  ASSUME NEW R, NEW g, NEW i, NEW before, NEW body, Into(R, before), Into(R, body)
  PROVE  Selected(R, g, i, Framed(g, i, before, body))
<1>1. Into(R, before \o body)
  BY IntoBoth
<1> QED BY <1>1 DEF Framed, Selected

LEMMA OnSelected ==
  ASSUME NEW R, A7 \in R, T5 \in R, NEW g, NEW i, NEW body, Into(R, body)
  PROVE  Selected(R, g, i, OnA(g, i, body)) /\ Selected(R, g, i, OnB(g, i, body))
<1>1. Into(R, ToReg(g, i.a, T5)) /\ Into(R, ToReg(g, i.b, T5))
  BY IntoLoads
<1> QED BY <1>1, FramedSelected DEF OnA, OnB

LEMMA GeneralSelected ==
  ASSUME NEW R, A7 \in R, T5 \in R, T6 \in R, NEW g, NEW i, i.op \in BinaryOps,
         DstReg(g, i.dst) \in R
  PROVE  Selected(R, g, i, General(g, i))
<1> DEFINE a == InReg(g, i.a, T5)
           b == InReg(g, i.b, T6)
           d == DstReg(g, i.dst)
           op3(op) == <<RRR(op, d, a, b)>>
           body == CASE i.op = "Add" -> op3("add")
                     [] i.op = "Sub" -> op3("sub")
                     [] i.op = "Mul" -> op3("mul")
                     [] i.op = "Div" -> op3("div")
                     [] i.op = "Mod" -> op3("rem")
                     [] i.op = "Lt"  -> op3("slt")
                     [] i.op = "Gt"  -> <<RRR("slt", d, b, a)>>
                     [] i.op = "Le"  -> <<RRR("slt", d, b, a), RR("flip", d, d)>>
                     [] i.op = "Ge"  -> op3("slt") \o <<RR("flip", d, d)>>
                     [] i.op = "Eq"  -> op3("sub") \o <<RR("seqz", d, d)>>
                     [] i.op = "Ne"  -> op3("sub") \o <<RR("snez", d, d)>>
           before == ToReg(g, i.a, T5) \o ToReg(g, i.b, T6)
<1>1. Into(R, before)
  <2>1. Into(R, ToReg(g, i.a, T5)) /\ Into(R, ToReg(g, i.b, T6))
    BY IntoLoads
  <2> QED BY <2>1, IntoBoth
<1>2. /\ Into(R, op3("add")) /\ Into(R, op3("sub")) /\ Into(R, op3("mul"))
      /\ Into(R, op3("div")) /\ Into(R, op3("rem")) /\ Into(R, op3("slt"))
      /\ Into(R, <<RRR("slt", d, b, a)>>)
  BY IntoForms
<1>3. /\ Into(R, <<RR("flip", d, d)>>) /\ Into(R, <<RR("seqz", d, d)>>)
      /\ Into(R, <<RR("snez", d, d)>>)
  BY IntoForms
<1>4. /\ Into(R, op3("slt") \o <<RR("flip", d, d)>>)
      /\ Into(R, op3("sub") \o <<RR("seqz", d, d)>>)
      /\ Into(R, op3("sub") \o <<RR("snez", d, d)>>)
      /\ Into(R, <<RRR("slt", d, b, a), RR("flip", d, d)>>)
  BY <1>2, <1>3, IntoBoth, IntoTwo
<1>5. Into(R, body)
  BY <1>2, <1>4 DEF BinaryOps
<1>6. General(g, i) = Framed(g, i, before, body)
  BY DEF General
<1> HIDE DEF before, body
<1> QED BY <1>1, <1>5, <1>6, FramedSelected

(* The sequence for an operator, whichever form its operands select.       *)
LEMMA BinarySelected ==
  ASSUME NEW R, A6 \in R, A7 \in R, T5 \in R, T6 \in R, NEW g, NEW i, i.op \in BinaryOps,
         DstReg(g, i.dst) \in R, i.unsignedDiv \in BOOLEAN,
         ~IsReg(i.b) => i.b.n \in Words,
         i.op = "Mod" /\ ~IsReg(i.b) /\ g.opt => i.b.n # 0
  PROVE  Selected(R, g, i, EmitBinary(g, i))
<1> DEFINE a == InReg(g, i.a, T5)
           b == InReg(g, i.b, T5)
           d == DstReg(g, i.dst)
           m == i.a.n
           n == i.b.n
<1>1. /\ Into(R, <<RRI("addi", d, a, n)>>) /\ Into(R, <<RRI("addi", d, b, m)>>)
      /\ Into(R, <<RRI("addi", d, a, -n)>>) /\ Into(R, <<RRI("slti", d, a, n)>>)
      /\ Into(R, <<RR("seqz", d, a)>>) /\ Into(R, <<RR("snez", d, a)>>)
  BY IntoForms
<1>2. Into(R, MulConst(d, b, m)) /\ Into(R, MulConst(d, a, n))
  BY IntoMulConst
<1>3. /\ Selected(R, g, i, OnA(g, i, <<RRI("addi", d, a, n)>>))
      /\ Selected(R, g, i, OnB(g, i, <<RRI("addi", d, b, m)>>))
      /\ Selected(R, g, i, OnA(g, i, <<RRI("addi", d, a, -n)>>))
      /\ Selected(R, g, i, OnA(g, i, <<RRI("slti", d, a, n)>>))
      /\ Selected(R, g, i, OnA(g, i, <<RR("seqz", d, a)>>))
      /\ Selected(R, g, i, OnA(g, i, <<RR("snez", d, a)>>))
  BY <1>1, OnSelected
<1>4. /\ Selected(R, g, i, OnB(g, i, MulConst(d, b, m)))
      /\ Selected(R, g, i, OnA(g, i, MulConst(d, a, n)))
  BY <1>2, OnSelected
<1>5. ~IsReg(i.b) => Selected(R, g, i, OnA(g, i, DivConst(g, i, d, a, n)))
  BY IntoDivConst, OnSelected
<1>6. ~IsReg(i.b) /\ n # 0 => Selected(R, g, i, OnA(g, i, ModConst(g, i, d, a, n)))
  BY IntoModConst, OnSelected
<1>7. Selected(R, g, i, General(g, i))
  BY GeneralSelected
<1> QED BY <1>3, <1>4, <1>5, <1>6, <1>7 DEF EmitBinary

(* What InstCode writes, except for a store.                               *)
LEMMA InstSelected ==
  ASSUME NEW R, A6 \in R, A7 \in R, T5 \in R, T6 \in R, NEW g, NEW i,
         i.op \in Ops \ {"Call", "StoreGlobal"},
         DstReg(g, i.dst) \in R, i.unsignedDiv \in BOOLEAN,
         ~IsReg(i.b) => i.b.n \in Words,
         i.op = "Mod" /\ ~IsReg(i.b) /\ g.opt => i.b.n # 0
  PROVE  Selected(R, g, i, InstCode(g, i))
<1> DEFINE a == InReg(g, i.a, T5)
           d == DstReg(g, i.dst)
<1>1. /\ Into(R, Materialize(g, i.a, d)) /\ Into(R, <<RR("neg", d, a)>>)
      /\ Into(R, <<RR("seqz", d, a)>>) /\ Into(R, <<RRI("lwg", d, ZERO, i.gid)>>)
  BY IntoLoads, IntoForms
<1>2. /\ Selected(R, g, i, Framed(g, i, << >>, Materialize(g, i.a, d)))
      /\ Selected(R, g, i, Framed(g, i, << >>, <<RRI("lwg", d, ZERO, i.gid)>>))
  BY <1>1, IntoNone, FramedSelected
<1>3. /\ Selected(R, g, i, OnA(g, i, <<RR("neg", d, a)>>))
      /\ Selected(R, g, i, OnA(g, i, <<RR("seqz", d, a)>>))
  BY <1>1, OnSelected
<1>4. i.op \in BinaryOps => Selected(R, g, i, EmitBinary(g, i))
  BY BinarySelected
<1>5. i.op \in {"Mv", "Neg", "Not", "LoadGlobal"} \/ i.op \in BinaryOps
  BY DEF Ops, UnaryOps
<1> QED BY <1>2, <1>3, <1>4, <1>5 DEF InstCode, BinaryOps

-----------------------------------------------------------------------------
(* Where a sequence may write.                                             *)
Kept == Scratch \cup OwnRegs

(* A load of the address off into a7, and its sum with sp.                 *)
Address(off) == LI(A7, off)
Summed == RRR("add", A7, SP, A7)

(* Instruction k of sequence c computes into a register it may write, or   *)
(* stores to the global of in, or to the slot of in: near sp, or at an     *)
(* address that the two instructions before it have made.                  *)
Tidy(c, k) ==
  \/ c[k].op \notin {"sw", "swg"} /\ c[k].rd \in Kept
  \/ c[k].op = "swg" /\ c[k].rs = T6 /\ c[k].n = in.gid /\ in.op = "StoreGlobal"
  \/ /\ c[k].op = "sw"
     /\ \E off \in OwnSlots \cap Words :
          \/ c[k].rs = SP /\ c[k].n = off
          \/ /\ c[k].rs = A7 /\ c[k].n = 0
             /\ k > 2 /\ c[k - 1] = Summed /\ c[k - 2] = Address(off)

(* Two sequences in a row.                                                 *)
LEMMA InARow ==
  ASSUME NEW s, NEW t, s \in Seq({s[k] : k \in DOMAIN s}), t \in Seq({t[k] : k \in DOMAIN t})
  PROVE  /\ Len(s \o t) = Len(s) + Len(t)
         /\ DOMAIN (s \o t) = 1 .. Len(s) + Len(t) /\ Len(s) \in Nat /\ Len(t) \in Nat
         /\ DOMAIN s = 1 .. Len(s) /\ DOMAIN t = 1 .. Len(t)
         /\ \A k \in 1 .. Len(s) : (s \o t)[k] = s[k]
         /\ \A k \in 1 .. Len(t) : (s \o t)[Len(s) + k] = t[k]
<1> DEFINE S == {s[k] : k \in DOMAIN s}
           T == {t[k] : k \in DOMAIN t}
<1>1. s \in Seq(S \cup T) /\ t \in Seq(S \cup T)
  OBVIOUS
<1> HIDE DEF S, T
<1> QED BY <1>1

LEMMA CaseFacts ==
  ASSUME IsCase([in |-> in, cg |-> cg])
  PROVE  /\ in.op \in Ops \ {"Call"} /\ in.unsignedDiv \in BOOLEAN
         /\ ~IsReg(in.b) => in.b = Imm(in.b.n) /\ in.b.n \in Words
         /\ ByUnsigned(in) => in.b.n > 0
         /\ SP \notin Kept
         /\ in.op # "StoreGlobal" =>
              /\ DstReg(cg, in.dst) \in Kept
              /\ \/ cg.dstOverride # NoReg \/ cg.reg[in.dst] # NoReg
                 \/ OwnSlots = {SpillOff(cg, in.dst)} /\ SpillOff(cg, in.dst) \in Words
<1>1. /\ in.op \in Ops \ {"Call"} /\ in.unsignedDiv \in BOOLEAN
      /\ ~IsReg(in.b) => in.b = Imm(in.b.n) /\ in.b.n \in Words
      /\ ByUnsigned(in) => in.b.n > 0
      /\ in.op # "StoreGlobal" => in.dst # NoReg
      /\ cg.dstOverride # SP
      /\ in.dst # NoReg => /\ cg.reg[in.dst] # SP
                           /\ cg.reg[in.dst] # NoReg \/ SpillOff(cg, in.dst) \in Words
  BY DEF IsCase
<1>2. SP \notin Kept
  BY <1>1 DEF Kept, Scratch, OwnRegs, SP, A6, A7, T5, T6
<1>3. ASSUME in.op # "StoreGlobal"
      PROVE  /\ DstReg(cg, in.dst) \in Kept
             /\ \/ cg.dstOverride # NoReg \/ cg.reg[in.dst] # NoReg
                \/ OwnSlots = {SpillOff(cg, in.dst)} /\ SpillOff(cg, in.dst) \in Words
  BY <1>1, <1>3 DEF Kept, Scratch, OwnRegs, OwnSlots, DstReg
<1> QED BY <1>1, <1>2, <1>3

(* Every sequence that is emitted is tidy.                                 *)
LEMMA TidyCode ==
  ASSUME IsCase([in |-> in, cg |-> cg]), ~Faults(cg, in), NEW c, c = InstCode(cg, in)
  PROVE  /\ DOMAIN c = 1 .. Len(c) /\ Len(c) \in Nat
         /\ \A k \in DOMAIN c : Tidy(c, k)
<1>1. {A6, A7, T5, T6} \subseteq Kept
  BY DEF Kept, Scratch
<1>2. CASE in.op = "StoreGlobal"
  <2> DEFINE s == ToReg(cg, in.a, T5)
             i == RRI("swg", InReg(cg, in.a, T5), T6, in.gid)
             t == <<i>>
  <2>1. Into(Kept, s)
    BY <1>1, IntoLoads
  <2>2. c = s \o t
    BY <1>2 DEF InstCode, UnaryOps
  <2>3. DOMAIN t = {1} /\ t[1] = i /\ Len(t) = 1 /\ t \in Seq({t[k] : k \in DOMAIN t})
    OBVIOUS
  <2>4. i.op = "swg" /\ i.rs = T6 /\ i.n = in.gid
    BY DEF RRI
  <2> HIDE DEF s, t, i
  <2>5. /\ DOMAIN c = 1 .. Len(s) + 1 /\ Len(s) \in Nat
        /\ DOMAIN s = 1 .. Len(s)
        /\ \A k \in 1 .. Len(s) : c[k] = s[k]
        /\ c[Len(s) + 1] = i
    <3>1. /\ DOMAIN c = 1 .. Len(s) + Len(t) /\ Len(s) \in Nat /\ DOMAIN s = 1 .. Len(s)
          /\ \A k \in 1 .. Len(s) : c[k] = s[k]
          /\ \A k \in 1 .. Len(t) : c[Len(s) + k] = t[k]
      <4>1. s \in Seq({s[k] : k \in DOMAIN s}) /\ t \in Seq({t[k] : k \in DOMAIN t})
        BY <2>1, <2>3 DEF Into
      <4> QED BY <2>2, <4>1, InARow
    <3>2. 1 \in 1 .. Len(t)
      BY <2>3
    <3> QED BY <2>3, <3>1, <3>2
  <2>6. \A k \in 1 .. Len(s) : Tidy(c, k)
    BY <2>1, <2>5 DEF Into, Tidy
  <2>7. Tidy(c, Len(s) + 1)
    BY <1>2, <2>4, <2>5 DEF Tidy
  <2>8. Len(c) = Len(s) + 1
    BY <2>1, <2>2, <2>3, <2>5, InARow DEF Into
  <2> QED BY <2>5, <2>6, <2>7, <2>8
<1>3. CASE in.op # "StoreGlobal"
  <2>1. in.op = "Mod" /\ ~IsReg(in.b) /\ cg.opt => in.b.n # 0
    BY CaseFacts DEF Faults, ByUnsigned
  <2>2. Selected(Kept, cg, in, c)
    BY <1>1, <1>3, <2>1, CaseFacts, InstSelected
  <2> DEFINE r == DstReg(cg, in.dst)
             off == SpillOff(cg, in.dst)
             t == WriteBack(cg, in.dst, r)
  <2>3. PICK s : Into(Kept, s) /\ c = s \o t
    BY <2>2 DEF Selected
  <2>4. ASSUME t \in Seq({t[k] : k \in DOMAIN t}),
               \A k \in DOMAIN t : Len(s) \in Nat /\ DOMAIN c = 1 .. Len(s) + Len(t)
                   /\ (\A j \in DOMAIN t : c[Len(s) + j] = t[j]) => Tidy(c, Len(s) + k)
        PROVE  /\ DOMAIN c = 1 .. Len(c) /\ Len(c) \in Nat
               /\ \A k \in DOMAIN c : Tidy(c, k)
    <3> HIDE DEF t
    <3>1. /\ DOMAIN c = 1 .. Len(s) + Len(t) /\ Len(s) \in Nat /\ Len(t) \in Nat
          /\ DOMAIN s = 1 .. Len(s) /\ DOMAIN t = 1 .. Len(t)
          /\ \A k \in 1 .. Len(s) : c[k] = s[k]
          /\ \A k \in 1 .. Len(t) : c[Len(s) + k] = t[k]
      BY <2>3, <2>4, InARow DEF Into
    <3>2. \A k \in 1 .. Len(s) : Tidy(c, k)
      BY <2>3, <3>1 DEF Into, Tidy
    <3>3. \A k \in 1 .. Len(t) : Tidy(c, Len(s) + k)
      BY <2>4, <3>1
    <3>4. \A k \in DOMAIN c : k \in 1 .. Len(s) \/ (k - Len(s) \in 1 .. Len(t) /\ k = Len(s) + (k - Len(s)))
      BY <3>1
    <3>5. Len(c) = Len(s) + Len(t)
      BY <2>3, <2>4, InARow DEF Into
    <3> QED BY <3>1, <3>2, <3>3, <3>4, <3>5
  <2>5. CASE t = << >>
    <3>1. DOMAIN t = {} /\ t \in Seq({t[k] : k \in DOMAIN t})
      BY <2>5
    <3> HIDE DEF t
    <3> QED BY <2>4, <3>1
  <2>6. CASE t # << >>
    <3>1. /\ t = StoreOff(r, off) /\ OwnSlots = {off} /\ off \in Words
      BY <1>3, <2>6, CaseFacts DEF WriteBack
    <3>2. CASE Fits(off)
      <4> DEFINE i == RRI("sw", r, SP, off)
      <4>1. t = <<i>>
        BY <3>1, <3>2 DEF StoreOff
      <4>2. i.op = "sw" /\ i.rs = SP /\ i.n = off
        BY DEF RRI
      <4> HIDE DEF t, i, off
      <4>3. DOMAIN t = {1} /\ t[1] = i /\ t \in Seq({t[k] : k \in DOMAIN t})
        BY <4>1
      <4> QED BY <2>4, <3>1, <4>2, <4>3 DEF Tidy
    <3>3. CASE ~Fits(off)
      <4> DEFINE i == RRI("sw", r, A7, 0)
      <4>1. t = <<Address(off), Summed, i>>
        BY <3>1, <3>3 DEF StoreOff, Address, Summed
      <4>2. /\ i.op = "sw" /\ i.rs = A7 /\ i.n = 0
            /\ Address(off).op = "li" /\ Address(off).rd = A7
            /\ Summed.op = "add" /\ Summed.rd = A7
        BY DEF RRI, RRR, LI, Address, Summed
      <4> HIDE DEF t, i, off
      <4>3. /\ DOMAIN t = {1, 2, 3} /\ t[1] = Address(off) /\ t[2] = Summed /\ t[3] = i
            /\ t \in Seq({t[k] : k \in DOMAIN t})
        BY <4>1
      <4>4. ASSUME Len(s) \in Nat, \A j \in DOMAIN t : c[Len(s) + j] = t[j]
            PROVE  Tidy(c, Len(s) + 1) /\ Tidy(c, Len(s) + 2) /\ Tidy(c, Len(s) + 3)
        <5>1. /\ c[Len(s) + 1] = Address(off) /\ c[Len(s) + 2] = Summed
              /\ c[Len(s) + 3] = i
          BY <4>3, <4>4
        <5>2. Tidy(c, Len(s) + 1) /\ Tidy(c, Len(s) + 2)
          BY <1>1, <4>2, <5>1 DEF Tidy
        <5>3. Len(s) + 3 > 2 /\ Len(s) + 3 - 1 = Len(s) + 2 /\ Len(s) + 3 - 2 = Len(s) + 1
          BY <4>4
        <5>4. Tidy(c, Len(s) + 3)
          BY <3>1, <4>2, <5>1, <5>3 DEF Tidy
        <5> QED BY <5>2, <5>4
      <4> QED BY <2>4, <4>3, <4>4
    <3> QED BY <3>2, <3>3
  <2> QED BY <2>5, <2>6
<1> QED BY <1>2, <1>3

-----------------------------------------------------------------------------
(* Machines, and what one write does to them.                              *)
Machine(s) ==
  /\ s = [r |-> s.r, m |-> s.m, g |-> s.g]
  /\ s.r = [x \in 0 .. 31 |-> s.r[x]]
  /\ s.m = [x \in DOMAIN start.m |-> s.m[x]]
  /\ s.g = [x \in DOMAIN start.g |-> s.g[x]]

LEMMA SetReg ==
  ASSUME NEW s, Machine(s), NEW d, NEW e, NEW t, t = [s EXCEPT !.r[d] = e]
  PROVE  /\ Machine(t) /\ t.m = s.m /\ t.g = s.g
         /\ \A x \in (0 .. 31) \ {d} : t.r[x] = s.r[x]
         /\ d \in 0 .. 31 => t.r[d] = e
<1> DEFINE q == [s.r EXCEPT ![d] = e]
<1>1. t = [r |-> q, m |-> s.m, g |-> s.g]
  BY DEF Machine
<1>2. t.r = q /\ t.m = s.m /\ t.g = s.g
  BY <1>1
<1>3. DOMAIN s.r = 0 .. 31
  BY DEF Machine
<1>4. /\ q = [x \in 0 .. 31 |-> q[x]]
      /\ \A x \in (0 .. 31) \ {d} : q[x] = s.r[x]
      /\ d \in 0 .. 31 => q[d] = e
  BY <1>3
<1> HIDE DEF q
<1>5. Machine(t)
  BY <1>1, <1>2, <1>4 DEF Machine
<1> QED BY <1>2, <1>4, <1>5

LEMMA SetMem ==
  ASSUME NEW s, Machine(s), NEW d, NEW e, NEW t, t = [s EXCEPT !.m[d] = e]
  PROVE  /\ Machine(t) /\ t.r = s.r /\ t.g = s.g
         /\ \A x \in DOMAIN start.m \ {d} : t.m[x] = s.m[x]
<1> DEFINE q == [s.m EXCEPT ![d] = e]
<1>1. t = [r |-> s.r, m |-> q, g |-> s.g]
  BY DEF Machine
<1>2. t.r = s.r /\ t.m = q /\ t.g = s.g
  BY <1>1
<1>3. DOMAIN s.m = DOMAIN start.m
  BY DEF Machine
<1>4. /\ q = [x \in DOMAIN start.m |-> q[x]]
      /\ \A x \in DOMAIN start.m \ {d} : q[x] = s.m[x]
  BY <1>3
<1> HIDE DEF q
<1>5. Machine(t)
  BY <1>1, <1>2, <1>4 DEF Machine
<1> QED BY <1>2, <1>4, <1>5

LEMMA SetGlobal ==
  ASSUME NEW s, Machine(s), NEW d, NEW e, NEW t, t = [s EXCEPT !.g[d] = e]
  PROVE  /\ Machine(t) /\ t.r = s.r /\ t.m = s.m
         /\ \A x \in DOMAIN start.g \ {d} : t.g[x] = s.g[x]
<1> DEFINE q == [s.g EXCEPT ![d] = e]
<1>1. t = [r |-> s.r, m |-> s.m, g |-> q]
  BY DEF Machine
<1>2. t.r = s.r /\ t.m = s.m /\ t.g = q
  BY <1>1
<1>3. DOMAIN s.g = DOMAIN start.g
  BY DEF Machine
<1>4. /\ q = [x \in DOMAIN start.g |-> q[x]]
      /\ \A x \in DOMAIN start.g \ {d} : q[x] = s.g[x]
  BY <1>3
<1> HIDE DEF q
<1>5. Machine(t)
  BY <1>1, <1>2, <1>4 DEF Machine
<1> QED BY <1>2, <1>4, <1>5

-----------------------------------------------------------------------------
(* The address of a distant slot while it is made: a7 holds off after it   *)
(* was loaded, and after sp, which is 0, was added.                        *)
Addressed ==
  \A off \in Words :
    /\ at > 1 /\ code[at - 1] = Address(off) => st.r[A7] = off
    /\ at > 2 /\ code[at - 1] = Summed /\ code[at - 2] = Address(off) => st.r[A7] = off

EmitInv ==
  /\ IsCase([in |-> in, cg |-> cg])
  /\ Machine(start) /\ start.r[SP] = 0
  /\ at \in Nat \ {0} /\ stage \in {"emit", "run", "fault"}
  /\ stage # "run" => at = 1 /\ st = start
  /\ stage = "run" => /\ DOMAIN code = 1 .. Len(code) /\ Len(code) \in Nat
                       /\ \A k \in DOMAIN code : Tidy(code, k)
                       /\ Addressed
  /\ Machine(st) /\ LeavesOthers

LEMMA EmitInitInv == EmitInit => EmitInv
<1> SUFFICES ASSUME EmitInit PROVE EmitInv
  OBVIOUS
<1>1. PICK family \in Cases : \E c \in family :
         /\ in = c.in /\ cg = c.cg /\ start = Holding(c.cg, c.held)
  BY DEF EmitInit
<1>2. PICK c \in family : in = c.in /\ cg = c.cg /\ start = Holding(c.cg, c.held)
  BY <1>1
<1>3. stage = "emit" /\ at = 1 /\ st = start
  BY DEF EmitInit
<1>4. IsCase(c)
  BY CasesAssumption
<1>5. IsCase([in |-> in, cg |-> cg])
  BY <1>2, <1>4 DEF IsCase
<1>6. Machine(start) /\ start.r[SP] = 0
  <2>1. /\ DOMAIN start.m = 0 .. Half - 1 /\ DOMAIN start.g = {0, 1}
        /\ start.r[SP] = 0
    BY <1>2 DEF Holding, SP, ZERO
  <2>2. /\ start = [r |-> start.r, m |-> start.m, g |-> start.g]
        /\ start.r = [x \in 0 .. 31 |-> start.r[x]]
        /\ start.m = [x \in 0 .. Half - 1 |-> start.m[x]]
        /\ start.g = [x \in {0, 1} |-> start.g[x]]
    BY <1>2 DEF Holding
  <2> QED BY <2>1, <2>2 DEF Machine
<1>7. LeavesOthers
  BY <1>3 DEF LeavesOthers
<1> QED BY <1>3, <1>5, <1>6, <1>7 DEF EmitInv

LEMMA TidySame ==
  ASSUME UNCHANGED <<in, cg>>
  PROVE  \A k : Tidy(code, k)' <=> Tidy(code', k)
BY DEF Tidy, Kept, OwnRegs, OwnSlots

LEMMA EmitStepInv ==
  ASSUME EmitInv, Emit
  PROVE  EmitInv'
<1>1. /\ stage = "emit" /\ ~Faults(cg, in) /\ code' = InstCode(cg, in) /\ stage' = "run"
      /\ UNCHANGED <<in, cg, start, at, st>>
  BY DEF Emit
<1>2. /\ DOMAIN code' = 1 .. Len(code') /\ Len(code') \in Nat
      /\ \A k \in DOMAIN code' : Tidy(code', k)
  BY <1>1, TidyCode DEF EmitInv
<1>3. \A k \in DOMAIN code' : Tidy(code, k)'
  BY <1>1, <1>2, TidySame
<1>4. Addressed' /\ LeavesOthers' /\ Machine(start)' /\ Machine(st)'
      /\ IsCase([in |-> in, cg |-> cg])'
  <2>1. at' = 1
    BY <1>1 DEF EmitInv
  <2>2. Addressed'
    BY <2>1 DEF Addressed
  <2>3. LeavesOthers'
    BY <1>1 DEF EmitInv, LeavesOthers, OwnRegs, OwnSlots
  <2>4. Machine(start)' /\ Machine(st)'
    BY <1>1 DEF EmitInv, Machine
  <2>5. IsCase([in |-> in, cg |-> cg])'
    BY <1>1 DEF EmitInv
  <2> QED BY <2>2, <2>3, <2>4, <2>5
<1> QED BY <1>1, <1>2, <1>3, <1>4 DEF EmitInv

(* A store is no part of an address.                                       *)
LEMMA StoreMakesNoAddress ==
  ASSUME at \in Nat \ {0}, code[at].op \in {"sw", "swg"}, at' = at + 1, code' = code
  PROVE  Addressed'
<1>1. /\ Summed.op = "add"
      /\ \A off : Address(off).op = "li"
  BY DEF Summed, Address, LI, RRI, RRR
<1>2. at' - 1 = at
  OBVIOUS
<1>3. code'[at' - 1] # Summed /\ \A off : code'[at' - 1] # Address(off)
  BY <1>1, <1>2
<1> QED BY <1>3 DEF Addressed, Summed, Address

(* One instruction executed.                                               *)
LEMMA ExecuteStepInv ==
  ASSUME EmitInv, Execute
  PROVE  EmitInv'
<1> DEFINE i == code[at]
<1>1. /\ stage = "run" /\ at =< Len(code) /\ st' = After(i, st) /\ at' = at + 1
      /\ UNCHANGED <<in, cg, start, stage, code>>
  BY DEF Execute
<1>2. /\ at \in DOMAIN code /\ at \in Nat \ {0} /\ Tidy(code, at) /\ Addressed
      /\ Machine(st) /\ Machine(start) /\ LeavesOthers /\ start.r[SP] = 0
  BY <1>1 DEF EmitInv
<1>3. SP \notin Kept /\ {A7, T6} \subseteq Kept /\ Kept = Scratch \cup OwnRegs
  BY CaseFacts DEF EmitInv, Kept, Scratch
<1>4. st.r[SP] = 0
  BY <1>2, <1>3 DEF LeavesOthers, SP
<1>5. \A off \in Words : Wrap(0 + off) = off
  BY HalfAssumption DEF Words, Wrap
(* A step that computes into a register it may write.                      *)
<1>6. ASSUME i.op \notin {"sw", "swg"}, i.rd \in Kept
      PROVE  Machine(st') /\ LeavesOthers' /\ Addressed'
  <2>1. PICK e : st' = [st EXCEPT !.r[i.rd] = e] /\ (i.op = "li" => e = i.n)
                 /\ (i.op = "add" => e = Wrap(st.r[i.rs] + st.r[i.rt]))
    BY <1>1, <1>6 DEF After, Computed
  <2>2. /\ Machine(st') /\ st'.m = st.m /\ st'.g = st.g
        /\ \A x \in (0 .. 31) \ {i.rd} : st'.r[x] = st.r[x]
        /\ i.rd \in 0 .. 31 => st'.r[i.rd] = e
    BY <1>2, <2>1, SetReg
  <2>3. LeavesOthers'
    <3>1. \A x \in 0 .. 31 \ Kept : st'.r[x] = start.r[x]
      BY <1>2, <1>3, <1>6, <2>2 DEF LeavesOthers
    <3>2. \A x \in DOMAIN st'.m \ OwnSlots : st'.m[x] = start.m[x]
      BY <1>2, <2>2 DEF LeavesOthers
    <3>3. \A x \in DOMAIN st'.g :
            \/ st'.g[x] = start.g[x]
            \/ in.op = "StoreGlobal" /\ x = in.gid
      BY <1>2, <2>2 DEF LeavesOthers
    <3> QED BY <1>1, <1>3, <3>1, <3>2, <3>3 DEF LeavesOthers, OwnRegs, OwnSlots
  <2>4. ASSUME NEW off \in Words
        PROVE  /\ i = Address(off) => st'.r[A7] = off
               /\ at > 1 /\ i = Summed /\ code[at - 1] = Address(off) => st'.r[A7] = off
    <3>1. ASSUME i = Address(off) PROVE st'.r[A7] = off
      <4>1. i.op = "li" /\ i.rd = A7 /\ i.n = off /\ A7 \in 0 .. 31
        BY <3>1 DEF Address, LI, RRI, A7
      <4> QED BY <2>1, <2>2, <4>1
    <3>2. ASSUME at > 1, i = Summed, code[at - 1] = Address(off) PROVE st'.r[A7] = off
      <4>1. i.op = "add" /\ i.rd = A7 /\ i.rs = SP /\ i.rt = A7 /\ A7 \in 0 .. 31
        BY <3>2 DEF Summed, RRR, A7
      <4>2. st.r[A7] = off
        BY <1>2, <3>2 DEF Addressed
      <4> QED BY <1>4, <1>5, <2>1, <2>2, <4>1, <4>2
    <3> QED BY <3>1, <3>2
  <2>5. Addressed'
    <3>1. at' - 1 = at /\ at' - 2 = at - 1 /\ (at' > 2 => at > 1)
      BY <1>1, <1>2
    <3> QED BY <1>1, <2>4, <3>1 DEF Addressed, Address, Summed
  <2> QED BY <2>2, <2>3, <2>5
(* A store to a global; rs is left holding an address.                     *)
<1>7. ASSUME i.op = "swg", i.rs = T6, i.n = in.gid, in.op = "StoreGlobal"
      PROVE  Machine(st') /\ LeavesOthers' /\ Addressed'
  <2> DEFINE s == [st EXCEPT !.g[i.n] = st.r[i.rd]]
  <2>1. Machine(s) /\ s.r = st.r /\ s.m = st.m
        /\ \A x \in DOMAIN start.g \ {i.n} : s.g[x] = st.g[x]
    BY <1>2, SetGlobal
  <2>2. st' = [s EXCEPT !.r[T6] = 0]
    BY <1>1, <1>7 DEF After
  <2> HIDE DEF s
  <2>3. /\ Machine(st') /\ st'.m = st.m /\ st'.g = s.g
        /\ \A x \in (0 .. 31) \ {T6} : st'.r[x] = st.r[x]
    BY <2>1, <2>2, SetReg
  <2>4. LeavesOthers'
    <3>1. \A x \in 0 .. 31 \ Kept : st'.r[x] = start.r[x]
      BY <1>2, <1>3, <2>3 DEF LeavesOthers
    <3>2. \A x \in DOMAIN st'.m \ OwnSlots : st'.m[x] = start.m[x]
      BY <1>2, <2>3 DEF LeavesOthers
    <3>3. DOMAIN st'.g = DOMAIN start.g /\ DOMAIN st.g = DOMAIN start.g
      BY <1>2, <2>3 DEF Machine
    <3>4. \A x \in DOMAIN st'.g : st'.g[x] = start.g[x] \/ x = in.gid
      BY <1>2, <1>7, <2>1, <2>3, <3>3 DEF LeavesOthers
    <3> QED BY <1>1, <1>3, <1>7, <3>1, <3>2, <3>4 DEF LeavesOthers, OwnRegs, OwnSlots
  <2>5. Addressed'
    BY <1>1, <1>2, <1>7, StoreMakesNoAddress
  <2> QED BY <2>3, <2>4, <2>5
(* A store to the slot of a spilled result.                                *)
<1>8. ASSUME i.op = "sw", NEW off \in OwnSlots \cap Words,
             \/ i.rs = SP /\ i.n = off
             \/ /\ i.rs = A7 /\ i.n = 0
                /\ at > 2 /\ code[at - 1] = Summed /\ code[at - 2] = Address(off)
      PROVE  Machine(st') /\ LeavesOthers' /\ Addressed'
  <2>1. st.r[i.rs] + i.n = off
    <3>1. off \in Int
      BY HalfAssumption DEF Words
    <3> QED BY <1>2, <1>4, <1>8, <3>1 DEF Addressed
  <2>2. st' = [st EXCEPT !.m[off] = st.r[i.rd]]
    BY <1>1, <1>8, <2>1 DEF After
  <2>3. /\ Machine(st') /\ st'.r = st.r /\ st'.g = st.g
        /\ \A x \in DOMAIN start.m \ {off} : st'.m[x] = st.m[x]
    BY <1>2, <2>2, SetMem
  <2>4. DOMAIN st'.m = DOMAIN start.m /\ DOMAIN st.m = DOMAIN start.m
    BY <1>2, <2>3 DEF Machine
  <2>5. LeavesOthers'
    BY <1>1, <1>2, <1>8, <2>3, <2>4 DEF LeavesOthers, OwnRegs, OwnSlots
  <2>6. Addressed'
    BY <1>1, <1>2, <1>8, StoreMakesNoAddress
  <2> QED BY <2>3, <2>5, <2>6
<1>9. Machine(st') /\ LeavesOthers' /\ Addressed'
  BY <1>2, <1>6, <1>7, <1>8 DEF Tidy
<1>10. \A k \in DOMAIN code' : Tidy(code, k)'
  <2>1. \A k \in DOMAIN code' : Tidy(code', k)
    BY <1>1 DEF EmitInv
  <2> QED BY <1>1, <2>1, TidySame
<1>11. /\ Machine(start)' /\ Machine(st)' /\ start'.r[SP] = 0
  BY <1>1, <1>2, <1>9 DEF Machine
<1>12. IsCase([in |-> in, cg |-> cg])' /\ at' \in Nat \ {0} /\ stage' = "run"
       /\ DOMAIN code' = 1 .. Len(code') /\ Len(code') \in Nat
  BY <1>1, <1>2 DEF EmitInv
<1> QED BY <1>9, <1>10, <1>11, <1>12 DEF EmitInv

LEMMA EmitNextInv ==
  ASSUME EmitInv, [EmitNext]_emitVars
  PROVE  EmitInv'
<1>1. CASE Emit
  BY <1>1, EmitStepInv
<1>2. CASE Execute
  BY <1>2, ExecuteStepInv
<1>3. CASE EmitFaults
  <2>1. stage' = "fault" /\ stage = "emit" /\ UNCHANGED <<in, cg, start, code, at, st>>
    BY <1>3 DEF EmitFaults
  <2> QED BY <2>1 DEF EmitInv, Machine, LeavesOthers, OwnRegs, OwnSlots
<1>4. CASE UNCHANGED emitVars
  <2>1. UNCHANGED <<in, cg, start, stage, code, at, st>>
    BY <1>4 DEF emitVars
  <2>2. Machine(start)' /\ Machine(st)' /\ LeavesOthers'
    <3>1. Machine(start)' /\ Machine(st)'
      BY <2>1 DEF EmitInv, Machine
    <3>2. LeavesOthers'
      BY <2>1 DEF EmitInv, LeavesOthers, OwnRegs, OwnSlots
    <3> QED BY <3>1, <3>2
  <2>3. Addressed' <=> Addressed
    BY <2>1 DEF Addressed
  <2>4. ASSUME stage = "run", NEW k \in DOMAIN code' PROVE Tidy(code, k)'
    <3>1. Tidy(code', k)
      BY <2>1, <2>4 DEF EmitInv
    <3> QED BY <2>1, <3>1, TidySame
  <2>5. stage = "run" => \A k \in DOMAIN code' : Tidy(code, k)'
    BY <2>4
  <2> QED BY <2>1, <2>2, <2>3, <2>5 DEF EmitInv
<1> QED BY <1>1, <1>2, <1>3, <1>4 DEF EmitNext

(* The sequence for an instruction writes its result's home, the scratch   *)
(* registers and, for a store, the global, and leaves everything else as   *)
(* it was, at every step, for every instruction, constant, allocation and  *)
(* width (emitInst with all it calls, codegen/OptCodeGen.cpp).             *)
THEOREM LeavesOthersCorrect == EmitSpec => []LeavesOthers
<1>1. EmitInv /\ [EmitNext]_emitVars => EmitInv'
  BY EmitNextInv
<1>2. EmitInv => LeavesOthers
  BY DEF EmitInv
<1> QED BY <1>1, <1>2, EmitInitInv, PTL DEF EmitSpec

-----------------------------------------------------------------------------
(* Runs of a sequence, from s to t, and of two sequences in a row.         *)
Runs(c, s, t) ==
  \E f : f[0] = s /\ f[Len(c)] = t /\ \A k \in 1 .. Len(c) : f[k] = After(c[k], f[k - 1])

LEMMA RunsNone ==
  ASSUME NEW s, NEW t, Runs(<< >>, s, t)
  PROVE  t = s
<1>1. Len(<< >>) = 0
  OBVIOUS
<1> QED BY <1>1 DEF Runs

LEMMA RunsOne ==
  ASSUME NEW i, NEW s, NEW t, Runs(<<i>>, s, t)
  PROVE  t = After(i, s)
<1> DEFINE c == <<i>>
<1>1. Len(c) = 1 /\ c[1] = i
  OBVIOUS
<1> HIDE DEF c
<1>2. PICK f : f[0] = s /\ f[Len(c)] = t /\ \A k \in 1 .. Len(c) : f[k] = After(c[k], f[k - 1])
  BY DEF Runs, c
<1>3. 1 \in 1 .. 1 /\ 1 - 1 = 0
  OBVIOUS
<1>4. f[1] = After(c[1], f[1 - 1])
  BY <1>1, <1>2, <1>3
<1> QED BY <1>1, <1>2, <1>3, <1>4

LEMMA RunsTwo ==
  ASSUME NEW i, NEW j, NEW s, NEW t, Runs(<<i, j>>, s, t)
  PROVE  t = After(j, After(i, s))
<1> DEFINE c == <<i, j>>
<1>1. Len(c) = 2 /\ c[1] = i /\ c[2] = j
  OBVIOUS
<1> HIDE DEF c
<1>2. PICK f : f[0] = s /\ f[Len(c)] = t /\ \A k \in 1 .. Len(c) : f[k] = After(c[k], f[k - 1])
  BY DEF Runs, c
<1>3. 1 \in 1 .. 2 /\ 1 - 1 = 0 /\ 2 \in 1 .. 2 /\ 2 - 1 = 1
  OBVIOUS
<1>4. f[1] = After(c[1], f[1 - 1]) /\ f[2] = After(c[2], f[2 - 1])
  BY <1>1, <1>2, <1>3
<1> QED BY <1>1, <1>2, <1>3, <1>4

LEMMA RunsThree ==
  ASSUME NEW i, NEW j, NEW l, NEW s, NEW t, Runs(<<i, j, l>>, s, t)
  PROVE  t = After(l, After(j, After(i, s)))
<1> DEFINE c == <<i, j, l>>
<1>1. Len(c) = 3 /\ c[1] = i /\ c[2] = j /\ c[3] = l
  OBVIOUS
<1> HIDE DEF c
<1>2. PICK f : f[0] = s /\ f[Len(c)] = t /\ \A k \in 1 .. Len(c) : f[k] = After(c[k], f[k - 1])
  BY DEF Runs, c
<1>3. 1 \in 1 .. 3 /\ 1 - 1 = 0 /\ 2 \in 1 .. 3 /\ 2 - 1 = 1 /\ 3 \in 1 .. 3 /\ 3 - 1 = 2
  OBVIOUS
<1>4. /\ f[1] = After(c[1], f[1 - 1]) /\ f[2] = After(c[2], f[2 - 1])
      /\ f[3] = After(c[3], f[3 - 1])
  BY <1>1, <1>2, <1>3
<1> QED BY <1>1, <1>2, <1>3, <1>4

LEMMA RunsFour ==
  ASSUME NEW i, NEW j, NEW l, NEW m, NEW s, NEW t, Runs(<<i, j, l, m>>, s, t)
  PROVE  t = After(m, After(l, After(j, After(i, s))))
<1> DEFINE c == <<i, j, l, m>>
<1>1. Len(c) = 4 /\ c[1] = i /\ c[2] = j /\ c[3] = l /\ c[4] = m
  OBVIOUS
<1> HIDE DEF c
<1>2. PICK f : f[0] = s /\ f[Len(c)] = t /\ \A k \in 1 .. Len(c) : f[k] = After(c[k], f[k - 1])
  BY DEF Runs, c
<1>3. /\ 1 \in 1 .. 4 /\ 1 - 1 = 0 /\ 2 \in 1 .. 4 /\ 2 - 1 = 1 /\ 3 \in 1 .. 4 /\ 3 - 1 = 2
      /\ 4 \in 1 .. 4 /\ 4 - 1 = 3
  OBVIOUS
<1>4. /\ f[1] = After(c[1], f[1 - 1]) /\ f[2] = After(c[2], f[2 - 1])
      /\ f[3] = After(c[3], f[3 - 1]) /\ f[4] = After(c[4], f[4 - 1])
  BY <1>1, <1>2, <1>3
<1> QED BY <1>1, <1>2, <1>3, <1>4

LEMMA RunsInARow ==
  ASSUME NEW c, NEW e, c \in Seq({c[k] : k \in DOMAIN c}), e \in Seq({e[k] : k \in DOMAIN e}),
         NEW s, NEW t, Runs(c \o e, s, t)
  PROVE  \E u : Runs(c, s, u) /\ Runs(e, u, t)
<1> DEFINE b == c \o e
           m == Len(c)
           n == Len(e)
<1>2. /\ Len(b) = m + n /\ m \in Nat /\ n \in Nat
      /\ \A k \in 1 .. m : b[k] = c[k]
      /\ \A k \in 1 .. n : b[m + k] = e[k]
  BY InARow
<1> HIDE DEF b, m, n
<1>3. PICK f : f[0] = s /\ f[m + n] = t /\ \A k \in 1 .. m + n : f[k] = After(b[k], f[k - 1])
  BY <1>2 DEF Runs, b
<1> DEFINE h == [k \in 0 .. n |-> f[m + k]]
<1>4. Runs(c, s, f[m])
  <2>1. \A k \in 1 .. m : k \in 1 .. m + n
    BY <1>2
  <2>2. \A k \in 1 .. m : f[k] = After(c[k], f[k - 1])
    BY <1>2, <1>3, <2>1
  <2> QED BY <1>3, <2>2 DEF Runs, m
<1>5. Runs(e, f[m], t)
  <2>1. 0 \in 0 .. n /\ n \in 0 .. n /\ m + 0 = m
    BY <1>2
  <2>2. h[0] = f[m] /\ h[n] = t
    BY <1>3, <2>1
  <2>3. ASSUME NEW k \in 1 .. n PROVE h[k] = After(e[k], h[k - 1])
    <3>1. /\ m + k \in 1 .. m + n /\ (m + k) - 1 = m + (k - 1) /\ k \in 0 .. n
          /\ k - 1 \in 0 .. n
      BY <1>2
    <3>2. f[m + k] = After(b[m + k], f[m + (k - 1)])
      BY <1>3, <3>1
    <3>3. h[k] = f[m + k] /\ h[k - 1] = f[m + (k - 1)] /\ b[m + k] = e[k]
      BY <1>2, <3>1
    <3> QED BY <3>2, <3>3
  <2> HIDE DEF h
  <2> QED BY <2>2, <2>3 DEF Runs, n
<1> QED BY <1>4, <1>5

LEMMA RunsBoth ==
  ASSUME NEW R, NEW c, NEW e, Into(R, c), NEW Q, Into(Q, e), NEW s, NEW t, Runs(c \o e, s, t)
  PROVE  \E u : Runs(c, s, u) /\ Runs(e, u, t)
<1>1. c \in Seq({c[k] : k \in DOMAIN c}) /\ e \in Seq({e[k] : k \in DOMAIN e})
  BY DEF Into
<1> QED BY <1>1, RunsInARow

-----------------------------------------------------------------------------
(* A machine in use: words everywhere, 0 in the zero register and in sp.   *)
Sane(s) ==
  /\ s = [r |-> s.r, m |-> s.m, g |-> s.g]
  /\ s.r \in [0 .. 31 -> Words] /\ s.m \in [0 .. Half - 1 -> Words] /\ s.g \in [{0, 1} -> Words]
  /\ s.r[ZERO] = 0 /\ s.r[SP] = 0

(* What an instruction may compute into.                                   *)
Writable == 0 .. 31 \ {ZERO, SP}

Put(s, d, w) == [s EXCEPT !.r[d] = w]

(* From s to t only registers of R change, and w is left in d.             *)
Leads(s, t, R, d, w) ==
  /\ Sane(t) /\ t.m = s.m /\ t.g = s.g
  /\ \A x \in 0 .. 31 \ R : t.r[x] = s.r[x]
  /\ t.r[d] = w

LEMMA Registers ==
  /\ A6 \in Writable /\ A7 \in Writable /\ T5 \in Writable /\ T6 \in Writable
  /\ Writable \subseteq 0 .. 31 /\ Homes \subseteq Writable
  /\ \A x \in Homes : x \notin Scratch /\ x # ZERO /\ x # SP
  /\ ZERO \in 0 .. 31 /\ SP \in 0 .. 31 /\ ZERO \notin Scratch /\ SP \notin Scratch
  /\ ZERO \notin Writable /\ SP \notin Writable /\ ZERO # SP
  /\ A6 # A7 /\ A6 # T5 /\ A6 # T6 /\ A7 # T5 /\ A7 # T6 /\ T5 # T6
BY DEF Writable, Homes, Scratch, ZERO, SP, A6, A7, T5, T6

LEMMA SaneReads ==
  ASSUME NEW s, Sane(s)
  PROVE  /\ \A x \in 0 .. 31 : s.r[x] \in Words /\ s.r[x] \in Int
         /\ \A k \in 0 .. Half - 1 : s.m[k] \in Words
         /\ s.r[ZERO] = 0 /\ s.r[SP] = 0
<1>1. \A w \in Words : w \in Int
  BY WidthFacts DEF Words
<1>2. /\ \A x \in 0 .. 31 : s.r[x] \in Words
      /\ \A k \in 0 .. Half - 1 : s.m[k] \in Words
      /\ s.r[ZERO] = 0 /\ s.r[SP] = 0
  BY DEF Sane
<1> QED BY <1>1, <1>2

LEMMA PutLeads ==
  ASSUME NEW s, Sane(s), NEW d \in Writable, NEW w \in Words
  PROVE  Leads(s, Put(s, d, w), {d}, d, w)
<1> DEFINE t == Put(s, d, w)
           q == [s.r EXCEPT ![d] = w]
<1>1. s.r \in [0 .. 31 -> Words] /\ d \in 0 .. 31 /\ d # ZERO /\ d # SP
      /\ ZERO \in 0 .. 31 /\ SP \in 0 .. 31
  BY Registers DEF Sane, Writable
<1>2. t = [r |-> q, m |-> s.m, g |-> s.g]
  <2>1. s = [r |-> s.r, m |-> s.m, g |-> s.g]
    BY DEF Sane
  <2> QED BY <2>1 DEF Put
<1>3. t.r = q /\ t.m = s.m /\ t.g = s.g
  BY <1>2
<1>4. /\ q \in [0 .. 31 -> Words] /\ q[d] = w
      /\ \A x \in 0 .. 31 \ {d} : q[x] = s.r[x]
  BY <1>1
<1>5. t = [r |-> t.r, m |-> t.m, g |-> t.g]
  BY <1>2, <1>3
<1> HIDE DEF t, q
<1>6. Sane(t)
  BY <1>1, <1>3, <1>4, <1>5 DEF Sane
<1> QED BY <1>3, <1>4, <1>6 DEF Leads, t

LEMMA LeadsWider ==
  ASSUME NEW s, NEW t, NEW R, NEW Q, NEW d, NEW w, Leads(s, t, R, d, w), R \subseteq Q
  PROVE  Leads(s, t, Q, d, w)
BY DEF Leads

LEMMA LeadsOn ==
  ASSUME NEW s, NEW u, NEW t, NEW R, NEW Q, NEW d, NEW e, NEW v, NEW w,
         Leads(s, u, R, e, v), Leads(u, t, Q, d, w)
  PROVE  Leads(s, t, R \cup Q, d, w)
BY DEF Leads

LEMMA LeadsNowhere ==
  ASSUME NEW s, Sane(s), NEW R, NEW d
  PROVE  Leads(s, s, R, d, s.r[d])
BY DEF Leads

(* Values that computing leaves are words.                                 *)
LEMMA Wrapped ==
  ASSUME NEW x \in Int
  PROVE  Wrap(x) \in Words /\ Wrap(x) \in Int
<1>1. Wrap(x) \in Words
  BY WrapBy
<1> QED BY <1>1, WidthFacts DEF Words

LEMMA TruthWord == \A p : Truth(p) \in Words /\ Truth(p) \in {0, 1}
BY WidthFacts DEF Truth, Words

-----------------------------------------------------------------------------
(* What single instructions do.                                            *)
LEMMA Fields ==
  ASSUME NEW op, NEW d, NEW x, NEW y, NEW n
  PROVE  /\ RRR(op, d, x, y).op = op /\ RRR(op, d, x, y).rd = d
         /\ RRR(op, d, x, y).rs = x /\ RRR(op, d, x, y).rt = y
         /\ RRI(op, d, x, n).op = op /\ RRI(op, d, x, n).rd = d
         /\ RRI(op, d, x, n).rs = x /\ RRI(op, d, x, n).n = n
BY DEF RRR, RRI

LEMMA AfterComputing ==
  ASSUME NEW i, NEW s, i.op \notin {"lw", "sw", "lwg", "swg"}
  PROVE  After(i, s) = Put(s, i.rd, Computed(i, s.r))
BY DEF After, Put

LEMMA Steps3 ==
  ASSUME NEW s, NEW d, NEW x, NEW y
  PROVE  /\ After(RRR("add", d, x, y), s) = Put(s, d, Wrap(s.r[x] + s.r[y]))
         /\ After(RRR("sub", d, x, y), s) = Put(s, d, Wrap(s.r[x] - s.r[y]))
         /\ After(RRR("mul", d, x, y), s) = Put(s, d, Wrap(s.r[x] * s.r[y]))
         /\ After(RRR("mulh", d, x, y), s) = Put(s, d, High(s.r[x], s.r[y]))
         /\ After(RRR("div", d, x, y), s) = Put(s, d, EvalBinary("Div", s.r[x], s.r[y]))
         /\ After(RRR("rem", d, x, y), s) = Put(s, d, EvalBinary("Mod", s.r[x], s.r[y]))
         /\ After(RRR("slt", d, x, y), s) = Put(s, d, Truth(s.r[x] < s.r[y]))
<1>1. After(RRR("add", d, x, y), s) = Put(s, d, Wrap(s.r[x] + s.r[y]))
  <2> DEFINE i == RRR("add", d, x, y)
  <2>1. i.op = "add" /\ i.rd = d /\ i.rs = x /\ i.rt = y
    BY Fields
  <2> HIDE DEF i
  <2>2. Computed(i, s.r) = Wrap(s.r[x] + s.r[y])
    BY <2>1 DEF Computed
  <2> QED BY <2>1, <2>2, AfterComputing DEF i
<1>2. After(RRR("sub", d, x, y), s) = Put(s, d, Wrap(s.r[x] - s.r[y]))
  <2> DEFINE i == RRR("sub", d, x, y)
  <2>1. i.op = "sub" /\ i.rd = d /\ i.rs = x /\ i.rt = y
    BY Fields
  <2> HIDE DEF i
  <2>2. Computed(i, s.r) = Wrap(s.r[x] - s.r[y])
    BY <2>1 DEF Computed
  <2> QED BY <2>1, <2>2, AfterComputing DEF i
<1>3. After(RRR("mul", d, x, y), s) = Put(s, d, Wrap(s.r[x] * s.r[y]))
  <2> DEFINE i == RRR("mul", d, x, y)
  <2>1. i.op = "mul" /\ i.rd = d /\ i.rs = x /\ i.rt = y
    BY Fields
  <2> HIDE DEF i
  <2>2. Computed(i, s.r) = Wrap(s.r[x] * s.r[y])
    BY <2>1 DEF Computed
  <2> QED BY <2>1, <2>2, AfterComputing DEF i
<1>4. After(RRR("mulh", d, x, y), s) = Put(s, d, High(s.r[x], s.r[y]))
  <2> DEFINE i == RRR("mulh", d, x, y)
  <2>1. i.op = "mulh" /\ i.rd = d /\ i.rs = x /\ i.rt = y
    BY Fields
  <2> HIDE DEF i
  <2>2. Computed(i, s.r) = High(s.r[x], s.r[y])
    BY <2>1 DEF Computed, High
  <2> QED BY <2>1, <2>2, AfterComputing DEF i
<1>5. After(RRR("div", d, x, y), s) = Put(s, d, EvalBinary("Div", s.r[x], s.r[y]))
  <2> DEFINE i == RRR("div", d, x, y)
  <2>1. i.op = "div" /\ i.rd = d /\ i.rs = x /\ i.rt = y
    BY Fields
  <2> HIDE DEF i
  <2>2. Computed(i, s.r) = EvalBinary("Div", s.r[x], s.r[y])
    BY <2>1 DEF Computed
  <2> QED BY <2>1, <2>2, AfterComputing DEF i
<1>6. After(RRR("rem", d, x, y), s) = Put(s, d, EvalBinary("Mod", s.r[x], s.r[y]))
  <2> DEFINE i == RRR("rem", d, x, y)
  <2>1. i.op = "rem" /\ i.rd = d /\ i.rs = x /\ i.rt = y
    BY Fields
  <2> HIDE DEF i
  <2>2. Computed(i, s.r) = EvalBinary("Mod", s.r[x], s.r[y])
    BY <2>1 DEF Computed
  <2> QED BY <2>1, <2>2, AfterComputing DEF i
<1>7. After(RRR("slt", d, x, y), s) = Put(s, d, Truth(s.r[x] < s.r[y]))
  <2> DEFINE i == RRR("slt", d, x, y)
  <2>1. i.op = "slt" /\ i.rd = d /\ i.rs = x /\ i.rt = y
    BY Fields
  <2> HIDE DEF i
  <2>2. Computed(i, s.r) = Truth(s.r[x] < s.r[y])
    BY <2>1 DEF Computed
  <2> QED BY <2>1, <2>2, AfterComputing DEF i
<1> QED BY <1>1, <1>2, <1>3, <1>4, <1>5, <1>6, <1>7

LEMMA Steps2 ==
  ASSUME NEW s, NEW d, NEW x, NEW n
  PROVE  /\ After(RRI("addi", d, x, n), s) = Put(s, d, Wrap(s.r[x] + n))
         /\ After(RRI("slti", d, x, n), s) = Put(s, d, Truth(s.r[x] < n))
         /\ After(RRI("slli", d, x, n), s) = Put(s, d, Wrap(s.r[x] * Pow2[n]))
         /\ After(RRI("srli", d, x, n), s) = Put(s, d, Wrap(Unsigned(s.r[x]) \div Pow2[n]))
         /\ After(RRI("srai", d, x, n), s) = Put(s, d, s.r[x] \div Pow2[n])
         /\ After(RRI("lw", d, x, n), s) = Put(s, d, s.m[s.r[x] + n])
         /\ After(RRI("lwg", d, x, n), s) = Put(s, d, s.g[n])
<1>1. After(RRI("addi", d, x, n), s) = Put(s, d, Wrap(s.r[x] + n))
  <2> DEFINE i == RRI("addi", d, x, n)
  <2>1. i.op = "addi" /\ i.rd = d /\ i.rs = x /\ i.n = n
    BY Fields
  <2> HIDE DEF i
  <2>2. Computed(i, s.r) = Wrap(s.r[x] + n)
    BY <2>1 DEF Computed
  <2> QED BY <2>1, <2>2, AfterComputing DEF i
<1>2. After(RRI("slti", d, x, n), s) = Put(s, d, Truth(s.r[x] < n))
  <2> DEFINE i == RRI("slti", d, x, n)
  <2>1. i.op = "slti" /\ i.rd = d /\ i.rs = x /\ i.n = n
    BY Fields
  <2> HIDE DEF i
  <2>2. Computed(i, s.r) = Truth(s.r[x] < n)
    BY <2>1 DEF Computed
  <2> QED BY <2>1, <2>2, AfterComputing DEF i
<1>3. After(RRI("slli", d, x, n), s) = Put(s, d, Wrap(s.r[x] * Pow2[n]))
  <2> DEFINE i == RRI("slli", d, x, n)
  <2>1. i.op = "slli" /\ i.rd = d /\ i.rs = x /\ i.n = n
    BY Fields
  <2> HIDE DEF i
  <2>2. Computed(i, s.r) = Wrap(s.r[x] * Pow2[n])
    BY <2>1 DEF Computed
  <2> QED BY <2>1, <2>2, AfterComputing DEF i
<1>4. After(RRI("srli", d, x, n), s) = Put(s, d, Wrap(Unsigned(s.r[x]) \div Pow2[n]))
  <2> DEFINE i == RRI("srli", d, x, n)
  <2>1. i.op = "srli" /\ i.rd = d /\ i.rs = x /\ i.n = n
    BY Fields
  <2> HIDE DEF i
  <2>2. Computed(i, s.r) = Wrap(Unsigned(s.r[x]) \div Pow2[n])
    BY <2>1 DEF Computed
  <2> QED BY <2>1, <2>2, AfterComputing DEF i
<1>5. After(RRI("srai", d, x, n), s) = Put(s, d, s.r[x] \div Pow2[n])
  <2> DEFINE i == RRI("srai", d, x, n)
  <2>1. i.op = "srai" /\ i.rd = d /\ i.rs = x /\ i.n = n
    BY Fields
  <2> HIDE DEF i
  <2>2. Computed(i, s.r) = s.r[x] \div Pow2[n]
    BY <2>1 DEF Computed
  <2> QED BY <2>1, <2>2, AfterComputing DEF i
<1>6. After(RRI("lw", d, x, n), s) = Put(s, d, s.m[s.r[x] + n])
  <2> DEFINE i == RRI("lw", d, x, n)
  <2>1. i.op = "lw" /\ i.rd = d /\ i.rs = x /\ i.n = n
    BY Fields
  <2> HIDE DEF i
  <2>2. After(i, s) = Put(s, d, s.m[s.r[x] + n])
    BY <2>1 DEF After, Put
  <2> QED BY <2>2 DEF i
<1>7. After(RRI("lwg", d, x, n), s) = Put(s, d, s.g[n])
  <2> DEFINE i == RRI("lwg", d, x, n)
  <2>1. i.op = "lwg" /\ i.rd = d /\ i.rs = x /\ i.n = n
    BY Fields
  <2> HIDE DEF i
  <2>2. After(i, s) = Put(s, d, s.g[n])
    BY <2>1 DEF After, Put
  <2> QED BY <2>2 DEF i
<1> QED BY <1>1, <1>2, <1>3, <1>4, <1>5, <1>6, <1>7

LEMMA Steps1 ==
  ASSUME NEW s, NEW d, NEW x
  PROVE  /\ After(RR("mv", d, x), s) = Put(s, d, s.r[x])
         /\ After(RR("neg", d, x), s) = Put(s, d, Wrap(-s.r[x]))
         /\ After(RR("seqz", d, x), s) = Put(s, d, Truth(s.r[x] = 0))
         /\ After(RR("snez", d, x), s) = Put(s, d, Truth(s.r[x] # 0))
         /\ After(RR("flip", d, x), s) = Put(s, d, IF s.r[x] % 2 = 0 THEN s.r[x] + 1 ELSE s.r[x] - 1)
<1>1. After(RR("mv", d, x), s) = Put(s, d, s.r[x])
  <2> DEFINE i == RR("mv", d, x)
  <2>1. i.op = "mv" /\ i.rd = d /\ i.rs = x
    BY Fields DEF RR
  <2> HIDE DEF i
  <2>2. Computed(i, s.r) = s.r[x]
    BY <2>1 DEF Computed
  <2> QED BY <2>1, <2>2, AfterComputing DEF i
<1>2. After(RR("neg", d, x), s) = Put(s, d, Wrap(-s.r[x]))
  <2> DEFINE i == RR("neg", d, x)
  <2>1. i.op = "neg" /\ i.rd = d /\ i.rs = x
    BY Fields DEF RR
  <2> HIDE DEF i
  <2>2. Computed(i, s.r) = Wrap(-s.r[x])
    BY <2>1 DEF Computed
  <2> QED BY <2>1, <2>2, AfterComputing DEF i
<1>3. After(RR("seqz", d, x), s) = Put(s, d, Truth(s.r[x] = 0))
  <2> DEFINE i == RR("seqz", d, x)
  <2>1. i.op = "seqz" /\ i.rd = d /\ i.rs = x
    BY Fields DEF RR
  <2> HIDE DEF i
  <2>2. Computed(i, s.r) = Truth(s.r[x] = 0)
    BY <2>1 DEF Computed
  <2> QED BY <2>1, <2>2, AfterComputing DEF i
<1>4. After(RR("snez", d, x), s) = Put(s, d, Truth(s.r[x] # 0))
  <2> DEFINE i == RR("snez", d, x)
  <2>1. i.op = "snez" /\ i.rd = d /\ i.rs = x
    BY Fields DEF RR
  <2> HIDE DEF i
  <2>2. Computed(i, s.r) = Truth(s.r[x] # 0)
    BY <2>1 DEF Computed
  <2> QED BY <2>1, <2>2, AfterComputing DEF i
<1>5. After(RR("flip", d, x), s) = Put(s, d, IF s.r[x] % 2 = 0 THEN s.r[x] + 1 ELSE s.r[x] - 1)
  <2> DEFINE i == RR("flip", d, x)
  <2>1. i.op = "flip" /\ i.rd = d /\ i.rs = x
    BY Fields DEF RR
  <2> HIDE DEF i
  <2>2. Computed(i, s.r) = IF s.r[x] % 2 = 0 THEN s.r[x] + 1 ELSE s.r[x] - 1
    BY <2>1 DEF Computed
  <2> QED BY <2>1, <2>2, AfterComputing DEF i
<1> QED BY <1>1, <1>2, <1>3, <1>4, <1>5

LEMMA Steps0 ==
  ASSUME NEW s, NEW d, NEW n
  PROVE  /\ After(LI(d, n), s) = Put(s, d, n)
<1>1. After(LI(d, n), s) = Put(s, d, n)
  <2> DEFINE i == LI(d, n)
  <2>1. i.op = "li" /\ i.rd = d /\ i.n = n
    BY Fields DEF LI
  <2> HIDE DEF i
  <2>2. Computed(i, s.r) = n
    BY <2>1 DEF Computed
  <2> QED BY <2>1, <2>2, AfterComputing DEF i
<1> QED BY <1>1

LEMMA MoveRuns ==
  ASSUME NEW s, Sane(s), NEW t, NEW d \in Writable, NEW x \in 0 .. 31, Runs(MoveTo(d, x), s, t)
  PROVE  Leads(s, t, {d}, d, s.r[x])
<1>1. CASE d = x
  <2>1. t = s
    BY <1>1, RunsNone DEF MoveTo
  <2> QED BY <1>1, <2>1, LeadsNowhere
<1>2. CASE d # x
  <2>1. t = Put(s, d, s.r[x])
    BY <1>2, RunsOne, Steps1 DEF MoveTo
  <2> QED BY <2>1, SaneReads, PutLeads
<1> QED BY <1>1, <1>2

LEMMA PutOnce ==
  ASSUME NEW s, Sane(s), NEW e \in Writable, NEW v \in Words
  PROVE  /\ Sane(Put(s, e, v)) /\ Put(s, e, v).r[e] = v
         /\ \A x \in 0 .. 31 \ {e} : Put(s, e, v).r[x] = s.r[x]
<1>1. Leads(s, Put(s, e, v), {e}, e, v)
  BY PutLeads
<1> QED BY <1>1 DEF Leads

LEMMA PutTwice ==
  ASSUME NEW s, Sane(s), NEW e \in Writable, NEW v \in Words, NEW d \in Writable, NEW w \in Words
  PROVE  Leads(s, Put(Put(s, e, v), d, w), {e, d}, d, w)
<1>1. Leads(s, Put(s, e, v), {e}, e, v)
  BY PutLeads
<1>2. Sane(Put(s, e, v))
  BY <1>1 DEF Leads
<1>3. Leads(Put(s, e, v), Put(Put(s, e, v), d, w), {d}, d, w)
  BY <1>2, PutLeads
<1>4. Leads(s, Put(Put(s, e, v), d, w), {e} \cup {d}, d, w)
  BY <1>1, <1>3, LeadsOn
<1>5. {e} \cup {d} = {e, d}
  OBVIOUS
<1> QED BY <1>4, <1>5

-----------------------------------------------------------------------------
(* Strength-reduced products.                                              *)
LEMMA NegIfRuns ==
  ASSUME NEW s, Sane(s), NEW t, NEW d \in Writable, NEW c, Runs(NegIf(c, d), s, t)
  PROVE  Leads(s, t, {d}, d, IF c < 0 THEN Wrap(-s.r[d]) ELSE s.r[d])
<1>1. CASE c < 0
  <2>1. t = Put(s, d, Wrap(-s.r[d]))
    BY <1>1, RunsOne, Steps1 DEF NegIf
  <2>2. Wrap(-s.r[d]) \in Words
    <3>1. s.r[d] \in Int
      BY SaneReads, Registers
    <3>2. -s.r[d] \in Int
      BY <3>1
    <3> QED BY <3>2, Wrapped
  <2> QED BY <1>1, <2>1, <2>2, PutLeads
<1>2. CASE ~(c < 0)
  <2>1. t = s
    BY <1>2, RunsNone DEF NegIf
  <2> QED BY <1>2, <2>1, LeadsNowhere
<1> QED BY <1>1, <1>2

LEMMA MulConstRuns ==
  ASSUME NEW s, Sane(s), NEW t, NEW d \in Writable, NEW x \in 0 .. 31 \ {T6}, NEW c \in Words,
         Runs(MulConst(d, x, c), s, t)
  PROVE  Leads(s, t, {d, T6}, d, Wrap(s.r[x] * c))
<1> DEFINE v == s.r[x]
           ac == Magnitude(c)
           R == 0 .. 31
<1>1. v \in Words /\ v \in Int /\ c \in Int /\ ac \in Int /\ x \in 0 .. 31 /\ d \in 0 .. 31
      /\ T6 \in Writable /\ T6 \in 0 .. 31 /\ 0 \in Words /\ x # T6
  BY SaneReads, WidthFacts, Registers DEF Words, Magnitude
<1>2. CASE c = 0
  <2>0. ac = 0 /\ c # 1 /\ c # -1
    BY <1>2 DEF Magnitude
  <2>1. MulConst(d, x, c) = <<LI(d, 0)>>
    BY <1>2, <2>0 DEF MulConst
  <2>4. t = Put(s, d, 0)
    BY <2>1, RunsOne, Steps0
  <2>2. Wrap(v * c) = 0
    <3>1. v * c = 0
      BY <1>1, <1>2
    <3> QED BY <1>1, <3>1, WrapWord
  <2>3. Leads(s, t, {d}, d, 0)
    BY <1>1, <2>4, PutLeads
  <2> QED BY <2>2, <2>3, LeadsWider
<1>3. CASE c = 1
  <2>0. ac = 1 /\ c # 0 /\ c # -1
    BY <1>3 DEF Magnitude
  <2>1. MulConst(d, x, c) = MoveTo(d, x)
    BY <1>3, <2>0 DEF MulConst
  <2>2. Leads(s, t, {d}, d, v)
    BY <1>1, <2>1, MoveRuns
  <2>3. Wrap(v * c) = v
    <3>1. v * c = v
      BY <1>1, <1>3
    <3> QED BY <1>1, <3>1, WrapWord
  <2> QED BY <2>2, <2>3, LeadsWider
<1>4. CASE c = -1
  <2>0. ac = 1 /\ c # 0 /\ c # 1
    <3>1. c + 1 = 0
      BY <1>1, <1>4
    <3> QED BY <1>1, <3>1 DEF Magnitude
  <2>1. MulConst(d, x, c) = <<RR("neg", d, x)>>
    BY <1>4, <2>0 DEF MulConst
  <2>2. t = Put(s, d, Wrap(-v))
    BY <2>1, RunsOne, Steps1
  <2>3. -v = v * c
    BY <1>1, <1>4
  <2>4. Wrap(v * c) \in Words
    <3>1. v * c \in Int
      BY <1>1
    <3> QED BY <3>1, Wrapped
  <2>5. Leads(s, t, {d}, d, Wrap(v * c))
    BY <2>2, <2>3, <2>4, PutLeads
  <2> QED BY <2>5, LeadsWider
<1>5. ASSUME NEW n \in Int, n = ac, NEW u, Sane(u), NEW Q, T6 \in Q, d \in Q,
             Leads(s, u, Q, d, Wrap(v * n)), Runs(NegIf(c, d), u, t)
      PROVE  Leads(s, t, Q, d, Wrap(v * c))
  <2>1. Leads(u, t, {d}, d, IF c < 0 THEN Wrap(-u.r[d]) ELSE u.r[d])
    BY <1>5, NegIfRuns
  <2>2. u.r[d] = Wrap(v * n)
    BY <1>5 DEF Leads
  <2>3. (IF c < 0 THEN Wrap(-u.r[d]) ELSE u.r[d]) = Wrap(v * c)
    <3>1. c >= 0 => Wrap(v * n) = Wrap(v * c)
      BY <1>1, <1>5, ProductForms
    <3>2. c < 0 => Wrap(-Wrap(v * n)) = Wrap(v * c)
      BY <1>1, <1>5, ProductForms
    <3> QED BY <1>1, <2>2, <3>1, <3>2
  <2>4. Leads(u, t, {d}, d, Wrap(v * c))
    BY <2>1, <2>3
  <2>5. Leads(s, t, Q \cup {d}, d, Wrap(v * c))
    BY <1>5, <2>4, LeadsOn
  <2>6. Q \cup {d} = Q
    BY <1>5
  <2> QED BY <2>5, <2>6
<1>6. CASE c \notin {0, 1, -1} /\ ac >= 2 /\ IsPow2(ac)
  <2> DEFINE k == Log2(ac)
             one == <<RRI("slli", d, x, k)>>
  <2>1. MulConst(d, x, c) = one \o NegIf(c, d)
    BY <1>6 DEF MulConst
  <2>2. Into(R, one) /\ Into(R, NegIf(c, d))
    BY <1>1, IntoForms, IntoMulConst
  <2>3. Pow2[k] = ac
    BY <1>6, Log2Facts
  <2>4. PICK u : Runs(one, s, u) /\ Runs(NegIf(c, d), u, t)
    <3> HIDE DEF one
    <3> QED BY <2>1, <2>2, RunsBoth
  <2>5. u = Put(s, d, Wrap(v * Pow2[k]))
    BY <2>4, RunsOne, Steps2
  <2>6. Wrap(v * ac) \in Words
    <3>1. v * ac \in Int
      BY <1>1
    <3> QED BY <3>1, Wrapped
  <2>7. Leads(s, u, {d}, d, Wrap(v * ac))
    BY <2>3, <2>5, <2>6, PutLeads
  <2>8. Leads(s, u, {d, T6}, d, Wrap(v * ac)) /\ Sane(u)
    BY <2>7, LeadsWider DEF Leads
  <2> QED BY <1>1, <1>5, <2>4, <2>8
<1>7. ASSUME NEW n, IsPow2(n), NEW op \in {"add", "sub"},
             NEW w, w = IF op = "add" THEN Wrap(Wrap(v * n) + v) ELSE Wrap(Wrap(v * n) - v),
             w = Wrap(v * ac),
             MulConst(d, x, c) =
               <<RRI("slli", T6, x, Log2(n)), RRR(op, d, T6, x)>> \o NegIf(c, d)
      PROVE  Leads(s, t, {d, T6}, d, Wrap(v * c))
  <2> DEFINE k == Log2(n)
             two == <<RRI("slli", T6, x, k), RRR(op, d, T6, x)>>
             p == Wrap(v * n)
  <2>1. Into(R, two) /\ Into(R, NegIf(c, d))
    <3>1. Into(R, <<RRI("slli", T6, x, k)>>) /\ Into(R, <<RRR(op, d, T6, x)>>)
      BY <1>1, IntoForms
    <3> QED BY <1>1, <3>1, IntoTwo, IntoMulConst
  <2>2. PICK u : Runs(two, s, u) /\ Runs(NegIf(c, d), u, t)
    <3>1. MulConst(d, x, c) = two \o NegIf(c, d)
      BY <1>7
    <3> HIDE DEF two
    <3> QED BY <2>1, <3>1, RunsBoth
  <2>3. Pow2[k] = n /\ n \in Int
    BY <1>7, Log2Facts
  <2>4. p \in Words /\ w \in Words
    <3>1. v * n \in Int /\ v * ac \in Int
      BY <1>1, <2>3
    <3> QED BY <1>7, <3>1, Wrapped
  <2> DEFINE q == Put(s, T6, p)
  <2>5. q.r[T6] = p /\ q.r[x] = v /\ Leads(s, Put(q, d, w), {T6, d}, d, w)
    <3>1. /\ q.r[T6] = p /\ Leads(s, Put(q, d, w), {T6, d}, d, w)
          /\ \A z \in 0 .. 31 \ {T6} : q.r[z] = s.r[z]
      <4>1. T6 \in Writable /\ p \in Words /\ w \in Words
        BY <1>1, <2>4
      <4> HIDE DEF p
      <4>2. Leads(s, Put(q, d, w), {T6, d}, d, w)
        BY <4>1, PutTwice
      <4>3. q.r[T6] = p /\ \A z \in 0 .. 31 \ {T6} : q.r[z] = s.r[z]
        BY <4>1, PutOnce
      <4> QED BY <4>2, <4>3
    <3> QED BY <1>1, <3>1
  <2>6. u = After(RRR(op, d, T6, x), After(RRI("slli", T6, x, k), s))
    BY <2>2, RunsTwo
  <2>7. After(RRI("slli", T6, x, k), s) = q
    BY <2>3, Steps2
  <2> HIDE DEF q, p
  <2>8. u = Put(q, d, w)
    <3>1. CASE op = "add"
      <4>1. After(RRR("add", d, T6, x), q) = Put(q, d, Wrap(q.r[T6] + q.r[x]))
        BY Steps3
      <4> QED BY <1>7, <2>5, <2>6, <2>7, <3>1, <4>1 DEF p
    <3>2. CASE op = "sub"
      <4>1. After(RRR("sub", d, T6, x), q) = Put(q, d, Wrap(q.r[T6] - q.r[x]))
        BY Steps3
      <4> QED BY <1>7, <2>5, <2>6, <2>7, <3>2, <4>1 DEF p
    <3> QED BY <1>7, <3>1, <3>2
  <2>9. {T6, d} = {d, T6}
    OBVIOUS
  <2>10. Leads(s, u, {d, T6}, d, Wrap(v * ac)) /\ Sane(u)
    BY <1>7, <2>5, <2>8, <2>9 DEF Leads
  <2> QED BY <1>1, <1>5, <2>2, <2>10
<1>8. CASE /\ c \notin {0, 1, -1} /\ ~(ac >= 2 /\ IsPow2(ac))
           /\ ac >= 3 /\ ~IsPow2(ac) /\ IsPow2(ac - 1)
  <2>1. MulConst(d, x, c) =
          <<RRI("slli", T6, x, Log2(ac - 1)), RRR("add", d, T6, x)>> \o NegIf(c, d)
    BY <1>8 DEF MulConst
  <2>2. Wrap(Wrap(v * (ac - 1)) + v) = Wrap(v * ac)
    <3>1. ac - 1 \in Int
      BY <1>1
    <3> QED BY <1>1, <3>1, ProductForms
  <2> QED BY <1>7, <1>8, <2>1, <2>2
<1>9. CASE /\ c \notin {0, 1, -1} /\ ~(ac >= 2 /\ IsPow2(ac))
           /\ ac >= 3 /\ ~IsPow2(ac) /\ ~IsPow2(ac - 1) /\ IsPow2(ac + 1)
  <2>1. MulConst(d, x, c) =
          <<RRI("slli", T6, x, Log2(ac + 1)), RRR("sub", d, T6, x)>> \o NegIf(c, d)
    BY <1>9 DEF MulConst
  <2>2. Wrap(Wrap(v * (ac + 1)) - v) = Wrap(v * ac)
    <3>1. ac + 1 \in Int
      BY <1>1
    <3> QED BY <1>1, <3>1, ProductForms
  <2> QED BY <1>7, <1>9, <2>1, <2>2
<1>10. CASE /\ c \notin {0, 1, -1} /\ ~(ac >= 2 /\ IsPow2(ac))
            /\ ~(ac >= 3 /\ ~IsPow2(ac) /\ (IsPow2(ac - 1) \/ IsPow2(ac + 1)))
  <2>1. MulConst(d, x, c) = <<LI(T6, c), RRR("mul", d, x, T6)>>
    BY <1>10 DEF MulConst
  <2> DEFINE q == Put(s, T6, c)
             w == Wrap(v * c)
  <2>2. w \in Words
    <3>1. v * c \in Int
      BY <1>1
    <3> QED BY <3>1, Wrapped
  <2>3. q.r[T6] = c /\ q.r[x] = v /\ Leads(s, Put(q, d, w), {T6, d}, d, w)
    <3>1. /\ q.r[T6] = c /\ Leads(s, Put(q, d, w), {T6, d}, d, w)
          /\ \A z \in 0 .. 31 \ {T6} : q.r[z] = s.r[z]
      <4>1. T6 \in Writable /\ c \in Words /\ w \in Words
        BY <1>1, <2>2
      <4> HIDE DEF w
      <4>2. Leads(s, Put(q, d, w), {T6, d}, d, w)
        BY <4>1, PutTwice
      <4>3. q.r[T6] = c /\ \A z \in 0 .. 31 \ {T6} : q.r[z] = s.r[z]
        BY <4>1, PutOnce
      <4> QED BY <4>2, <4>3
    <3> QED BY <1>1, <3>1
  <2>4. t = After(RRR("mul", d, x, T6), q)
    BY <2>1, RunsTwo, Steps0
  <2> HIDE DEF q
  <2>5. t = Put(q, d, w)
    BY <2>3, <2>4, Steps3
  <2>6. {T6, d} = {d, T6}
    OBVIOUS
  <2> QED BY <2>3, <2>5, <2>6
<1> QED BY <1>2, <1>3, <1>4, <1>6, <1>8, <1>9, <1>10

(* The bias of a shift that is to round towards zero.                      *)
LEMMA Pow2BiasRuns ==
  ASSUME NEW s, Sane(s), NEW t, NEW d \in Writable, NEW x \in 0 .. 31, NEW k \in 1 .. Width - 1,
         Runs(Pow2Bias(d, x, k), s, t)
  PROVE  Leads(s, t, {d}, d, Bias(s.r[x], k))
<1> DEFINE v == s.r[x]
           n == Width - 1
<1>1. v \in Words /\ v \in Int /\ d \in 0 .. 31 /\ Bias(v, k) \in Words
  BY SaneReads, Registers, Biased
<1>2. /\ Wrap(Unsigned(v) \div Pow2[n]) = Truth(v < 0)
      /\ v \div Pow2[n] = IF v < 0 THEN -1 ELSE 0
  BY <1>1, SignBit
<1>3. CASE k = 1
  <2>1. t = Put(s, d, Wrap(Unsigned(v) \div Pow2[n]))
    BY <1>3, RunsOne, Steps2 DEF Pow2Bias
  <2>2. Truth(v < 0) = Bias(v, k)
    <3>1. Pow2[1] - 1 = 1
      BY WidthFacts
    <3> QED BY <1>3, <3>1 DEF Bias, Truth
  <2> QED BY <1>1, <1>2, <2>1, <2>2, PutLeads
<1>4. CASE k # 1
  <2> DEFINE w == v \div Pow2[n]
             q == Put(s, d, w)
             e == Width - k
  <2>1. Pow2Bias(d, x, k) = <<RRI("srai", d, x, n), RRI("srli", d, d, e)>>
    BY <1>4 DEF Pow2Bias
  <2>2. t = After(RRI("srli", d, d, e), After(RRI("srai", d, x, n), s))
    BY <2>1, RunsTwo
  <2>3. After(RRI("srai", d, x, n), s) = q
    BY Steps2
  <2>4. w \in Words
    BY <1>1, ShiftRight, WidthFacts
  <2>5. q.r[d] = w
    <3> HIDE DEF w
    <3> QED BY <2>4, PutOnce
  <2> HIDE DEF q
  <2>6. t = Put(q, d, Wrap(Unsigned(w) \div Pow2[e]))
    BY <2>2, <2>3, <2>5, Steps2
  <2>7. Wrap(Unsigned(w) \div Pow2[e]) = Bias(v, k)
    <3>1. CASE v < 0
      <4>1. w = -1
        BY <1>2, <3>1
      <4>2. Wrap(Unsigned(-1) \div Pow2[e]) = Pow2[k] - 1
        BY AllOnes
      <4> QED BY <3>1, <4>1, <4>2 DEF Bias
    <3>2. CASE ~(v < 0)
      <4>1. w = 0
        BY <1>2, <3>2
      <4>2. Unsigned(0) = 0 /\ Pow2[e] \in Nat \ {0} /\ 0 \in Words
        <5>1. e \in Nat
          BY WidthFacts
        <5>2. Pow2[e] \in Nat \ {0}
          BY <5>1, Pow2Def
        <5> QED BY <5>2, WidthFacts DEF Unsigned, Words
      <4>3. Wrap(0 \div Pow2[e]) = 0
        <5>1. 0 \div Pow2[e] = 0
          BY <4>2
        <5> QED BY <4>2, <5>1, WrapWord
      <4> QED BY <3>2, <4>1, <4>2, <4>3 DEF Bias
    <3> QED BY <3>1, <3>2
  <2> DEFINE b == Bias(v, k)
  <2>8. t = Put(Put(s, d, w), d, b)
    BY <2>6, <2>7 DEF q
  <2> HIDE DEF w, b
  <2>9. Leads(s, Put(Put(s, d, w), d, b), {d, d}, d, b)
    BY <1>1, <2>4, PutTwice DEF b
  <2>10. {d, d} = {d}
    OBVIOUS
  <2> QED BY <2>8, <2>9, <2>10 DEF b
<1> QED BY <1>3, <1>4

-----------------------------------------------------------------------------
(* Values and their homes.                                                 *)
Placed(g, v) ==
  g.reg[v] \in Homes \/ (g.reg[v] = NoReg /\ SpillOff(g, v) \in 0 .. Half - 1)

PlacedVal(g, val) == IF IsReg(val) THEN Placed(g, val.n) ELSE val.n \in Words

ValueIn(g, val, s) == IF IsReg(val) THEN Home(g, val.n, s) ELSE val.n

(* The homes, the frame and the globals are as they were.                  *)
Agrees(s, t) == t.m = s.m /\ t.g = s.g /\ \A x \in Homes : t.r[x] = s.r[x]

LEMMA HomeKept ==
  ASSUME NEW s, NEW t, Agrees(s, t), NEW g
  PROVE  /\ \A v : Placed(g, v) => Home(g, v, t) = Home(g, v, s)
         /\ \A val : PlacedVal(g, val) => ValueIn(g, val, t) = ValueIn(g, val, s)
<1>1. NoReg \notin Homes
  BY DEF NoReg, Homes
<1>2. \A v : Placed(g, v) => Home(g, v, t) = Home(g, v, s)
  BY <1>1 DEF Placed, Home, Agrees
<1> QED BY <1>2 DEF PlacedVal, ValueIn

LEMMA LeadsAgrees ==
  ASSUME NEW s, NEW t, NEW R, R \subseteq Scratch, NEW d, NEW w, Leads(s, t, R, d, w)
  PROVE  Agrees(s, t)
<1>1. \A x \in Homes : x \in 0 .. 31 \ R
  BY Registers
<1> QED BY <1>1 DEF Leads, Agrees

LEMMA HomeWord ==
  ASSUME NEW s, Sane(s), NEW g
  PROVE  /\ \A v : Placed(g, v) => Home(g, v, s) \in Words
         /\ \A val : PlacedVal(g, val) => ValueIn(g, val, s) \in Words
<1>1. NoReg \notin Homes
  BY DEF NoReg, Homes
<1>2. /\ \A x \in Homes : s.r[x] \in Words
      /\ \A k \in 0 .. Half - 1 : s.m[k] \in Words
  BY SaneReads, Registers
<1>3. \A v : Placed(g, v) => Home(g, v, s) \in Words
  BY <1>1, <1>2 DEF Placed, Home
<1> QED BY <1>3 DEF PlacedVal, ValueIn

LEMMA LoadOffRuns ==
  ASSUME NEW s, Sane(s), NEW t, NEW d \in Writable, NEW off \in 0 .. Half - 1,
         Runs(LoadOff(d, off), s, t)
  PROVE  Leads(s, t, {d, A7}, d, s.m[off])
<1> DEFINE w == s.m[off]
<1>1. w \in Words /\ s.r[SP] = 0 /\ off \in Int /\ off \in Words /\ A7 \in Writable
  BY SaneReads, WidthFacts, Registers DEF Words
<1>2. CASE Fits(off)
  <2>1. t = Put(s, d, s.m[s.r[SP] + off])
    BY <1>2, RunsOne, Steps2 DEF LoadOff
  <2>2. s.r[SP] + off = off
    BY <1>1
  <2>3. Leads(s, t, {d}, d, w)
    BY <1>1, <2>1, <2>2, PutLeads
  <2> QED BY <2>3, LeadsWider
<1>3. CASE ~Fits(off)
  <2> DEFINE q == Put(s, A7, off)
             p == Put(q, A7, off)
  <2>1. LoadOff(d, off) = <<LI(A7, off), RRR("add", A7, SP, A7), RRI("lw", d, A7, 0)>>
    BY <1>3 DEF LoadOff
  <2>2. t = After(RRI("lw", d, A7, 0), After(RRR("add", A7, SP, A7), After(LI(A7, off), s)))
    BY <2>1, RunsThree
  <2>3. After(LI(A7, off), s) = q
    BY Steps0
  <2>4. Sane(q) /\ q.r[A7] = off
    BY <1>1, PutOnce
  <2>5. Leads(s, q, {A7}, A7, off)
    BY <1>1, PutLeads
  <2> HIDE DEF q
  <2>6. q.r[SP] = 0
    BY <2>4, SaneReads
  <2>7. After(RRR("add", A7, SP, A7), q) = Put(q, A7, Wrap(q.r[SP] + q.r[A7]))
    BY Steps3
  <2>8. Wrap(q.r[SP] + q.r[A7]) = off
    <3>1. 0 + off = off
      BY <1>1
    <3> QED BY <1>1, <2>4, <2>6, <3>1, WrapWord
  <2>9. After(RRR("add", A7, SP, A7), q) = p
    BY <2>7, <2>8
  <2>10. Sane(p) /\ p.r[A7] = off
    BY <1>1, <2>4, PutOnce
  <2>11. Leads(q, p, {A7}, A7, off)
    BY <1>1, <2>4, PutLeads
  <2> HIDE DEF p
  <2>12. p.m = s.m
    BY <2>5, <2>11 DEF Leads
  <2>13. t = Put(p, d, p.m[p.r[A7] + 0])
    BY <2>2, <2>3, <2>9, Steps2
  <2>14. p.r[A7] + 0 = off
    BY <1>1, <2>10
  <2>15. t = Put(p, d, w)
    BY <2>12, <2>13, <2>14
  <2>16. Leads(p, t, {d}, d, w)
    BY <1>1, <2>10, <2>15, PutLeads
  <2>17. Leads(s, t, ({A7} \cup {A7}) \cup {d}, d, w)
    BY <2>5, <2>11, <2>16, LeadsOn
  <2>18. ({A7} \cup {A7}) \cup {d} \subseteq {d, A7}
    OBVIOUS
  <2> QED BY <2>17, <2>18, LeadsWider
<1> QED BY <1>2, <1>3

LEMMA ToRegRuns ==
  ASSUME NEW s, Sane(s), NEW t, NEW g, NEW val, PlacedVal(g, val), NEW d \in Writable,
         Runs(ToReg(g, val, d), s, t)
  PROVE  /\ Leads(s, t, {d, A7}, InReg(g, val, d), ValueIn(g, val, s))
         /\ InReg(g, val, d) \in Homes \cup {ZERO, d}
<1>1. NoReg \notin Homes
  BY DEF NoReg, Homes
<1>2. CASE IsReg(val) /\ g.reg[val.n] # NoReg
  <2>1. InReg(g, val, d) = g.reg[val.n] /\ t = s
    BY <1>2, RunsNone DEF InReg, ToReg
  <2>2. g.reg[val.n] \in Homes
    BY <1>2 DEF PlacedVal, Placed
  <2>3. ValueIn(g, val, s) = s.r[g.reg[val.n]]
    BY <1>2 DEF ValueIn, Home
  <2> QED BY <2>1, <2>2, <2>3, LeadsNowhere
<1>3. CASE IsReg(val) /\ g.reg[val.n] = NoReg
  <2>1. InReg(g, val, d) = d /\ ToReg(g, val, d) = LoadOff(d, SpillOff(g, val.n))
    BY <1>3 DEF InReg, ToReg
  <2>2. SpillOff(g, val.n) \in 0 .. Half - 1
    BY <1>1, <1>3 DEF PlacedVal, Placed
  <2>3. ValueIn(g, val, s) = s.m[SpillOff(g, val.n)]
    BY <1>3 DEF ValueIn, Home
  <2> QED BY <2>1, <2>2, <2>3, LoadOffRuns
<1>4. CASE ~IsReg(val) /\ val.n = 0
  <2>1. InReg(g, val, d) = ZERO /\ t = s
    BY <1>4, RunsNone DEF InReg, ToReg
  <2>2. ValueIn(g, val, s) = s.r[ZERO]
    BY <1>4, SaneReads DEF ValueIn
  <2> QED BY <2>1, <2>2, LeadsNowhere
<1>5. CASE ~IsReg(val) /\ val.n # 0
  <2>1. InReg(g, val, d) = d /\ ToReg(g, val, d) = <<LI(d, val.n)>>
    BY <1>5 DEF InReg, ToReg
  <2>2. ValueIn(g, val, s) = val.n /\ val.n \in Words
    BY <1>5 DEF ValueIn, PlacedVal
  <2>3. t = Put(s, d, val.n)
    BY <2>1, RunsOne, Steps0
  <2>4. Leads(s, t, {d}, d, val.n)
    BY <2>2, <2>3, PutLeads
  <2> QED BY <2>1, <2>2, <2>4, LeadsWider
<1> QED BY <1>2, <1>3, <1>4, <1>5

LEMMA MaterializeRuns ==
  ASSUME NEW s, Sane(s), NEW t, NEW g, NEW val, PlacedVal(g, val), NEW d \in Writable,
         Runs(Materialize(g, val, d), s, t)
  PROVE  Leads(s, t, {d, A7}, d, ValueIn(g, val, s))
<1>1. NoReg \notin Homes
  BY DEF NoReg, Homes
<1>2. CASE ~IsReg(val)
  <2>1. t = Put(s, d, val.n)
    BY <1>2, RunsOne, Steps0 DEF Materialize
  <2>2. ValueIn(g, val, s) = val.n /\ val.n \in Words
    BY <1>2 DEF ValueIn, PlacedVal
  <2>3. Leads(s, t, {d}, d, val.n)
    BY <2>1, <2>2, PutLeads
  <2> QED BY <2>2, <2>3, LeadsWider
<1>3. CASE IsReg(val) /\ g.reg[val.n] # NoReg
  <2>1. Materialize(g, val, d) = MoveTo(d, g.reg[val.n])
    BY <1>3 DEF Materialize
  <2>2. g.reg[val.n] \in 0 .. 31
    BY <1>3, Registers DEF PlacedVal, Placed
  <2>3. Leads(s, t, {d}, d, s.r[g.reg[val.n]])
    BY <2>1, <2>2, MoveRuns
  <2>4. ValueIn(g, val, s) = s.r[g.reg[val.n]]
    BY <1>3 DEF ValueIn, Home
  <2> QED BY <2>3, <2>4, LeadsWider
<1>4. CASE IsReg(val) /\ g.reg[val.n] = NoReg
  <2>1. Materialize(g, val, d) = LoadOff(d, SpillOff(g, val.n))
    BY <1>4 DEF Materialize
  <2>2. SpillOff(g, val.n) \in 0 .. Half - 1
    BY <1>1, <1>4 DEF PlacedVal, Placed
  <2>3. ValueIn(g, val, s) = s.m[SpillOff(g, val.n)]
    BY <1>4 DEF ValueIn, Home
  <2> QED BY <2>1, <2>2, <2>3, LoadOffRuns
<1> QED BY <1>2, <1>3, <1>4

-----------------------------------------------------------------------------
(* Divisions by constants.  MagicReady: where a signed division looks for  *)
(* its magic number, there it is.                                          *)
MagicReady(g, i, c, s) ==
  NeedsMagic(c) /\ i.magic # NoReg => Placed(g, i.magic) /\ Home(g, i.magic, s) = SignedMagic[c].M

LEMMA LoadMagicRuns ==
  ASSUME NEW s, Sane(s), NEW t, NEW g, NEW i, NEW c \in Divisors, MagicReady(g, i, c, s),
         Runs(LoadMagic(g, i, SignedMagic[c].M), s, t)
  PROVE  /\ Leads(s, t, {A7, T6}, MagicIn(g, i), SignedMagic[c].M)
         /\ MagicIn(g, i) \in 0 .. 31
<1> DEFINE M == SignedMagic[c].M
<1>1. M \in Words
  <2>1. 0 \in Words
    BY WidthFacts DEF Words
  <2> QED BY <2>1, MagicDivides
<1>2. A7 \in Writable /\ T6 \in Writable /\ T6 \in 0 .. 31
  BY Registers
<1>3. CASE i.magic = NoReg
  <2>1. t = Put(s, T6, M) /\ MagicIn(g, i) = T6
    BY <1>3, RunsOne, Steps0 DEF LoadMagic, MagicIn
  <2>2. Leads(s, t, {T6}, T6, M)
    BY <1>1, <1>2, <2>1, PutLeads
  <2> QED BY <1>2, <2>1, <2>2, LeadsWider
<1>4. CASE i.magic # NoReg
  <2> DEFINE val == Reg(i.magic)
  <2>1. LoadMagic(g, i, M) = ToReg(g, val, A7) /\ MagicIn(g, i) = InReg(g, val, A7)
    BY <1>4 DEF LoadMagic, MagicIn
  <2>2. IsReg(val) /\ val.n = i.magic
    BY DEF IsReg, Reg
  <2>3. PlacedVal(g, val) /\ ValueIn(g, val, s) = M
    <3>1. NeedsMagic(c)
      BY DEF Divisors
    <3> QED BY <1>4, <2>2, <3>1 DEF MagicReady, PlacedVal, ValueIn
  <2> HIDE DEF val, M
  <2>4. Runs(ToReg(g, val, A7), s, t)
    BY <2>1 DEF M
  <2>5. Leads(s, t, {A7, A7}, MagicIn(g, i), M) /\ MagicIn(g, i) \in Homes \cup {ZERO, A7}
    BY <1>2, <2>1, <2>3, <2>4, ToRegRuns
  <2>6. {A7, A7} \subseteq {A7, T6} /\ MagicIn(g, i) \in 0 .. 31
    BY <2>5, Registers
  <2>7. Leads(s, t, {A7, T6}, MagicIn(g, i), M)
    BY <2>5, <2>6, LeadsWider
  <2> QED BY <2>6, <2>7 DEF M
<1> QED BY <1>3, <1>4

LEMMA MagicQuotientRuns ==
  ASSUME NEW s, Sane(s), NEW t, NEW g, NEW i, ~i.unsignedDiv, NEW q \in Writable,
         NEW x \in 0 .. 31 \ {A7, T6}, NEW c \in Divisors, MagicReady(g, i, c, s),
         Runs(MagicQuotient(g, i, q, x, c), s, t)
  PROVE  Leads(s, t, {A7, T6, q}, q, Wrap(TruncDiv(s.r[x], c)))
<1> DEFINE M == SignedMagic[c].M
           n == SignedMagic[c].s
           v == s.r[x]
           R == 0 .. 31
           P == {A7, T6}
<1>1. v \in Words /\ v \in Int /\ c \in Words /\ c \in Int /\ x \in 0 .. 31 /\ x # A7 /\ x # T6
      /\ A7 \in Writable /\ T6 \in Writable /\ {A7, T6, q} \subseteq R /\ x \in R \ P /\ A7 # T6
  BY SaneReads, Registers, DivisorFacts DEF Divisors
<1> DEFINE h == High(v, M)
           a == Corrected(c, v, M)
           y == a \div Pow2[n]
<1>2. /\ M \in Words /\ n \in Nat /\ h \in Words /\ a \in Words /\ y \in Words
      /\ y + Truth(y < 0) = TruncDiv(v, c)
  BY <1>1, MagicDivides
<1> DEFINE lm == LoadMagic(g, i, M)
           mul == <<RRR("mulh", A7, x, MagicIn(g, i))>>
           fix == CASE c > 0 /\ M < 0 -> <<RRR("add", A7, A7, x)>>
                    [] c < 0 /\ M > 0 -> <<RRR("sub", A7, A7, x)>>
                    [] OTHER -> << >>
           sh == IF n > 0 THEN <<RRI("srai", A7, A7, n)>> ELSE << >>
           sign == <<RRI("srli", T6, A7, Width - 1), RRR("add", q, A7, T6)>>
<1>3. MagicQuotient(g, i, q, x, c) = (((lm \o mul) \o fix) \o sh) \o sign
  BY DEF MagicQuotient
<1>4. Into(R, lm) /\ Into(R, mul) /\ Into(R, fix) /\ Into(R, sh) /\ Into(R, sign)
  <2>1. Into(R, lm) /\ Into(R, mul)
    BY <1>1, IntoLoadMagic, IntoForms
  <2>2. Into(R, <<RRR("add", A7, A7, x)>>) /\ Into(R, <<RRR("sub", A7, A7, x)>>)
        /\ Into(R, <<RRI("srai", A7, A7, n)>>)
    BY <1>1, IntoForms
  <2>3. Into(R, <<RRI("srli", T6, A7, Width - 1)>>) /\ Into(R, <<RRR("add", q, A7, T6)>>)
    BY <1>1, IntoForms
  <2>4. Into(R, sign)
    BY <2>3, IntoTwo
  <2>5. Into(R, fix)
    BY <2>2, IntoNone
  <2>6. Into(R, sh)
    BY <2>2, IntoNone
  <2> QED BY <2>1, <2>4, <2>5, <2>6
<1>5. \E s1, s2, s3, s4 : /\ Runs(lm, s, s1) /\ Runs(mul, s1, s2) /\ Runs(fix, s2, s3)
                          /\ Runs(sh, s3, s4) /\ Runs(sign, s4, t)
  <2> HIDE DEF lm, mul, fix, sh, sign, R
  <2>1. Into(R, lm \o mul)
    BY <1>4, IntoBoth
  <2>2. Into(R, (lm \o mul) \o fix)
    BY <1>4, <2>1, IntoBoth
  <2>3. Into(R, ((lm \o mul) \o fix) \o sh)
    BY <1>4, <2>2, IntoBoth
  <2>4. PICK s4 : Runs(((lm \o mul) \o fix) \o sh, s, s4) /\ Runs(sign, s4, t)
    BY <1>3, <1>4, <2>3, RunsBoth
  <2>5. PICK s3 : Runs((lm \o mul) \o fix, s, s3) /\ Runs(sh, s3, s4)
    BY <1>4, <2>2, <2>4, RunsBoth
  <2>6. PICK s2 : Runs(lm \o mul, s, s2) /\ Runs(fix, s2, s3)
    BY <1>4, <2>1, <2>5, RunsBoth
  <2>7. PICK s1 : Runs(lm, s, s1) /\ Runs(mul, s1, s2)
    BY <1>4, <2>6, RunsBoth
  <2> QED BY <2>4, <2>5, <2>6, <2>7
<1>6. PICK s1, s2, s3, s4 : /\ Runs(lm, s, s1) /\ Runs(mul, s1, s2) /\ Runs(fix, s2, s3)
                            /\ Runs(sh, s3, s4) /\ Runs(sign, s4, t)
  BY <1>5
<1> HIDE DEF P
(* The product.                                                            *)
<1>7. Leads(s, s2, P, A7, h) /\ s2.r[x] = v /\ Sane(s2)
  <2>1. Leads(s, s1, P, MagicIn(g, i), M)
    BY <1>6, LoadMagicRuns DEF P
  <2>2. Sane(s1) /\ s1.r[x] = v /\ s1.r[MagicIn(g, i)] = M
    BY <1>1, <2>1 DEF Leads
  <2>3. s2 = Put(s1, A7, h)
    BY <1>6, <2>2, RunsOne, Steps3
  <2>4. Leads(s1, s2, {A7}, A7, h)
    <3> HIDE DEF h
    <3> QED BY <1>1, <1>2, <2>2, <2>3, PutLeads
  <2>5. Leads(s, s2, P \cup {A7}, A7, h) /\ P \cup {A7} = P
    BY <2>1, <2>4, LeadsOn DEF P
  <2>6. Leads(s, s2, P, A7, h)
    BY <2>5
  <2> QED BY <1>1, <2>6 DEF Leads
(* Its correction.                                                         *)
<1>8. Leads(s, s3, P, A7, a) /\ Sane(s3)
  <2>1. s2.r[A7] = h /\ h \in Int
    BY <1>1, <1>2, <1>7, WidthFacts DEF Leads, Words
  <2>2. Leads(s2, s3, {A7}, A7, a)
    <3>1. CASE c > 0 /\ M < 0
      <4>1. fix = <<RRR("add", A7, A7, x)>> /\ a = Wrap(h + v)
        BY <1>1, <3>1 DEF Corrected
      <4>2. s3 = Put(s2, A7, a)
        BY <1>6, <1>7, <2>1, <4>1, RunsOne, Steps3
      <4> HIDE DEF a
      <4> QED BY <1>1, <1>2, <1>7, <4>2, PutLeads
    <3>2. CASE c < 0 /\ M > 0
      <4>1. fix = <<RRR("sub", A7, A7, x)>> /\ a = Wrap(h - v)
        BY <1>1, <3>2 DEF Corrected
      <4>2. s3 = Put(s2, A7, a)
        BY <1>6, <1>7, <2>1, <4>1, RunsOne, Steps3
      <4> HIDE DEF a
      <4> QED BY <1>1, <1>2, <1>7, <4>2, PutLeads
    <3>3. CASE ~(c > 0 /\ M < 0) /\ ~(c < 0 /\ M > 0)
      <4>1. fix = << >> /\ a = h
        BY <3>3 DEF Corrected
      <4>2. s3 = s2
        BY <1>6, <4>1, RunsNone
      <4> QED BY <1>7, <2>1, <4>1, <4>2, LeadsNowhere
    <3> QED BY <3>1, <3>2, <3>3
  <2> HIDE DEF a
  <2>3. Leads(s, s3, P \cup {A7}, A7, a) /\ P \cup {A7} = P
    BY <1>7, <2>2, LeadsOn DEF P
  <2>4. Leads(s, s3, P, A7, a)
    BY <2>3
  <2> QED BY <2>4 DEF Leads
(* Its shift.                                                              *)
<1>9. Leads(s, s4, P, A7, y) /\ Sane(s4)
  <2>1. s3.r[A7] = a /\ a \in Int
    BY <1>2, <1>8, WidthFacts DEF Leads, Words
  <2>2. Leads(s3, s4, {A7}, A7, y)
    <3>1. CASE n > 0
      <4>1. s4 = Put(s3, A7, y)
        BY <1>6, <2>1, <3>1, RunsOne, Steps2
      <4> HIDE DEF y
      <4> QED BY <1>1, <1>2, <1>8, <4>1, PutLeads
    <3>2. CASE ~(n > 0)
      <4>1. n = 0 /\ Pow2[0] = 1
        BY <1>2, <3>2, Pow2Def
      <4>2. y = a
        <5> HIDE DEF a
        <5> QED BY <2>1, <4>1
      <4>3. s4 = s3
        BY <1>6, <3>2, RunsNone
      <4> QED BY <1>8, <2>1, <4>2, <4>3, LeadsNowhere
    <3> QED BY <3>1, <3>2
  <2> HIDE DEF y
  <2>3. Leads(s, s4, P \cup {A7}, A7, y) /\ P \cup {A7} = P
    BY <1>8, <2>2, LeadsOn DEF P
  <2>4. Leads(s, s4, P, A7, y)
    BY <2>3
  <2> QED BY <2>4 DEF Leads
(* The sign.                                                               *)
<1> DEFINE b == Truth(y < 0)
           w == Wrap(TruncDiv(v, c))
           e == Put(s4, T6, b)
<1>10. s4.r[A7] = y /\ y \in Int
  BY <1>2, <1>9, WidthFacts DEF Leads, Words
<1> HIDE DEF y, h, a
<1>11. After(RRI("srli", T6, A7, Width - 1), s4) = e
  <2>1. Wrap(Unsigned(y) \div Pow2[Width - 1]) = b
    BY <1>2, SignBit
  <2> QED BY <1>10, <2>1, Steps2
<1>12. b \in Words /\ w \in Words
  <2>1. b \in Words
    BY TruthWord
  <2>2. TruncDiv(v, c) \in Int
    <3>1. Truth(y < 0) \in Int
      BY DEF Truth
    <3>2. y + Truth(y < 0) \in Int
      BY <1>10, <3>1
    <3> QED BY <1>2, <3>2
  <2>3. w \in Words
    BY <2>2, Wrapped
  <2> QED BY <2>1, <2>3
<1>13. e.r[T6] = b /\ e.r[A7] = y
  <2> HIDE DEF b
  <2>1. e.r[T6] = b /\ \A z \in 0 .. 31 \ {T6} : e.r[z] = s4.r[z]
    BY <1>1, <1>9, <1>12, PutOnce
  <2> QED BY <1>1, <1>10, <2>1, Registers
<1> HIDE DEF e
<1>14. t = Put(e, q, w)
  <2>1. t = After(RRR("add", q, A7, T6), e)
    BY <1>6, <1>11, RunsTwo
  <2>2. t = Put(e, q, Wrap(y + b))
    BY <1>13, <2>1, Steps3
  <2> QED BY <1>2, <2>2
<1>15. Leads(s4, Put(Put(s4, T6, b), q, w), {T6, q}, q, w)
  <2> HIDE DEF b, w
  <2> QED BY <1>1, <1>9, <1>12, PutTwice
<1>16. Leads(s4, t, {T6, q}, q, w)
  BY <1>14, <1>15 DEF e
<1> HIDE DEF w
<1>17. Leads(s, t, P \cup {T6, q}, q, w) /\ P \cup {T6, q} = {A7, T6, q}
  BY <1>9, <1>16, LeadsOn DEF P
<1>18. Leads(s, t, {A7, T6, q}, q, w)
  BY <1>17
<1> QED BY <1>18 DEF w

(* The biased dividend, in T6.                                             *)
LEMMA BiasedRuns ==
  ASSUME NEW s, Sane(s), NEW u, NEW x \in 0 .. 31 \ {T6}, NEW k \in 1 .. Width - 1,
         Runs(Pow2Bias(T6, x, k), s, u),
         NEW q, q = After(RRR("add", T6, x, T6), u), NEW y, y = s.r[x] + Bias(s.r[x], k)
  PROVE  Leads(s, q, {T6}, T6, y) /\ Sane(q) /\ q.r[T6] = y /\ q.r[x] = s.r[x]
<1> DEFINE v == s.r[x]
           b == Bias(v, k)
<1>1. v \in Words /\ T6 \in Writable /\ x \in 0 .. 31 /\ x # T6
  BY SaneReads, Registers
<1>2. b \in Words /\ y \in Words /\ y = v + b
  BY <1>1, Biased
<1>3. Leads(s, u, {T6}, T6, b)
  BY <1>1, Pow2BiasRuns
<1> HIDE DEF b
<1>4. Sane(u) /\ u.r[T6] = b /\ u.r[x] = v
  BY <1>1, <1>3 DEF Leads
<1>5. q = Put(u, T6, y)
  <2>1. q = Put(u, T6, Wrap(v + b))
    BY <1>4, Steps3
  <2> QED BY <1>2, <2>1, WrapWord
<1>6. Leads(u, q, {T6}, T6, y)
  BY <1>1, <1>2, <1>4, <1>5, PutLeads
<1>7. Leads(s, q, {T6} \cup {T6}, T6, y)
  BY <1>3, <1>6, LeadsOn
<1>8. {T6} \cup {T6} = {T6}
  OBVIOUS
<1>9. Leads(s, q, {T6}, T6, y)
  BY <1>7, <1>8
<1>10. Sane(q) /\ q.r[T6] = y /\ q.r[x] = v
  BY <1>1, <1>9 DEF Leads
<1> QED BY <1>9, <1>10

LEMMA DivConstRuns ==
  ASSUME NEW s, Sane(s), NEW t, NEW g, NEW i, ~i.unsignedDiv, NEW d \in Writable,
         NEW x \in 0 .. 31 \ {A7, T6}, NEW c \in Words, MagicReady(g, i, c, s),
         Runs(DivConst(g, i, d, x, c), s, t)
  PROVE  Leads(s, t, {A7, T6, d}, d, EvalBinary("Div", s.r[x], c))
<1> DEFINE v == s.r[x]
           ac == Magnitude(c)
           k == Log2(ac)
           R == 0 .. 31
           e == EvalBinary("Div", v, c)
           w == Wrap(TruncDiv(v, c))
           Q == {A7, T6, d}
<1>1. /\ v \in Words /\ v \in Int /\ c \in Int /\ ac \in Int /\ x \in R /\ x # T6 /\ x # A7
      /\ x \in R \ {T6} /\ A7 \in Writable /\ T6 \in Writable /\ Q \subseteq R /\ 0 \in Words
  BY SaneReads, Registers, WidthFacts DEF Words, Magnitude
<1>2. c # 0 => e = w
  BY DEF EvalBinary
<1>3. ASSUME IsPow2(ac) PROVE ac >= 2 /\ c # 0 /\ c # 1 /\ c # -1 /\ ~NeedsMagic(c)
  <2>1. ac >= 2
    BY <1>3, Log2Facts
  <2> QED BY <1>1, <1>3, <2>1 DEF Magnitude, NeedsMagic
<1>9. c \in {0, 1, -1} => ac =< 1 /\ ~IsPow2(ac) /\ ~NeedsMagic(c)
  <2>1. c \in {0, 1, -1} => ac =< 1
    BY <1>1 DEF Magnitude
  <2> QED BY <1>1, <1>3, <2>1 DEF NeedsMagic
<1>4. CASE c = 1
  <2>1. DivConst(g, i, d, x, c) = MoveTo(d, x)
    BY <1>1, <1>9, <1>4 DEF DivConst
  <2>2. w = v
    BY <1>1, <1>4, QuotientByOne
  <2>3. Leads(s, t, {d}, d, v)
    BY <1>1, <2>1, MoveRuns
  <2>4. e = v
    BY <1>2, <1>4, <2>2
  <2> QED BY <2>3, <2>4, LeadsWider
<1>5. CASE c = -1
  <2>1. DivConst(g, i, d, x, c) = <<RR("neg", d, x)>>
    BY <1>1, <1>9, <1>5 DEF DivConst
  <2>2. w = Wrap(-v)
    BY <1>1, <1>5, QuotientByOne
  <2>3. t = Put(s, d, Wrap(-v))
    BY <2>1, RunsOne, Steps1
  <2>4. Wrap(-v) \in Words
    <3>1. -v \in Int
      BY <1>1
    <3> QED BY <3>1, Wrapped
  <2>5. Leads(s, t, {d}, d, Wrap(-v))
    BY <2>3, <2>4, PutLeads
  <2>6. e = Wrap(-v)
    BY <1>2, <1>5, <2>2
  <2> QED BY <2>5, <2>6, LeadsWider
<1>6. CASE c = 0
  <2>1. DivConst(g, i, d, x, c) = <<LI(T6, 0), RRR("div", d, x, T6)>>
    BY <1>1, <1>9, <1>6 DEF DivConst
  <2> DEFINE p == Put(s, T6, 0)
  <2>2. t = After(RRR("div", d, x, T6), p)
    BY <2>1, RunsTwo, Steps0
  <2>3. p.r[T6] = 0 /\ p.r[x] = v
    <3>1. p.r[T6] = 0 /\ \A z \in 0 .. 31 \ {T6} : p.r[z] = s.r[z]
      BY <1>1, PutOnce
    <3> QED BY <1>1, <3>1
  <2> HIDE DEF p
  <2>4. t = Put(p, d, EvalBinary("Div", v, 0))
    BY <2>2, <2>3, Steps3
  <2>5. e = EvalBinary("Div", v, 0) /\ e \in Words
    <3>1. e = Wrap(-1)
      BY <1>6 DEF EvalBinary
    <3>2. Wrap(-1) \in Words
      BY Wrapped
    <3> QED BY <1>6, <3>1, <3>2
  <2> HIDE DEF e
  <2>6. Leads(s, Put(Put(s, T6, 0), d, e), {T6, d}, d, e)
    BY <1>1, <2>5, PutTwice
  <2>7. Leads(s, t, {T6, d}, d, e)
    BY <2>4, <2>5, <2>6 DEF p
  <2>8. Leads(s, t, Q, d, e)
    BY <2>7, LeadsWider
  <2> QED BY <2>8 DEF e
<1>7. CASE IsPow2(ac)
  <2> DEFINE one == Pow2Bias(T6, x, k)
             two == <<RRR("add", T6, x, T6), RRI("srai", d, T6, k)>>
             neg == NegIf(c, d)
             q == TruncDiv(v, ac)
             y == v + Bias(v, k)
  <2>1. DivConst(g, i, d, x, c) = (one \o two) \o neg
    BY <1>3, <1>7 DEF DivConst
  <2>2. k \in 1 .. Width - 1 /\ Pow2[k] = ac /\ k \in Nat
    BY <1>7, Log2Facts
  <2>3. PICK s1, s2 : Runs(one, s, s1) /\ Runs(two, s1, s2) /\ Runs(neg, s2, t)
    <3>1. Into(R, one) /\ Into(R, neg)
      BY <1>1, IntoPow2Bias, IntoMulConst
    <3>2. Into(R, two)
      <4>1. Into(R, <<RRR("add", T6, x, T6)>>) /\ Into(R, <<RRI("srai", d, T6, k)>>)
        BY <1>1, IntoForms
      <4> QED BY <4>1, IntoTwo
    <3> HIDE DEF one, two, neg, R
    <3>3. Into(R, one \o two)
      BY <3>1, <3>2, IntoBoth
    <3>4. PICK s2 : Runs(one \o two, s, s2) /\ Runs(neg, s2, t)
      BY <2>1, <3>1, <3>3, RunsBoth
    <3>5. PICK s1 : Runs(one, s, s1) /\ Runs(two, s1, s2)
      BY <3>1, <3>2, <3>4, RunsBoth
    <3> QED BY <3>4, <3>5
  <2> DEFINE p == After(RRR("add", T6, x, T6), s1)
  <2>4. Leads(s, p, {T6}, T6, y) /\ Sane(p) /\ p.r[T6] = y
    <3>1. x \in 0 .. 31 \ {T6} /\ Runs(Pow2Bias(T6, x, k), s, s1)
      BY <1>1, <2>3
    <3> HIDE DEF k
    <3> QED BY <2>2, <3>1, BiasedRuns
  <2>5. y \in Words /\ y \div Pow2[k] = q /\ q \in Words
    <3>1. y \in Words /\ y \div Pow2[k] = q
      BY <1>1, <2>2, Biased
    <3>2. y \div Pow2[k] \in Words
      BY <2>2, <3>1, ShiftRight
    <3> QED BY <3>1, <3>2
  <2>6. s2 = After(RRI("srai", d, T6, k), p)
    BY <2>3, RunsTwo
  <2> HIDE DEF p, y, q
  <2>7. s2 = Put(p, d, q)
    BY <2>4, <2>5, <2>6, Steps2
  <2>8. Leads(p, s2, {d}, d, q)
    BY <2>4, <2>5, <2>7, PutLeads
  <2>9. Leads(s, s2, {T6} \cup {d}, d, q)
    BY <2>4, <2>8, LeadsOn
  <2>10. Sane(s2) /\ s2.r[d] = q
    BY <2>8 DEF Leads
  <2>11. Leads(s2, t, {d}, d, IF c < 0 THEN Wrap(-s2.r[d]) ELSE s2.r[d])
    BY <2>3, <2>10, NegIfRuns
  <2>12. (IF c < 0 THEN Wrap(-s2.r[d]) ELSE s2.r[d]) = e
    <3>1. c # 0
      BY <1>3, <1>7
    <3>2. c > 0 => TruncDiv(v, c) = q
      BY <1>1, <3>1, QuotientSign DEF q
    <3>3. c < 0 => Wrap(-q) = w
      BY <1>1, <3>1, QuotientSign DEF q
    <3>4. c > 0 => w = q
      BY <2>5, <3>2, WrapWord
    <3>5. e = w
      BY <1>2, <3>1
    <3> HIDE DEF e, w
    <3>6. c > 0 \/ c < 0
      BY <1>1, <3>1
    <3> QED BY <1>1, <2>10, <3>3, <3>4, <3>5, <3>6
  <2> HIDE DEF e
  <2>13. Leads(s, t, ({T6} \cup {d}) \cup {d}, d, e)
    BY <2>9, <2>11, <2>12, LeadsOn
  <2>14. ({T6} \cup {d}) \cup {d} \subseteq Q
    OBVIOUS
  <2>15. Leads(s, t, Q, d, e)
    BY <2>13, <2>14, LeadsWider
  <2> QED BY <2>15 DEF e
<1>8. CASE NeedsMagic(c)
  <2>1. ac >= 3 /\ ~IsPow2(ac)
    BY <1>8 DEF NeedsMagic
  <2>2. c # 0 /\ c # 1 /\ c # -1
    BY <1>1, <2>1 DEF Magnitude
  <2>3. DivConst(g, i, d, x, c) = MagicQuotient(g, i, d, x, c)
    BY <1>8, <2>1, <2>2 DEF DivConst
  <2>4. c \in Divisors
    BY <1>8 DEF Divisors
  <2>5. Leads(s, t, Q, d, w)
    BY <2>3, <2>4, MagicQuotientRuns
  <2> QED BY <1>2, <2>2, <2>5
<1> QED BY <1>4, <1>5, <1>6, <1>7, <1>8, DivisorForms

LEMMA ModConstRuns ==
  ASSUME NEW s, Sane(s), NEW t, NEW g, NEW i, ~i.unsignedDiv, NEW d \in Writable,
         NEW x \in 0 .. 31 \ {A6, A7, T6}, NEW c \in Words, c # 0, MagicReady(g, i, c, s),
         Runs(ModConst(g, i, d, x, c), s, t)
  PROVE  Leads(s, t, Scratch \cup {d}, d, EvalBinary("Mod", s.r[x], c))
<1> DEFINE v == s.r[x]
           ac == Magnitude(c)
           k == Log2(ac)
           R == 0 .. 31
           Q == Scratch \cup {d}
           e == Wrap(TruncRem(v, c))
<1>1. /\ v \in Words /\ v \in Int /\ c \in Int /\ ac \in Int /\ x \in R
      /\ x # T6 /\ x # A7 /\ x # A6 /\ A6 \in Writable /\ A7 \in Writable /\ T6 \in Writable
      /\ Q \subseteq R /\ 0 \in Words /\ {A6, A7, T6, d} \subseteq Q
  BY SaneReads, Registers, WidthFacts DEF Words, Magnitude, Scratch
<1>2. EvalBinary("Mod", v, c) = e
  BY DEF EvalBinary
<1>3. TruncDiv(v, c) \in Int /\ TruncDiv(v, ac) \in Int /\ c * TruncDiv(v, c) = ac * TruncDiv(v, ac)
  BY <1>1, QuotientSign
<1>4. e \in Words
  <2> DEFINE q == TruncDiv(v, c)
  <2>1. q \in Int
    BY <1>3
  <2> HIDE DEF q
  <2>2. v - c * q \in Int
    BY <1>1, <2>1
  <2> QED BY <2>2, Wrapped DEF TruncRem, q
<1>5. ASSUME IsPow2(ac) PROVE ac >= 2 /\ c # 1 /\ c # -1 /\ ~NeedsMagic(c) /\ ac # 1
  <2>1. ac >= 2
    BY <1>5, Log2Facts
  <2> QED BY <1>1, <1>5, <2>1 DEF Magnitude, NeedsMagic
<1>6. CASE ac = 1
  <2>1. ModConst(g, i, d, x, c) = <<LI(d, 0)>>
    BY <1>5, <1>6 DEF ModConst, NeedsMagic
  <2>2. c = 1 \/ c = -1
    BY <1>1, <1>6 DEF Magnitude
  <2>3. e = 0
    BY <1>1, <2>2, QuotientByOne
  <2>4. t = Put(s, d, 0)
    BY <2>1, RunsOne, Steps0
  <2>5. Leads(s, t, {d}, d, 0)
    BY <1>1, <2>4, PutLeads
  <2> QED BY <1>2, <2>3, <2>5, LeadsWider
<1>7. CASE IsPow2(ac)
  <2> DEFINE one == Pow2Bias(T6, x, k)
             four == <<RRR("add", T6, x, T6), RRI("srai", T6, T6, k), RRI("slli", T6, T6, k),
                       RRR("sub", d, x, T6)>>
             q == TruncDiv(v, ac)
             y == v + Bias(v, k)
  <2>1. ModConst(g, i, d, x, c) = one \o four
    BY <1>5, <1>7 DEF ModConst
  <2>2. k \in 1 .. Width - 1 /\ Pow2[k] = ac /\ k \in Nat
    BY <1>7, Log2Facts
  <2>3. PICK s1 : Runs(one, s, s1) /\ Runs(four, s1, t)
    <3>1. Into(R, one)
      BY <1>1, IntoPow2Bias
    <3>2. Into(R, four)
      <4>1. /\ Into(R, <<RRR("add", T6, x, T6)>>) /\ Into(R, <<RRI("srai", T6, T6, k)>>)
            /\ Into(R, <<RRI("slli", T6, T6, k)>>) /\ Into(R, <<RRR("sub", d, x, T6)>>)
        BY <1>1, IntoForms
      <4> QED BY <4>1, IntoFour
    <3> HIDE DEF one, four, R
    <3> QED BY <2>1, <3>1, <3>2, RunsBoth
  <2> DEFINE p1 == After(RRR("add", T6, x, T6), s1)
             p2 == After(RRI("srai", T6, T6, k), p1)
             p3 == After(RRI("slli", T6, T6, k), p2)
             z == Wrap(q * ac)
  <2>4. t = After(RRR("sub", d, x, T6), p3)
    BY <2>3, RunsFour
  <2>5. Leads(s, p1, {T6}, T6, y) /\ Sane(p1) /\ p1.r[T6] = y
    <3>1. x \in 0 .. 31 \ {T6} /\ Runs(Pow2Bias(T6, x, k), s, s1)
      BY <1>1, <2>3
    <3> HIDE DEF k
    <3> QED BY <2>2, <3>1, BiasedRuns
  <2>6. y \in Words /\ y \div Pow2[k] = q /\ q \in Words
    <3>1. y \in Words /\ y \div Pow2[k] = q
      BY <1>1, <2>2, Biased
    <3>2. y \div Pow2[k] \in Words
      BY <2>2, <3>1, ShiftRight
    <3> QED BY <3>1, <3>2
  <2>7. z \in Words
    <3>1. q * ac \in Int
      BY <1>1, <1>3
    <3> QED BY <3>1, Wrapped
  <2> HIDE DEF p1, y, z
  <2>8. p2 = Put(p1, T6, q)
    BY <2>5, <2>6, Steps2
  <2>9. Leads(p1, p2, {T6}, T6, q)
    <3> HIDE DEF q
    <3> QED BY <1>1, <2>5, <2>6, <2>8, PutLeads
  <2>10. Sane(p2) /\ p2.r[T6] = q
    BY <2>9 DEF Leads
  <2> HIDE DEF p2
  <2>11. p3 = Put(p2, T6, z)
    BY <2>2, <2>10, Steps2 DEF z
  <2>12. Leads(p2, p3, {T6}, T6, z)
    BY <1>1, <2>7, <2>10, <2>11, PutLeads
  <2> HIDE DEF p3
  <2>13. Leads(s, p3, ({T6} \cup {T6}) \cup {T6}, T6, z)
    BY <2>5, <2>9, <2>12, LeadsOn
  <2>14. Sane(p3) /\ p3.r[T6] = z /\ p3.r[x] = v
    BY <1>1, <2>13 DEF Leads
  <2>15. t = Put(p3, d, Wrap(v - z))
    BY <2>4, <2>14, Steps3
  <2>16. Wrap(v - z) = e
    <3>1. q * ac \in Int /\ q * ac = c * TruncDiv(v, c)
      <4>1. q * ac = ac * q
        <5> HIDE DEF q, ac
        <5> QED BY <1>1, <1>3 DEF q
      <4> QED BY <1>1, <1>3, <4>1
    <3> DEFINE a == q * ac
    <3>2. Wrap(v - Wrap(a)) = Wrap(v - a)
      <4>1. a \in Int
        BY <3>1
      <4> HIDE DEF a
      <4> QED BY <1>1, <4>1, WrapEarly
    <3> QED BY <3>1, <3>2 DEF TruncRem, z
  <2> HIDE DEF e
  <2>17. Leads(p3, t, {d}, d, e)
    BY <1>4, <2>14, <2>15, <2>16, PutLeads
  <2>18. Leads(s, t, (({T6} \cup {T6}) \cup {T6}) \cup {d}, d, e)
    BY <2>13, <2>17, LeadsOn
  <2>19. (({T6} \cup {T6}) \cup {T6}) \cup {d} \subseteq Q
    BY <1>1
  <2>20. Leads(s, t, Q, d, e)
    BY <2>18, <2>19, LeadsWider
  <2> QED BY <1>2, <2>20
<1>8. CASE NeedsMagic(c)
  <2> DEFINE lq == MagicQuotient(g, i, A6, x, c)
             mul == MulConst(A7, A6, c)
             sub == <<RRR("sub", d, x, A7)>>
             q == TruncDiv(v, c)
             z == Wrap(Wrap(q) * c)
  <2>0. ac >= 3 /\ ~IsPow2(ac) /\ ac # 1 /\ c \in Divisors
    BY <1>1, <1>8 DEF NeedsMagic, Divisors
  <2>1. ModConst(g, i, d, x, c) = (lq \o mul) \o sub
    BY <1>8, <2>0 DEF ModConst
  <2>2. PICK s1, s2 : Runs(lq, s, s1) /\ Runs(mul, s1, s2) /\ Runs(sub, s2, t)
    <3>1. Into(R, lq) /\ Into(R, mul) /\ Into(R, sub)
      BY <1>1, IntoMagicQuotient, IntoMulConst, IntoForms
    <3> HIDE DEF lq, mul, sub, R
    <3>2. Into(R, lq \o mul)
      BY <3>1, IntoBoth
    <3>3. PICK s2 : Runs(lq \o mul, s, s2) /\ Runs(sub, s2, t)
      BY <2>1, <3>1, <3>2, RunsBoth
    <3>4. PICK s1 : Runs(lq, s, s1) /\ Runs(mul, s1, s2)
      BY <3>1, <3>3, RunsBoth
    <3> QED BY <3>3, <3>4
  <2>3. Leads(s, s1, {A7, T6, A6}, A6, Wrap(q))
    BY <1>1, <2>0, <2>2, MagicQuotientRuns
  <2>4. Sane(s1) /\ s1.r[A6] = Wrap(q) /\ s1.r[x] = v
    BY <1>1, <2>3 DEF Leads
  <2>5. Leads(s1, s2, {A7, T6}, A7, z)
    <3>1. A6 \in 0 .. 31 \ {T6}
      BY Registers
    <3> QED BY <1>1, <2>2, <2>4, <3>1, MulConstRuns
  <2>6. Sane(s2) /\ s2.r[A7] = z /\ s2.r[x] = v
    BY <1>1, <2>4, <2>5 DEF Leads
  <2>7. t = Put(s2, d, Wrap(v - z))
    BY <2>2, <2>6, RunsOne, Steps3
  <2>8. Wrap(v - z) = e
    <3>1. q \in Int
      BY <1>3
    <3> HIDE DEF q
    <3> DEFINE a == q * c
    <3>2. z = Wrap(a) /\ a \in Int /\ a = c * q
      BY <1>1, <3>1, WrapProduct
    <3> HIDE DEF a, z
    <3>3. Wrap(v - Wrap(a)) = Wrap(v - a)
      BY <1>1, <3>2, WrapEarly
    <3> QED BY <3>2, <3>3 DEF TruncRem, q
  <2> HIDE DEF e, z, q
  <2>9. Leads(s2, t, {d}, d, e)
    BY <1>4, <2>6, <2>7, <2>8, PutLeads
  <2>10. Leads(s, t, ({A7, T6, A6} \cup {A7, T6}) \cup {d}, d, e)
    BY <2>3, <2>5, <2>9, LeadsOn
  <2>11. ({A7, T6, A6} \cup {A7, T6}) \cup {d} \subseteq Q
    BY <1>1
  <2>12. Leads(s, t, Q, d, e)
    BY <2>10, <2>11, LeadsWider
  <2> QED BY <1>2, <2>12
<1> QED BY <1>6, <1>7, <1>8, DivisorForms

-----------------------------------------------------------------------------
(* Results and their homes.                                                *)
Delivered(g, v, t) == IF g.dstOverride # NoReg THEN t.r[g.dstOverride] ELSE Home(g, v, t)

(* The generator's state and the result's vreg, as IsPlaced has them.      *)
Target(g, v) == g.dstOverride \in Homes \cup {NoReg} /\ Placed(g, v)

LEMMA DstRegWritable ==
  ASSUME NEW g, NEW v, Target(g, v)
  PROVE  /\ DstReg(g, v) \in Writable /\ DstReg(g, v) \in 0 .. 31
         /\ DstReg(g, v) \notin {A6, A7, T6}
<1>1. DstReg(g, v) \in Homes \cup {T5}
  BY DEF Target, Placed, DstReg
<1>2. \A x \in Homes : x \in Writable /\ x \in 0 .. 31 /\ x \notin {A6, A7, T6}
  BY Registers DEF Scratch
<1>3. T5 \in Writable /\ T5 \in 0 .. 31 /\ T5 \notin {A6, A7, T6}
  BY Registers
<1> QED BY <1>1, <1>2, <1>3

LEMMA StoreProper ==
  ASSUME NEW r, NEW off, NEW c, c = StoreOff(r, off)
  PROVE  c \in Seq({c[k] : k \in DOMAIN c})
<1>1. CASE Fits(off)
  <2> DEFINE i == RRI("sw", r, SP, off)
  <2>1. c = <<i>>
    BY <1>1 DEF StoreOff
  <2> HIDE DEF i
  <2> QED BY <2>1
<1>2. CASE ~Fits(off)
  <2> DEFINE i == RRI("sw", r, A7, 0)
             j == LI(A7, off)
             l == RRR("add", A7, SP, A7)
  <2>1. c = <<j, l, i>>
    BY <1>2 DEF StoreOff
  <2> HIDE DEF i, j, l
  <2> QED BY <2>1
<1> QED BY <1>1, <1>2

LEMMA StoreStep ==
  ASSUME NEW s, Sane(s), NEW d, NEW x, NEW n, NEW off \in 0 .. Half - 1, s.r[x] + n = off
  PROVE  After(RRI("sw", d, x, n), s).m[off] = s.r[d]
<1> DEFINE i == RRI("sw", d, x, n)
           t == After(i, s)
<1>1. i.op = "sw" /\ i.rd = d /\ i.rs = x /\ i.n = n
  BY Fields
<1> HIDE DEF i
<1>2. t = [s EXCEPT !.m[off] = s.r[d]]
  BY <1>1 DEF After
<1> HIDE DEF t
<1>3. t.m[off] = s.r[d]
  BY <1>2 DEF Sane
<1> QED BY <1>3 DEF t, i

LEMMA StoreOffRuns ==
  ASSUME NEW s, Sane(s), NEW t, NEW d \in 0 .. 31 \ {A7}, NEW off \in 0 .. Half - 1,
         Runs(StoreOff(d, off), s, t)
  PROVE  t.m[off] = s.r[d]
<1>1. s.r[SP] = 0 /\ off \in Int /\ off \in Words /\ A7 \in Writable /\ d \in 0 .. 31 /\ d # A7
  BY SaneReads, WidthFacts, Registers DEF Words
<1>2. CASE Fits(off)
  <2>1. t = After(RRI("sw", d, SP, off), s)
    BY <1>2, RunsOne DEF StoreOff
  <2>2. s.r[SP] + off = off
    BY <1>1
  <2> QED BY <2>1, <2>2, StoreStep
<1>3. CASE ~Fits(off)
  <2> DEFINE q == Put(s, A7, off)
             p == Put(q, A7, off)
  <2>1. StoreOff(d, off) = <<LI(A7, off), RRR("add", A7, SP, A7), RRI("sw", d, A7, 0)>>
    BY <1>3 DEF StoreOff
  <2>2. t = After(RRI("sw", d, A7, 0), After(RRR("add", A7, SP, A7), After(LI(A7, off), s)))
    BY <2>1, RunsThree
  <2>3. After(LI(A7, off), s) = q
    BY Steps0
  <2>4. Sane(q) /\ q.r[A7] = off /\ q.r[d] = s.r[d]
    <3>1. Sane(q) /\ q.r[A7] = off /\ \A z \in 0 .. 31 \ {A7} : q.r[z] = s.r[z]
      BY <1>1, PutOnce
    <3> QED BY <1>1, <3>1
  <2> HIDE DEF q
  <2>5. q.r[SP] = 0
    BY <2>4, SaneReads
  <2>6. After(RRR("add", A7, SP, A7), q) = Put(q, A7, Wrap(q.r[SP] + q.r[A7]))
    BY Steps3
  <2>7. Wrap(q.r[SP] + q.r[A7]) = off
    <3>1. 0 + off = off
      BY <1>1
    <3> QED BY <1>1, <2>4, <2>5, <3>1, WrapWord
  <2>8. After(RRR("add", A7, SP, A7), q) = p
    BY <2>6, <2>7
  <2>9. Sane(p) /\ p.r[A7] = off /\ p.r[d] = s.r[d]
    <3>1. Sane(p) /\ p.r[A7] = off /\ \A z \in 0 .. 31 \ {A7} : p.r[z] = q.r[z]
      BY <1>1, <2>4, PutOnce
    <3> QED BY <1>1, <2>4, <3>1
  <2> HIDE DEF p
  <2>10. t = After(RRI("sw", d, A7, 0), p)
    BY <2>2, <2>3, <2>8
  <2>11. p.r[A7] + 0 = off
    BY <1>1, <2>9
  <2> QED BY <2>9, <2>10, <2>11, StoreStep
<1> QED BY <1>2, <1>3

LEMMA WriteBackRuns ==
  ASSUME NEW g, NEW v, Target(g, v), NEW s, Sane(s), NEW t,
         Runs(WriteBack(g, v, DstReg(g, v)), s, t)
  PROVE  Delivered(g, v, t) = s.r[DstReg(g, v)]
<1>1. NoReg \notin Homes /\ T5 \in 0 .. 31 \ {A7}
  BY Registers DEF NoReg, Homes
<1>2. CASE g.dstOverride = NoReg /\ g.reg[v] = NoReg
  <2>1. DstReg(g, v) = T5 /\ SpillOff(g, v) \in 0 .. Half - 1
    BY <1>1, <1>2 DEF DstReg, Target, Placed
  <2>2. WriteBack(g, v, DstReg(g, v)) = StoreOff(T5, SpillOff(g, v))
    BY <1>2, <2>1 DEF WriteBack
  <2>3. t.m[SpillOff(g, v)] = s.r[T5]
    BY <1>1, <2>1, <2>2, StoreOffRuns
  <2> QED BY <1>2, <2>1, <2>3 DEF Delivered, Home
<1>3. CASE ~(g.dstOverride = NoReg /\ g.reg[v] = NoReg)
  <2>1. t = s
    BY <1>3, RunsNone DEF WriteBack
  <2> QED BY <1>3, <2>1 DEF Delivered, Home, DstReg
<1> QED BY <1>2, <1>3

LEMMA WriteBackProper ==
  ASSUME NEW g, NEW v, NEW r, NEW c, c = WriteBack(g, v, r)
  PROVE  c \in Seq({c[k] : k \in DOMAIN c})
<1>1. CASE c = << >>
  BY <1>1
<1>2. CASE c # << >>
  BY <1>2, StoreProper DEF WriteBack
<1> QED BY <1>1, <1>2

(* The three parts of a sequence.                                          *)
LEMMA FramedRuns ==
  ASSUME NEW R, NEW g, NEW i, NEW before, NEW body, Into(R, before), Into(R, body),
         NEW s, NEW t, Runs(Framed(g, i, before, body), s, t)
  PROVE  \E u, v : /\ Runs(before, s, u) /\ Runs(body, u, v)
                   /\ Runs(WriteBack(g, i.dst, DstReg(g, i.dst)), v, t)
<1> DEFINE wb == WriteBack(g, i.dst, DstReg(g, i.dst))
           ab == before \o body
<1>1. wb \in Seq({wb[k] : k \in DOMAIN wb})
  BY WriteBackProper
<1>2. Framed(g, i, before, body) = ab \o wb
  BY DEF Framed
<1> HIDE DEF wb
<1>3. Into(R, ab)
  BY IntoBoth
<1>4. ab \in Seq({ab[k] : k \in DOMAIN ab})
  BY <1>3 DEF Into
<1>5. PICK v : Runs(ab, s, v) /\ Runs(wb, v, t)
  <2> HIDE DEF ab
  <2> QED BY <1>1, <1>2, <1>4, RunsInARow
<1>6. PICK u : Runs(before, s, u) /\ Runs(body, u, v)
  BY <1>5, RunsBoth
<1> QED BY <1>5, <1>6 DEF wb

(* However it is started with x in register a and the homes of s, the      *)
(* sequence leaves w in register d.                                        *)
Yields(s, body, a, d, x, w) ==
  \A u, v : Sane(u) /\ Agrees(s, u) /\ u.r[a] = x /\ Runs(body, u, v) => Sane(v) /\ v.r[d] = w

LEMMA OnOperandRuns ==
  ASSUME NEW g, NEW i, Target(g, i.dst), NEW val, PlacedVal(g, val),
         NEW body, Into(0 .. 31, body), NEW s, Sane(s), NEW t, NEW w,
         Yields(s, body, InReg(g, val, T5), DstReg(g, i.dst), ValueIn(g, val, s), w),
         Runs(Framed(g, i, ToReg(g, val, T5), body), s, t)
  PROVE  Delivered(g, i.dst, t) = w
<1>1. T5 \in Writable /\ T5 \in 0 .. 31 /\ A7 \in 0 .. 31
  BY Registers
<1>2. Into(0 .. 31, ToReg(g, val, T5))
  BY <1>1, IntoLoads
<1>3. PICK u, v : /\ Runs(ToReg(g, val, T5), s, u) /\ Runs(body, u, v)
                  /\ Runs(WriteBack(g, i.dst, DstReg(g, i.dst)), v, t)
  BY <1>2, FramedRuns
<1>4. Leads(s, u, {T5, A7}, InReg(g, val, T5), ValueIn(g, val, s))
  BY <1>1, <1>3, ToRegRuns
<1>5. Agrees(s, u)
  <2>1. {T5, A7} \subseteq Scratch
    BY DEF Scratch
  <2> QED BY <1>4, <2>1, LeadsAgrees
<1>6. Sane(u) /\ u.r[InReg(g, val, T5)] = ValueIn(g, val, s)
  BY <1>4 DEF Leads
<1>7. Sane(v) /\ v.r[DstReg(g, i.dst)] = w
  BY <1>3, <1>5, <1>6 DEF Yields
<1> QED BY <1>3, <1>7, WriteBackRuns

(* A register instruction, and two of which the second rewrites d.         *)
LEMMA OneOp ==
  ASSUME NEW u, Sane(u), NEW d \in Writable, NEW w \in Words, NEW v, v = Put(u, d, w)
  PROVE  Sane(v) /\ v.r[d] = w
BY PutOnce

LEMMA Flipped ==
  ASSUME NEW p \in BOOLEAN
  PROVE  (IF Truth(p) % 2 = 0 THEN Truth(p) + 1 ELSE Truth(p) - 1) = Truth(~p)
<1>1. 0 % 2 = 0 /\ 1 % 2 = 1
  OBVIOUS
<1>2. CASE p
  <2>1. Truth(p) = 1 /\ Truth(~p) = 0
    BY <1>2 DEF Truth
  <2> QED BY <1>1, <2>1
<1>3. CASE ~p
  <2>1. Truth(p) = 0 /\ Truth(~p) = 1
    BY <1>3 DEF Truth
  <2> QED BY <1>1, <2>1
<1> QED BY <1>2, <1>3

(* What General writes for an operator, operands in a and b, result in d.  *)
OperatorCode(op, body, d, a, b) ==
  /\ op \in BinaryOps /\ d \in Writable /\ a \in 0 .. 31 /\ b \in 0 .. 31
  /\ op = "Add" => body = <<RRR("add", d, a, b)>>
  /\ op = "Sub" => body = <<RRR("sub", d, a, b)>>
  /\ op = "Mul" => body = <<RRR("mul", d, a, b)>>
  /\ op = "Div" => body = <<RRR("div", d, a, b)>>
  /\ op = "Mod" => body = <<RRR("rem", d, a, b)>>
  /\ op = "Lt" => body = <<RRR("slt", d, a, b)>>
  /\ op = "Gt" => body = <<RRR("slt", d, b, a)>>
  /\ op = "Le" => body = <<RRR("slt", d, b, a), RR("flip", d, d)>>
  /\ op = "Ge" => body = <<RRR("slt", d, a, b)>> \o <<RR("flip", d, d)>>
  /\ op = "Eq" => body = <<RRR("sub", d, a, b)>> \o <<RR("seqz", d, d)>>
  /\ op = "Ne" => body = <<RRR("sub", d, a, b)>> \o <<RR("snez", d, d)>>

(* The operator on two registers.                                          *)
LEMMA OperatorRuns ==
  ASSUME NEW u, Sane(u), NEW t, NEW d, NEW a, NEW b, NEW op, NEW body, Runs(body, u, t),
         OperatorCode(op, body, d, a, b)
  PROVE  Sane(t) /\ t.r[d] = EvalBinary(op, u.r[a], u.r[b])
<1>0. op \in BinaryOps /\ d \in Writable /\ a \in 0 .. 31 /\ b \in 0 .. 31
  BY DEF OperatorCode
<1> USE <1>0
<1> DEFINE x == u.r[a]
           y == u.r[b]
           R == 0 .. 31
<1>1. x \in Words /\ y \in Words /\ x \in Int /\ y \in Int /\ d \in R
  BY SaneReads, Registers
<1>2. EvalBinary(op, x, y) \in Words
  <2>1. /\ Wrap(x + y) \in Words /\ Wrap(x - y) \in Words /\ Wrap(x * y) \in Words
        /\ Wrap(-1) \in Words
    <3>1. x + y \in Int /\ x - y \in Int /\ x * y \in Int /\ -1 \in Int
      BY <1>1
    <3> QED BY <3>1, Wrapped
  <2>2. y # 0 => Wrap(TruncDiv(x, y)) \in Words /\ Wrap(TruncRem(x, y)) \in Words
    <3> SUFFICES ASSUME y # 0
                 PROVE  Wrap(TruncDiv(x, y)) \in Words /\ Wrap(TruncRem(x, y)) \in Words
      OBVIOUS
    <3> DEFINE q == TruncDiv(x, y)
    <3>1. q \in Int
      BY <1>1, QuotientSign
    <3> HIDE DEF q
    <3>2. x - y * q \in Int
      BY <1>1, <3>1
    <3>3. TruncRem(x, y) = x - y * q
      BY DEF TruncRem, q
    <3> QED BY <3>1, <3>2, <3>3, Wrapped DEF q
  <2>3. \A p : Truth(p) \in Words
    BY TruthWord
  <2> HIDE DEF x, y
  <2> QED BY <1>1, <2>1, <2>2, <2>3 DEF BinaryOps, EvalBinary
<1>3. ASSUME NEW w, w = EvalBinary(op, x, y), t = Put(u, d, w)
      PROVE  Sane(t) /\ t.r[d] = w
  BY <1>2, <1>3, OneOp
<1>4. CASE op \in {"Add", "Sub", "Mul", "Div", "Mod", "Lt", "Gt"}
  <2>1. op = "Add" => t = Put(u, d, Wrap(x + y))
    BY RunsOne, Steps3 DEF OperatorCode
  <2>2. op = "Sub" => t = Put(u, d, Wrap(x - y))
    BY RunsOne, Steps3 DEF OperatorCode
  <2>3. op = "Mul" => t = Put(u, d, Wrap(x * y))
    BY RunsOne, Steps3 DEF OperatorCode
  <2>4. op = "Div" => t = Put(u, d, EvalBinary("Div", x, y))
    BY RunsOne, Steps3 DEF OperatorCode
  <2>5. op = "Mod" => t = Put(u, d, EvalBinary("Mod", x, y))
    BY RunsOne, Steps3 DEF OperatorCode
  <2>6. op = "Lt" => t = Put(u, d, Truth(x < y))
    BY RunsOne, Steps3 DEF OperatorCode
  <2>7. op = "Gt" => t = Put(u, d, Truth(y < x))
    BY RunsOne, Steps3 DEF OperatorCode
  <2>8. (y < x) = (x > y)
    BY <1>1
  <2> HIDE DEF x, y
  <2>9. t = Put(u, d, EvalBinary(op, x, y))
    <3>1. /\ EvalBinary("Add", x, y) = Wrap(x + y) /\ EvalBinary("Sub", x, y) = Wrap(x - y)
          /\ EvalBinary("Mul", x, y) = Wrap(x * y) /\ EvalBinary("Lt", x, y) = Truth(x < y)
          /\ EvalBinary("Gt", x, y) = Truth(x > y)
      BY DEF EvalBinary
    <3> QED BY <1>4, <2>1, <2>2, <2>3, <2>4, <2>5, <2>6, <2>7, <2>8, <3>1
  <2> QED BY <1>3, <2>9 DEF x, y
(* A difference or a comparison into d, rewritten there.                   *)
<1>5. ASSUME NEW i, NEW v \in Words, After(i, u) = Put(u, d, v), Into(R, <<i>>),
             NEW one \in {"flip", "seqz", "snez"},
             body = <<i, RR(one, d, d)>> \/ body = <<i>> \o <<RR(one, d, d)>>,
             NEW w, w = EvalBinary(op, x, y), After(RR(one, d, d), Put(u, d, v)) = Put(Put(u, d, v), d, w)
      PROVE  Sane(t) /\ t.r[d] = w
  <2> DEFINE j == RR(one, d, d)
             p == Put(u, d, v)
  <2>1. Into(R, <<j>>)
    BY <1>1, IntoForms
  <2>2. t = After(j, After(i, u))
    <3> HIDE DEF j, R
    <3>1. CASE body = <<i, j>>
      BY <3>1, RunsTwo
    <3>2. CASE body = <<i>> \o <<j>>
      <4>1. PICK z : Runs(<<i>>, u, z) /\ Runs(<<j>>, z, t)
        BY <1>5, <2>1, <3>2, RunsBoth
      <4> QED BY <4>1, RunsOne
    <3> QED BY <1>5, <3>1, <3>2 DEF j
  <2>3. t = Put(p, d, w)
    BY <1>5, <2>2
  <2>4. Sane(p)
    BY <1>5, PutOnce
  <2> HIDE DEF p
  <2> QED BY <1>2, <1>5, <2>3, <2>4, OneOp
<1>6. ASSUME NEW v \in Words
      PROVE  /\ Put(u, d, v).r[d] = v
             /\ After(RR("flip", d, d), Put(u, d, v)) =
                  Put(Put(u, d, v), d, IF v % 2 = 0 THEN v + 1 ELSE v - 1)
             /\ After(RR("seqz", d, d), Put(u, d, v)) = Put(Put(u, d, v), d, Truth(v = 0))
             /\ After(RR("snez", d, d), Put(u, d, v)) = Put(Put(u, d, v), d, Truth(v # 0))
  <2> DEFINE p == Put(u, d, v)
  <2>1. p.r[d] = v
    BY PutOnce
  <2> HIDE DEF p
  <2>2. /\ After(RR("flip", d, d), p) = Put(p, d, IF v % 2 = 0 THEN v + 1 ELSE v - 1)
        /\ After(RR("seqz", d, d), p) = Put(p, d, Truth(v = 0))
        /\ After(RR("snez", d, d), p) = Put(p, d, Truth(v # 0))
    BY <2>1, Steps1
  <2> QED BY <2>1, <2>2 DEF p
<1>7. CASE op = "Le"
  <2> DEFINE i == RRR("slt", d, b, a)
             v == Truth(y < x)
  <2>1. After(i, u) = Put(u, d, v) /\ Into(R, <<i>>) /\ v \in Words
    <3>1. After(i, u) = Put(u, d, v)
      BY Steps3
    <3>2. Into(R, <<i>>)
      BY <1>1, IntoForms
    <3>3. v \in Words
      BY TruthWord
    <3> QED BY <3>1, <3>2, <3>3
  <2>2. (IF v % 2 = 0 THEN v + 1 ELSE v - 1) = EvalBinary(op, x, y)
    <3>1. (IF v % 2 = 0 THEN v + 1 ELSE v - 1) = Truth(~(y < x))
      <4> DEFINE p == y < x
      <4>1. p \in BOOLEAN
        BY <1>1
      <4> HIDE DEF p
      <4>2. (IF Truth(p) % 2 = 0 THEN Truth(p) + 1 ELSE Truth(p) - 1) = Truth(~p)
        BY <4>1, Flipped
      <4> QED BY <4>2 DEF p
    <3>2. (~(y < x)) = (x =< y)
      BY <1>1
    <3>3. EvalBinary(op, x, y) = Truth(x =< y)
      BY <1>7 DEF EvalBinary
    <3> QED BY <3>1, <3>2, <3>3
  <2>3. body = <<i, RR("flip", d, d)>>
    BY <1>7 DEF OperatorCode
  <2> HIDE DEF i, v
  <2>4. After(RR("flip", d, d), Put(u, d, v)) = Put(Put(u, d, v), d, EvalBinary(op, x, y))
    BY <1>6, <2>1, <2>2
  <2> QED BY <1>5, <2>1, <2>3, <2>4
<1>8. CASE op = "Ge"
  <2> DEFINE i == RRR("slt", d, a, b)
             v == Truth(x < y)
  <2>1. After(i, u) = Put(u, d, v) /\ Into(R, <<i>>) /\ v \in Words
    <3>1. After(i, u) = Put(u, d, v)
      BY Steps3
    <3>2. Into(R, <<i>>)
      BY <1>1, IntoForms
    <3>3. v \in Words
      BY TruthWord
    <3> QED BY <3>1, <3>2, <3>3
  <2>2. (IF v % 2 = 0 THEN v + 1 ELSE v - 1) = EvalBinary(op, x, y)
    <3>1. (IF v % 2 = 0 THEN v + 1 ELSE v - 1) = Truth(~(x < y))
      <4> DEFINE p == x < y
      <4>1. p \in BOOLEAN
        BY <1>1
      <4> HIDE DEF p
      <4>2. (IF Truth(p) % 2 = 0 THEN Truth(p) + 1 ELSE Truth(p) - 1) = Truth(~p)
        BY <4>1, Flipped
      <4> QED BY <4>2 DEF p
    <3>2. (~(x < y)) = (x >= y)
      BY <1>1
    <3>3. EvalBinary(op, x, y) = Truth(x >= y)
      BY <1>8 DEF EvalBinary
    <3> QED BY <3>1, <3>2, <3>3
  <2>3. body = <<i>> \o <<RR("flip", d, d)>>
    BY <1>8 DEF OperatorCode
  <2> HIDE DEF i, v
  <2>4. After(RR("flip", d, d), Put(u, d, v)) = Put(Put(u, d, v), d, EvalBinary(op, x, y))
    BY <1>6, <2>1, <2>2
  <2> QED BY <1>5, <2>1, <2>3, <2>4
<1> DEFINE diff == RRR("sub", d, a, b)
           e == Wrap(x - y)
<1>9. After(diff, u) = Put(u, d, e) /\ Into(R, <<diff>>) /\ e \in Words /\ (e = 0 <=> x = y)
  <2>1. x - y \in Int
    BY <1>1
  <2>2. e \in Words /\ (e = 0 <=> x = y)
    BY <1>1, <2>1, Wrapped, WrapZero
  <2>3. After(diff, u) = Put(u, d, e)
    BY Steps3
  <2>4. Into(R, <<diff>>)
    BY <1>1, IntoForms
  <2> QED BY <2>2, <2>3, <2>4
<1>10. CASE op = "Eq"
  <2>1. Truth(e = 0) = EvalBinary(op, x, y) /\ body = <<diff>> \o <<RR("seqz", d, d)>>
    <3>1. (e = 0) = (x = y)
      BY <1>9
    <3> QED BY <1>10, <3>1 DEF EvalBinary, OperatorCode
  <2> HIDE DEF diff, e
  <2>2. After(RR("seqz", d, d), Put(u, d, e)) = Put(Put(u, d, e), d, EvalBinary(op, x, y))
    BY <1>6, <1>9, <2>1
  <2> QED BY <1>5, <1>9, <2>1, <2>2
<1>11. CASE op = "Ne"
  <2>1. Truth(e # 0) = EvalBinary(op, x, y) /\ body = <<diff>> \o <<RR("snez", d, d)>>
    <3>1. (e # 0) = (x # y)
      BY <1>9
    <3> QED BY <1>11, <3>1 DEF EvalBinary, OperatorCode
  <2> HIDE DEF diff, e
  <2>2. After(RR("snez", d, d), Put(u, d, e)) = Put(Put(u, d, e), d, EvalBinary(op, x, y))
    BY <1>6, <1>9, <2>1
  <2> QED BY <1>5, <1>9, <2>1, <2>2
<1> QED BY <1>4, <1>7, <1>8, <1>10, <1>11 DEF BinaryOps

(* Both operands into registers, then the operator.                        *)
LEMMA GeneralRuns ==
  ASSUME NEW s, Sane(s), NEW t, NEW g, NEW i, i.op \in BinaryOps, Target(g, i.dst),
         PlacedVal(g, i.a), PlacedVal(g, i.b), Runs(General(g, i), s, t)
  PROVE  Delivered(g, i.dst, t) = EvalBinary(i.op, ValueIn(g, i.a, s), ValueIn(g, i.b, s))
<1> DEFINE a == InReg(g, i.a, T5)
           b == InReg(g, i.b, T6)
           d == DstReg(g, i.dst)
           R == 0 .. 31
           x == ValueIn(g, i.a, s)
           y == ValueIn(g, i.b, s)
           op3(op) == <<RRR(op, d, a, b)>>
           body == CASE i.op = "Add" -> op3("add")
                     [] i.op = "Sub" -> op3("sub")
                     [] i.op = "Mul" -> op3("mul")
                     [] i.op = "Div" -> op3("div")
                     [] i.op = "Mod" -> op3("rem")
                     [] i.op = "Lt"  -> op3("slt")
                     [] i.op = "Gt"  -> <<RRR("slt", d, b, a)>>
                     [] i.op = "Le"  -> <<RRR("slt", d, b, a), RR("flip", d, d)>>
                     [] i.op = "Ge"  -> op3("slt") \o <<RR("flip", d, d)>>
                     [] i.op = "Eq"  -> op3("sub") \o <<RR("seqz", d, d)>>
                     [] i.op = "Ne"  -> op3("sub") \o <<RR("snez", d, d)>>
           one == ToReg(g, i.a, T5)
           two == ToReg(g, i.b, T6)
<1>1. /\ A7 \in R /\ T5 \in R /\ T6 \in R /\ d \in R /\ d \in Writable
      /\ T5 \in Writable /\ T6 \in Writable
  BY Registers, DstRegWritable
<1>2. Into(R, one) /\ Into(R, two) /\ Into(R, one \o two)
  <2>1. Into(R, one) /\ Into(R, two)
    BY <1>1, IntoLoads
  <2> QED BY <2>1, IntoBoth
<1>3. Into(R, body)
  <2>1. /\ Into(R, op3("add")) /\ Into(R, op3("sub")) /\ Into(R, op3("mul"))
        /\ Into(R, op3("div")) /\ Into(R, op3("rem")) /\ Into(R, op3("slt"))
        /\ Into(R, <<RRR("slt", d, b, a)>>)
    BY <1>1, IntoForms
  <2>2. /\ Into(R, <<RR("flip", d, d)>>) /\ Into(R, <<RR("seqz", d, d)>>)
        /\ Into(R, <<RR("snez", d, d)>>)
    BY <1>1, IntoForms
  <2>3. /\ Into(R, op3("slt") \o <<RR("flip", d, d)>>)
        /\ Into(R, op3("sub") \o <<RR("seqz", d, d)>>)
        /\ Into(R, op3("sub") \o <<RR("snez", d, d)>>)
        /\ Into(R, <<RRR("slt", d, b, a), RR("flip", d, d)>>)
    BY <2>1, <2>2, IntoBoth, IntoTwo
  <2> HIDE DEF R, a, b, d
  <2> QED BY <2>1, <2>3 DEF BinaryOps
<1>4. General(g, i) = Framed(g, i, one \o two, body)
  BY DEF General
<1>5. PICK u, v : /\ Runs(one \o two, s, u) /\ Runs(body, u, v)
                  /\ Runs(WriteBack(g, i.dst, DstReg(g, i.dst)), v, t)
  <2> HIDE DEF one, two, body, R
  <2> QED BY <1>2, <1>3, <1>4, FramedRuns
<1>6. PICK s1 : Runs(one, s, s1) /\ Runs(two, s1, u)
  <2> HIDE DEF one, two, R
  <2> QED BY <1>2, <1>5, RunsBoth
<1>7. Leads(s, s1, {T5, A7}, a, x) /\ a \in Homes \cup {ZERO, T5}
  BY <1>1, <1>6, ToRegRuns
<1>8. Sane(s1) /\ s1.r[a] = x
  BY <1>7 DEF Leads
<1>9. ValueIn(g, i.b, s1) = y
  <2>1. {T5, A7} \subseteq Scratch
    BY DEF Scratch
  <2>2. Agrees(s, s1)
    BY <1>7, <2>1, LeadsAgrees
  <2> QED BY <2>2, HomeKept
<1>10. Leads(s1, u, {T6, A7}, b, y) /\ b \in Homes \cup {ZERO, T6}
  <2>1. Leads(s1, u, {T6, A7}, b, ValueIn(g, i.b, s1)) /\ b \in Homes \cup {ZERO, T6}
    BY <1>1, <1>6, <1>8, ToRegRuns
  <2> QED BY <1>9, <2>1
<1>11. a \in R \ {T6, A7} /\ b \in R
  BY <1>7, <1>10, Registers DEF Scratch
<1>12. Sane(u) /\ u.r[a] = x /\ u.r[b] = y
  BY <1>8, <1>10, <1>11 DEF Leads
<1>13. Sane(v) /\ v.r[d] = EvalBinary(i.op, x, y)
  <2> DEFINE op == i.op
  <2>1. /\ op = "Add" => body = <<RRR("add", d, a, b)>>
        /\ op = "Sub" => body = <<RRR("sub", d, a, b)>>
        /\ op = "Mul" => body = <<RRR("mul", d, a, b)>>
        /\ op = "Div" => body = <<RRR("div", d, a, b)>>
        /\ op = "Mod" => body = <<RRR("rem", d, a, b)>>
        /\ op = "Lt" => body = <<RRR("slt", d, a, b)>>
        /\ op = "Gt" => body = <<RRR("slt", d, b, a)>>
        /\ op = "Le" => body = <<RRR("slt", d, b, a), RR("flip", d, d)>>
        /\ op = "Ge" => body = <<RRR("slt", d, a, b)>> \o <<RR("flip", d, d)>>
        /\ op = "Eq" => body = <<RRR("sub", d, a, b)>> \o <<RR("seqz", d, d)>>
        /\ op = "Ne" => body = <<RRR("sub", d, a, b)>> \o <<RR("snez", d, d)>>
    <3> HIDE DEF a, b, d
    <3> QED OBVIOUS
  <2>4. OperatorCode(op, body, d, a, b)
    <3>1. op \in BinaryOps /\ a \in 0 .. 31 /\ b \in 0 .. 31 /\ d \in Writable
      BY <1>1, <1>11
    <3> HIDE DEF body, op, a, b, d
    <3> QED BY <2>1, <3>1 DEF OperatorCode
  <2> HIDE DEF body, a, b, d, op
  <2>3. Sane(v) /\ v.r[d] = EvalBinary(op, u.r[a], u.r[b])
    <3> HIDE DEF R, x, y, one, two
    <3>1. d \in Writable /\ Runs(body, u, v) /\ Sane(u)
      BY <1>1, <1>5, <1>12
    <3> QED BY <2>4, <3>1, OperatorRuns
  <2> QED BY <1>12, <2>3 DEF op
<1> QED BY <1>5, <1>13, WriteBackRuns

(* A single instruction, on an operand.                                    *)
LEMMA YieldsOne ==
  ASSUME NEW s, NEW i, NEW a, NEW d \in Writable, NEW x, NEW w \in Words,
         \A u : u.r[a] = x => After(i, u) = Put(u, d, w)
  PROVE  Yields(s, <<i>>, a, d, x, w)
<1> SUFFICES ASSUME NEW u, NEW v, Sane(u), u.r[a] = x, Runs(<<i>>, u, v)
             PROVE  Sane(v) /\ v.r[d] = w
  BY DEF Yields
<1>1. v = Put(u, d, w)
  BY RunsOne
<1> QED BY <1>1, PutOnce

LEMMA OnAOnB ==
  ASSUME NEW g, NEW i, Target(g, i.dst), NEW body, Into(0 .. 31, body), NEW s, Sane(s), NEW t, NEW w
  PROVE  /\ /\ PlacedVal(g, i.a) /\ Runs(OnA(g, i, body), s, t)
            /\ Yields(s, body, InReg(g, i.a, T5), DstReg(g, i.dst), ValueIn(g, i.a, s), w)
            => Delivered(g, i.dst, t) = w
         /\ /\ PlacedVal(g, i.b) /\ Runs(OnB(g, i, body), s, t)
            /\ Yields(s, body, InReg(g, i.b, T5), DstReg(g, i.dst), ValueIn(g, i.b, s), w)
            => Delivered(g, i.dst, t) = w
<1>1. OnA(g, i, body) = Framed(g, i, ToReg(g, i.a, T5), body)
  BY DEF OnA
<1>2. OnB(g, i, body) = Framed(g, i, ToReg(g, i.b, T5), body)
  BY DEF OnB
<1> QED BY <1>1, <1>2, OnOperandRuns

(* What IsPlaced and Faults say of an instruction that is being selected.  *)
Ready(g, i, s) ==
  /\ Sane(s) /\ PlacedVal(g, i.a) /\ PlacedVal(g, i.b) /\ i.unsignedDiv \in BOOLEAN
  /\ ~IsReg(i.b) => i.b = Imm(i.b.n)
  /\ i.op \in {"Div", "Mod"} /\ ~IsReg(i.b) => ~i.unsignedDiv /\ MagicReady(g, i, i.b.n, s)
  /\ i.op = "Mod" /\ ~IsReg(i.b) /\ g.opt => i.b.n # 0

(* The immediate forms.                                                    *)
LEMMA ImmediateYields ==
  ASSUME NEW s, NEW a, NEW d \in Writable, NEW x \in Words, NEW n \in Words
  PROVE  /\ Yields(s, <<RRI("addi", d, a, n)>>, a, d, x, Wrap(x + n))
         /\ Yields(s, <<RRI("addi", d, a, -n)>>, a, d, x, Wrap(x - n))
         /\ Yields(s, <<RRI("slti", d, a, n)>>, a, d, x, Truth(x < n))
         /\ Yields(s, <<RR("seqz", d, a)>>, a, d, x, Truth(x = 0))
         /\ Yields(s, <<RR("snez", d, a)>>, a, d, x, Truth(x # 0))
         /\ Yields(s, <<RR("neg", d, a)>>, a, d, x, Wrap(-x))
<1>1. x \in Int /\ n \in Int
  BY WidthFacts DEF Words
<1>2. /\ Wrap(x + n) \in Words /\ Wrap(x - n) \in Words /\ Wrap(-x) \in Words
      /\ Truth(x < n) \in Words /\ Truth(x = 0) \in Words /\ Truth(x # 0) \in Words
  <2>1. x + n \in Int /\ x - n \in Int /\ -x \in Int
    BY <1>1
  <2>2. Wrap(x + n) \in Words /\ Wrap(x - n) \in Words /\ Wrap(-x) \in Words
    BY <2>1, Wrapped
  <2> QED BY <2>2, TruthWord
<1>3. Yields(s, <<RRI("addi", d, a, n)>>, a, d, x, Wrap(x + n))
  <2>1. \A u : u.r[a] = x => After(RRI("addi", d, a, n), u) = Put(u, d, Wrap(x + n))
    BY Steps2
  <2> QED BY <1>2, <2>1, YieldsOne
<1>4. Yields(s, <<RRI("addi", d, a, -n)>>, a, d, x, Wrap(x - n))
  <2> DEFINE m == -n
  <2>1. x + m = x - n
    BY <1>1
  <2> HIDE DEF m
  <2>2. \A u : u.r[a] = x => After(RRI("addi", d, a, m), u) = Put(u, d, Wrap(x - n))
    BY <2>1, Steps2
  <2>3. Yields(s, <<RRI("addi", d, a, m)>>, a, d, x, Wrap(x - n))
    BY <1>2, <2>2, YieldsOne
  <2> QED BY <2>3 DEF m
<1>5. Yields(s, <<RRI("slti", d, a, n)>>, a, d, x, Truth(x < n))
  <2>1. \A u : u.r[a] = x => After(RRI("slti", d, a, n), u) = Put(u, d, Truth(x < n))
    BY Steps2
  <2> QED BY <1>2, <2>1, YieldsOne
<1>6. Yields(s, <<RR("seqz", d, a)>>, a, d, x, Truth(x = 0))
  <2>1. \A u : u.r[a] = x => After(RR("seqz", d, a), u) = Put(u, d, Truth(x = 0))
    BY Steps1
  <2> QED BY <1>2, <2>1, YieldsOne
<1>7. Yields(s, <<RR("snez", d, a)>>, a, d, x, Truth(x # 0))
  <2>1. \A u : u.r[a] = x => After(RR("snez", d, a), u) = Put(u, d, Truth(x # 0))
    BY Steps1
  <2> QED BY <1>2, <2>1, YieldsOne
<1>8. Yields(s, <<RR("neg", d, a)>>, a, d, x, Wrap(-x))
  <2>1. \A u : u.r[a] = x => After(RR("neg", d, a), u) = Put(u, d, Wrap(-x))
    BY Steps1
  <2> QED BY <1>2, <2>1, YieldsOne
<1> QED BY <1>3, <1>4, <1>5, <1>6, <1>7, <1>8

(* The strength-reduced forms.                                             *)
LEMMA ReducedYields ==
  ASSUME NEW g, NEW i, NEW s, Ready(g, i, s), NEW a \in 0 .. 31 \ {A6, A7, T6}, NEW d \in Writable,
         NEW x, NEW n \in Words
  PROVE  /\ Yields(s, MulConst(d, a, n), a, d, x, Wrap(x * n))
         /\ ~i.unsignedDiv /\ MagicReady(g, i, n, s) =>
              Yields(s, DivConst(g, i, d, a, n), a, d, x, EvalBinary("Div", x, n))
         /\ ~i.unsignedDiv /\ MagicReady(g, i, n, s) /\ n # 0 =>
              Yields(s, ModConst(g, i, d, a, n), a, d, x, EvalBinary("Mod", x, n))
<1>1. a \in 0 .. 31 \ {T6} /\ a \in 0 .. 31 \ {A7, T6}
  OBVIOUS
<1>2. Yields(s, MulConst(d, a, n), a, d, x, Wrap(x * n))
  <2> SUFFICES ASSUME NEW u, NEW v, Sane(u), u.r[a] = x, Runs(MulConst(d, a, n), u, v)
               PROVE  Sane(v) /\ v.r[d] = Wrap(x * n)
    BY DEF Yields
  <2>1. Leads(u, v, {d, T6}, d, Wrap(u.r[a] * n))
    BY <1>1, MulConstRuns
  <2> QED BY <2>1 DEF Leads
<1>3. ASSUME NEW u, Agrees(s, u), MagicReady(g, i, n, s)
      PROVE  MagicReady(g, i, n, u)
  BY <1>3, HomeKept DEF MagicReady
<1>4. ASSUME ~i.unsignedDiv, MagicReady(g, i, n, s)
      PROVE  Yields(s, DivConst(g, i, d, a, n), a, d, x, EvalBinary("Div", x, n))
  <2> SUFFICES ASSUME NEW u, NEW v, Sane(u), Agrees(s, u), u.r[a] = x,
                      Runs(DivConst(g, i, d, a, n), u, v)
               PROVE  Sane(v) /\ v.r[d] = EvalBinary("Div", x, n)
    BY DEF Yields
  <2>1. MagicReady(g, i, n, u)
    BY <1>3, <1>4
  <2>2. Leads(u, v, {A7, T6, d}, d, EvalBinary("Div", u.r[a], n))
    BY <1>1, <1>4, <2>1, DivConstRuns
  <2> QED BY <2>2 DEF Leads
<1>5. ASSUME ~i.unsignedDiv, MagicReady(g, i, n, s), n # 0
      PROVE  Yields(s, ModConst(g, i, d, a, n), a, d, x, EvalBinary("Mod", x, n))
  <2> SUFFICES ASSUME NEW u, NEW v, Sane(u), Agrees(s, u), u.r[a] = x,
                      Runs(ModConst(g, i, d, a, n), u, v)
               PROVE  Sane(v) /\ v.r[d] = EvalBinary("Mod", x, n)
    BY DEF Yields
  <2>1. MagicReady(g, i, n, u)
    BY <1>3, <1>5
  <2>2. Leads(u, v, Scratch \cup {d}, d, EvalBinary("Mod", u.r[a], n))
    BY <1>1, <1>5, <2>1, ModConstRuns
  <2> QED BY <2>2 DEF Leads
<1> QED BY <1>2, <1>4, <1>5

(* An operand's register.                                                  *)
LEMMA OperandRegister ==
  ASSUME NEW g, NEW val, PlacedVal(g, val)
  PROVE  InReg(g, val, T5) \in 0 .. 31 \ {A6, A7, T6}
<1>1. InReg(g, val, T5) \in Homes \cup {ZERO, T5}
  BY DEF InReg, PlacedVal, Placed
<1>2. \A h \in Homes \cup {ZERO, T5} : h \in 0 .. 31 \ {A6, A7, T6}
  BY Registers DEF Scratch
<1> QED BY <1>1, <1>2

(* Each form of an operator, on its operands' values.                      *)
LEMMA BinaryRuns ==
  ASSUME NEW s, NEW t, NEW g, NEW i, Ready(g, i, s), i.op \in BinaryOps, Target(g, i.dst),
         Runs(EmitBinary(g, i), s, t)
  PROVE  Delivered(g, i.dst, t) = EvalBinary(i.op, ValueIn(g, i.a, s), ValueIn(g, i.b, s))
<1> DEFINE a == InReg(g, i.a, T5)
           b == InReg(g, i.b, T5)
           d == DstReg(g, i.dst)
           m == i.a.n
           n == i.b.n
           x == ValueIn(g, i.a, s)
           y == ValueIn(g, i.b, s)
           R == 0 .. 31
           const == ~IsReg(i.b)
           Good == Delivered(g, i.dst, t) = EvalBinary(i.op, x, y)
<1>1. /\ Sane(s) /\ PlacedVal(g, i.a) /\ PlacedVal(g, i.b)
      /\ x \in Words /\ y \in Words /\ d \in Writable /\ d \in R
      /\ a \in R \ {A6, A7, T6} /\ b \in R \ {A6, A7, T6}
  BY DstRegWritable, HomeWord, OperandRegister DEF Ready
<1>2. /\ const => n \in Words /\ y = n
      /\ ~IsReg(i.a) => m \in Words /\ x = m
  BY <1>1 DEF PlacedVal, ValueIn
<1>3. x \in Int /\ y \in Int
  BY <1>1, WidthFacts DEF Words
<1>4. /\ A6 \in R /\ A7 \in R /\ T6 \in R
  BY Registers
(* On the first operand, or on the second.                                 *)
<1>5. ASSUME NEW body, Into(R, body), Runs(OnA(g, i, body), s, t),
             Yields(s, body, a, d, x, EvalBinary(i.op, x, y))
      PROVE  Good
  BY <1>1, <1>5, OnAOnB
<1>6. ASSUME NEW body, Into(R, body), Runs(OnB(g, i, body), s, t),
             Yields(s, body, b, d, y, EvalBinary(i.op, x, y))
      PROVE  Good
  BY <1>1, <1>6, OnAOnB
<1>7. CASE i.op = "Add" /\ Short(i.b)
  <2> DEFINE body == <<RRI("addi", d, a, n)>>
  <2>1. EmitBinary(g, i) = OnA(g, i, body)
    BY <1>7 DEF EmitBinary
  <2>2. Into(R, body)
    BY <1>1, IntoForms
  <2>3. const
    BY <1>7 DEF Short
  <2>4. Yields(s, body, a, d, x, Wrap(x + n))
    BY <1>1, <1>2, <2>3, ImmediateYields
  <2>5. EvalBinary(i.op, x, y) = Wrap(x + n)
    BY <1>2, <1>7, <2>3 DEF EvalBinary
  <2>6. Good
    <3> HIDE DEF body, a, d, x, y, n, R, Good
    <3> QED BY <1>5, <2>1, <2>2, <2>4, <2>5
  <2> QED BY <2>6
<1>8. CASE i.op = "Add" /\ ~Short(i.b) /\ Short(i.a)
  <2> DEFINE body == <<RRI("addi", d, b, m)>>
  <2>1. EmitBinary(g, i) = OnB(g, i, body)
    BY <1>8 DEF EmitBinary
  <2>2. Into(R, body)
    BY <1>1, IntoForms
  <2>3. ~IsReg(i.a)
    BY <1>8 DEF Short
  <2>4. Yields(s, body, b, d, y, Wrap(y + m))
    BY <1>1, <1>2, <2>3, ImmediateYields
  <2>5. EvalBinary(i.op, x, y) = Wrap(y + m)
    <3>1. x + y = y + m
      BY <1>2, <1>3, <2>3
    <3> QED BY <1>8, <3>1 DEF EvalBinary
  <2>6. Good
    <3> HIDE DEF body, b, d, x, y, m, R, Good
    <3> QED BY <1>6, <2>1, <2>2, <2>4, <2>5
  <2> QED BY <2>6
<1>9. CASE i.op = "Sub" /\ const /\ Fits(-n)
  <2> DEFINE body == <<RRI("addi", d, a, -n)>>
  <2>1. EmitBinary(g, i) = OnA(g, i, body)
    BY <1>9 DEF EmitBinary
  <2>2. Into(R, body)
    BY <1>1, IntoForms
  <2>4. Yields(s, body, a, d, x, Wrap(x - n))
    BY <1>1, <1>2, <1>9, ImmediateYields
  <2>5. EvalBinary(i.op, x, y) = Wrap(x - n)
    BY <1>2, <1>9 DEF EvalBinary
  <2>6. Good
    <3> HIDE DEF body, a, d, x, y, n, R, Good
    <3> QED BY <1>5, <2>1, <2>2, <2>4, <2>5
  <2> QED BY <2>6
<1>10. CASE i.op = "Lt" /\ Short(i.b)
  <2> DEFINE body == <<RRI("slti", d, a, n)>>
  <2>1. EmitBinary(g, i) = OnA(g, i, body)
    BY <1>10 DEF EmitBinary
  <2>2. Into(R, body)
    BY <1>1, IntoForms
  <2>3. const
    BY <1>10 DEF Short
  <2>4. Yields(s, body, a, d, x, Truth(x < n))
    BY <1>1, <1>2, <2>3, ImmediateYields
  <2>5. EvalBinary(i.op, x, y) = Truth(x < n)
    BY <1>2, <1>10, <2>3 DEF EvalBinary
  <2>6. Good
    <3> HIDE DEF body, a, d, x, y, n, R, Good
    <3> QED BY <1>5, <2>1, <2>2, <2>4, <2>5
  <2> QED BY <2>6
<1>11. CASE i.op = "Eq" /\ i.b = Imm(0)
  <2> DEFINE body == <<RR("seqz", d, a)>>
  <2>1. EmitBinary(g, i) = OnA(g, i, body)
    BY <1>11 DEF EmitBinary
  <2>2. Into(R, body)
    BY <1>1, IntoForms
  <2>3. const /\ n = 0
    BY <1>11 DEF Imm, IsReg
  <2>4. Yields(s, body, a, d, x, Truth(x = 0))
    BY <1>1, <1>2, <2>3, ImmediateYields
  <2>5. EvalBinary(i.op, x, y) = Truth(x = 0)
    BY <1>2, <1>11, <2>3 DEF EvalBinary
  <2>6. Good
    <3> HIDE DEF body, a, d, x, y, n, R, Good
    <3> QED BY <1>5, <2>1, <2>2, <2>4, <2>5
  <2> QED BY <2>6
<1>12. CASE i.op = "Ne" /\ i.b = Imm(0)
  <2> DEFINE body == <<RR("snez", d, a)>>
  <2>1. EmitBinary(g, i) = OnA(g, i, body)
    BY <1>12 DEF EmitBinary
  <2>2. Into(R, body)
    BY <1>1, IntoForms
  <2>3. const /\ n = 0
    BY <1>12 DEF Imm, IsReg
  <2>4. Yields(s, body, a, d, x, Truth(x # 0))
    <3>1. n \in Words /\ x \in Words /\ d \in Writable
      BY <1>1, <1>2, <2>3
    <3> HIDE DEF n, x, d, a
    <3> QED BY <3>1, ImmediateYields
  <2>5. EvalBinary(i.op, x, y) = Truth(x # 0)
    BY <1>2, <1>12, <2>3 DEF EvalBinary
  <2>6. Good
    <3> HIDE DEF body, a, d, x, y, n, R, Good
    <3> QED BY <1>5, <2>1, <2>2, <2>4, <2>5
  <2> QED BY <2>6
<1>13. CASE i.op = "Mul" /\ ~IsReg(i.a)
  <2> DEFINE body == MulConst(d, b, m)
  <2>1. EmitBinary(g, i) = OnB(g, i, body)
    BY <1>13 DEF EmitBinary
  <2>2. Into(R, body)
    BY <1>1, <1>4, IntoMulConst
  <2>4. Yields(s, body, b, d, y, Wrap(y * m))
    BY <1>1, <1>2, <1>13, ReducedYields
  <2>5. EvalBinary(i.op, x, y) = Wrap(y * m)
    <3>1. x * y = y * m
      <4>1. x = m
        BY <1>2, <1>13
      <4>2. x * y = y * x
        <5> HIDE DEF x, y
        <5> QED BY <1>3
      <4> QED BY <4>1, <4>2
    <3> QED BY <1>13, <3>1 DEF EvalBinary
  <2>6. Good
    <3> HIDE DEF body, b, d, x, y, m, R, Good
    <3> QED BY <1>6, <2>1, <2>2, <2>4, <2>5
  <2> QED BY <2>6
<1>14. CASE i.op = "Mul" /\ IsReg(i.a) /\ const
  <2> DEFINE body == MulConst(d, a, n)
  <2>1. EmitBinary(g, i) = OnA(g, i, body)
    BY <1>14 DEF EmitBinary
  <2>2. Into(R, body)
    BY <1>1, <1>4, IntoMulConst
  <2>4. Yields(s, body, a, d, x, Wrap(x * n))
    BY <1>1, <1>2, <1>14, ReducedYields
  <2>5. EvalBinary(i.op, x, y) = Wrap(x * n)
    BY <1>2, <1>14 DEF EvalBinary
  <2>6. Good
    <3> HIDE DEF body, a, d, x, y, n, R, Good
    <3> QED BY <1>5, <2>1, <2>2, <2>4, <2>5
  <2> QED BY <2>6
<1>15. CASE i.op = "Div" /\ const /\ g.opt
  <2> DEFINE body == DivConst(g, i, d, a, n)
  <2>1. EmitBinary(g, i) = OnA(g, i, body)
    BY <1>15 DEF EmitBinary
  <2>2. Into(R, body)
    <3>1. i.unsignedDiv \in BOOLEAN
      BY DEF Ready
    <3> QED BY <1>1, <3>1, <1>2, <1>4, <1>15, IntoDivConst
  <2>3. ~i.unsignedDiv /\ MagicReady(g, i, n, s)
    BY <1>15 DEF Ready
  <2>4. Yields(s, body, a, d, x, EvalBinary("Div", x, n))
    BY <1>1, <1>2, <1>15, <2>3, ReducedYields
  <2>5. EvalBinary(i.op, x, y) = EvalBinary("Div", x, n)
    BY <1>2, <1>15
  <2>6. Good
    <3> HIDE DEF body, a, d, x, y, n, R, Good
    <3> QED BY <1>5, <2>1, <2>2, <2>4, <2>5
  <2> QED BY <2>6
<1>16. CASE i.op = "Mod" /\ const /\ g.opt
  <2> DEFINE body == ModConst(g, i, d, a, n)
  <2>1. EmitBinary(g, i) = OnA(g, i, body)
    BY <1>16 DEF EmitBinary
  <2>2. n # 0 /\ ~i.unsignedDiv /\ MagicReady(g, i, n, s)
    BY <1>16 DEF Ready
  <2>3. Into(R, body)
    <3>1. i.unsignedDiv \in BOOLEAN
      BY DEF Ready
    <3> QED BY <1>1, <3>1, <1>2, <1>4, <1>16, <2>2, IntoModConst
  <2>4. Yields(s, body, a, d, x, EvalBinary("Mod", x, n))
    BY <1>1, <1>2, <1>16, <2>2, ReducedYields
  <2>5. EvalBinary(i.op, x, y) = EvalBinary("Mod", x, n)
    BY <1>2, <1>16
  <2>6. Good
    <3> HIDE DEF body, a, d, x, y, n, R, Good
    <3> QED BY <1>5, <2>1, <2>3, <2>4, <2>5
  <2> QED BY <2>6
<1>17. CASE EmitBinary(g, i) = General(g, i)
  BY <1>1, <1>17, GeneralRuns
<1>18. \/ i.op = "Add" /\ Short(i.b)
       \/ i.op = "Add" /\ ~Short(i.b) /\ Short(i.a)
       \/ i.op = "Sub" /\ const /\ Fits(-n)
       \/ i.op = "Lt" /\ Short(i.b)
       \/ i.op = "Eq" /\ i.b = Imm(0)
       \/ i.op = "Ne" /\ i.b = Imm(0)
       \/ i.op = "Mul" /\ ~IsReg(i.a)
       \/ i.op = "Mul" /\ IsReg(i.a) /\ const
       \/ i.op = "Div" /\ const /\ g.opt
       \/ i.op = "Mod" /\ const /\ g.opt
       \/ EmitBinary(g, i) = General(g, i)
  BY DEF EmitBinary
<1> QED BY <1>7, <1>8, <1>9, <1>10, <1>11, <1>12, <1>13, <1>14, <1>15, <1>16, <1>17, <1>18

-----------------------------------------------------------------------------
(* The sequence for an instruction, whichever it is.                       *)
LEMMA InstRuns ==
  ASSUME NEW s, NEW t, NEW g, NEW i, Ready(g, i, s), i.op \in Ops \ {"Call", "StoreGlobal"},
         i.gid \in {0, 1}, Target(g, i.dst), Runs(InstCode(g, i), s, t)
  PROVE  /\ i.op \in BinaryOps =>
              Delivered(g, i.dst, t) = EvalBinary(i.op, ValueIn(g, i.a, s), ValueIn(g, i.b, s))
         /\ i.op \in UnaryOps => Delivered(g, i.dst, t) = EvalUnary(i.op, ValueIn(g, i.a, s))
         /\ i.op = "LoadGlobal" => Delivered(g, i.dst, t) = s.g[i.gid]
<1> DEFINE a == InReg(g, i.a, T5)
           d == DstReg(g, i.dst)
           x == ValueIn(g, i.a, s)
           R == 0 .. 31
<1>1. /\ Sane(s) /\ PlacedVal(g, i.a) /\ x \in Words /\ d \in Writable /\ d \in R /\ A7 \in R
  BY DstRegWritable, HomeWord, Registers DEF Ready
<1>2. ASSUME NEW body, Into(R, body), InstCode(g, i) = Framed(g, i, << >>, body)
      PROVE  \E v : Runs(body, s, v) /\ (Sane(v) => Delivered(g, i.dst, t) = v.r[d])
  <2>1. Into(R, << >>)
    BY IntoNone
  <2>2. PICK u, v : /\ Runs(<< >>, s, u) /\ Runs(body, u, v)
                    /\ Runs(WriteBack(g, i.dst, DstReg(g, i.dst)), v, t)
    <3> HIDE DEF R
    <3> QED BY <1>2, <2>1, FramedRuns
  <2>3. u = s
    BY <2>2, RunsNone
  <2>4. Sane(v) => Delivered(g, i.dst, t) = v.r[d]
    BY <2>2, WriteBackRuns
  <2> QED BY <2>2, <2>3, <2>4
<1>3. CASE i.op = "Mv"
  <2> DEFINE body == Materialize(g, i.a, d)
  <2>1. InstCode(g, i) = Framed(g, i, << >>, body)
    BY <1>3 DEF InstCode
  <2>2. Into(R, body)
    BY <1>1, IntoLoads
  <2>3. PICK v : Runs(body, s, v) /\ (Sane(v) => Delivered(g, i.dst, t) = v.r[d])
    <3> HIDE DEF body
    <3> QED BY <1>2, <2>1, <2>2
  <2>4. Leads(s, v, {d, A7}, d, x)
    BY <1>1, <2>3, MaterializeRuns
  <2>5. Delivered(g, i.dst, t) = x
    BY <2>3, <2>4 DEF Leads
  <2> QED BY <1>3, <2>5 DEF EvalUnary, BinaryOps, UnaryOps
<1>4. CASE i.op = "LoadGlobal"
  <2> DEFINE body == <<RRI("lwg", d, ZERO, i.gid)>>
             w == s.g[i.gid]
  <2>1. InstCode(g, i) = Framed(g, i, << >>, body)
    BY <1>4 DEF InstCode, UnaryOps
  <2>2. Into(R, body)
    BY <1>1, IntoForms
  <2>3. PICK v : Runs(body, s, v) /\ (Sane(v) => Delivered(g, i.dst, t) = v.r[d])
    <3> HIDE DEF body
    <3> QED BY <1>2, <2>1, <2>2
  <2>4. v = Put(s, d, w) /\ w \in Words
    <3>1. w \in Words
      BY <1>1 DEF Sane
    <3>2. v = After(RRI("lwg", d, ZERO, i.gid), s)
      BY <2>3, RunsOne
    <3> HIDE DEF d
    <3> QED BY <3>1, <3>2, Steps2
  <2>5. Sane(v) /\ v.r[d] = w
    BY <1>1, <2>4, PutOnce
  <2>6. Delivered(g, i.dst, t) = w
    BY <2>3, <2>5
  <2> QED BY <1>4, <2>6 DEF BinaryOps, UnaryOps
<1>5. CASE i.op \in {"Neg", "Not"}
  <2>1. i.op = "Neg" => Delivered(g, i.dst, t) = Wrap(-x)
    <3> DEFINE body == <<RR("neg", d, a)>>
    <3> SUFFICES ASSUME i.op = "Neg" PROVE Delivered(g, i.dst, t) = Wrap(-x)
      OBVIOUS
    <3>1. InstCode(g, i) = OnA(g, i, body)
      BY DEF InstCode
    <3>2. Into(R, body)
      BY <1>1, IntoForms
    <3>3. Yields(s, body, a, d, x, Wrap(-x))
      <4>1. 0 \in Words
        BY WidthFacts DEF Words
      <4> QED BY <1>1, <4>1, ImmediateYields
    <3> DEFINE w == Wrap(-x)
    <3>4. Runs(OnA(g, i, body), s, t) /\ Yields(s, body, a, d, x, w)
      BY <3>1, <3>3
    <3> HIDE DEF body, w
    <3>5. Delivered(g, i.dst, t) = w
      BY <1>1, <3>2, <3>4, OnAOnB
    <3> QED BY <3>5 DEF w
  <2>2. i.op = "Not" => Delivered(g, i.dst, t) = Truth(x = 0)
    <3> DEFINE body == <<RR("seqz", d, a)>>
    <3> SUFFICES ASSUME i.op = "Not" PROVE Delivered(g, i.dst, t) = Truth(x = 0)
      OBVIOUS
    <3>1. InstCode(g, i) = OnA(g, i, body)
      BY DEF InstCode
    <3>2. Into(R, body)
      BY <1>1, IntoForms
    <3>3. Yields(s, body, a, d, x, Truth(x = 0))
      <4>1. 0 \in Words
        BY WidthFacts DEF Words
      <4> QED BY <1>1, <4>1, ImmediateYields
    <3> DEFINE w == Truth(x = 0)
    <3>4. Runs(OnA(g, i, body), s, t) /\ Yields(s, body, a, d, x, w)
      BY <3>1, <3>3
    <3> HIDE DEF body, w
    <3>5. Delivered(g, i.dst, t) = w
      BY <1>1, <3>2, <3>4, OnAOnB
    <3> QED BY <3>5 DEF w
  <2>3. Delivered(g, i.dst, t) = EvalUnary(i.op, x)
    <3> HIDE DEF x
    <3> QED BY <1>5, <2>1, <2>2 DEF EvalUnary
  <2> QED BY <1>5, <2>3 DEF BinaryOps
<1>6. CASE i.op \in BinaryOps
  <2>1. InstCode(g, i) = EmitBinary(g, i)
    BY <1>6 DEF InstCode, BinaryOps
  <2> QED BY <1>6, <2>1, BinaryRuns DEF BinaryOps, UnaryOps
<1> QED BY <1>3, <1>4, <1>5, <1>6 DEF Ops, UnaryOps

LEMMA StoreRuns ==
  ASSUME NEW s, NEW t, NEW g, NEW i, Ready(g, i, s), i.op = "StoreGlobal",
         i.gid \in {0, 1}, Runs(InstCode(g, i), s, t)
  PROVE  t.g[i.gid] = ValueIn(g, i.a, s)
<1> DEFINE a == InReg(g, i.a, T5)
           x == ValueIn(g, i.a, s)
           one == ToReg(g, i.a, T5)
           j == RRI("swg", a, T6, i.gid)
           two == <<j>>
<1>1. Sane(s) /\ PlacedVal(g, i.a) /\ T5 \in Writable /\ T5 \in 0 .. 31 /\ A7 \in 0 .. 31
  BY Registers DEF Ready
<1>2. InstCode(g, i) = one \o two
  BY DEF InstCode, UnaryOps
<1>3. Into(0 .. 31, one)
  BY <1>1, IntoLoads
<1>4. PICK u : Runs(one, s, u) /\ Runs(two, u, t)
  <2>1. one \in Seq({one[k] : k \in DOMAIN one})
    BY <1>3 DEF Into
  <2>2. two \in Seq({two[k] : k \in DOMAIN two})
    <3> HIDE DEF j
    <3> QED OBVIOUS
  <2> HIDE DEF one, two
  <2> QED BY <1>2, <2>1, <2>2, RunsInARow
<1>5. Leads(s, u, {T5, A7}, a, x)
  BY <1>1, <1>4, ToRegRuns
<1>6. Sane(u) /\ u.r[a] = x
  BY <1>5 DEF Leads
<1>7. j.op = "swg" /\ j.rd = a /\ j.rs = T6 /\ j.n = i.gid
  BY Fields
<1> HIDE DEF j
<1>8. t = After(j, u)
  BY <1>4, RunsOne
<1>9. t = [u EXCEPT !.g[i.gid] = u.r[a], !.r[T6] = 0]
  <2> HIDE DEF a
  <2> QED BY <1>7, <1>8 DEF After
<1>10. t.g = [u.g EXCEPT ![i.gid] = u.r[a]]
  <2>1. u = [r |-> u.r, m |-> u.m, g |-> u.g]
    BY <1>6 DEF Sane
  <2> HIDE DEF a
  <2> QED BY <1>9, <2>1
<1>11. DOMAIN u.g = {0, 1}
  BY <1>6 DEF Sane
<1>12. u.r[a] = x
  BY <1>6
<1> HIDE DEF a, x
<1>13. t.g[i.gid] = x
  BY <1>10, <1>11, <1>12
<1> QED BY <1>13 DEF x

-----------------------------------------------------------------------------
(* A case, as CasesAssumption and PlacedAssumption have it.                *)
LEMMA HoldingSane ==
  ASSUME NEW gen, NEW held, \A v \in DOMAIN held : held[v] \in Words
  PROVE  Sane(Holding(gen, held))
<1>1. Junk \in Words /\ 0 \in Words /\ \A x \in {0, 1} : x - 2 \in Words
  BY WidthFacts, HalfAssumption DEF Words, Junk
<1>2. ASSUME NEW vs \in SUBSET DOMAIN held PROVE OneOf(held, vs) \in Words
  <2>1. CASE vs = {}
    BY <1>1, <2>1 DEF OneOf
  <2>2. CASE vs # {}
    <3> DEFINE v == CHOOSE v \in vs : TRUE
    <3>1. v \in vs
      BY <2>2
    <3>2. OneOf(held, vs) = held[v]
      BY <2>2 DEF OneOf
    <3> QED BY <3>1, <3>2
  <2> QED BY <2>1, <2>2
<1> DEFINE inReg(r) == OneOf(held, {v \in DOMAIN held : gen.reg[v] = r})
           inSlot(k) == OneOf(held, {v \in DOMAIN held : gen.reg[v] = NoReg /\ SpillOff(gen, v) = k})
           s == Holding(gen, held)
           rs == [r \in 0 .. 31 |-> IF r \in {ZERO, SP} THEN 0 ELSE inReg(r)]
           ms == [k \in 0 .. Half - 1 |-> inSlot(k)]
           gs == [x \in {0, 1} |-> x - 2]
<1>3. \A r : inReg(r) \in Words
  BY <1>2
<1>4. \A k : inSlot(k) \in Words
  BY <1>2
<1>5. s = [r |-> rs, m |-> ms, g |-> gs]
  BY DEF Holding
<1> HIDE DEF inReg, inSlot, s
<1>6. rs \in [0 .. 31 -> Words] /\ rs[ZERO] = 0 /\ rs[SP] = 0
  BY <1>1, <1>3 DEF ZERO, SP
<1>7. ms \in [0 .. Half - 1 -> Words] /\ gs \in [{0, 1} -> Words]
  BY <1>1, <1>4
<1> HIDE DEF rs, ms, gs
<1>8. s.r = rs /\ s.m = ms /\ s.g = gs
  BY <1>5
<1> QED BY <1>5, <1>6, <1>7, <1>8 DEF Sane, s

(* What holds of the instruction, the generator and the machine before it. *)
Given(i, g, s) ==
  /\ i.op \in Ops \ {"Call"} /\ i.gid \in {0, 1}
  /\ i.op # "StoreGlobal" => Target(g, i.dst)
  /\ ~ByUnsigned(i) /\ ~Faults(g, i) => Ready(g, i, s)

LEMMA CaseGiven ==
  ASSUME NEW c, IsCase(c), IsPlaced(c)
  PROVE  Given(c.in, c.cg, Holding(c.cg, c.held))
<1> DEFINE i == c.in
           g == c.cg
           s == Holding(c.cg, c.held)
           vs == DOMAIN c.held
<1>1. /\ i.op \in Ops \ {"Call"} /\ i.unsignedDiv \in BOOLEAN
      /\ i.op # "StoreGlobal" => i.dst # NoReg
      /\ ~IsReg(i.b) => i.b = Imm(i.b.n) /\ i.b.n \in Words
  BY DEF IsCase
<1>2. /\ \A v \in vs : c.held[v] \in Words /\ Placed(g, v)
      /\ i.gid \in {0, 1} /\ g.dstOverride \in Homes \cup {NoReg}
      /\ i.dst \in vs \cup {NoReg}
  <2>1. /\ \A v \in vs : /\ c.held[v] \in Words
                         /\ \/ g.reg[v] \in Homes
                            \/ g.reg[v] = NoReg /\ SpillOff(g, v) \in 0 .. Half - 1
        /\ i.gid \in {0, 1} /\ g.dstOverride \in Homes \cup {NoReg}
        /\ i.dst \in vs \cup {NoReg}
    BY DEF IsPlaced
  <2> HIDE DEF vs, i, g
  <2> QED BY <2>1 DEF Placed
<1>3. PlacedVal(g, i.a) /\ PlacedVal(g, i.b)
  BY <1>2 DEF IsPlaced, PlacedVal
<1>4. Sane(s)
  BY <1>2, HoldingSane
<1>5. ASSUME ~i.unsignedDiv, i.op \in {"Div", "Mod"}, ~IsReg(i.b) PROVE MagicReady(g, i, i.b.n, s)
  <2> SUFFICES ASSUME NeedsMagic(i.b.n), i.magic # NoReg
               PROVE  Placed(g, i.magic) /\ Home(g, i.magic, s) = SignedMagic[i.b.n].M
    BY DEF MagicReady
  <2>1. i.magic \in vs /\ Home(g, i.magic, s) = SignedMagic[i.b.n].M
    BY <1>5 DEF IsPlaced
  <2> QED BY <1>2, <2>1
<1>6. ASSUME ~i.unsignedDiv, ~Faults(g, i), i.op = "Mod", ~IsReg(i.b), g.opt PROVE i.b.n # 0
  BY <1>1, <1>6 DEF Faults
<1>7. ~ByUnsigned(i) /\ ~Faults(g, i) => Ready(g, i, s)
  <2> HIDE DEF s
  <2> QED BY <1>1, <1>3, <1>4, <1>5, <1>6 DEF Ready, ByUnsigned
<1>8. i.op # "StoreGlobal" => Target(g, i.dst)
  BY <1>1, <1>2 DEF Target
<1> QED BY <1>1, <1>2, <1>7, <1>8 DEF Given

(* So far, the first at - 1 instructions have run from start to st.        *)
SoFar ==
  \E f : f[0] = start /\ f[at - 1] = st /\ \A k \in 1 .. at - 1 : f[k] = After(code[k], f[k - 1])

ComputeInv ==
  /\ Given(in, cg, start)
  /\ stage = "run" => code = InstCode(cg, in) /\ ~Faults(cg, in) /\ SoFar /\ at - 1 =< Len(code)

LEMMA ComputeInitInv == EmitInit => ComputeInv
<1> SUFFICES ASSUME EmitInit PROVE ComputeInv
  OBVIOUS
<1>1. PICK family \in Cases : \E c \in family :
         /\ in = c.in /\ cg = c.cg /\ start = Holding(c.cg, c.held)
  BY DEF EmitInit
<1>2. PICK c \in family : in = c.in /\ cg = c.cg /\ start = Holding(c.cg, c.held)
  BY <1>1
<1>3. IsCase(c) /\ IsPlaced(c)
  BY CasesAssumption, PlacedAssumption
<1>4. Given(in, cg, start)
  BY <1>2, <1>3, CaseGiven
<1>5. stage = "emit"
  BY DEF EmitInit
<1> QED BY <1>4, <1>5 DEF ComputeInv

LEMMA ComputeStepInv ==
  ASSUME EmitInv, ComputeInv, [EmitNext]_emitVars
  PROVE  ComputeInv'
<1>1. CASE Emit
  <2>1. /\ stage = "emit" /\ ~Faults(cg, in) /\ code' = InstCode(cg, in)
        /\ UNCHANGED <<in, cg, start, at, st>>
    BY <1>1 DEF Emit
  <2>2. Given(in', cg', start')
    BY <2>1 DEF ComputeInv
  <2>3. at' = 1 /\ st' = start' /\ Len(code') \in Nat
    BY <1>1, <2>1, TidyCode DEF EmitInv
  <2>4. SoFar'
    <3> DEFINE f == [k \in {0} |-> start']
    <3>1. f[0] = start' /\ at' - 1 = 0 /\ 1 .. at' - 1 = {}
      BY <2>3
    <3> HIDE DEF f
    <3>2. f[at' - 1] = st' /\ \A k \in 1 .. at' - 1 : f[k] = After(code'[k], f[k - 1])
      BY <2>3, <3>1
    <3> QED BY <3>1, <3>2 DEF SoFar
  <2>5. at' - 1 =< Len(code')
    BY <2>3
  <2> QED BY <2>1, <2>2, <2>4, <2>5 DEF ComputeInv
<1>2. CASE Execute
  <2>1. /\ stage = "run" /\ at =< Len(code) /\ st' = After(code[at], st) /\ at' = at + 1
        /\ UNCHANGED <<in, cg, start, stage, code>>
    BY <1>2 DEF Execute
  <2>2. at \in Nat \ {0} /\ Len(code) \in Nat
    BY <2>1 DEF EmitInv
  <2>3. Given(in', cg', start') /\ code' = InstCode(cg', in') /\ ~Faults(cg', in')
    BY <2>1 DEF ComputeInv
  <2>4. at' - 1 = at /\ at' - 1 =< Len(code')
    BY <2>1, <2>2
  <2>5. SoFar'
    <3>1. PICK f : /\ f[0] = start /\ f[at - 1] = st
                   /\ \A k \in 1 .. at - 1 : f[k] = After(code[k], f[k - 1])
      BY <2>1 DEF ComputeInv, SoFar
    <3> DEFINE h == [k \in 0 .. at |-> IF k = at THEN st' ELSE f[k]]
    <3>2. /\ 0 \in 0 .. at /\ at \in 0 .. at /\ at # 0
          /\ \A k \in 1 .. at - 1 : k \in 0 .. at /\ k - 1 \in 0 .. at /\ k # at /\ k - 1 # at
          /\ at - 1 \in 0 .. at /\ at - 1 # at
      BY <2>2
    <3>3. h[0] = start /\ h[at] = st' /\ h[at - 1] = st
      BY <3>1, <3>2
    <3>4. \A k \in 1 .. at - 1 : h[k] = f[k] /\ h[k - 1] = f[k - 1]
      BY <3>2
    <3> HIDE DEF h
    <3>5. ASSUME NEW k \in 1 .. at PROVE h[k] = After(code[k], h[k - 1])
      <4>1. CASE k = at
        BY <2>1, <3>3, <4>1
      <4>2. CASE k # at
        <5>1. k \in 1 .. at - 1
          BY <2>2, <4>2
        <5> QED BY <3>1, <3>4, <5>1
      <4> QED BY <4>1, <4>2
    <3> QED BY <2>1, <2>4, <3>3, <3>5 DEF SoFar
  <2> QED BY <2>3, <2>4, <2>5 DEF ComputeInv
<1>3. CASE EmitFaults
  <2>1. stage' = "fault" /\ UNCHANGED <<in, cg, start, code, at, st>>
    BY <1>3 DEF EmitFaults
  <2> QED BY <2>1 DEF ComputeInv
<1>4. CASE UNCHANGED emitVars
  <2>1. UNCHANGED <<in, cg, start, stage, code, at, st>>
    BY <1>4 DEF emitVars
  <2>2. SoFar' <=> SoFar
    BY <2>1 DEF SoFar
  <2> QED BY <2>1, <2>2 DEF ComputeInv
<1> QED BY <1>1, <1>2, <1>3, <1>4 DEF EmitNext

LEMMA ComputeInvImplies ==
  ASSUME EmitInv, ComputeInv
  PROVE  ComputesOp
<1> SUFFICES ASSUME Done, ~ByUnsigned(in) PROVE Produced = Expected
  BY DEF ComputesOp
<1>1. stage = "run" /\ at > Len(code) /\ at - 1 =< Len(code)
  BY DEF Done, ComputeInv
<1>2. at \in Nat \ {0} /\ Len(code) \in Nat
  BY <1>1 DEF EmitInv
<1>3. at - 1 = Len(code)
  BY <1>1, <1>2
<1>4. Runs(InstCode(cg, in), start, st)
  BY <1>1, <1>3 DEF ComputeInv, SoFar, Runs
<1>5. /\ Ready(cg, in, start) /\ in.op \in Ops \ {"Call"} /\ in.gid \in {0, 1}
      /\ in.op # "StoreGlobal" => Target(cg, in.dst)
  BY <1>1 DEF ComputeInv, Given
<1>6. Value(in.a) = ValueIn(cg, in.a, start) /\ Value(in.b) = ValueIn(cg, in.b, start)
  BY DEF Value, ValueIn, HomeOf
<1>7. CASE in.op = "StoreGlobal"
  <2>1. st.g[in.gid] = Value(in.a)
    BY <1>4, <1>5, <1>6, <1>7, StoreRuns
  <2> QED BY <1>7, <2>1 DEF Produced, Expected, BinaryOps, UnaryOps
<1>8. CASE in.op # "StoreGlobal"
  <2>1. Produced = Delivered(cg, in.dst, st)
    BY <1>8 DEF Produced, Delivered, HomeOf
  <2>2. /\ in.op \in BinaryOps => Produced = EvalBinary(in.op, Value(in.a), Value(in.b))
        /\ in.op \in UnaryOps => Produced = EvalUnary(in.op, Value(in.a))
        /\ in.op = "LoadGlobal" => Produced = start.g[in.gid]
    BY <1>4, <1>5, <1>6, <1>8, <2>1, InstRuns
  <2>3. in.op \in BinaryOps \/ in.op \in UnaryOps \/ in.op = "LoadGlobal"
    BY <1>5, <1>8 DEF Ops
  <2> QED BY <2>2, <2>3 DEF Expected, BinaryOps, UnaryOps
<1> QED BY <1>7, <1>8

(* The sequence written for an instruction leaves the value of its operator*)
(* in the result's home, for every instruction, every constant operand and *)
(* divisor, every allocation, spilled near or far, and every width: the    *)
(* immediate forms, the shifts and additions for products, the shifts and  *)
(* magic numbers for quotients and remainders (emitInst with all it calls, *)
(* codegen/OptCodeGen.cpp).  Divisions and remainders by a constant that   *)
(* are marked unsigned are not among them (ByUnsigned).                    *)
THEOREM ComputesOpCorrect == EmitSpec => []ComputesOp
<1>1. EmitInit => EmitInv /\ ComputeInv
  BY EmitInitInv, ComputeInitInv
<1>2. (EmitInv /\ ComputeInv) /\ [EmitNext]_emitVars => (EmitInv /\ ComputeInv)'
  BY EmitNextInv, ComputeStepInv
<1>3. EmitInv /\ ComputeInv => ComputesOp
  BY ComputeInvImplies
<1> QED BY <1>1, <1>2, <1>3, PTL DEF EmitSpec
=============================================================================
