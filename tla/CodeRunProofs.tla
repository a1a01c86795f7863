---------------------------- MODULE CodeRunProofs ----------------------------
(***************************************************************************)
(* What emitted functions promise each other, for every program, either    *)
(* back end and every allocation.  The text of a program is marked between *)
(* its instructions with the machines and activations that may stand there *)
(* (Marking): the emitters of Codegen, Select and Naive are walked one by  *)
(* one to show that such marks exist and that every instruction leads from *)
(* the mark before it to the mark after it (Step, Walk), branches, calls   *)
(* and returns included.  The inductive invariant CodeInv then says that   *)
(* the innermost activation stands where the marks allow and that every    *)
(* other one awaits the return of the one above it.                        *)
(***************************************************************************)
EXTENDS CodeRun, MagicProofs, SequenceTheorems, TLAPS

-----------------------------------------------------------------------------
(* Sequences put together from pieces.                                     *)
Pieced(codes, n, S, g) ==
  /\ g \in [0 .. n -> Seq(S)] /\ g[0] = << >>
  /\ \A k \in 1 .. n : g[k] = g[k - 1] \o codes[k]
  /\ Concat(codes) = g[n]

LEMMA Pieces ==
  ASSUME NEW S, NEW n \in Nat, NEW codes \in [1 .. n -> Seq(S)]
  PROVE  \E g : Pieced(codes, n, S, g)
<1> DEFINE Z == Seq(S)
           G == [z \in Z |-> [k \in Nat |-> IF k \in 1 .. n THEN z \o codes[k] ELSE z]]
           Is(g) == g = [k \in 0 .. Len(codes) |-> IF k = 0 THEN << >> ELSE g[k - 1] \o codes[k]]
<1>1. Len(codes) = n
  <2>1. codes \in Seq(Z)
    OBVIOUS
  <2>2. DOMAIN codes = 1 .. n /\ DOMAIN codes = 1 .. Len(codes) /\ Len(codes) \in Nat
    BY <2>1
  <2> QED BY <2>2
<1>2. \E g : Turned(g, Z, << >>, G, n)
  <2>1. << >> \in Z
    OBVIOUS
  <2>2. G \in [Z -> [Nat -> Z]]
    OBVIOUS
  <2> HIDE DEF G, Z
  <2> QED BY <2>1, <2>2, Turns
<1>3. PICK h : Turned(h, Z, << >>, G, n)
  BY <1>2
<1>4. h \in [0 .. n -> Z] /\ h[0] = << >> /\ \A k \in 1 .. n : h[k] = h[k - 1] \o codes[k]
  <2>1. h \in [0 .. n -> Z] /\ h[0] = << >> /\ \A k \in 1 .. n : h[k] = G[h[k - 1]][k]
    BY <1>3 DEF Turned
  <2>2. ASSUME NEW k \in 1 .. n PROVE h[k] = h[k - 1] \o codes[k]
    <3>1. k - 1 \in 0 .. n /\ h[k - 1] \in Z /\ k \in Nat
      BY <2>1
    <3> HIDE DEF Z
    <3>2. G[h[k - 1]][k] = h[k - 1] \o codes[k]
      BY <3>1
    <3> QED BY <2>1, <3>2
  <2> QED BY <2>1, <2>2
<1>5. Is(h)
  <2>1. ASSUME NEW k \in 0 .. n PROVE h[k] = IF k = 0 THEN << >> ELSE h[k - 1] \o codes[k]
    <3>1. CASE k = 0
      BY <1>4, <3>1
    <3>2. CASE k # 0
      <4>1. k \in 1 .. n
        BY <3>2
      <4>2. h[k] = h[k - 1] \o codes[k]
        BY <1>4, <4>1
      <4> QED BY <3>2, <4>2
    <3> QED BY <3>1, <3>2
  <2>2. h = [k \in 0 .. n |-> h[k]]
    BY <1>4
  <2> QED BY <1>1, <2>1, <2>2
<1>6. PICK g : Is(g) /\ Concat(codes) = g[n]
  <2>1. Concat(codes) = (CHOOSE g : Is(g))[Len(codes)]
    BY DEF Concat
  <2> HIDE DEF Is
  <2> QED BY <1>1, <1>5, <2>1
<1>7. g = [k \in 0 .. n |-> IF k = 0 THEN << >> ELSE g[k - 1] \o codes[k]]
  BY <1>1, <1>6
<1>8. g[0] = << >> /\ \A k \in 1 .. n : g[k] = g[k - 1] \o codes[k]
  <2>1. ASSUME NEW k \in 0 .. n PROVE g[k] = IF k = 0 THEN << >> ELSE g[k - 1] \o codes[k]
    BY <1>7
  <2>2. g[0] = << >>
    <3>1. 0 \in 0 .. n
      OBVIOUS
    <3> QED BY <2>1, <3>1
  <2>3. ASSUME NEW k \in 1 .. n PROVE g[k] = g[k - 1] \o codes[k]
    <3>1. k \in 0 .. n /\ k # 0
      OBVIOUS
    <3> QED BY <2>1, <3>1
  <2> QED BY <2>2, <2>3
<1>9. \A k \in 0 .. n : g[k] \in Z
  <2> DEFINE D == {k \in Nat : k =< n => g[k] \in Z}
  <2>1. 0 \in D
    <3>1. << >> \in Z
      OBVIOUS
    <3> HIDE DEF Z
    <3> QED BY <1>8, <3>1
  <2>2. ASSUME NEW k \in Nat, k \in D PROVE k + 1 \in D
    <3> SUFFICES ASSUME k + 1 =< n PROVE g[k + 1] \in Z
      OBVIOUS
    <3>1. g[k] \in Z /\ k + 1 \in 1 .. n /\ (k + 1) - 1 = k
      BY <2>2
    <3>2. g[k + 1] = g[k] \o codes[k + 1] /\ codes[k + 1] \in Z
      BY <1>8, <3>1
    <3> QED BY <3>1, <3>2
  <2>3. Nat \subseteq D
    <3> HIDE DEF D
    <3> QED BY <2>1, <2>2, Upward
  <2> QED BY <2>3
<1>10. g \in [0 .. n -> Z]
  BY <1>7, <1>9
<1> QED BY <1>6, <1>8, <1>10 DEF Pieced

(* Pieces over S make a sequence over S, with each piece somewhere in it,  *)
(* the first one first.                                                    *)
LEMMA ConcatParts ==
  ASSUME NEW S, NEW n \in Nat, NEW codes \in [1 .. n -> Seq(S)]
  PROVE  /\ Concat(codes) \in Seq(S)
         /\ \A i \in 1 .. n : \E pre \in Seq(S), post \in Seq(S) :
              /\ Concat(codes) = (pre \o codes[i]) \o post
              /\ i = 1 => pre = << >>
<1>1. PICK g : Pieced(codes, n, S, g)
  BY Pieces
<1>2. /\ g \in [0 .. n -> Seq(S)] /\ g[0] = << >>
      /\ \A k \in 1 .. n : g[k] = g[k - 1] \o codes[k]
      /\ Concat(codes) = g[n]
  BY <1>1 DEF Pieced
<1>3. Concat(codes) \in Seq(S)
  <2>1. n \in 0 .. n
    OBVIOUS
  <2> QED BY <1>2, <2>1
<1>4. ASSUME NEW i \in 1 .. n
      PROVE  \E pre \in Seq(S), post \in Seq(S) :
               /\ Concat(codes) = (pre \o codes[i]) \o post
               /\ i = 1 => pre = << >>
  <2> DEFINE Q(k) == \E post \in Seq(S) : g[k] = g[i] \o post
             D == {k \in Nat : i + k =< n => Q(i + k)}
  <2>0. i \in 0 .. n /\ i \in Nat /\ i - 1 \in 0 .. n
    OBVIOUS
  <2>1. i \in 0 .. n /\ g[i] \in Seq(S) /\ i \in Nat /\ i - 1 \in 0 .. n /\ g[i - 1] \in Seq(S)
    BY <1>2, <2>0
  <2>2. 0 \in D
    <3>1. g[i] = g[i] \o << >> /\ << >> \in Seq(S)
      BY <2>1, ConcatEmptySeq
    <3>2. Q(i) /\ i + 0 = i
      <4>1. Q(i)
        BY <3>1
      <4> HIDE DEF Q
      <4> QED BY <2>1, <4>1
    <3> HIDE DEF Q
    <3> QED BY <3>2
  <2>3. ASSUME NEW k \in Nat, k \in D PROVE k + 1 \in D
    <3> SUFFICES ASSUME i + (k + 1) =< n PROVE Q(i + (k + 1))
      <4> HIDE DEF Q
      <4> QED OBVIOUS
    <3> DEFINE j == i + (k + 1)
    <3>1. j \in 1 .. n /\ j - 1 = i + k /\ i + k =< n
      BY <2>1
    <3>2. PICK post \in Seq(S) : g[i + k] = g[i] \o post
      BY <2>3, <3>1
    <3>3. g[j] = g[j - 1] \o codes[j] /\ codes[j] \in Seq(S)
      BY <1>2, <3>1
    <3> HIDE DEF j
    <3>4. (g[i] \o post) \o codes[j] = g[i] \o (post \o codes[j]) /\ post \o codes[j] \in Seq(S)
      <4>1. g[i] \in Seq(S) /\ post \in Seq(S) /\ codes[j] \in Seq(S)
        BY <2>1, <3>3
      <4>2. (g[i] \o post) \o codes[j] = g[i] \o (post \o codes[j])
        <5> DEFINE x == g[i]
                   z == codes[j]
        <5>1. x \in Seq(S) /\ post \in Seq(S) /\ z \in Seq(S)
          BY <4>1
        <5> HIDE DEF x, z
        <5>2. (x \o post) \o z = x \o (post \o z)
          BY ONLY <5>1, ConcatAssociative, SMTT(20)
        <5> QED BY <5>2 DEF x, z
      <4>3. post \o codes[j] \in Seq(S)
        BY ONLY <4>1, ConcatProperties
      <4> QED BY <4>2, <4>3
    <3>5. g[j] = g[i] \o (post \o codes[j])
      BY <3>1, <3>2, <3>3, <3>4
    <3>6. Q(j)
      BY <3>4, <3>5
    <3> QED BY <3>6 DEF j
  <2>4. Nat \subseteq D
    <3> HIDE DEF D
    <3> QED BY <2>2, <2>3, Upward
  <2>5. n - i \in Nat /\ i + (n - i) = n
    BY <2>1
  <2>6. Q(n)
    <3>1. n - i \in D
      BY <2>4, <2>5
    <3> HIDE DEF Q
    <3>2. i + (n - i) =< n => Q(i + (n - i))
      BY <3>1
    <3> QED BY <2>5, <3>2
  <2>7. PICK post \in Seq(S) : g[n] = g[i] \o post
    BY <2>6
  <2>8. g[i] = g[i - 1] \o codes[i]
    BY <1>2
  <2>9. Concat(codes) = (g[i - 1] \o codes[i]) \o post
    BY <1>2, <2>7, <2>8
  <2>10. i = 1 => g[i - 1] = << >>
    BY <1>2
  <2> QED BY <2>1, <2>7, <2>9, <2>10
<1> QED BY <1>3, <1>4

-----------------------------------------------------------------------------
(* Machines and activations.  An activation's stack pointer is a multiple  *)
(* of 16 bytes and, since whoever called it has stored ra in its own       *)
(* frame, not further below the stack than a frame is long.                *)
Names == 0 .. 31
Deepest == Half \div 2

MachineStates == [r : [Names -> Words], m : [0 .. StackTop -> Words], g : [Gids -> Words]]

Levels == {n \in Int : -Deepest =< n /\ n =< StackTop /\ n % 4 = 0}

Activations ==
  [sp : Levels, ra : Nat, saved : [CalleeSaved -> Words], args : [0 .. 7 -> Words],
   mem : [0 .. StackTop -> Words], unit : Nat]

(* The callers' part of the stack is as it was when the activation began.  *)
Kept(s, f) == \A k \in 0 .. StackTop : k >= f.sp => s.m[k] = f.mem[k]

Legal == {x \in MachineStates \X Activations : Kept(x[1], x[2])}

(* What the activation was given, by name: a register it must hand back,   *)
(* an argument, or, from 32, a word of the caller's frame.                 *)
Given(f, w) ==
  CASE w \in CalleeSaved -> f.saved[w]
    [] w = RA -> f.ra
    [] w \in A0 .. A7 -> f.args[w - A0]
    [] OTHER -> f.mem[f.sp + (w - 32)]

(* The machine while unit u's code has sp moved down by d words, K names   *)
(* what registers hold and S what words of the frame do.                   *)
Holds(s, f, d, K, S) ==
  /\ s.r[SP] = f.sp - d
  /\ \A q \in K : s.r[q[1]] = Given(f, q[2])
  /\ \A q \in S : s.r[SP] + q[1] \in 0 .. StackTop /\ s.m[s.r[SP] + q[1]] = Given(f, q[2])

At(u, d, K, S) == {x \in Legal : x[2].unit = u /\ Holds(x[1], x[2], d, K, S)}

-----------------------------------------------------------------------------
(* Steps of the text, each between the machines and activations that may   *)
(* stand before it and those that may stand after.                         *)
Computing == {"li", "mv", "neg", "seqz", "snez", "add", "sub", "mul", "mulh", "mulhu",
              "div", "rem", "slt", "addi", "slti", "flip", "slli", "srli", "srai",
              "lw", "lwg", "swg", "sw"}
Mnemonics == Computing \cup Branches \cup {"func", "label", "j", "call", "ret"}

Instructions == [op : Mnemonics, rd : Names, rs : Names, rt : Names, n : Int \cup (Int \X Int)]

Trapping(in, s) == in.op \in {"lw", "sw"} /\ s.r[in.rs] + in.n \notin 0 .. StackTop

(* What a function hands back, and what its caller finds in the machine t  *)
(* after a call in the machine s.                                          *)
Restored(s, f) ==
  /\ s.r[SP] = f.sp /\ s.r[RA] = f.ra
  /\ \A x \in CalleeSaved : s.r[x] = f.saved[x]

Back(s, t) ==
  /\ t.r[SP] = s.r[SP]
  /\ \A x \in CalleeSaved : t.r[x] = s.r[x]
  /\ \A k \in 0 .. StackTop : k >= s.r[SP] => t.m[k] = s.m[k]

-----------------------------------------------------------------------------
(* The frame of a unit, whichever back end has it.  Saves names the slots  *)
(* that hold what must be handed back, Keeps the registers that still do.  *)
Used(u) == IF IsNaive(u) THEN {} ELSE {u.al.usedCallee[k] : k \in DOMAIN u.al.usedCallee}
Leaf(u) == ~IsNaive(u) /\ u.al.isLeaf
RaSlot(u) == IF IsNaive(u) THEN NaiveFrame(u.fn).raOff ELSE Layout(u).raOff

SavedRegs(u, n) == {<<Layout(u).calleeBase + k - 1, u.al.usedCallee[k]>> : k \in 1 .. n}
SavedRa(u) == IF Leaf(u) THEN {} ELSE {<<RaSlot(u), RA>>}

Saves(u) == SavedRa(u) \cup (IF IsNaive(u) THEN {} ELSE SavedRegs(u, Len(u.al.usedCallee)))
Keeps(u) == {<<x, x>> : x \in CalleeSaved \ Used(u)} \cup (IF Leaf(u) THEN {<<RA, RA>>} ELSE {})

Body(u) == At(u.id, FrameSize(u), Keeps(u), Saves(u))

(* What a function is given before its first instruction.                  *)
Handed == {<<x, x>> : x \in CalleeSaved \cup {RA} \cup A0 .. A7}
Started(k) == At(k, 0, Handed, {})

(* Parameters, while they move.  An argument in a7 is lost to the address  *)
(* scratch when the frame is beyond the reach of an immediate.             *)
HomeReg(u, v) == IF IsNaive(u) THEN NoReg ELSE u.al.reg[v]
HomeSlot(u, v) == IF IsNaive(u) THEN SlotOff(u.fn, v) ELSE SpillOff(Gen(u), v)

Param(u, j) == u.fn.params[j + 1]
Argument(j) == IF j < 8 THEN A0 + j ELSE 32 + (j - 8)

EntryOnce(f) == \A b \in Blocks(f) : 0 \notin Succs(f.blocks[b])
Careful(u) == EntryOnce(u.fn) /\ (IsNaive(u) \/ Len(u.fn.params) < 8 \/ Fits(FrameSize(u)))
Tracked(u) == IF Careful(u) THEN 0 .. Len(u.fn.params) - 1 ELSE {}

Waiting(u, i) == {<<A0 + j, A0 + j>> : j \in {k \in Tracked(u) : i =< k /\ k < 8}}
InRegs(u, i) == {<<HomeReg(u, Param(u, j)), Argument(j)>> :
                   j \in {k \in Tracked(u) : k < i /\ HomeReg(u, Param(u, k)) # NoReg}}
InSlots(u, i) == {<<HomeSlot(u, Param(u, j)), Argument(j)>> :
                    j \in {k \in Tracked(u) : k < i /\ HomeReg(u, Param(u, k)) = NoReg}}

Stage(u, i) ==
  At(u.id, FrameSize(u), Keeps(u) \cup Waiting(u, i) \cup InRegs(u, i), Saves(u) \cup InSlots(u, i))

Entered(u) == Stage(u, Len(u.fn.params))

(* What holds at a label, and the labels there are.                        *)
AtLabel(p, l) == LET u == Programs[p][l[1]] IN IF l[2] = 0 THEN Entered(u) ELSE Body(u)

EmittedBlocks(u) == IF IsNaive(u) THEN Blocks(u.fn) ELSE Reachable(u.fn)
Labels(p) == {l \in Nat \X Nat : l[1] \in DOMAIN Programs[p] /\ l[2] \in EmittedBlocks(Programs[p][l[1]])}

-----------------------------------------------------------------------------
(* From A, the instruction does what it promises and leads to B: code is   *)
(* entered only where it may be, what is returned is restored, a call is   *)
(* aligned and returns to B, and a store stays above the stack pointer.    *)
StraightStep(in, A, B) ==
  \A x \in A : /\ in.op = "sw" => x[1].r[in.rs] + in.n >= x[1].r[SP]
               /\ ~Trapping(in, x[1]) => <<After(in, x[1]), x[2]>> \in B

CallStep(p, in, A, B) ==
  /\ in.n \in DOMAIN Programs[p]
  /\ \A x \in A : /\ x[1].r[SP] \in Levels
                  /\ \A t \in MachineStates : Back(x[1], t) => <<t, x[2]>> \in B

LabelStep(p, in, A, B) ==
  \/ in.op = "func" /\ in.n \in DOMAIN Programs[p] /\ A = Started(in.n) /\ A \subseteq B
  \/ in.op = "label" /\ in.n \in Labels(p) /\ A = AtLabel(p, in.n) /\ A \subseteq B

JumpStep(p, in, A, B) ==
  /\ in.n \in Labels(p) /\ A \subseteq AtLabel(p, in.n)
  /\ in.op # "j" => A \subseteq B

Step(p, in, A, B) ==
  \/ in.op \in Computing /\ in.n \in Int /\ StraightStep(in, A, B)
  \/ LabelStep(p, in, A, B)
  \/ in.op \in Branches \cup {"j"} /\ JumpStep(p, in, A, B)
  \/ in.op = "call" /\ CallStep(p, in, A, B)
  \/ in.op = "ret" /\ \A x \in A : Restored(x[1], x[2])

(* A trace marks a text with what may stand between its instructions; a    *)
(* walk through a text starts from A, ends in B.                           *)
Marking(p, code, tr) ==
  /\ tr \in [0 .. Len(code) -> SUBSET Legal]
  /\ \A k \in 1 .. Len(code) : Step(p, code[k], tr[k - 1], tr[k])

Walk(p, code, A, B) ==
  /\ code \in Seq(Instructions)
  /\ \E tr : Marking(p, code, tr) /\ A \subseteq tr[0] /\ tr[Len(code)] \subseteq B

LEMMA StepWider ==
  ASSUME NEW p, NEW in, NEW A, NEW B, NEW C, Step(p, in, A, B), B \subseteq C
  PROVE  Step(p, in, A, C)
<1>1. StraightStep(in, A, B) => StraightStep(in, A, C)
  BY DEF StraightStep
<1>2. CallStep(p, in, A, B) => CallStep(p, in, A, C)
  BY DEF CallStep
<1>3. LabelStep(p, in, A, B) => LabelStep(p, in, A, C)
  BY DEF LabelStep
<1>4. JumpStep(p, in, A, B) => JumpStep(p, in, A, C)
  BY DEF JumpStep
<1> QED BY <1>1, <1>2, <1>3, <1>4 DEF Step

LEMMA WalkNone ==
  ASSUME NEW p, NEW A \in SUBSET Legal
  PROVE  Walk(p, << >>, A, A)
<1> DEFINE c == << >>
           tr == [k \in 0 .. 0 |-> A]
<1>1. c \in Seq(Instructions) /\ Len(c) = 0
  OBVIOUS
<1>2. tr \in [0 .. 0 -> SUBSET Legal] /\ tr[0] = A
  OBVIOUS
<1> HIDE DEF c, tr
<1>3. Marking(p, c, tr)
  BY <1>1, <1>2 DEF Marking
<1>4. Walk(p, c, A, A)
  BY <1>1, <1>2, <1>3 DEF Walk
<1> QED BY <1>4 DEF c

LEMMA WalkOne ==
  ASSUME NEW p, NEW in \in Instructions, NEW A \in SUBSET Legal, NEW B \in SUBSET Legal,
         Step(p, in, A, B)
  PROVE  Walk(p, <<in>>, A, B)
<1> DEFINE c == <<in>>
           tr == [k \in 0 .. 1 |-> IF k = 0 THEN A ELSE B]
<1>1. c \in Seq(Instructions) /\ Len(c) = 1 /\ c[1] = in
  OBVIOUS
<1>2. tr \in [0 .. 1 -> SUBSET Legal] /\ tr[0] = A /\ tr[1] = B
  OBVIOUS
<1> HIDE DEF c, tr
<1>3. Marking(p, c, tr)
  <2>1. ASSUME NEW k \in 1 .. 1 PROVE Step(p, c[k], tr[k - 1], tr[k])
    <3>1. k = 1 /\ k - 1 = 0
      OBVIOUS
    <3> QED BY <1>1, <1>2, <3>1
  <2> QED BY <1>1, <1>2, <2>1 DEF Marking
<1>4. Walk(p, c, A, B)
  BY <1>1, <1>2, <1>3 DEF Walk
<1> QED BY <1>4 DEF c

LEMMA WalkWeaker ==
  ASSUME NEW p, NEW c, NEW A, NEW A1, NEW B, NEW B1, Walk(p, c, A1, B1),
         A \subseteq A1, B1 \subseteq B
  PROVE  Walk(p, c, A, B)
BY DEF Walk

(* Walks in a row.                                                         *)
LEMMA WalkBoth ==
  ASSUME NEW p, NEW c, NEW d, NEW A, NEW B, NEW C, Walk(p, c, A, B), Walk(p, d, B, C)
  PROVE  Walk(p, c \o d, A, C)
<1> DEFINE e == c \o d
           m == Len(c)
           n == Len(d)
<1>1. c \in Seq(Instructions) /\ d \in Seq(Instructions) /\ e \in Seq(Instructions)
      /\ m \in Nat /\ n \in Nat /\ Len(e) = m + n
  BY DEF Walk
<1>2. /\ \A k \in 1 .. m : e[k] = c[k]
      /\ \A k \in m + 1 .. m + n : e[k] = d[k - m]
  <2>1. c \in Seq(Instructions) /\ d \in Seq(Instructions)
    BY <1>1
  <2> QED BY <2>1
<1>3. PICK x : Marking(p, c, x) /\ A \subseteq x[0] /\ x[m] \subseteq B
  BY DEF Walk
<1>4. PICK y : Marking(p, d, y) /\ B \subseteq y[0] /\ y[n] \subseteq C
  BY DEF Walk
<1> DEFINE z == [k \in 0 .. m + n |-> IF k < m THEN x[k] ELSE y[k - m]]
<1>5. x \in [0 .. m -> SUBSET Legal] /\ \A k \in 1 .. m : Step(p, c[k], x[k - 1], x[k])
  BY <1>3 DEF Marking
<1>6. y \in [0 .. n -> SUBSET Legal] /\ \A k \in 1 .. n : Step(p, d[k], y[k - 1], y[k])
  BY <1>4 DEF Marking
<1> HIDE DEF e, m, n
<1>7. z \in [0 .. m + n -> SUBSET Legal]
  <2>1. ASSUME NEW k \in 0 .. m + n PROVE (IF k < m THEN x[k] ELSE y[k - m]) \in SUBSET Legal
    <3>1. CASE k < m
      BY <1>1, <1>5, <3>1
    <3>2. CASE ~(k < m)
      <4>1. k - m \in 0 .. n
        BY <1>1, <3>2
      <4> QED BY <1>6, <3>2, <4>1
    <3> QED BY <3>1, <3>2
  <2> QED BY <2>1
<1>8. /\ \A k \in 0 .. m + n : k < m => z[k] = x[k]
      /\ \A k \in 0 .. m + n : ~(k < m) => z[k] = y[k - m]
  OBVIOUS
<1> HIDE DEF z
<1>9. ASSUME NEW k \in 1 .. m + n PROVE Step(p, e[k], z[k - 1], z[k])
  <2>0. k \in Int /\ k - 1 \in 0 .. m + n /\ k \in 0 .. m + n
    BY <1>1
  <2>1. CASE k < m
    <3>1. k \in 1 .. m /\ k - 1 < m
      BY <1>1, <2>0, <2>1
    <3>2. e[k] = c[k] /\ z[k - 1] = x[k - 1] /\ z[k] = x[k]
      BY <1>2, <1>8, <2>0, <2>1, <3>1
    <3>3. Step(p, c[k], x[k - 1], x[k])
      BY <1>5, <3>1
    <3> QED BY <3>2, <3>3
  <2>2. CASE k = m
    <3>1. k \in 1 .. m /\ k - 1 < m /\ k - m = 0 /\ ~(k < m)
      BY <1>1, <2>0, <2>2
    <3>2. e[k] = c[k] /\ z[k - 1] = x[k - 1] /\ z[k] = y[0]
      BY <1>2, <1>8, <2>0, <3>1
    <3>3. Step(p, c[k], x[k - 1], x[k]) /\ x[k] \subseteq y[0]
      BY <1>3, <1>4, <1>5, <2>2, <3>1
    <3> QED BY <3>2, <3>3, StepWider
  <2>3. CASE k > m
    <3>1. k \in m + 1 .. m + n /\ k - m \in 1 .. n /\ ~(k < m) /\ ~(k - 1 < m)
          /\ (k - 1) - m = (k - m) - 1
      BY <1>1, <2>0, <2>3
    <3>2. e[k] = d[k - m] /\ z[k - 1] = y[(k - m) - 1] /\ z[k] = y[k - m]
      BY <1>2, <1>8, <2>0, <3>1
    <3>3. Step(p, d[k - m], y[(k - m) - 1], y[k - m])
      BY <1>6, <3>1
    <3> QED BY <3>2, <3>3
  <2> QED BY <1>1, <2>0, <2>1, <2>2, <2>3
<1>10. Marking(p, e, z)
  BY <1>1, <1>7, <1>9 DEF Marking
<1>11. A \subseteq z[0]
  <2>1. CASE m = 0
    <3>1. 0 \in 0 .. m + n /\ ~(0 < m) /\ 0 - m = 0
      BY <1>1, <2>1
    <3>2. z[0] = y[0]
      BY <1>8, <3>1
    <3> QED BY <1>3, <1>4, <2>1, <3>2
  <2>2. CASE m # 0
    <3>1. 0 \in 0 .. m + n /\ 0 < m
      BY <1>1, <2>2
    <3>2. z[0] = x[0]
      BY <1>8, <3>1
    <3> QED BY <1>3, <3>2
  <2> QED BY <2>1, <2>2
<1>12. z[m + n] \subseteq C
  <2>1. m + n \in 0 .. m + n /\ ~(m + n < m) /\ (m + n) - m = n
    BY <1>1
  <2>2. z[m + n] = y[n]
    BY <1>8, <2>1
  <2> QED BY <1>4, <2>2
<1>13. Walk(p, e, A, C)
  BY <1>1, <1>10, <1>11, <1>12 DEF Walk
<1> QED BY <1>13 DEF e

(* Instructions that lead from A to A, any number of them.                 *)
LEMMA WalkAll ==
  ASSUME NEW p, NEW I \in SUBSET Instructions, NEW c \in Seq(I), NEW A \in SUBSET Legal,
         \A in \in I : Step(p, in, A, A)
  PROVE  Walk(p, c, A, A)
<1> DEFINE tr == [k \in 0 .. Len(c) |-> A]
<1>1. Len(c) \in Nat /\ c \in Seq(Instructions) /\ \A k \in 1 .. Len(c) : c[k] \in I
  BY SeqMonotonic
<1>2. tr \in [0 .. Len(c) -> SUBSET Legal] /\ tr[0] = A /\ tr[Len(c)] = A
  BY <1>1
<1>3. ASSUME NEW k \in 1 .. Len(c) PROVE Step(p, c[k], tr[k - 1], tr[k])
  <2>1. k - 1 \in 0 .. Len(c) /\ k \in 0 .. Len(c)
    BY <1>1
  <2>2. tr[k - 1] = A /\ tr[k] = A
    BY <2>1
  <2> QED BY <1>1, <2>2
<1> HIDE DEF tr
<1>4. Marking(p, c, tr)
  BY <1>2, <1>3 DEF Marking
<1> QED BY <1>1, <1>2, <1>4 DEF Walk

(* Pieces in a row, from stage to stage.                                   *)
LEMMA WalkPieces ==
  ASSUME NEW p, NEW n \in Nat, NEW codes \in [1 .. n -> Seq(Instructions)],
         NEW St \in [0 .. n -> SUBSET Legal],
         \A k \in 1 .. n : Walk(p, codes[k], St[k - 1], St[k])
  PROVE  Walk(p, Concat(codes), St[0], St[n])
<1>1. PICK g : Pieced(codes, n, Instructions, g)
  BY Pieces
<1>2. /\ g[0] = << >> /\ \A k \in 1 .. n : g[k] = g[k - 1] \o codes[k]
      /\ Concat(codes) = g[n]
  BY <1>1 DEF Pieced
<1> DEFINE D == {k \in Nat : k =< n => Walk(p, g[k], St[0], St[k])}
<1>3. 0 \in D
  <2>1. Walk(p, << >>, St[0], St[0])
    <3>1. St[0] \in SUBSET Legal
      OBVIOUS
    <3> QED BY <3>1, WalkNone
  <2> QED BY <1>2, <2>1
<1>4. ASSUME NEW k \in Nat, k \in D PROVE k + 1 \in D
  <2> SUFFICES ASSUME k + 1 =< n PROVE Walk(p, g[k + 1], St[0], St[k + 1])
    OBVIOUS
  <2> DEFINE j == k + 1
  <2>1. j \in 1 .. n /\ j - 1 = k /\ k =< n
    OBVIOUS
  <2>2. Walk(p, g[k], St[0], St[k])
    BY <1>4, <2>1
  <2> HIDE DEF j
  <2>3. Walk(p, codes[j], St[k], St[j]) /\ g[j] = g[k] \o codes[j]
    BY <1>2, <2>1
  <2>4. Walk(p, g[k] \o codes[j], St[0], St[j])
    BY <2>2, <2>3, WalkBoth
  <2> QED BY <2>3, <2>4 DEF j
<1>5. Nat \subseteq D
  <2> HIDE DEF D
  <2> QED BY <1>3, <1>4, Upward
<1> QED BY <1>2, <1>5

-----------------------------------------------------------------------------
(* Instructions that compute into the registers R.                         *)
Shifts == {"slli", "srli", "srai"}
Threes == {"add", "sub", "mul", "mulh", "mulhu", "div", "rem", "slt"}
Twos == {"mv", "neg", "seqz", "snez", "flip"}

Calm(R) ==
  {in \in Instructions :
     /\ in.n \in Int
     /\ \/ in.op \in Threes \cup Twos \cup {"addi", "slti", "lw"} /\ in.rd \in R
        \/ in.op \in Shifts /\ in.rd \in R /\ in.n \in Nat
        \/ in.op = "li" /\ in.rd \in R /\ in.n \in Words
        \/ in.op = "lwg" /\ in.rd \in R /\ in.n \in Gids
        \/ in.op = "swg" /\ in.rs \in R /\ in.n \in Gids}

LEMMA CalmForms ==
  ASSUME NEW R \in SUBSET Names, NEW d \in R, NEW s \in Names
  PROVE  /\ \A op \in Threes : \A t \in Names : RRR(op, d, s, t) \in Calm(R)
         /\ \A op \in Twos : RR(op, d, s) \in Calm(R)
         /\ \A op \in {"addi", "slti", "lw"} : \A n \in Int : RRI(op, d, s, n) \in Calm(R)
         /\ \A op \in Shifts : \A n \in Nat : RRI(op, d, s, n) \in Calm(R)
         /\ \A n \in Words : LI(d, n) \in Calm(R)
         /\ \A n \in Gids : n \in Int => /\ RRI("lwg", d, s, n) \in Calm(R)
                                         /\ RRI("swg", s, d, n) \in Calm(R)
<1>1. d \in Names /\ ZERO \in Names /\ Words \subseteq Int /\ 0 \in Int
  BY WidthFacts DEF Names, ZERO, Words
<1>2. Threes \subseteq Mnemonics /\ Twos \subseteq Mnemonics /\ Shifts \subseteq Mnemonics
      /\ {"addi", "slti", "lw", "li", "lwg", "swg"} \subseteq Mnemonics
  BY DEF Threes, Twos, Shifts, Mnemonics, Computing
<1>3. \A op \in Mnemonics : \A a, b, c \in Names : \A n \in Int :
        [op |-> op, rd |-> a, rs |-> b, rt |-> c, n |-> n] \in Instructions
  BY DEF Instructions
<1>4. \A op \in Mnemonics : \A a, b, c \in Names : \A n \in Int :
        RRR(op, a, b, c) \in Instructions /\ RRI(op, a, b, n) \in Instructions
  BY <1>1, <1>3 DEF RRR, RRI
<1>5. \A op, a, b, c, n :
        /\ RRR(op, a, b, c).op = op /\ RRR(op, a, b, c).rd = a /\ RRR(op, a, b, c).n = 0
        /\ RRI(op, a, b, n).op = op /\ RRI(op, a, b, n).rd = a /\ RRI(op, a, b, n).n = n
        /\ RRI(op, a, b, n).rs = b
  BY DEF RRR, RRI
<1>6. \A op \in Threes : \A t \in Names : RRR(op, d, s, t) \in Calm(R)
  <2> TAKE op \in Threes
  <2> TAKE t \in Names
  <2> DEFINE i == RRR(op, d, s, t)
  <2>1. i \in Instructions /\ i.op = op /\ i.rd = d /\ i.n = 0
    BY <1>1, <1>2, <1>4, <1>5
  <2> HIDE DEF i
  <2>2. i \in Calm(R)
    BY <2>1 DEF Calm
  <2> QED BY <2>2 DEF i
<1>7. \A op \in Twos : RR(op, d, s) \in Calm(R)
  <2> TAKE op \in Twos
  <2> DEFINE i == RR(op, d, s)
  <2>1. i \in Instructions /\ i.op = op /\ i.rd = d /\ i.n = 0
    BY <1>1, <1>2, <1>4, <1>5 DEF RR
  <2> HIDE DEF i
  <2>2. i \in Calm(R)
    BY <2>1 DEF Calm
  <2> QED BY <2>2 DEF i
<1>8. \A op \in {"addi", "slti", "lw"} : \A n \in Int : RRI(op, d, s, n) \in Calm(R)
  <2> TAKE op \in {"addi", "slti", "lw"}
  <2> TAKE n \in Int
  <2> DEFINE i == RRI(op, d, s, n)
  <2>1. i \in Instructions /\ i.op = op /\ i.rd = d /\ i.n = n
    BY <1>1, <1>2, <1>4, <1>5
  <2> HIDE DEF i
  <2>2. i \in Calm(R)
    BY <2>1 DEF Calm
  <2> QED BY <2>2 DEF i
<1>9. \A op \in Shifts : \A n \in Nat : RRI(op, d, s, n) \in Calm(R)
  <2> TAKE op \in Shifts
  <2> TAKE n \in Nat
  <2> DEFINE i == RRI(op, d, s, n)
  <2>1. i \in Instructions /\ i.op = op /\ i.rd = d /\ i.n = n
    BY <1>1, <1>2, <1>4, <1>5
  <2> HIDE DEF i
  <2>2. i \in Calm(R)
    BY <2>1 DEF Calm
  <2> QED BY <2>2 DEF i
<1>10. \A n \in Words : LI(d, n) \in Calm(R)
  <2> TAKE n \in Words
  <2> DEFINE i == LI(d, n)
  <2>1. i \in Instructions /\ i.op = "li" /\ i.rd = d /\ i.n = n
    BY <1>1, <1>2, <1>4, <1>5 DEF LI
  <2> HIDE DEF i
  <2>2. i \in Calm(R)
    BY <1>1, <2>1 DEF Calm
  <2> QED BY <2>2 DEF i
<1>11. \A n \in Gids : n \in Int => /\ RRI("lwg", d, s, n) \in Calm(R)
                                    /\ RRI("swg", s, d, n) \in Calm(R)
  BY <1>1, <1>2, <1>4, <1>5 DEF Calm
<1> QED BY <1>6, <1>7, <1>8, <1>9, <1>10, <1>11

(* Sequences of them.                                                      *)
LEMMA CalmMoves ==
  ASSUME NEW R \in SUBSET Names, NEW d \in R
  PROVE  /\ \A s \in Names : MoveTo(d, s) \in Seq(Calm(R))
         /\ \A n \in Words : <<LI(d, n)>> \in Seq(Calm(R))
<1>1. ASSUME NEW s \in Names PROVE MoveTo(d, s) \in Seq(Calm(R))
  <2>1. RR("mv", d, s) \in Calm(R)
    BY CalmForms DEF Twos
  <2> QED BY <2>1 DEF MoveTo
<1>2. \A n \in Words : <<LI(d, n)>> \in Seq(Calm(R))
  <2>1. d \in Names
    OBVIOUS
  <2>2. \A n \in Words : LI(d, n) \in Calm(R)
    BY <2>1, CalmForms
  <2> QED BY <2>2
<1> QED BY <1>1, <1>2

LEMMA CalmLoad ==
  ASSUME NEW R \in SUBSET Names, NEW d \in R, A7 \in R, NEW off \in Words
  PROVE  LoadOff(d, off) \in Seq(Calm(R))
<1>1. SP \in Names /\ A7 \in Names /\ off \in Int /\ 0 \in Int
  BY WidthFacts DEF Names, SP, Words
<1>2. RRI("lw", d, SP, off) \in Calm(R) /\ RRI("lw", d, A7, 0) \in Calm(R)
  BY <1>1, CalmForms
<1>3. LI(A7, off) \in Calm(R)
  BY <1>1, CalmForms
<1>4. RRR("add", A7, SP, A7) \in Calm(R)
  BY <1>1, CalmForms DEF Threes
<1> QED BY <1>2, <1>3, <1>4 DEF LoadOff

(* A generator for the vregs vs that computes into R.                      *)
Selects(cg, vs, R) ==
  /\ R \subseteq Names /\ {A6, A7, T5, T6} \subseteq R
  /\ cg.reg \in [vs -> R \cup {NoReg}]
  /\ \A v \in vs : cg.reg[v] = NoReg => SpillOff(cg, v) \in Words
  /\ cg.dstOverride \in R \cup {NoReg}

LEMMA CalmOperand ==
  ASSUME NEW vs, NEW R, NEW cg, Selects(cg, vs, R), NEW val \in Vals(vs), NEW d \in R
  PROVE  /\ InReg(cg, val, d) \in Names
         /\ ToReg(cg, val, d) \in Seq(Calm(R))
         /\ Materialize(cg, val, d) \in Seq(Calm(R))
<1>1. /\ R \in SUBSET Names /\ A7 \in R /\ ZERO \in Names
      /\ IsReg(val) => val.n \in vs
      /\ ~IsReg(val) => val.n \in Words
      /\ \A v \in vs : /\ cg.reg[v] # NoReg => cg.reg[v] \in R
                       /\ cg.reg[v] = NoReg => SpillOff(cg, v) \in Words
  BY DEF Selects, Vals, IsReg, Names, ZERO
<1>2. InReg(cg, val, d) \in Names
  BY <1>1 DEF InReg
<1>3. /\ \A off \in Words : LoadOff(d, off) \in Seq(Calm(R))
      /\ \A s \in Names : MoveTo(d, s) \in Seq(Calm(R))
      /\ \A n \in Words : <<LI(d, n)>> \in Seq(Calm(R))
  BY <1>1, CalmLoad, CalmMoves
<1>4. ToReg(cg, val, d) \in Seq(Calm(R))
  BY <1>1, <1>3 DEF ToReg
<1>5. Materialize(cg, val, d) \in Seq(Calm(R))
  BY <1>1, <1>3 DEF Materialize
<1> QED BY <1>2, <1>4, <1>5

LEMMA CalmMulConst ==
  ASSUME NEW R \in SUBSET Names, T6 \in R, NEW rd \in R, NEW ra \in Names, NEW c \in Words
  PROVE  MulConst(rd, ra, c) \in Seq(Calm(R)) /\ NegIf(c, rd) \in Seq(Calm(R))
<1>1. rd \in Names /\ T6 \in Names /\ 0 \in Words /\ c \in Int
  BY WidthFacts DEF Words
<1>2. RR("neg", rd, rd) \in Calm(R) /\ RR("neg", rd, ra) \in Calm(R)
  BY <1>1, CalmForms DEF Twos
<1>3. NegIf(c, rd) \in Seq(Calm(R))
  BY <1>2 DEF NegIf
<1>4. /\ \A n \in Nat : RRI("slli", T6, ra, n) \in Calm(R) /\ RRI("slli", rd, ra, n) \in Calm(R)
      /\ \A op \in {"add", "sub"} : RRR(op, rd, T6, ra) \in Calm(R)
      /\ RRR("mul", rd, ra, T6) \in Calm(R)
  BY <1>1, CalmForms DEF Shifts, Threes
<1>5. ASSUME NEW n, IsPow2(n), NEW op \in {"add", "sub"}
      PROVE  <<RRI("slli", T6, ra, Log2(n)), RRR(op, rd, T6, ra)>> \o NegIf(c, rd) \in Seq(Calm(R))
  <2>1. Log2(n) \in Nat
    BY <1>5, Log2Facts, WidthFacts
  <2>2. RRI("slli", T6, ra, Log2(n)) \in Calm(R) /\ RRR(op, rd, T6, ra) \in Calm(R)
    BY <1>4, <2>1
  <2> QED BY <1>3, <2>2
<1>6. ASSUME NEW n, IsPow2(n)
      PROVE  <<RRI("slli", rd, ra, Log2(n))>> \o NegIf(c, rd) \in Seq(Calm(R))
  <2>1. Log2(n) \in Nat
    BY <1>6, Log2Facts, WidthFacts
  <2>2. RRI("slli", rd, ra, Log2(n)) \in Calm(R)
    BY <1>4, <2>1
  <2> QED BY <1>3, <2>2
<1>7. <<LI(T6, c), RRR("mul", rd, ra, T6)>> \in Seq(Calm(R))
  <2>1. LI(T6, c) \in Calm(R)
    BY <1>1, CalmForms
  <2> QED BY <1>4, <2>1
<1>8. <<LI(rd, 0)>> \in Seq(Calm(R)) /\ MoveTo(rd, ra) \in Seq(Calm(R))
      /\ <<RR("neg", rd, ra)>> \in Seq(Calm(R))
  BY <1>1, <1>2, CalmMoves
<1>9. MulConst(rd, ra, c) \in Seq(Calm(R))
  BY <1>5, <1>6, <1>7, <1>8 DEF MulConst
<1> QED BY <1>3, <1>9

LEMMA CalmPow2Bias ==
  ASSUME NEW R \in SUBSET Names, NEW rd \in R, NEW ra \in Names, NEW k \in 1 .. Width - 1
  PROVE  Pow2Bias(rd, ra, k) \in Seq(Calm(R))
<1>1. rd \in Names /\ Width - 1 \in Nat /\ Width - k \in Nat
  BY WidthFacts
<1>2. \A n \in Nat : RRI("srli", rd, ra, n) \in Calm(R) /\ RRI("srai", rd, ra, n) \in Calm(R)
                   /\ RRI("srli", rd, rd, n) \in Calm(R)
  BY <1>1, CalmForms DEF Shifts
<1> QED BY <1>1, <1>2 DEF Pow2Bias

LEMMA CalmMagic ==
  ASSUME NEW vs, NEW R, NEW cg, Selects(cg, vs, R), NEW in \in Insts(vs), NEW M \in Words
  PROVE  LoadMagic(cg, in, M) \in Seq(Calm(R)) /\ MagicIn(cg, in) \in Names
<1>1. R \in SUBSET Names /\ A7 \in R /\ T6 \in R /\ in.magic \in vs \cup {NoReg}
  BY DEF Selects, Insts
<1>2. <<LI(T6, M)>> \in Seq(Calm(R)) /\ T6 \in Names
  BY <1>1, CalmMoves
<1>3. ASSUME in.magic # NoReg
      PROVE  ToReg(cg, Reg(in.magic), A7) \in Seq(Calm(R)) /\ InReg(cg, Reg(in.magic), A7) \in Names
  <2>1. Reg(in.magic) \in Vals(vs)
    BY <1>1, <1>3 DEF Reg, Vals
  <2> QED BY <1>1, <2>1, CalmOperand
<1> QED BY <1>2, <1>3 DEF LoadMagic, MagicIn

LEMMA CalmMagicQuotient ==
  ASSUME NEW vs, NEW R, NEW cg, Selects(cg, vs, R), NEW in \in Insts(vs),
         NEW q \in R, NEW ra \in Names, NEW c \in Words, NeedsMagic(c), in.unsignedDiv => c > 0
  PROVE  MagicQuotient(cg, in, q, ra, c) \in Seq(Calm(R))
<1>1. R \in SUBSET Names /\ A7 \in R /\ T6 \in R /\ A7 \in Names /\ T6 \in Names /\ q \in Names
      /\ in.unsignedDiv \in BOOLEAN
  BY DEF Selects, Insts
<1>2. \A M \in Words : LoadMagic(cg, in, M) \in Seq(Calm(R)) /\ MagicIn(cg, in) \in Names
  BY CalmMagic
<1> DEFINE I == Calm(R)
<1>3. CASE in.unsignedDiv
  <2> DEFINE u == UnsignedMagic[c]
             l == LoadMagic(cg, in, u.M)
             x == <<RRR("mulhu", A7, ra, MagicIn(cg, in))>>
             y == IF u.s > 0 THEN <<RRI("srli", q, A7, u.s)>> ELSE MoveTo(q, A7)
  <2>1. c \in 3 .. Half - 1
    BY <1>3, WidthFacts DEF NeedsMagic, Magnitude, Words
  <2>2. u.M \in Words /\ u.s \in Nat
    BY <2>1, MagicWords
  <2>3. l \in Seq(I)
    BY <1>2, <2>2
  <2>4. x \in Seq(I)
    <3>1. RRR("mulhu", A7, ra, MagicIn(cg, in)) \in I
      BY <1>1, <1>2, <2>2, CalmForms DEF Threes
    <3> QED BY <3>1
  <2>5. y \in Seq(I)
    <3>1. RRI("srli", q, A7, u.s) \in I
      BY <1>1, <2>2, CalmForms DEF Shifts
    <3>2. MoveTo(q, A7) \in Seq(I)
      BY <1>1, CalmMoves
    <3> QED BY <3>1, <3>2
  <2>6. MagicQuotient(cg, in, q, ra, c) = l \o x \o y
    BY <1>3 DEF MagicQuotient
  <2> HIDE DEF l, x, y, I
  <2>7. l \o x \o y \in Seq(I)
    BY <2>3, <2>4, <2>5
  <2> QED BY <2>6, <2>7 DEF I
<1>4. CASE ~in.unsignedDiv
  <2> DEFINE m == SignedMagic[c]
             l == LoadMagic(cg, in, m.M)
             x == <<RRR("mulh", A7, ra, MagicIn(cg, in))>>
             y == CASE c > 0 /\ m.M < 0 -> <<RRR("add", A7, A7, ra)>>
                    [] c < 0 /\ m.M > 0 -> <<RRR("sub", A7, A7, ra)>>
                    [] OTHER -> << >>
             z == IF m.s > 0 THEN <<RRI("srai", A7, A7, m.s)>> ELSE << >>
             w == <<RRI("srli", T6, A7, Width - 1), RRR("add", q, A7, T6)>>
  <2>1. m.M \in Words /\ m.s \in Nat
    BY MagicWords DEF Divisors
  <2>2. l \in Seq(I)
    BY <1>2, <2>1
  <2>3. x \in Seq(I)
    <3>1. RRR("mulh", A7, ra, MagicIn(cg, in)) \in I
      BY <1>1, <1>2, <2>1, CalmForms DEF Threes
    <3> QED BY <3>1
  <2>4. y \in Seq(I)
    <3>1. RRR("add", A7, A7, ra) \in I /\ RRR("sub", A7, A7, ra) \in I
      BY <1>1, CalmForms DEF Threes
    <3>2. <<RRR("add", A7, A7, ra)>> \in Seq(I) /\ <<RRR("sub", A7, A7, ra)>> \in Seq(I)
          /\ << >> \in Seq(I)
      BY <3>1
    <3> HIDE DEF m, I
    <3> QED BY <3>2
  <2>5. z \in Seq(I)
    <3>1. RRI("srai", A7, A7, m.s) \in I
      BY <1>1, <2>1, CalmForms DEF Shifts
    <3> QED BY <3>1
  <2>6. w \in Seq(I)
    <3>1. Width - 1 \in Nat
      BY WidthFacts
    <3>2. RRI("srli", T6, A7, Width - 1) \in I
      BY <1>1, <3>1, CalmForms DEF Shifts
    <3>3. RRR("add", q, A7, T6) \in I
      BY <1>1, CalmForms DEF Threes
    <3> QED BY <3>2, <3>3
  <2>7. MagicQuotient(cg, in, q, ra, c) = l \o x \o y \o z \o w
    BY <1>4 DEF MagicQuotient
  <2> HIDE DEF l, x, y, z, w, I
  <2>8. l \o x \o y \o z \o w \in Seq(I)
    BY <2>2, <2>3, <2>4, <2>5, <2>6
  <2> QED BY <2>7, <2>8 DEF I
<1> QED BY <1>1, <1>3, <1>4

(* Every constant divisor is one of those a shorter form is written for.   *)
LEMMA DivisorForms ==
  ASSUME NEW c \in Words
  PROVE  /\ c = 1 \/ c = -1 \/ c = 0 \/ IsPow2(Magnitude(c)) \/ NeedsMagic(c)
         /\ c # 0 => Magnitude(c) = 1 \/ IsPow2(Magnitude(c)) \/ NeedsMagic(c)
<1>1. c \in Int /\ Magnitude(c) \in Nat
  BY HalfAssumption DEF Words, Magnitude
<1>2. 1 \in 1 .. Width - 1 /\ 2 = Pow2[1]
  BY WidthFacts
<1>3. IsPow2(2)
  BY <1>2 DEF IsPow2
<1>4. /\ Magnitude(c) = 0 <=> c = 0
      /\ Magnitude(c) = 1 <=> c = 1 \/ c = -1
  BY <1>1 DEF Magnitude
<1>5. Magnitude(c) \in {0, 1, 2} \/ Magnitude(c) >= 3
  BY <1>1
<1> QED BY <1>3, <1>4, <1>5 DEF NeedsMagic

LEMMA CalmDivConst ==
  ASSUME NEW vs, NEW R, NEW cg, Selects(cg, vs, R), NEW in \in Insts(vs),
         NEW rd \in R, NEW ra \in Names, NEW c \in Words, in.unsignedDiv => c > 0
  PROVE  DivConst(cg, in, rd, ra, c) \in Seq(Calm(R))
<1> DEFINE I == Calm(R)
           k == Log2(Magnitude(c))
           x == Pow2Bias(T6, ra, k)
           y == <<RRR("add", T6, ra, T6), RRI("srai", rd, T6, k)>>
           z == NegIf(c, rd)
<1>1. R \in SUBSET Names /\ T6 \in R /\ T6 \in Names /\ rd \in Names /\ 0 \in Words
  BY WidthFacts DEF Selects, Words
<1>2. MoveTo(rd, ra) \in Seq(I) /\ <<RR("neg", rd, ra)>> \in Seq(I)
  <2>1. RR("neg", rd, ra) \in I
    BY <1>1, CalmForms DEF Twos
  <2>2. MoveTo(rd, ra) \in Seq(I)
    BY <1>1, CalmMoves
  <2> QED BY <2>1, <2>2
<1>3. <<LI(T6, 0), RRR("div", rd, ra, T6)>> \in Seq(I)
  <2>1. LI(T6, 0) \in I
    BY <1>1, CalmForms
  <2>2. RRR("div", rd, ra, T6) \in I
    BY <1>1, CalmForms DEF Threes
  <2> QED BY <2>1, <2>2
<1>4. ASSUME IsPow2(Magnitude(c)) PROVE x \o y \o z \in Seq(I)
  <2>1. k \in 1 .. Width - 1 /\ k \in Nat
    BY <1>4, Log2Facts, WidthFacts
  <2>2. x \in Seq(I)
    BY <1>1, <2>1, CalmPow2Bias
  <2>3. z \in Seq(I)
    BY <1>1, CalmMulConst
  <2>4. y \in Seq(I)
    <3>1. RRR("add", T6, ra, T6) \in I
      BY <1>1, CalmForms DEF Threes
    <3>2. RRI("srai", rd, T6, k) \in I
      BY <1>1, <2>1, CalmForms DEF Shifts
    <3> QED BY <3>1, <3>2
  <2> HIDE DEF x, y, z, I
  <2> QED BY <2>2, <2>3, <2>4
<1>5. NeedsMagic(c) => MagicQuotient(cg, in, rd, ra, c) \in Seq(I)
  BY CalmMagicQuotient
<1>6. c = 1 \/ c = -1 \/ c = 0 \/ IsPow2(Magnitude(c)) \/ NeedsMagic(c)
  BY DivisorForms
<1> QED BY <1>2, <1>3, <1>4, <1>5, <1>6 DEF DivConst

LEMMA CalmModConst ==
  ASSUME NEW vs, NEW R, NEW cg, Selects(cg, vs, R), NEW in \in Insts(vs),
         NEW rd \in R, NEW ra \in Names, NEW c \in Words, c # 0, in.unsignedDiv => c > 0
  PROVE  ModConst(cg, in, rd, ra, c) \in Seq(Calm(R))
<1> DEFINE I == Calm(R)
           k == Log2(Magnitude(c))
           u == UnsignedMagic[c]
           q == IF u.s > 0 THEN A6 ELSE A7
           sub == <<RRR("sub", rd, ra, A7)>>
<1>1. /\ R \in SUBSET Names /\ A6 \in R /\ A7 \in R /\ T6 \in R /\ 0 \in Words
      /\ A6 \in Names /\ A7 \in Names /\ T6 \in Names /\ in.unsignedDiv \in BOOLEAN
  <2>1. R \in SUBSET Names /\ A6 \in R /\ A7 \in R /\ T6 \in R
    BY DEF Selects
  <2>2. 0 \in Words
    BY WidthFacts DEF Words
  <2>3. in.unsignedDiv \in BOOLEAN
    BY DEF Insts
  <2> QED BY <2>1, <2>2, <2>3
<1>2. <<LI(rd, 0)>> \in Seq(I)
  BY <1>1, CalmMoves
<1>3. sub \in Seq(I)
  <2>1. RRR("sub", rd, ra, A7) \in I
    BY <1>1, CalmForms DEF Threes
  <2> QED BY <2>1
<1>4. ASSUME IsPow2(Magnitude(c))
      PROVE  Pow2Bias(T6, ra, k)
               \o <<RRR("add", T6, ra, T6), RRI("srai", T6, T6, k), RRI("slli", T6, T6, k),
                    RRR("sub", rd, ra, T6)>> \in Seq(I)
  <2> DEFINE x == Pow2Bias(T6, ra, k)
             y == <<RRR("add", T6, ra, T6), RRI("srai", T6, T6, k), RRI("slli", T6, T6, k),
                    RRR("sub", rd, ra, T6)>>
  <2>1. k \in 1 .. Width - 1 /\ k \in Nat
    BY <1>4, Log2Facts, WidthFacts
  <2>2. x \in Seq(I)
    BY <1>1, <2>1, CalmPow2Bias
  <2>3. y \in Seq(I)
    <3>1. RRR("add", T6, ra, T6) \in I /\ RRR("sub", rd, ra, T6) \in I
      BY <1>1, CalmForms DEF Threes
    <3>2. RRI("srai", T6, T6, k) \in I /\ RRI("slli", T6, T6, k) \in I
      BY <1>1, <2>1, CalmForms DEF Shifts
    <3> QED BY <3>1, <3>2
  <2> HIDE DEF x, y, I
  <2>4. x \o y \in Seq(I)
    BY <2>2, <2>3
  <2> QED BY <2>4 DEF x, y
<1>5. ASSUME NeedsMagic(c), in.unsignedDiv
      PROVE  LoadMagic(cg, in, u.M) \o <<RRR("mulhu", A7, ra, MagicIn(cg, in))>>
               \o (IF u.s > 0 THEN <<RRI("srli", A6, A7, u.s)>> ELSE << >>)
               \o MulConst(A7, q, c) \o sub \in Seq(I)
  <2> DEFINE l == LoadMagic(cg, in, u.M)
             x == <<RRR("mulhu", A7, ra, MagicIn(cg, in))>>
             y == IF u.s > 0 THEN <<RRI("srli", A6, A7, u.s)>> ELSE << >>
             z == MulConst(A7, q, c)
  <2>1. c \in 3 .. Half - 1
    BY <1>5, WidthFacts DEF NeedsMagic, Magnitude, Words
  <2>2. u.M \in Words /\ u.s \in Nat
    BY <2>1, MagicWords
  <2>3. l \in Seq(I) /\ MagicIn(cg, in) \in Names
    BY <2>2, CalmMagic
  <2>4. x \in Seq(I)
    <3>1. RRR("mulhu", A7, ra, MagicIn(cg, in)) \in I
      BY <1>1, <2>3, CalmForms DEF Threes
    <3> QED BY <3>1
  <2>5. y \in Seq(I)
    <3>1. RRI("srli", A6, A7, u.s) \in I
      BY <1>1, <2>2, CalmForms DEF Shifts
    <3> QED BY <3>1
  <2>6. z \in Seq(I)
    <3>1. q \in Names
      BY <1>1
    <3> HIDE DEF q
    <3> QED BY <1>1, <3>1, CalmMulConst
  <2> HIDE DEF l, x, y, z, I, sub
  <2>7. l \o x \o y \o z \o sub \in Seq(I)
    BY <1>3, <2>3, <2>4, <2>5, <2>6
  <2> QED BY <2>7 DEF l, x, y, z
<1>6. NeedsMagic(c) => MagicQuotient(cg, in, A6, ra, c) \o MulConst(A7, A6, c) \o sub \in Seq(I)
  <2> SUFFICES ASSUME NeedsMagic(c)
               PROVE  MagicQuotient(cg, in, A6, ra, c) \o MulConst(A7, A6, c) \o sub \in Seq(I)
    OBVIOUS
  <2>1. MagicQuotient(cg, in, A6, ra, c) \in Seq(I)
    BY <1>1, CalmMagicQuotient
  <2>2. MulConst(A7, A6, c) \in Seq(I)
    BY <1>1, CalmMulConst
  <2> HIDE DEF I, sub
  <2> QED BY <1>3, <2>1, <2>2
<1>7. Magnitude(c) = 1 \/ IsPow2(Magnitude(c)) \/ NeedsMagic(c)
  BY DivisorForms
<1> QED BY <1>1, <1>2, <1>4, <1>5, <1>6, <1>7 DEF ModConst

(* The sequence for an instruction computes, and then writes a spilled     *)
(* result back.                                                            *)
Selected(R, cg, in, s) ==
  \E body \in Seq(Calm(R)) : s = body \o WriteBack(cg, in.dst, DstReg(cg, in.dst))

LEMMA CalmFramed ==
  ASSUME NEW R, NEW cg, NEW in, NEW before \in Seq(Calm(R)), NEW body \in Seq(Calm(R))
  PROVE  Selected(R, cg, in, Framed(cg, in, before, body))
<1> DEFINE I == Calm(R)
<1>1. before \o body \in Seq(I)
  <2>1. before \in Seq(I) /\ body \in Seq(I)
    OBVIOUS
  <2> HIDE DEF I
  <2> QED BY <2>1
<1> QED BY <1>1 DEF Framed, Selected

LEMMA CalmOn ==
  ASSUME NEW vs, NEW R, NEW cg, Selects(cg, vs, R), NEW in \in Insts(vs), NEW body \in Seq(Calm(R))
  PROVE  Selected(R, cg, in, OnA(cg, in, body)) /\ Selected(R, cg, in, OnB(cg, in, body))
<1>1. T5 \in R /\ in.a \in Vals(vs) /\ in.b \in Vals(vs)
  BY DEF Selects, Insts
<1>2. ToReg(cg, in.a, T5) \in Seq(Calm(R)) /\ ToReg(cg, in.b, T5) \in Seq(Calm(R))
  BY <1>1, CalmOperand
<1> QED BY <1>2, CalmFramed DEF OnA, OnB

LEMMA DstRegIn ==
  ASSUME NEW vs, NEW R, NEW cg, Selects(cg, vs, R), NEW v \in vs
  PROVE  DstReg(cg, v) \in R
BY DEF Selects, DstReg

LEMMA CalmGeneral ==
  ASSUME NEW vs, NEW R, NEW cg, Selects(cg, vs, R), NEW in \in Insts(vs),
         in.op \in BinaryOps, in.dst \in vs
  PROVE  Selected(R, cg, in, General(cg, in))
<1> DEFINE I == Calm(R)
           a == InReg(cg, in.a, T5)
           b == InReg(cg, in.b, T6)
           d == DstReg(cg, in.dst)
           op3(op) == <<RRR(op, d, a, b)>>
           body == CASE in.op = "Add" -> op3("add")
                     [] in.op = "Sub" -> op3("sub")
                     [] in.op = "Mul" -> op3("mul")
                     [] in.op = "Div" -> op3("div")
                     [] in.op = "Mod" -> op3("rem")
                     [] in.op = "Lt"  -> op3("slt")
                     [] in.op = "Gt"  -> <<RRR("slt", d, b, a)>>
                     [] in.op = "Le"  -> <<RRR("slt", d, b, a), RR("flip", d, d)>>
                     [] in.op = "Ge"  -> op3("slt") \o <<RR("flip", d, d)>>
                     [] in.op = "Eq"  -> op3("sub") \o <<RR("seqz", d, d)>>
                     [] in.op = "Ne"  -> op3("sub") \o <<RR("snez", d, d)>>
           before == ToReg(cg, in.a, T5) \o ToReg(cg, in.b, T6)
<1>1. /\ R \in SUBSET Names /\ T5 \in R /\ T6 \in R /\ in.a \in Vals(vs) /\ in.b \in Vals(vs)
      /\ d \in R /\ d \in Names
  BY DstRegIn DEF Selects, Insts
<1>2. a \in Names /\ b \in Names /\ before \in Seq(I)
  <2> DEFINE x == ToReg(cg, in.a, T5)
             y == ToReg(cg, in.b, T6)
  <2>1. a \in Names /\ b \in Names /\ x \in Seq(I) /\ y \in Seq(I)
    BY <1>1, CalmOperand
  <2> HIDE DEF a, b, x, y, I
  <2>2. x \o y \in Seq(I)
    BY <2>1
  <2> QED BY <2>1, <2>2 DEF x, y
<1> HIDE DEF a, b, d, before
<1>3. \A op \in Threes : RRR(op, d, a, b) \in I /\ RRR(op, d, b, a) \in I
  BY <1>1, <1>2, CalmForms
<1>4. RR("flip", d, d) \in I /\ RR("seqz", d, d) \in I /\ RR("snez", d, d) \in I
  BY <1>1, CalmForms DEF Twos
<1>5. body \in Seq(I)
  <2>1. /\ RRR("add", d, a, b) \in I /\ RRR("sub", d, a, b) \in I /\ RRR("mul", d, a, b) \in I
        /\ RRR("div", d, a, b) \in I /\ RRR("rem", d, a, b) \in I /\ RRR("slt", d, a, b) \in I
        /\ RRR("slt", d, b, a) \in I
    BY <1>3 DEF Threes
  <2> DEFINE fl == RR("flip", d, d)
             se == RR("seqz", d, d)
             sn == RR("snez", d, d)
             ad == RRR("add", d, a, b)
             su == RRR("sub", d, a, b)
             mu == RRR("mul", d, a, b)
             di == RRR("div", d, a, b)
             re == RRR("rem", d, a, b)
             sl == RRR("slt", d, a, b)
             ls == RRR("slt", d, b, a)
  <2>2. /\ fl \in I /\ se \in I /\ sn \in I /\ ad \in I /\ su \in I /\ mu \in I /\ di \in I
        /\ re \in I /\ sl \in I /\ ls \in I
    BY <1>4, <2>1
  <2> HIDE DEF fl, se, sn, ad, su, mu, di, re, sl, ls, I
  <2>3. /\ <<ad>> \in Seq(I) /\ <<su>> \in Seq(I) /\ <<mu>> \in Seq(I) /\ <<di>> \in Seq(I)
        /\ <<re>> \in Seq(I) /\ <<sl>> \in Seq(I) /\ <<ls>> \in Seq(I) /\ <<ls, fl>> \in Seq(I)
    BY <2>2
  <2>4. /\ <<sl>> \o <<fl>> \in Seq(I) /\ <<su>> \o <<se>> \in Seq(I) /\ <<su>> \o <<sn>> \in Seq(I)
    BY <2>2
  <2> QED BY <2>3, <2>4 DEF BinaryOps, fl, se, sn, ad, su, mu, di, re, sl, ls
<1>6. General(cg, in) = Framed(cg, in, before, body)
  BY DEF General, before, a, b, d
<1> HIDE DEF body
<1> QED BY <1>2, <1>5, <1>6, CalmFramed

LEMMA CalmBinary ==
  ASSUME NEW vs, NEW R, NEW cg, Selects(cg, vs, R), NEW in \in Insts(vs),
         in.op \in BinaryOps, in.dst \in vs, ~Faults(cg, in),
         ByUnsigned(in) => in.b.n > 0
  PROVE  Selected(R, cg, in, EmitBinary(cg, in))
<1> DEFINE I == Calm(R)
           a == InReg(cg, in.a, T5)
           b == InReg(cg, in.b, T5)
           d == DstReg(cg, in.dst)
           m == in.a.n
           n == in.b.n
<1>1. /\ R \in SUBSET Names /\ T5 \in R /\ T6 \in R /\ in.a \in Vals(vs) /\ in.b \in Vals(vs)
      /\ d \in R /\ d \in Names /\ in.unsignedDiv \in BOOLEAN
      /\ ~IsReg(in.a) => m \in Words
      /\ ~IsReg(in.b) => n \in Words
      /\ ~IsReg(in.b) /\ n = 0 => in.b = Imm(0)
  BY DstRegIn DEF Selects, Insts, Vals, IsReg, Imm
<1>2. a \in Names /\ b \in Names
  BY <1>1, CalmOperand
<1>3. Words \subseteq Int /\ \A x \in Int : -x \in Int
  BY WidthFacts DEF Words
<1> HIDE DEF a, b, d
<1>4. /\ \A x \in Int : RRI("addi", d, a, x) \in I /\ RRI("addi", d, b, x) \in I
                        /\ RRI("slti", d, a, x) \in I
      /\ RR("seqz", d, a) \in I /\ RR("snez", d, a) \in I
  BY <1>1, <1>2, CalmForms DEF Twos
<1>5. \A s \in Seq(I) : Selected(R, cg, in, OnA(cg, in, s)) /\ Selected(R, cg, in, OnB(cg, in, s))
  BY CalmOn
<1>6. /\ \A x \in Int : <<RRI("addi", d, a, x)>> \in Seq(I) /\ <<RRI("addi", d, b, x)>> \in Seq(I)
                        /\ <<RRI("slti", d, a, x)>> \in Seq(I)
      /\ <<RR("seqz", d, a)>> \in Seq(I) /\ <<RR("snez", d, a)>> \in Seq(I)
  BY <1>4
<1>7. ~IsReg(in.b) =>
        /\ Selected(R, cg, in, OnA(cg, in, <<RRI("addi", d, a, n)>>))
        /\ Selected(R, cg, in, OnA(cg, in, <<RRI("addi", d, a, -n)>>))
        /\ Selected(R, cg, in, OnA(cg, in, <<RRI("slti", d, a, n)>>))
        /\ Selected(R, cg, in, OnA(cg, in, MulConst(d, a, n)))
        /\ in.op = "Div" => Selected(R, cg, in, OnA(cg, in, DivConst(cg, in, d, a, n)))
        /\ in.op = "Mod" /\ n # 0 => Selected(R, cg, in, OnA(cg, in, ModConst(cg, in, d, a, n)))
  <2> SUFFICES ASSUME ~IsReg(in.b)
               PROVE  /\ <<RRI("addi", d, a, n)>> \in Seq(I) /\ <<RRI("addi", d, a, -n)>> \in Seq(I)
                      /\ <<RRI("slti", d, a, n)>> \in Seq(I) /\ MulConst(d, a, n) \in Seq(I)
                      /\ in.op = "Div" => DivConst(cg, in, d, a, n) \in Seq(I)
                      /\ in.op = "Mod" /\ n # 0 => ModConst(cg, in, d, a, n) \in Seq(I)
    BY <1>5
  <2>1. n \in Words /\ n \in Int /\ -n \in Int
    BY <1>1, <1>3
  <2>2. MulConst(d, a, n) \in Seq(I)
    BY <1>1, <1>2, <2>1, CalmMulConst
  <2>3. in.op = "Div" => DivConst(cg, in, d, a, n) \in Seq(I)
    BY <1>1, <1>2, <2>1, CalmDivConst DEF ByUnsigned
  <2>4. in.op = "Mod" /\ n # 0 => ModConst(cg, in, d, a, n) \in Seq(I)
    BY <1>1, <1>2, <2>1, CalmModConst DEF ByUnsigned
  <2> QED BY <1>6, <2>1, <2>2, <2>3, <2>4
<1>8. ~IsReg(in.a) => /\ Selected(R, cg, in, OnB(cg, in, <<RRI("addi", d, b, m)>>))
                      /\ Selected(R, cg, in, OnB(cg, in, MulConst(d, b, m)))
  <2> SUFFICES ASSUME ~IsReg(in.a)
               PROVE  <<RRI("addi", d, b, m)>> \in Seq(I) /\ MulConst(d, b, m) \in Seq(I)
    BY <1>5
  <2>1. m \in Words /\ m \in Int
    BY <1>1, <1>3
  <2>2. MulConst(d, b, m) \in Seq(I)
    BY <1>1, <1>2, <2>1, CalmMulConst
  <2> QED BY <1>6, <2>1, <2>2
<1>9. /\ Selected(R, cg, in, OnA(cg, in, <<RR("seqz", d, a)>>))
      /\ Selected(R, cg, in, OnA(cg, in, <<RR("snez", d, a)>>))
  BY <1>5, <1>6
<1>10. Selected(R, cg, in, General(cg, in))
  BY CalmGeneral
<1>11. in.op = "Mod" /\ ~IsReg(in.b) /\ cg.opt => n # 0
  BY <1>1 DEF Faults, ByUnsigned
<1> HIDE DEF I
<1> QED BY <1>7, <1>8, <1>9, <1>10, <1>11 DEF EmitBinary, Short, a, b, d

(* All that InstCode writes.                                               *)
LEMMA InstSelected ==
  ASSUME NEW vs, NEW R, NEW cg, Selects(cg, vs, R), NEW in \in Insts(vs),
         in.op # "Call", in.op # "StoreGlobal" => in.dst \in vs, ~Faults(cg, in),
         ByUnsigned(in) => in.b.n > 0,
         in.op \in {"LoadGlobal", "StoreGlobal"} => in.gid \in Gids
  PROVE  /\ in.op = "StoreGlobal" => InstCode(cg, in) \in Seq(Calm(R))
         /\ in.op # "StoreGlobal" => Selected(R, cg, in, InstCode(cg, in))
<1> DEFINE I == Calm(R)
           a == InReg(cg, in.a, T5)
           d == DstReg(cg, in.dst)
<1>1. /\ R \in SUBSET Names /\ T5 \in R /\ T6 \in R /\ in.a \in Vals(vs) /\ in.op \in Ops
      /\ T6 \in Names /\ ZERO \in Names /\ in.gid \in Int /\ << >> \in Seq(I)
  <2>1. R \in SUBSET Names /\ T5 \in R /\ T6 \in R
    BY DEF Selects
  <2>2. in.a \in Vals(vs) /\ in.op \in Ops /\ in.gid \in Int
    BY DEF Insts
  <2>3. ZERO \in Names
    BY DEF ZERO, Names
  <2>4. << >> \in Seq(I)
    OBVIOUS
  <2> QED BY <2>1, <2>2, <2>3, <2>4
<1>2. a \in Names /\ ToReg(cg, in.a, T5) \in Seq(I)
  BY <1>1, CalmOperand
<1>3. CASE in.op = "StoreGlobal"
  <2> DEFINE x == ToReg(cg, in.a, T5)
             y == RRI("swg", a, T6, in.gid)
  <2>1. y \in I
    BY <1>1, <1>2, <1>3, CalmForms
  <2>2. InstCode(cg, in) = x \o <<y>>
    BY <1>3 DEF InstCode
  <2>3. x \in Seq(I)
    BY <1>2
  <2> HIDE DEF x, y, I
  <2>4. x \o <<y>> \in Seq(I)
    BY <2>1, <2>3
  <2> QED BY <1>3, <2>2, <2>4 DEF I
<1>4. CASE in.op # "StoreGlobal"
  <2>1. d \in R /\ d \in Names
    BY <1>1, <1>4, DstRegIn
  <2>2. CASE in.op \in {"Neg", "Not"}
    <3>1. RR("neg", d, a) \in I /\ RR("seqz", d, a) \in I
      BY <1>1, <1>2, <2>1, CalmForms DEF Twos
    <3>2. <<RR("neg", d, a)>> \in Seq(I) /\ <<RR("seqz", d, a)>> \in Seq(I)
      BY <3>1
    <3>3. /\ Selected(R, cg, in, OnA(cg, in, <<RR("neg", d, a)>>))
          /\ Selected(R, cg, in, OnA(cg, in, <<RR("seqz", d, a)>>))
      BY <3>2, CalmOn
    <3> QED BY <2>2, <3>3 DEF InstCode
  <2>3. CASE in.op = "Mv"
    <3>1. Materialize(cg, in.a, d) \in Seq(I)
      BY <1>1, <2>1, CalmOperand
    <3>2. Selected(R, cg, in, Framed(cg, in, << >>, Materialize(cg, in.a, d)))
      BY <1>1, <3>1, CalmFramed
    <3> QED BY <2>3, <3>2 DEF InstCode
  <2>4. CASE in.op = "LoadGlobal"
    <3>1. RRI("lwg", d, ZERO, in.gid) \in I
      BY <1>1, <2>1, <2>4, CalmForms
    <3>2. <<RRI("lwg", d, ZERO, in.gid)>> \in Seq(I)
      BY <3>1
    <3>3. Selected(R, cg, in, Framed(cg, in, << >>, <<RRI("lwg", d, ZERO, in.gid)>>))
      BY <1>1, <3>2, CalmFramed
    <3> QED BY <2>4, <3>3 DEF InstCode
  <2>5. CASE in.op \in BinaryOps
    <3>1. Selected(R, cg, in, EmitBinary(cg, in))
      BY <1>4, <2>5, CalmBinary
    <3> QED BY <2>5, <3>1 DEF InstCode, BinaryOps
  <2>6. in.op \in {"Neg", "Not", "Mv", "LoadGlobal"} \cup BinaryOps
    BY <1>1, <1>4 DEF Ops, UnaryOps
  <2> QED BY <1>4, <2>2, <2>3, <2>4, <2>5, <2>6
<1> QED BY <1>3, <1>4

-----------------------------------------------------------------------------
(* One register or one word of the stack is written.                       *)
LEMMA AtFacts ==
  ASSUME NEW u, NEW d, NEW K, NEW S, NEW x \in At(u, d, K, S)
  PROVE  /\ x \in Legal /\ x = <<x[1], x[2]>> /\ x[1] \in MachineStates /\ x[2] \in Activations
         /\ x[1].r \in [Names -> Words] /\ x[1].m \in [0 .. StackTop -> Words]
         /\ x[1].g \in [Gids -> Words]
         /\ Kept(x[1], x[2]) /\ x[2].unit = u /\ Holds(x[1], x[2], d, K, S)
BY DEF At, Legal, MachineStates

LEMMA IntoAt ==
  ASSUME NEW u, NEW d, NEW K, NEW S, NEW s \in MachineStates, NEW f \in Activations,
         Kept(s, f), f.unit = u, Holds(s, f, d, K, S)
  PROVE  <<s, f>> \in At(u, d, K, S)
<1> DEFINE x == <<s, f>>
<1>1. x \in MachineStates \X Activations /\ x[1] = s /\ x[2] = f
  OBVIOUS
<1> HIDE DEF x
<1>2. x \in At(u, d, K, S)
  BY <1>1 DEF At, Legal
<1> QED BY <1>2 DEF x

LEMMA WriteReg ==
  ASSUME NEW u, NEW d, NEW K, NEW K1, NEW S, NEW x \in At(u, d, K, S),
         NEW rd \in Names \ {SP}, NEW w \in Words,
         \A q \in K1 : q[1] \in Names,
         \A q \in K1 : (q \in K /\ q[1] # rd) \/ (q[1] = rd /\ Given(x[2], q[2]) = w)
  PROVE  <<[x[1] EXCEPT !.r[rd] = w], x[2]>> \in At(u, d, K1, S)
<1> DEFINE s == x[1]
           f == x[2]
           t == [s EXCEPT !.r[rd] = w]
<1>1. /\ s \in MachineStates /\ f \in Activations /\ Kept(s, f) /\ f.unit = u
      /\ Holds(s, f, d, K, S) /\ s.r \in [Names -> Words]
  BY AtFacts
<1> HIDE DEF s, f
<1>2. /\ t \in MachineStates /\ t.m = s.m /\ t.r[rd] = w
      /\ \A n \in Names : n # rd => t.r[n] = s.r[n]
  BY <1>1 DEF MachineStates
<1>3. SP \in Names
  BY DEF SP, Names
<1> HIDE DEF t
<1>4. Kept(t, f)
  BY <1>1, <1>2 DEF Kept
<1>5. Holds(t, f, d, K1, S)
  <2>1. t.r[SP] = s.r[SP]
    BY <1>2, <1>3
  <2>2. ASSUME NEW q \in K1 PROVE t.r[q[1]] = Given(f, q[2])
    BY <1>1, <1>2 DEF Holds, f
  <2> QED BY <1>1, <1>2, <2>1, <2>2 DEF Holds
<1>6. <<t, f>> \in At(u, d, K1, S)
  BY <1>1, <1>2, <1>4, <1>5, IntoAt
<1> QED BY <1>6 DEF t, s, f

LEMMA WriteMem ==
  ASSUME NEW u, NEW d, NEW K, NEW S, NEW S1, NEW x \in At(u, d, K, S),
         NEW a \in 0 .. StackTop, a < x[2].sp, NEW w \in Words,
         \A q \in S1 : \/ q \in S /\ x[1].r[SP] + q[1] # a
                       \/ x[1].r[SP] + q[1] = a /\ Given(x[2], q[2]) = w
  PROVE  <<[x[1] EXCEPT !.m[a] = w], x[2]>> \in At(u, d, K, S1)
<1> DEFINE s == x[1]
           f == x[2]
           t == [s EXCEPT !.m[a] = w]
<1>1. /\ s \in MachineStates /\ f \in Activations /\ Kept(s, f) /\ f.unit = u
      /\ Holds(s, f, d, K, S) /\ s.m \in [0 .. StackTop -> Words]
  BY AtFacts
<1> HIDE DEF s, f
<1>2. /\ t \in MachineStates /\ t.r = s.r /\ t.m[a] = w
      /\ \A n \in 0 .. StackTop : n # a => t.m[n] = s.m[n]
  BY <1>1 DEF MachineStates
<1> HIDE DEF t
<1>3. Kept(t, f)
  <2>1. f.sp \in Int
    BY <1>1 DEF Activations, Levels
  <2>2. a < f.sp
    BY DEF f
  <2>3. ASSUME NEW k \in 0 .. StackTop, k >= f.sp PROVE t.m[k] = f.mem[k]
    <3>1. k # a
      BY <2>1, <2>2, <2>3
    <3>2. s.m[k] = f.mem[k]
      BY <1>1, <2>3 DEF Kept
    <3> QED BY <1>2, <3>1, <3>2
  <2> QED BY <2>3 DEF Kept
<1>4. Holds(t, f, d, K, S1)
  <2>1. ASSUME NEW q \in S1
        PROVE  t.r[SP] + q[1] \in 0 .. StackTop /\ t.m[t.r[SP] + q[1]] = Given(f, q[2])
    <3>1. CASE q \in S /\ s.r[SP] + q[1] # a
      BY <1>1, <1>2, <3>1 DEF Holds
    <3>2. CASE s.r[SP] + q[1] = a /\ Given(f, q[2]) = w
      BY <1>2, <3>2
    <3> QED BY <3>1, <3>2 DEF s, f
  <2> QED BY <1>1, <1>2, <2>1 DEF Holds
<1>5. <<t, f>> \in At(u, d, K, S1)
  BY <1>1, <1>2, <1>3, <1>4, IntoAt
<1> QED BY <1>5 DEF t, s, f

(* Half is even: so flip, which is xori 1, stays within a word.            *)
LEMMA FlipWord ==
  ASSUME NEW x \in Words
  PROVE  (IF x % 2 = 0 THEN x + 1 ELSE x - 1) \in Words
<1>1. Width - 2 \in Nat /\ Width - 1 = (Width - 2) + 1
  BY WidthFacts
<1>2. Half = 2 * Pow2[Width - 2] /\ Pow2[Width - 2] \in Nat /\ Half \in Nat
  BY <1>1, WidthFacts, Pow2Def
<1> DEFINE h == Pow2[Width - 2]
<1>3. x \in Int /\ -(2 * h) =< x /\ x < 2 * h /\ h \in Nat /\ Half = 2 * h
  BY <1>2 DEF Words
<1> HIDE DEF h
<1>4. x % 2 = 0 => x + 1 < 2 * h
  BY <1>3
<1>5. x % 2 # 0 => x - 1 >= -(2 * h)
  BY <1>3
<1> QED BY <1>3, <1>4, <1>5 DEF Words

LEMMA ComputedWord ==
  ASSUME NEW R \in SUBSET Names, NEW in \in Calm(R), in.op \notin {"lw", "lwg", "swg"},
         NEW r \in [Names -> Words]
  PROVE  Computed(in, r) \in Words
<1> DEFINE x == r[in.rs]
           y == r[in.rt]
           n == in.n
           xy == x * y
           uxy == Unsigned(x) * Unsigned(y)
<1>1. in.rs \in Names /\ in.rt \in Names /\ x \in Words /\ y \in Words /\ n \in Int
  BY DEF Calm, Instructions
<1>2. /\ Half \in Nat /\ Half >= 2 /\ Words \subseteq Int /\ 0 \in Words /\ 1 \in Words
      /\ x \in Int /\ y \in Int
  BY <1>1, WidthFacts DEF Words
<1> HIDE DEF x, y, n
<1>3. Unsigned(x) \in Int /\ Unsigned(y) \in Int
  BY <1>2 DEF Unsigned
<1>4. /\ Wrap(-x) \in Words /\ Wrap(x + y) \in Words /\ Wrap(x - y) \in Words
      /\ Wrap(x * y) \in Words /\ Wrap(x + n) \in Words
  <2>1. -x \in Int /\ x + y \in Int /\ x - y \in Int /\ x * y \in Int /\ x + n \in Int
    BY <1>1, <1>2
  <2> QED BY <2>1, WrapType
<1>5. \A b : Truth(b) \in Words
  BY <1>2 DEF Truth
<1>6. EvalBinary("Div", x, y) \in Words /\ EvalBinary("Mod", x, y) \in Words
  BY <1>1, EvalType DEF BinaryOps
<1>7. Wrap(uxy \div (2 * Half)) \in Words
  <2>1. uxy \in Int /\ 2 * Half \in Nat \ {0}
    BY <1>2, <1>3
  <2> HIDE DEF uxy
  <2>2. uxy \div (2 * Half) \in Int
    BY <2>1, DivisionFacts
  <2> QED BY <2>2, WrapType
<1>8. xy \div (2 * Half) \in Words
  <2>1. y < 2 * Half /\ -(2 * Half) < y
    BY <1>1, <1>2 DEF Words
  <2> QED BY <1>1, <1>2, <2>1, HighIsWord DEF High
<1>9. (IF x % 2 = 0 THEN x + 1 ELSE x - 1) \in Words
  BY <1>1, FlipWord
<1>10. in.op \in Shifts => /\ Wrap(x * Pow2[n]) \in Words /\ Wrap(Unsigned(x) \div Pow2[n]) \in Words
                           /\ x \div Pow2[n] \in Words
  <2> SUFFICES ASSUME in.op \in Shifts
               PROVE  /\ Wrap(x * Pow2[n]) \in Words /\ Wrap(Unsigned(x) \div Pow2[n]) \in Words
                      /\ x \div Pow2[n] \in Words
    OBVIOUS
  <2>1. n \in Nat
    BY DEF Calm, Shifts, Threes, Twos, n
  <2>2. Pow2[n] \in Nat \ {0}
    BY <2>1, Pow2Def
  <2> DEFINE z == Unsigned(x)
             b == Pow2[n]
  <2>3. x * Pow2[n] \in Int /\ Unsigned(x) \div Pow2[n] \in Int
    <3>1. z \in Int /\ b \in Nat \ {0}
      BY <1>3, <2>2
    <3> HIDE DEF z, b
    <3>2. x * b \in Int /\ z \div b \in Int
      BY <1>2, <3>1, DivisionFacts
    <3> QED BY <3>2 DEF z, b
  <2> HIDE DEF z, b
  <2> QED BY <1>1, <2>1, <2>3, WrapType, ShiftRight
<1>11. in.op = "li" => n \in Words
  BY DEF Calm, Shifts, Threes, Twos, n
<1>12. in.op \in Threes \cup Twos \cup Shifts \cup {"addi", "slti", "li"}
  BY DEF Calm
<1>13. Computed(in, r) =
         CASE in.op = "li"    -> n
           [] in.op = "mv"    -> x
           [] in.op = "neg"   -> Wrap(-x)
           [] in.op = "seqz"  -> Truth(x = 0)
           [] in.op = "snez"  -> Truth(x # 0)
           [] in.op = "add"   -> Wrap(x + y)
           [] in.op = "sub"   -> Wrap(x - y)
           [] in.op = "mul"   -> Wrap(x * y)
           [] in.op = "mulh"  -> xy \div (2 * Half)
           [] in.op = "mulhu" -> Wrap(uxy \div (2 * Half))
           [] in.op = "div"   -> EvalBinary("Div", x, y)
           [] in.op = "rem"   -> EvalBinary("Mod", x, y)
           [] in.op = "slt"   -> Truth(x < y)
           [] in.op = "addi"  -> Wrap(x + n)
           [] in.op = "slti"  -> Truth(x < n)
           [] in.op = "flip"  -> IF x % 2 = 0 THEN x + 1 ELSE x - 1
           [] in.op = "slli"  -> Wrap(x * Pow2[n])
           [] in.op = "srli"  -> Wrap(Unsigned(x) \div Pow2[n])
           [] in.op = "srai"  -> x \div Pow2[n]
  BY DEF Computed, x, y, n
<1>14. CASE in.op \in Shifts
  BY <1>10, <1>13, <1>14 DEF Shifts
<1>15. CASE in.op \in Twos
  BY <1>1, <1>4, <1>5, <1>9, <1>13, <1>15 DEF Twos
<1>16. CASE in.op \in Threes
  BY <1>4, <1>5, <1>6, <1>7, <1>8, <1>13, <1>16 DEF Threes
<1>17. CASE in.op \in {"addi", "slti", "li"}
  BY <1>4, <1>5, <1>11, <1>13, <1>17
<1> QED BY <1>12, <1>14, <1>15, <1>16, <1>17

(* A computing instruction leaves what its registers R do not hold.        *)
LEMMA CalmStep ==
  ASSUME NEW p, NEW u, NEW d, NEW K, NEW S, NEW R \in SUBSET (Names \ {SP}),
         \A q \in K : q[1] \in Names \ R, NEW in \in Calm(R)
  PROVE  Step(p, in, At(u, d, K, S), At(u, d, K, S))
<1> DEFINE A == At(u, d, K, S)
<1>1. /\ in.op \in Computing /\ in.n \in Int /\ in.op # "sw"
      /\ in.rd \in Names /\ in.rs \in Names
      /\ in.op # "swg" => in.rd \in R
      /\ in.op = "swg" => in.rs \in R /\ in.n \in Gids
      /\ in.op = "lwg" => in.n \in Gids
  BY DEF Calm, Computing, Threes, Twos, Shifts, Instructions
<1>2. ASSUME NEW x \in A, ~Trapping(in, x[1]) PROVE <<After(in, x[1]), x[2]>> \in A
  <2> DEFINE s == x[1]
  <2>1. /\ s.r \in [Names -> Words] /\ s.m \in [0 .. StackTop -> Words] /\ s.g \in [Gids -> Words]
        /\ s \in MachineStates
    BY AtFacts
  <2>2. \A rd \in R : \A w \in Words : <<[s EXCEPT !.r[rd] = w], x[2]>> \in A
    <3> TAKE rd \in R
    <3> TAKE w \in Words
    <3>1. rd \in Names \ {SP} /\ (\A q \in K : q[1] \in Names)
          /\ (\A q \in K : (q \in K /\ q[1] # rd) \/ (q[1] = rd /\ Given(x[2], q[2]) = w))
      OBVIOUS
    <3> QED BY <3>1, WriteReg
  <2> HIDE DEF A, s
  <2>3. CASE in.op = "lw"
    <3>1. s.r[in.rs] + in.n \in 0 .. StackTop
      BY <1>2, <2>3 DEF Trapping, s
    <3>2. s.m[s.r[in.rs] + in.n] \in Words
      BY <2>1, <3>1
    <3> QED BY <1>1, <2>2, <2>3, <3>2 DEF After, s
  <2>4. CASE in.op = "lwg"
    <3>1. s.g[in.n] \in Words
      BY <1>1, <2>1, <2>4
    <3> QED BY <1>1, <2>2, <2>4, <3>1 DEF After, s
  <2>5. CASE in.op = "swg"
    <3> DEFINE t == [s EXCEPT !.g[in.n] = s.r[in.rd]]
    <3>1. <<t, x[2]>> \in A
      <4>1. t \in MachineStates /\ t.r = s.r /\ t.m = s.m
        BY <1>1, <2>1, <2>5 DEF MachineStates
      <4>2. x[2] \in Activations /\ Kept(s, x[2]) /\ x[2].unit = u /\ Holds(s, x[2], d, K, S)
        BY AtFacts DEF A, s
      <4> HIDE DEF t
      <4>3. Kept(t, x[2]) /\ Holds(t, x[2], d, K, S)
        BY <4>1, <4>2 DEF Kept, Holds
      <4> QED BY <4>1, <4>2, <4>3, IntoAt DEF A
    <3>2. 0 \in Words
      BY WidthFacts DEF Words
    <3>3. <<[t EXCEPT !.r[in.rs] = 0], x[2]>> \in A
      <4> DEFINE y == <<t, x[2]>>
                 rd == in.rs
      <4>1. /\ rd \in Names \ {SP} /\ (\A q \in K : q[1] \in Names)
            /\ (\A q \in K : (q \in K /\ q[1] # rd) \/ (q[1] = rd /\ Given(y[2], q[2]) = 0))
        BY <1>1, <2>5
      <4>2. y \in At(u, d, K, S) /\ y[1] = t /\ y[2] = x[2]
        BY <3>1 DEF A
      <4> HIDE DEF y, t, rd
      <4>3. <<[y[1] EXCEPT !.r[rd] = 0], y[2]>> \in At(u, d, K, S)
        BY <3>2, <4>1, <4>2, WriteReg
      <4> QED BY <4>2, <4>3 DEF A, rd
    <3>4. After(in, s) = [s EXCEPT !.g[in.n] = s.r[in.rd], !.r[in.rs] = 0]
      BY <2>5 DEF After
    <3>5. [t EXCEPT !.r[in.rs] = 0] = [s EXCEPT !.g[in.n] = s.r[in.rd], !.r[in.rs] = 0]
      BY <2>1 DEF MachineStates
    <3> QED BY <3>3, <3>4, <3>5 DEF s
  <2>6. CASE in.op \notin {"lw", "lwg", "swg"}
    <3>1. Computed(in, s.r) \in Words
      <4>1. R \in SUBSET Names
        OBVIOUS
      <4> QED BY <2>1, <2>6, <4>1, ComputedWord
    <3>2. After(in, s) = [s EXCEPT !.r[in.rd] = Computed(in, s.r)]
      BY <1>1, <2>6 DEF After
    <3>3. <<[s EXCEPT !.r[in.rd] = Computed(in, s.r)], x[2]>> \in A
      BY <1>1, <2>2, <2>6, <3>1
    <3> QED BY <3>2, <3>3 DEF s
  <2> QED BY <2>3, <2>4, <2>5, <2>6
<1>3. StraightStep(in, A, A)
  BY <1>1, <1>2 DEF StraightStep
<1> QED BY <1>1, <1>3 DEF Step

-----------------------------------------------------------------------------
(* Accesses to the stack through sp, with t as the scratch register for an *)
(* offset that no immediate holds: what both back ends write.              *)
Accessing(op, r, off, t) ==
  IF Fits(off) THEN <<RRI(op, r, SP, off)>>
  ELSE <<LI(t, off), RRR("add", t, SP, t), RRI(op, r, t, 0)>>

LEMMA AccessForms ==
  /\ \A r, off : LoadOff(r, off) = Accessing("lw", r, off, A7)
  /\ \A r, off : StoreOff(r, off) = Accessing("sw", r, off, A7)
  /\ \A op, r, off : Access(op, r, off) = Accessing(op, r, off, T6)
BY DEF LoadOff, StoreOff, Access, Accessing

LEMMA AtLegal == \A u, d, K, S : At(u, d, K, S) \in SUBSET Legal
BY DEF At

(* sp stays far from the ends of a word.                                   *)
LEMMA StackFacts ==
  /\ StackTop \in Nat /\ StackTop + 40 =< Half /\ StackTop % 4 = 0 /\ StackTop < Half
  /\ Half \in Nat /\ Half >= 2 /\ Deepest \in Nat /\ 2 * Deepest =< Half
  /\ SP \in Names /\ ZERO \in Names /\ 0 .. StackTop \subseteq Words /\ Words \subseteq Int
<1>1. /\ StackTop \in Nat /\ StackTop + 40 =< Half /\ StackTop % 4 = 0 /\ Half \in Nat /\ Half >= 2
  BY StackAssumption, WidthFacts
<1>2. Deepest \in Nat /\ 2 * Deepest =< Half
  BY <1>1 DEF Deepest
<1>3. SP \in Names /\ ZERO \in Names
  BY DEF SP, ZERO, Names
<1>4. 0 .. StackTop \subseteq Words /\ Words \subseteq Int /\ StackTop < Half
  BY <1>1 DEF Words
<1> QED BY <1>1, <1>2, <1>3, <1>4

LEMMA PointerFacts ==
  ASSUME NEW u, NEW d \in 0 .. Deepest, NEW K, NEW S, NEW x \in At(u, d, K, S)
  PROVE  /\ x[1].r[SP] = x[2].sp - d /\ x[2].sp \in Int /\ x[1].r[SP] \in Int
         /\ x[2].sp =< StackTop /\ -Half =< x[1].r[SP] /\ x[1].r[SP] =< StackTop
         /\ x[2].sp \in Levels
<1>1. x[2].sp \in Levels /\ x[1].r[SP] = x[2].sp - d
  BY AtFacts DEF Holds, Activations
<1>2. -Deepest =< x[2].sp /\ x[2].sp =< StackTop /\ x[2].sp \in Int
  BY <1>1 DEF Levels
<1> QED BY <1>1, <1>2, StackFacts

(* A sum that wraps is not an address.                                     *)
LEMMA NotFromAfar ==
  ASSUME NEW a \in Int, -Half =< a, a < 2 * Half, Wrap(a) \in 0 .. StackTop
  PROVE  Wrap(a) = a
<1>1. Half \in Nat /\ Half >= 2 /\ Wrap(a) >= 0
  BY StackFacts
<1>2. CASE a < Half
  <2>1. a \in Words
    BY <1>1, <1>2 DEF Words
  <2> QED BY <2>1, WrapWord
<1>3. CASE a >= Half
  <2> DEFINE y == a - 2 * Half
  <2>1. y \in Words /\ y < 0 /\ a = y + 1 * (2 * Half)
    BY <1>1, <1>3 DEF Words
  <2> HIDE DEF y
  <2>2. Wrap(a) = y
    BY <2>1, WrapIs
  <2> QED BY <1>1, <2>1, <2>2
<1> QED BY <1>1, <1>2, <1>3

Formed(t, off, A) == {x \in A : x[1].r[t] = Wrap(x[1].r[SP] + off)}

Without(K, t) == {q \in K : q[1] # t}

LEMMA TwoInARow == ASSUME NEW i, NEW j PROVE <<i>> \o <<j>> = <<i, j>>
<1> DEFINE S == {i, j}
           s == <<i>>
           t == <<j>>
           e == <<i, j>>
<1>1. s \in Seq(S) /\ t \in Seq(S) /\ e \in Seq(S)
  OBVIOUS
<1>2. Len(s) = 1 /\ s[1] = i /\ Len(t) = 1 /\ t[1] = j /\ Len(e) = 2 /\ e[1] = i /\ e[2] = j
  OBVIOUS
<1> HIDE DEF s, t, e, S
<1>3. /\ s \o t \in Seq(S) /\ Len(s \o t) = Len(s) + Len(t)
      /\ \A k \in 1 .. Len(s) + Len(t) : (s \o t)[k] = IF k =< Len(s) THEN s[k] ELSE t[k - Len(s)]
  BY ONLY <1>1, ConcatProperties
<1>4. ASSUME NEW k \in 1 .. 2 PROVE (s \o t)[k] = e[k]
  <2>1. (s \o t)[k] = IF k =< 1 THEN s[k] ELSE t[k - 1]
    BY <1>2, <1>3
  <2>2. CASE k = 1
    BY <1>2, <2>1, <2>2
  <2>3. CASE k = 2
    <3>1. k - 1 = 1 /\ ~(k =< 1)
      BY <2>3
    <3>2. (s \o t)[k] = t[1]
      BY ONLY <2>1, <3>1
    <3>3. e[k] = j
      BY ONLY <1>2, <2>3
    <3> QED BY ONLY <1>2, <3>2, <3>3
  <2>4. k = 1 \/ k = 2
    OBVIOUS
  <2> QED BY ONLY <2>2, <2>3, <2>4
<1>5. s \o t = e
  BY <1>1, <1>2, <1>3, <1>4, SeqEqual
<1> QED BY <1>5 DEF s, t, e

LEMMA FormAddress ==
  ASSUME NEW p, NEW u, NEW d \in 0 .. Deepest, NEW K, NEW S, \A q \in K : q[1] \in Names,
         NEW t \in Names \ {SP}, NEW off \in Words
  PROVE  Walk(p, <<LI(t, off), RRR("add", t, SP, t)>>, At(u, d, K, S),
              Formed(t, off, At(u, d, Without(K, t), S)))
<1> DEFINE A == At(u, d, K, S)
           B == At(u, d, Without(K, t), S)
           L == {x \in B : x[1].r[t] = off}
           C == Formed(t, off, B)
           i == LI(t, off)
           j == RRR("add", t, SP, t)
<1>1. A \in SUBSET Legal /\ B \in SUBSET Legal
  BY AtLegal
<1>2. L \in SUBSET Legal /\ C \in SUBSET Legal
  BY <1>1 DEF Formed
<1>3. /\ i \in Instructions /\ i.op = "li" /\ i.n = off /\ i.rd = t
      /\ j \in Instructions /\ j.op = "add" /\ j.n = 0 /\ j.rd = t /\ j.rs = SP /\ j.rt = t
  BY StackFacts DEF Instructions, Mnemonics, Computing, LI, RRI, RRR
<1>4. off \in Int /\ t \in Names /\ t # SP
  BY StackFacts
<1>5. \A x \in MachineStates : \A w \in Words :
        /\ [x EXCEPT !.r[t] = w].r[t] = w
        /\ [x EXCEPT !.r[t] = w].r[SP] = x.r[SP]
  BY <1>4, StackFacts DEF MachineStates
<1>6. \A q \in Without(K, t) : q[1] \in Names /\ q \in K /\ q[1] # t
  BY DEF Without
<1>7. ASSUME NEW x \in A PROVE <<After(i, x[1]), x[2]>> \in L
  <2>1. After(i, x[1]) = [x[1] EXCEPT !.r[t] = off]
    BY <1>3 DEF After, Computed
  <2>2. <<[x[1] EXCEPT !.r[t] = off], x[2]>> \in B
    BY <1>6, WriteReg
  <2>3. x[1] \in MachineStates
    BY AtFacts
  <2>4. [x[1] EXCEPT !.r[t] = off].r[t] = off
    BY <1>5, <2>3
  <2> HIDE DEF A, B, i
  <2> QED BY <2>1, <2>2, <2>4
<1>8. ASSUME NEW x \in L PROVE <<After(j, x[1]), x[2]>> \in C
  <2> DEFINE w == Wrap(x[1].r[SP] + off)
             s == [x[1] EXCEPT !.r[t] = w]
  <2>1. x \in B /\ x[1].r[t] = off
    OBVIOUS
  <2>2. x[1] \in MachineStates /\ x[1].r[SP] \in Int
    BY <2>1, AtFacts, PointerFacts
  <2>3. w \in Words
    <3>1. x[1].r[SP] + off \in Int
      BY <1>4, <2>2
    <3> QED BY <3>1, WrapType
  <2>4. After(j, x[1]) = s
    BY <1>3, <2>1 DEF After, Computed
  <2> HIDE DEF w
  <2>5. <<s, x[2]>> \in B
    <3>1. \A q \in Without(K, t) : (q \in Without(K, t) /\ q[1] # t) \/ (q[1] = t /\ Given(x[2], q[2]) = w)
      BY <1>6
    <3> QED BY <1>6, <2>1, <2>3, <3>1, WriteReg
  <2>6. s.r[t] = w /\ s.r[SP] = x[1].r[SP]
    BY <1>5, <2>2, <2>3
  <2> HIDE DEF A, B, j, s
  <2> QED BY <2>4, <2>5, <2>6 DEF Formed, w
<1>9. Step(p, i, A, L)
  <2> HIDE DEF A, L, i
  <2>1. StraightStep(i, A, L)
    BY <1>3, <1>7 DEF StraightStep
  <2> QED BY <1>3, <1>4, <2>1 DEF Step, Computing
<1>10. Step(p, j, L, C)
  <2> HIDE DEF L, C, j
  <2>1. StraightStep(j, L, C)
    BY <1>3, <1>8 DEF StraightStep
  <2> QED BY <1>3, <2>1 DEF Step, Computing
<1> HIDE DEF A, B, L, C, i, j
<1>11. Walk(p, <<i>>, A, L) /\ Walk(p, <<j>>, L, C)
  BY <1>1, <1>2, <1>3, <1>9, <1>10, WalkOne
<1>12. Walk(p, <<i>> \o <<j>>, A, C)
  BY <1>11, WalkBoth
<1>13. <<i>> \o <<j>> = <<i, j>>
  BY TwoInARow
<1> QED BY <1>12, <1>13 DEF A, B, C, i, j

(* A store of r into the frame.                                            *)
LEMMA StoreWalk ==
  ASSUME NEW p, NEW u, NEW d \in 0 .. Deepest, NEW K, NEW K1, NEW S, NEW S1,
         NEW r \in Names, NEW t \in Names \ {SP}, NEW off \in 0 .. d - 1,
         \A q \in K : q[1] \in Names, \A q \in S : q[1] \in Int,
         \A q \in K1 : q \in K /\ (Fits(off) \/ q[1] # t),
         \A q \in S1 : \/ q \in S /\ q[1] # off
                       \/ q[1] = off /\ <<r, q[2]>> \in K /\ (Fits(off) \/ r # t)
  PROVE  Walk(p, Accessing("sw", r, off, t), At(u, d, K, S), At(u, d, K1, S1))
<1> DEFINE A == At(u, d, K, S)
           B == At(u, d, K1, S1)
<1>1. d \in Nat /\ off \in Int /\ off >= 0 /\ off < d /\ off \in Words
  BY StackFacts DEF Words
<1>2. A \in SUBSET Legal /\ B \in SUBSET Legal
  BY AtLegal
(* The store itself, from a machine that has the address.                  *)
<1>3. ASSUME NEW K2, NEW x \in At(u, d, K2, S), NEW b \in Names, NEW n \in Int,
             x[1].r[b] + n = x[1].r[SP] + off,
             \A q \in K2 : q[1] \in Names, \A q \in K1 : q \in K2,
             \A q \in S1 : (q \in S /\ q[1] # off) \/ (q[1] = off /\ <<r, q[2]>> \in K2),
             x[1].r[b] + n \in 0 .. StackTop
      PROVE  <<After(RRI("sw", r, b, n), x[1]), x[2]>> \in B
  <2> DEFINE a == x[1].r[b] + n
             w == x[1].r[r]
  <2>1. a \in 0 .. StackTop /\ a = x[1].r[SP] + off
    BY <1>3
  <2>2. x[1].r[SP] = x[2].sp - d /\ x[2].sp \in Int /\ x[1].r[SP] \in Int
    BY <1>3, PointerFacts
  <2>3. a < x[2].sp
    BY <1>1, <2>1, <2>2
  <2>4. w \in Words
    BY <1>3, AtFacts
  <2>5. Holds(x[1], x[2], d, K2, S)
    BY <1>3, AtFacts
  <2>6. After(RRI("sw", r, b, n), x[1]) = [x[1] EXCEPT !.m[a] = w]
    BY DEF After, RRI
  <2> HIDE DEF a, w
  <2>7. ASSUME NEW q \in S1
        PROVE  (q \in S /\ x[1].r[SP] + q[1] # a) \/ (x[1].r[SP] + q[1] = a /\ Given(x[2], q[2]) = w)
    <3>1. CASE q \in S /\ q[1] # off
      <4>1. q[1] \in Int
        BY <3>1
      <4> QED BY <1>1, <2>1, <2>2, <3>1, <4>1
    <3>2. CASE q[1] = off /\ <<r, q[2]>> \in K2
      <4>1. w = Given(x[2], q[2])
        BY <2>5, <3>2 DEF Holds, w
      <4> QED BY <2>1, <3>2, <4>1
    <3> QED BY <1>3, <3>1, <3>2
  <2>8. <<[x[1] EXCEPT !.m[a] = w], x[2]>> \in At(u, d, K2, S1)
    BY <1>3, <2>1, <2>3, <2>4, <2>7, WriteMem
  <2>9. At(u, d, K2, S1) \subseteq B
    BY <1>3 DEF At, Holds
  <2> QED BY <2>6, <2>8, <2>9
<1>4. \A b \in Names : \A n \in Int :
        LET i == RRI("sw", r, b, n)
        IN  i \in Instructions /\ i.op = "sw" /\ i.rs = b /\ i.rd = r /\ i.n = n
  BY StackFacts DEF Instructions, Mnemonics, Computing, RRI
<1>5. CASE Fits(off)
  <2> DEFINE i == RRI("sw", r, SP, off)
  <2>1. i \in Instructions /\ i.op = "sw" /\ i.rs = SP /\ i.rd = r /\ i.n = off
    BY <1>1, <1>4, StackFacts
  <2>2. ASSUME NEW x \in A, ~Trapping(i, x[1]) PROVE <<After(i, x[1]), x[2]>> \in B
    <3>1. x[1].r[SP] + off \in 0 .. StackTop
      BY <2>1, <2>2 DEF Trapping
    <3>2. /\ \A q \in K1 : q \in K
          /\ \A q \in S1 : (q \in S /\ q[1] # off) \/ (q[1] = off /\ <<r, q[2]>> \in K)
      OBVIOUS
    <3> QED BY <1>1, <1>3, <3>1, <3>2, StackFacts
  <2>3. ASSUME NEW x \in A PROVE x[1].r[i.rs] + i.n >= x[1].r[SP]
    <3>1. x[1].r[SP] \in Int
      BY PointerFacts
    <3> QED BY <1>1, <2>1, <3>1
  <2> HIDE DEF A, B, i
  <2>4. StraightStep(i, A, B)
    BY <2>2, <2>3 DEF StraightStep
  <2>5. Step(p, i, A, B)
    BY <1>1, <2>1, <2>4 DEF Step, Computing
  <2>6. Walk(p, <<i>>, A, B)
    BY <1>2, <2>1, <2>5, WalkOne
  <2> QED BY <1>5, <2>6 DEF Accessing, A, B, i
<1>6. CASE ~Fits(off)
  <2> DEFINE i == RRI("sw", r, t, 0)
             K2 == Without(K, t)
             C == Formed(t, off, At(u, d, K2, S))
  <2>1. i \in Instructions /\ i.op = "sw" /\ i.rs = t /\ i.rd = r /\ i.n = 0
    BY <1>4
  <2>2. C \in SUBSET Legal
    BY AtLegal DEF Formed
  <2>3. /\ \A q \in K2 : q[1] \in Names
        /\ \A q \in K1 : q \in K2
        /\ \A q \in S1 : (q \in S /\ q[1] # off) \/ (q[1] = off /\ <<r, q[2]>> \in K2)
    BY <1>6 DEF Without
  <2>4. ASSUME NEW x \in C PROVE x[1].r[t] = x[1].r[SP] + off /\ x[1].r[SP] \in Int /\ x \in At(u, d, K2, S)
    <3>1. x \in At(u, d, K2, S) /\ x[1].r[t] = Wrap(x[1].r[SP] + off)
      BY DEF Formed
    <3> HIDE DEF K2
    <3>2. /\ x[1].r[SP] = x[2].sp - d /\ x[2].sp \in Int /\ x[1].r[SP] \in Int
          /\ x[2].sp =< StackTop /\ -Half =< x[1].r[SP]
      BY <3>1, PointerFacts
    <3>3. x[1].r[SP] + off \in Words
      BY <1>1, <3>2, StackFacts DEF Words
    <3> QED BY <3>1, <3>2, <3>3, WrapWord
  <2> HIDE DEF K2
  <2>5. ASSUME NEW x \in C, ~Trapping(i, x[1]) PROVE <<After(i, x[1]), x[2]>> \in B
    <3>1. x[1].r[t] + 0 \in 0 .. StackTop
      BY <2>1, <2>5 DEF Trapping
    <3>2. x[1].r[t] + 0 = x[1].r[SP] + off
      BY <1>1, <2>4
    <3> HIDE DEF C, B
    <3> QED BY <1>3, <2>3, <2>4, <3>1, <3>2
  <2>6. ASSUME NEW x \in C PROVE x[1].r[i.rs] + i.n >= x[1].r[SP]
    BY <1>1, <2>1, <2>4
  <2>7. Walk(p, <<LI(t, off), RRR("add", t, SP, t)>>, A, C)
    BY <1>1, FormAddress DEF K2
  <2> DEFINE e == <<LI(t, off), RRR("add", t, SP, t)>>
  <2>8. Accessing("sw", r, off, t) = e \o <<i>>
    BY <1>6 DEF Accessing
  <2> HIDE DEF A, B, C, i, e
  <2>9. StraightStep(i, C, B)
    BY <2>5, <2>6 DEF StraightStep
  <2>10. Step(p, i, C, B)
    BY <2>1, <2>9 DEF Step, Computing
  <2>11. Walk(p, <<i>>, C, B) /\ Walk(p, e, A, C)
    BY <1>2, <2>1, <2>2, <2>7, <2>10, WalkOne DEF e
  <2>12. Walk(p, e \o <<i>>, A, B)
    BY <2>11, WalkBoth
  <2> QED BY <2>8, <2>12 DEF A, B
<1> QED BY <1>5, <1>6

(* A load from the frame, or from the caller's, into r.                    *)
Found(d, S, off, w) == <<off, w>> \in S \/ (off >= d /\ w = 32 + (off - d))

LEMMA FoundThere ==
  ASSUME NEW u, NEW d \in 0 .. Deepest, NEW K, NEW S, NEW x \in At(u, d, K, S), NEW off \in Int,
         x[1].r[SP] + off \in 0 .. StackTop, NEW w, Found(d, S, off, w)
  PROVE  x[1].m[x[1].r[SP] + off] = Given(x[2], w)
<1>1. /\ x[1].r[SP] = x[2].sp - d /\ x[2].sp \in Int /\ d \in Int
      /\ Kept(x[1], x[2]) /\ Holds(x[1], x[2], d, K, S)
  BY AtFacts, PointerFacts
<1>2. CASE <<off, w>> \in S
  <2> DEFINE q == <<off, w>>
  <2>1. q \in S /\ q[1] = off /\ q[2] = w
    BY <1>2
  <2> HIDE DEF q
  <2> QED BY <1>1, <2>1 DEF Holds
<1>3. CASE off >= d /\ w = 32 + (off - d)
  <2> DEFINE a == x[1].r[SP] + off
  <2>1. a \in 0 .. StackTop /\ a = x[2].sp + (w - 32) /\ a >= x[2].sp
    BY <1>1, <1>3
  <2>2. x[1].m[a] = x[2].mem[a]
    BY <1>1, <2>1 DEF Kept
  <2>3. w >= 32 /\ w \in Int
    BY <1>1, <1>3
  <2>4. w \notin CalleeSaved /\ w # RA /\ w \notin A0 .. A7
    BY <2>3 DEF CalleeSaved, RA, A0, A7
  <2>5. Given(x[2], w) = x[2].mem[x[2].sp + (w - 32)]
    BY <2>4 DEF Given
  <2> QED BY <2>1, <2>2, <2>5
<1> QED BY <1>2, <1>3 DEF Found

LEMMA LoadWalk ==
  ASSUME NEW p, NEW u, NEW d \in 0 .. Deepest, NEW K, NEW K1, NEW S,
         NEW r \in Names \ {SP}, NEW t \in Names \ {SP}, NEW off \in Words, off >= 0,
         \A q \in K : q[1] \in Names, \A q \in K1 : q[1] \in Names,
         \A q \in K1 : \/ q \in K /\ q[1] # r /\ (Fits(off) \/ q[1] # t)
                       \/ q[1] = r /\ Found(d, S, off, q[2])
  PROVE  Walk(p, Accessing("lw", r, off, t), At(u, d, K, S), At(u, d, K1, S))
<1> DEFINE A == At(u, d, K, S)
           B == At(u, d, K1, S)
<1>1. off \in Int /\ r \in Names /\ t \in Names /\ off < Half /\ Half \in Nat
  BY StackFacts DEF Words
<1>2. A \in SUBSET Legal /\ B \in SUBSET Legal
  BY AtLegal
<1>3. ASSUME NEW K2, NEW x \in At(u, d, K2, S), NEW b \in Names, NEW n \in Int,
             x[1].r[b] + n = x[1].r[SP] + off,
             \A q \in K1 : (q \in K2 /\ q[1] # r) \/ (q[1] = r /\ Found(d, S, off, q[2])),
             x[1].r[b] + n \in 0 .. StackTop
      PROVE  <<After(RRI("lw", r, b, n), x[1]), x[2]>> \in B
  <2> DEFINE a == x[1].r[b] + n
             w == x[1].m[a]
  <2>1. a \in 0 .. StackTop /\ a = x[1].r[SP] + off
    BY <1>3
  <2>2. w \in Words
    <3>1. x[1].m \in [0 .. StackTop -> Words]
      BY <1>3, AtFacts
    <3> HIDE DEF a
    <3> QED BY <2>1, <3>1
  <2>3. \A v : Found(d, S, off, v) => w = Given(x[2], v)
    <3>1. x[1].r[SP] + off \in 0 .. StackTop
      BY <2>1
    <3> QED BY <1>1, <1>3, <2>1, <3>1, FoundThere
  <2>4. After(RRI("lw", r, b, n), x[1]) = [x[1] EXCEPT !.r[r] = w]
    BY DEF After, RRI
  <2> HIDE DEF a, w
  <2>5. \A q \in K1 : (q \in K2 /\ q[1] # r) \/ (q[1] = r /\ Given(x[2], q[2]) = w)
    BY <1>3, <2>3
  <2>6. <<[x[1] EXCEPT !.r[r] = w], x[2]>> \in At(u, d, K1, S)
    BY <1>3, <2>2, <2>5, WriteReg
  <2> QED BY <2>4, <2>6
<1>4. \A b \in Names : \A n \in Int :
        LET i == RRI("lw", r, b, n)
        IN  i \in Instructions /\ i.op = "lw" /\ i.rs = b /\ i.rd = r /\ i.n = n
  BY <1>1, StackFacts DEF Instructions, Mnemonics, Computing, RRI
<1>5. CASE Fits(off)
  <2> DEFINE i == RRI("lw", r, SP, off)
  <2>1. i \in Instructions /\ i.op = "lw" /\ i.rs = SP /\ i.rd = r /\ i.n = off
    BY <1>1, <1>4, StackFacts
  <2>2. ASSUME NEW x \in A, ~Trapping(i, x[1]) PROVE <<After(i, x[1]), x[2]>> \in B
    <3>1. x[1].r[SP] + off \in 0 .. StackTop
      BY <2>1, <2>2 DEF Trapping
    <3>2. \A q \in K1 : (q \in K /\ q[1] # r) \/ (q[1] = r /\ Found(d, S, off, q[2]))
      OBVIOUS
    <3> QED BY <1>1, <1>3, <3>1, <3>2, StackFacts
  <2> HIDE DEF A, B, i
  <2>4. StraightStep(i, A, B)
    BY <2>1, <2>2 DEF StraightStep
  <2>5. Step(p, i, A, B)
    BY <1>1, <2>1, <2>4 DEF Step, Computing
  <2>6. Walk(p, <<i>>, A, B)
    BY <1>2, <2>1, <2>5, WalkOne
  <2> QED BY <1>5, <2>6 DEF Accessing, A, B, i
<1>6. CASE ~Fits(off)
  <2> DEFINE i == RRI("lw", r, t, 0)
             K2 == Without(K, t)
             C == Formed(t, off, At(u, d, K2, S))
  <2>1. i \in Instructions /\ i.op = "lw" /\ i.rs = t /\ i.rd = r /\ i.n = 0
    BY <1>1, <1>4
  <2>2. C \in SUBSET Legal
    BY AtLegal DEF Formed
  <2>3. \A q \in K1 : (q \in K2 /\ q[1] # r) \/ (q[1] = r /\ Found(d, S, off, q[2]))
    BY <1>6 DEF Without
  <2> HIDE DEF K2
  <2>4. ASSUME NEW x \in C, ~Trapping(i, x[1]) PROVE <<After(i, x[1]), x[2]>> \in B
    <3>1. x \in At(u, d, K2, S) /\ x[1].r[t] = Wrap(x[1].r[SP] + off)
      BY DEF Formed
    <3>2. x[1].r[SP] \in Int /\ x[1].r[SP] =< StackTop /\ x[2].sp =< StackTop /\ x[2].sp \in Int
          /\ x[1].r[SP] = x[2].sp - d
      BY <3>1, PointerFacts
    <3> DEFINE a == x[1].r[SP] + off
    <3>3. a \in Int /\ a < 2 * Half /\ x[1].r[t] = Wrap(a)
      BY <1>1, <3>1, <3>2, StackFacts
    <3>4. x[1].r[t] + 0 \in 0 .. StackTop
      BY <2>1, <2>4 DEF Trapping
    <3>5. Wrap(a) \in Int
      BY <3>3, WrapType, StackFacts
    <3>6. Wrap(a) \in 0 .. StackTop
      BY <3>3, <3>4, <3>5
    <3> HIDE DEF a
    <3>7. Wrap(a) = a
      <4>1. -Half =< a
        BY <1>1, <3>1, PointerFacts, StackFacts DEF a
      <4> QED BY <3>3, <3>6, <4>1, NotFromAfar
    <3>8. x[1].r[t] + 0 = x[1].r[SP] + off
      BY <3>3, <3>7 DEF a
    <3> HIDE DEF C, B, i
    <3> QED BY <1>1, <1>3, <2>3, <3>1, <3>4, <3>8 DEF i
  <2>7. Walk(p, <<LI(t, off), RRR("add", t, SP, t)>>, A, C)
    BY <1>1, FormAddress DEF K2
  <2> DEFINE e == <<LI(t, off), RRR("add", t, SP, t)>>
  <2>8. Accessing("lw", r, off, t) = e \o <<i>>
    BY <1>6 DEF Accessing
  <2> HIDE DEF A, B, C, i, e
  <2>9. StraightStep(i, C, B)
    BY <2>1, <2>4 DEF StraightStep
  <2>10. Step(p, i, C, B)
    BY <2>1, <2>9 DEF Step, Computing
  <2>11. Walk(p, <<i>>, C, B) /\ Walk(p, e, A, C)
    BY <1>2, <2>1, <2>2, <2>7, <2>10, WalkOne DEF e
  <2>12. Walk(p, e \o <<i>>, A, B)
    BY <2>11, WalkBoth
  <2> QED BY <2>8, <2>12 DEF A, B
<1> QED BY <1>5, <1>6

(* The stack pointer is moved, by a frame that may be too long for an      *)
(* immediate.                                                              *)
LEMMA MoveSp ==
  ASSUME NEW u, NEW d, NEW d1 \in 0 .. Deepest, NEW K, NEW S, NEW x \in At(u, d, K, S),
         \A q \in K : q[1] \in Names \ {SP}
  PROVE  /\ x[2].sp - d1 \in Words
         /\ <<[x[1] EXCEPT !.r[SP] = x[2].sp - d1], x[2]>> \in At(u, d1, K, {})
<1> DEFINE s == x[1]
           f == x[2]
           w == f.sp - d1
           t == [s EXCEPT !.r[SP] = w]
<1>1. /\ s \in MachineStates /\ f \in Activations /\ Kept(s, f) /\ f.unit = u
      /\ Holds(s, f, d, K, S) /\ s.r \in [Names -> Words]
  BY AtFacts
<1> HIDE DEF s, f
<1>2. w \in Words
  <2>1. f.sp \in Int /\ -Deepest =< f.sp /\ f.sp =< StackTop
    BY <1>1 DEF Activations, Levels
  <2> QED BY <2>1, StackFacts DEF Words
<1>3. /\ t \in MachineStates /\ t.m = s.m /\ t.r[SP] = w
      /\ \A n \in Names : n # SP => t.r[n] = s.r[n]
  BY <1>1, <1>2, StackFacts DEF MachineStates
<1> HIDE DEF t
<1>4. Kept(t, f)
  BY <1>1, <1>3 DEF Kept
<1>5. Holds(t, f, d1, K, {})
  BY <1>1, <1>3 DEF Holds
<1>6. <<t, f>> \in At(u, d1, K, {})
  BY <1>1, <1>3, <1>4, <1>5, IntoAt
<1> QED BY <1>2, <1>6 DEF t, s, f

(* sp goes from d words below the caller's to d1, by n.                    *)
SpMove(op, n) == <<LI(T6, n), RRR(op, SP, SP, T6)>>

LEMMA SpMoves ==
  ASSUME NEW p, NEW u, NEW d \in 0 .. Deepest, NEW d1 \in 0 .. Deepest, NEW K, NEW S,
         \A q \in K : q[1] \in Names \ {SP, T6}
  PROVE  /\ Walk(p, <<RRI("addi", SP, SP, d - d1)>>, At(u, d, K, S), At(u, d1, K, {}))
         /\ \A n \in Words, op \in {"add", "sub"} :
              d1 = (IF op = "add" THEN d - n ELSE d + n) =>
                Walk(p, SpMove(op, n), At(u, d, K, S), At(u, d1, K, {}))
<1> DEFINE A == At(u, d, K, S)
           B == At(u, d1, K, {})
<1>1. A \in SUBSET Legal /\ B \in SUBSET Legal /\ d \in Int /\ d1 \in Int
  BY AtLegal
<1>2. ASSUME NEW x \in A
      PROVE  /\ x[2].sp \in Int /\ x[1].r[SP] = x[2].sp - d /\ x[1] \in MachineStates
             /\ x[2].sp - d1 \in Words
             /\ <<[x[1] EXCEPT !.r[SP] = x[2].sp - d1], x[2]>> \in B
  <2>1. x[1] \in MachineStates
    BY AtFacts
  <2>2. x[2].sp \in Int /\ x[1].r[SP] = x[2].sp - d
    BY PointerFacts
  <2>3. x[2].sp - d1 \in Words /\ <<[x[1] EXCEPT !.r[SP] = x[2].sp - d1], x[2]>> \in B
    BY MoveSp
  <2> QED BY <2>1, <2>2, <2>3
<1>3. Walk(p, <<RRI("addi", SP, SP, d - d1)>>, A, B)
  <2> DEFINE i == RRI("addi", SP, SP, d - d1)
  <2>1. /\ i \in Instructions /\ i.op = "addi" /\ i.rd = SP /\ i.rs = SP
        /\ i.n = d - d1 /\ i.n \in Int
    BY <1>1, StackFacts DEF Instructions, Mnemonics, Computing, RRI
  <2> HIDE DEF i
  <2>2. ASSUME NEW x \in A PROVE <<After(i, x[1]), x[2]>> \in B
    <3>1. After(i, x[1]) = [x[1] EXCEPT !.r[SP] = Wrap(x[1].r[SP] + i.n)]
      BY <2>1 DEF After, Computed
    <3>0. x[2].sp \in Int /\ x[1].r[SP] = x[2].sp - d /\ x[2].sp - d1 \in Words
      BY <1>2
    <3>2. x[1].r[SP] + i.n = x[2].sp - d1 /\ x[2].sp - d1 \in Words
      BY ONLY <1>1, <2>1, <3>0
    <3>3. Wrap(x[1].r[SP] + i.n) = x[2].sp - d1
      BY <3>2, WrapWord
    <3> QED BY <1>2, <3>1, <3>3
  <2> HIDE DEF A, B
  <2>3. StraightStep(i, A, B)
    BY <2>1, <2>2 DEF StraightStep
  <2>4. Step(p, i, A, B)
    BY <2>1, <2>3 DEF Step, Computing
  <2>5. Walk(p, <<i>>, A, B)
    BY <1>1, <2>1, <2>4, WalkOne
  <2> QED BY <2>5 DEF i
<1>4. ASSUME NEW n \in Words, NEW op \in {"add", "sub"}, d1 = (IF op = "add" THEN d - n ELSE d + n)
      PROVE  Walk(p, SpMove(op, n), A, B)
  <2> DEFINE i == LI(T6, n)
             j == RRR(op, SP, SP, T6)
             L == {x \in A : x[1].r[T6] = n}
  <2>1. T6 \in Names \ {SP} /\ n \in Int
    BY StackFacts DEF T6, SP, Names
  <2>2. /\ i \in Instructions /\ i.op = "li" /\ i.n = n /\ i.rd = T6
        /\ j \in Instructions /\ j.op = op /\ j.n = 0 /\ j.rd = SP /\ j.rs = SP /\ j.rt = T6
    BY <2>1, StackFacts DEF Instructions, Mnemonics, Computing, LI, RRI, RRR
  <2>3. L \in SUBSET Legal
    BY <1>1
  <2>4. ASSUME NEW x \in A PROVE <<After(i, x[1]), x[2]>> \in L
    <3>1. After(i, x[1]) = [x[1] EXCEPT !.r[T6] = n]
      BY <2>2 DEF After, Computed
    <3>2. <<[x[1] EXCEPT !.r[T6] = n], x[2]>> \in A
      <4>1. /\ \A q \in K : q[1] \in Names
            /\ \A q \in K : (q \in K /\ q[1] # T6) \/ (q[1] = T6 /\ Given(x[2], q[2]) = n)
        OBVIOUS
      <4> QED BY <2>1, <4>1, WriteReg
    <3>3. [x[1] EXCEPT !.r[T6] = n].r[T6] = n
      BY <1>2, <2>1 DEF MachineStates
    <3> HIDE DEF A, i
    <3> QED BY <3>1, <3>2, <3>3
  <2>5. ASSUME NEW x \in L PROVE <<After(j, x[1]), x[2]>> \in B
    <3>0. x \in A /\ x[1].r[T6] = n
      OBVIOUS
    <3> HIDE DEF A, B, j
    <3> DEFINE e == IF op = "add" THEN x[1].r[SP] + n ELSE x[1].r[SP] - n
    <3>1. After(j, x[1]) = [x[1] EXCEPT !.r[SP] = Wrap(e)]
      BY <2>2, <3>0 DEF After, Computed
    <3>4. x[2].sp \in Int /\ x[1].r[SP] = x[2].sp - d /\ x[2].sp - d1 \in Words
      BY <1>2, <3>0
    <3>2. e = x[2].sp - d1 /\ x[2].sp - d1 \in Words
      BY ONLY <1>1, <1>4, <2>1, <3>4 DEF e
    <3> HIDE DEF e
    <3>3. Wrap(e) = x[2].sp - d1
      BY <3>2, WrapWord
    <3> QED BY <1>2, <3>0, <3>1, <3>3
  <2> HIDE DEF A, B, L, i, j
  <2>6. StraightStep(i, A, L) /\ StraightStep(j, L, B)
    BY <2>2, <2>4, <2>5 DEF StraightStep
  <2>7. Step(p, i, A, L) /\ Step(p, j, L, B)
    BY <2>1, <2>2, <2>6 DEF Step, Computing
  <2>8. Walk(p, <<i>>, A, L) /\ Walk(p, <<j>>, L, B)
    BY <1>1, <2>2, <2>3, <2>7, WalkOne
  <2>9. Walk(p, <<i>> \o <<j>>, A, B)
    BY <2>8, WalkBoth
  <2> QED BY <2>9, TwoInARow DEF i, j, SpMove
<1> QED BY <1>3, <1>4

LEMMA DescendWalk ==
  ASSUME NEW p, NEW u, NEW n \in 0 .. Deepest, NEW K, \A q \in K : q[1] \in Names \ {SP, T6}
  PROVE  Walk(p, Descend(n), At(u, 0, K, {}), At(u, n, K, {}))
<1>1. n \in Nat /\ n \in Words /\ 0 \in 0 .. Deepest /\ 0 - n = -n /\ n = 0 + n
  BY StackFacts DEF Words
<1>2. CASE n = 0
  <2>1. At(u, 0, K, {}) \in SUBSET Legal
    BY AtLegal
  <2> QED BY <1>2, <2>1, WalkNone DEF Descend
<1>3. CASE n > 0 /\ Fits(-n)
  <2>1. Walk(p, <<RRI("addi", SP, SP, 0 - n)>>, At(u, 0, K, {}), At(u, n, K, {}))
    BY <1>1, SpMoves
  <2>2. Descend(n) = <<RRI("addi", SP, SP, 0 - n)>>
    BY <1>1, <1>3 DEF Descend
  <2> QED BY <2>1, <2>2
<1>4. CASE n > 0 /\ ~Fits(-n)
  <2>1. n = (IF "sub" = "add" THEN 0 - n ELSE 0 + n)
    BY <1>1
  <2>2. Walk(p, SpMove("sub", n), At(u, 0, K, {}), At(u, n, K, {}))
    BY <1>1, <2>1, SpMoves
  <2> QED BY <1>4, <2>2 DEF Descend, SpMove
<1> QED BY <1>1, <1>2, <1>3, <1>4

LEMMA AscendWalk ==
  ASSUME NEW p, NEW u, NEW n \in 0 .. Deepest, NEW K, NEW S, \A q \in K : q[1] \in Names \ {SP, T6}
  PROVE  Walk(p, Ascend(n), At(u, n, K, S), At(u, 0, K, {}))
<1>1. n \in Nat /\ n \in Words /\ 0 \in 0 .. Deepest /\ n - 0 = n /\ 0 = n - n
  BY StackFacts DEF Words
<1>2. CASE n = 0
  <2>1. At(u, 0, K, S) \in SUBSET Legal /\ At(u, 0, K, S) \subseteq At(u, 0, K, {})
    BY AtLegal DEF At, Holds
  <2>2. Walk(p, << >>, At(u, 0, K, S), At(u, 0, K, S))
    BY <2>1, WalkNone
  <2> QED BY <1>2, <2>1, <2>2, WalkWeaker DEF Ascend
<1>3. CASE n > 0 /\ Fits(n)
  <2>1. Walk(p, <<RRI("addi", SP, SP, n - 0)>>, At(u, n, K, S), At(u, 0, K, {}))
    BY <1>1, SpMoves
  <2>2. Ascend(n) = <<RRI("addi", SP, SP, n - 0)>>
    BY <1>1, <1>3 DEF Ascend
  <2> QED BY <2>1, <2>2
<1>4. CASE n > 0 /\ ~Fits(n)
  <2>1. 0 = (IF "add" = "add" THEN n - n ELSE n + n)
    BY <1>1
  <2>2. Walk(p, SpMove("add", n), At(u, n, K, S), At(u, 0, K, {}))
    BY <1>1, <2>1, SpMoves
  <2> QED BY <1>4, <2>2 DEF Ascend, SpMove
<1> QED BY <1>1, <1>2, <1>3, <1>4

-----------------------------------------------------------------------------
(* The frame.                                                              *)
LEMMA Bounds ==
  ASSUME NEW n \in Nat, NEW h \in [1 .. n -> Nat]
  PROVE  \E B \in Nat : \A k \in 1 .. n : h[k] =< B
<1> DEFINE D == {m \in Nat : \E B \in Nat : \A k \in 1 .. n : k =< m => h[k] =< B}
<1>1. 0 \in D
  <2>1. \A k \in 1 .. n : k =< 0 => h[k] =< 0
    OBVIOUS
  <2> QED BY <2>1
<1>2. ASSUME NEW m \in Nat, m \in D PROVE m + 1 \in D
  <2>1. PICK B \in Nat : \A k \in 1 .. n : k =< m => h[k] =< B
    BY <1>2
  <2>2. CASE m + 1 \in 1 .. n
    <3> DEFINE C == IF h[m + 1] =< B THEN B ELSE h[m + 1]
    <3>1. h[m + 1] \in Nat
      BY <2>2
    <3>2. C \in Nat /\ B =< C /\ h[m + 1] =< C
      BY <3>1
    <3> HIDE DEF C
    <3>3. \A k \in 1 .. n : k =< m + 1 => h[k] =< C
      <4> TAKE k \in 1 .. n
      <4>1. CASE k = m + 1
        BY <3>2, <4>1
      <4>2. CASE k # m + 1
        <5>1. k =< m + 1 => k =< m
          BY <4>2
        <5>2. h[k] \in Nat
          OBVIOUS
        <5> QED BY <2>1, <3>2, <5>1, <5>2
      <4> QED BY <4>1, <4>2
    <3> QED BY <3>2, <3>3
  <2>3. CASE m + 1 \notin 1 .. n
    <3>1. \A k \in 1 .. n : k =< m + 1 => h[k] =< B
      BY <2>1, <2>3
    <3> QED BY <3>1
  <2> QED BY <2>2, <2>3
<1>3. n \in D
  <2>1. Nat \subseteq D
    <3> HIDE DEF D
    <3> QED BY <1>1, <1>2, Upward
  <2> QED BY <2>1
<1> QED BY <1>3

LEMMA Greatest ==
  ASSUME NEW S, S \subseteq Int, S # {}, NEW B \in Int, \A x \in S : x =< B
  PROVE  F!Max(S) \in S /\ \A x \in S : x =< F!Max(S)
<1> DEFINE T == {B - x : x \in S}
<1>1. T \subseteq Nat /\ T # {}
  <2>1. \A x \in S : B - x \in Nat
    OBVIOUS
  <2>2. T \subseteq Nat
    BY <2>1
  <2>3. PICK x \in S : TRUE
    OBVIOUS
  <2>4. B - x \in T
    OBVIOUS
  <2> QED BY <2>2, <2>4
<1>2. PICK m \in T : \A k \in T : m =< k
  <2> HIDE DEF T
  <2> QED BY <1>1, Least
<1>3. PICK z \in S : m = B - z
  BY <1>2
<1>4. \A y \in S : z >= y
  <2> TAKE y \in S
  <2>1. m =< B - y
    BY <1>2
  <2> QED BY <1>3, <2>1
<1> QED BY <1>3, <1>4 DEF F!Max

LEMMA Smallest ==
  ASSUME NEW S, S \subseteq Nat, S # {}
  PROVE  F!Min(S) \in S /\ \A x \in S : F!Min(S) =< x
<1>1. PICK m \in S : \A k \in S : m =< k
  BY Least
<1> QED BY <1>1 DEF F!Min

(* No call in the function has more than a certain number of arguments.    *)
LongestIn(is, B) == \A k \in 1 .. Len(is) : Len(is[k].args) =< B
Longest(is) == CHOOSE B \in Nat : LongestIn(is, B)

LEMMA LongestFacts ==
  ASSUME NEW vs, NEW is \in Seq(Insts(vs))
  PROVE  Longest(is) \in Nat /\ LongestIn(is, Longest(is))
<1> DEFINE h == [k \in 1 .. Len(is) |-> Len(is[k].args)]
<1>1. Len(is) \in Nat /\ \A k \in 1 .. Len(is) : Len(is[k].args) \in Nat
  <2>1. Len(is) \in Nat
    OBVIOUS
  <2>2. ASSUME NEW k \in 1 .. Len(is) PROVE Len(is[k].args) \in Nat
    <3>1. is[k] \in Insts(vs)
      OBVIOUS
    <3>2. is[k].args \in Seq(Vals(vs))
      BY <3>1 DEF Insts
    <3> QED BY <3>2
  <2> QED BY <2>1, <2>2
<1>2. h \in [1 .. Len(is) -> Nat]
  BY <1>1
<1>3. PICK B \in Nat : \A k \in 1 .. Len(is) : h[k] =< B
  <2> HIDE DEF h
  <2> QED BY <1>1, <1>2, Bounds
<1>4. LongestIn(is, B)
  BY <1>3 DEF LongestIn
<1> QED BY <1>4 DEF Longest

Outs(f) == {0} \cup {Len(in.args) - 8 : in \in Calls(f)}

LEMMA OutFacts ==
  ASSUME NEW f, IsIRFunc(f)
  PROVE  /\ F!Max(Outs(f)) \in Nat
         /\ \A b \in Blocks(f) : \A k \in DOMAIN f.blocks[b].insts :
              f.blocks[b].insts[k].op = "Call" =>
                /\ f.blocks[b].insts[k] \in Calls(f)
                /\ Len(f.blocks[b].insts[k].args) - 8 =< F!Max(Outs(f))
<1> DEFINE h == [j \in 1 .. f.nb |-> Longest(f.blocks[j - 1].insts)]
<1>1. f.nb \in Nat /\ \A b : b \in Blocks(f) <=> b \in 0 .. f.nb - 1
  BY DEF IsIRFunc, Blocks
<1>2. \A b \in Blocks(f) : /\ f.blocks[b].insts \in Seq(Insts(Vregs(f)))
                           /\ Longest(f.blocks[b].insts) \in Nat
                           /\ LongestIn(f.blocks[b].insts, Longest(f.blocks[b].insts))
                           /\ DOMAIN f.blocks[b].insts = 1 .. Len(f.blocks[b].insts)
  BY BlockFacts, LongestFacts
<1>3. h \in [1 .. f.nb -> Nat]
  <2>1. \A j \in 1 .. f.nb : j - 1 \in Blocks(f)
    BY <1>1
  <2> QED BY <1>2, <2>1
<1>4. PICK B \in Nat : \A j \in 1 .. f.nb : h[j] =< B
  <2> HIDE DEF h
  <2> QED BY <1>1, <1>3, Bounds
<1>5. ASSUME NEW b \in Blocks(f), NEW k \in DOMAIN f.blocks[b].insts
      PROVE  Len(f.blocks[b].insts[k].args) \in Nat /\ Len(f.blocks[b].insts[k].args) =< B
  <2>1. b + 1 \in 1 .. f.nb /\ (b + 1) - 1 = b
    BY <1>1
  <2>2. Longest(f.blocks[b].insts) =< B
    <3>1. h[b + 1] =< B
      BY <1>4, <2>1
    <3> QED BY <2>1, <3>1
  <2>3. k \in 1 .. Len(f.blocks[b].insts) /\ f.blocks[b].insts[k] \in Insts(Vregs(f))
    BY <1>2
  <2>4. Len(f.blocks[b].insts[k].args) =< Longest(f.blocks[b].insts)
    BY <1>2, <2>3 DEF LongestIn
  <2>5. f.blocks[b].insts[k].args \in Seq(Vals(Vregs(f)))
    BY <2>3 DEF Insts
  <2>6. Len(f.blocks[b].insts[k].args) \in Nat
    <3> DEFINE s == f.blocks[b].insts[k].args
               V == Vals(Vregs(f))
    <3>1. s \in Seq(V)
      BY <2>5
    <3> HIDE DEF s, V
    <3>2. Len(s) \in Nat
      BY ONLY <3>1
    <3> QED BY <3>2 DEF s
  <2> QED BY <1>2, <2>2, <2>4, <2>6
<1>6. ASSUME NEW in \in Calls(f)
      PROVE  \E b \in Blocks(f) : \E k \in DOMAIN f.blocks[b].insts : in = f.blocks[b].insts[k]
  <2> DEFINE Y == UNION {{b} \X DOMAIN f.blocks[b].insts : b \in Blocks(f)}
  <2>1. PICK x \in Y : in = f.blocks[x[1]].insts[x[2]]
    BY <1>6 DEF Calls
  <2>2. PICK b \in Blocks(f) : x \in {b} \X DOMAIN f.blocks[b].insts
    BY <2>1
  <2>3. x[1] = b /\ x[2] \in DOMAIN f.blocks[b].insts
    BY <2>2
  <2> QED BY <2>1, <2>3
<1>7. /\ Outs(f) \subseteq Int /\ 0 \in Outs(f) /\ \A x \in Outs(f) : x =< B
  <2>1. ASSUME NEW in \in Calls(f) PROVE Len(in.args) - 8 \in Int /\ Len(in.args) - 8 =< B
    <3>1. Len(in.args) \in Nat /\ Len(in.args) =< B
      BY <1>5, <1>6
    <3> QED BY <3>1
  <2> QED BY <2>1 DEF Outs
<1>8. F!Max(Outs(f)) \in Outs(f) /\ \A x \in Outs(f) : x =< F!Max(Outs(f))
  BY <1>7, Greatest
<1>9. F!Max(Outs(f)) \in Nat
  BY <1>7, <1>8
<1>10. ASSUME NEW b \in Blocks(f), NEW k \in DOMAIN f.blocks[b].insts,
              f.blocks[b].insts[k].op = "Call"
       PROVE  f.blocks[b].insts[k] \in Calls(f)
  <2> DEFINE y == <<b, k>>
  <2>1. y \in UNION {{c} \X DOMAIN f.blocks[c].insts : c \in Blocks(f)} /\ y[1] = b /\ y[2] = k
    OBVIOUS
  <2> HIDE DEF y
  <2> QED BY <1>10, <2>1 DEF Calls
<1>11. \A in \in Calls(f) : Len(in.args) - 8 \in Outs(f)
  BY DEF Outs
<1> QED BY <1>8, <1>9, <1>10, <1>11

LEMMA AlignFacts ==
  ASSUME NEW n \in Nat
  PROVE  Align(n) \in Nat /\ Align(n) % 4 = 0 /\ n =< Align(n)
<1> DEFINE q == (n + 3) \div 4
           r == (n + 3) % 4
<1>1. q \in Int /\ r \in 0 .. 3 /\ n + 3 = 4 * q + r
  <2>1. n + 3 \in Int /\ 4 \in Nat \ {0} /\ 4 - 1 = 3
    OBVIOUS
  <2> QED BY <2>1, DivisionFacts
<1>2. Align(n) = 4 * q
  BY DEF Align
<1> HIDE DEF q, r
<1>3. 4 * q >= n /\ 4 * q \in Nat
  BY <1>1
<1>4. (4 * q) % 4 = 0
  BY <1>1
<1> QED BY <1>2, <1>3, <1>4

(* Outgoing arguments are below Outgoing, the vregs that have no register  *)
(* from there up to Locals, and what is saved above.                       *)
Outgoing(u) == F!Max(Outs(u.fn))
Locals(u) == IF IsNaive(u) THEN NaiveFrame(u.fn).raOff ELSE Layout(u).calleeBase

LEMMA NaiveParts ==
  ASSUME NEW u, IsNaive(u)
  PROVE  /\ Locals(u) = Outgoing(u) + u.fn.numVregs /\ RaSlot(u) = Locals(u)
         /\ FrameSize(u) = Align(RaSlot(u) + 1)
         /\ \A v : HomeReg(u, v) = NoReg /\ HomeSlot(u, v) = Outgoing(u) + v
BY DEF Locals, Outgoing, RaSlot, FrameSize, HomeReg, HomeSlot, SlotOff, NaiveFrame, Outs

LEMMA OptParts ==
  ASSUME NEW u, ~IsNaive(u)
  PROVE  /\ Locals(u) = Outgoing(u) + u.al.numSpills
         /\ RaSlot(u) = Locals(u) + Len(u.al.usedCallee)
         /\ FrameSize(u) = Align(RaSlot(u) + (IF u.al.isLeaf THEN 0 ELSE 1))
         /\ Layout(u).calleeBase = Locals(u) /\ Layout(u).raOff = RaSlot(u)
         /\ Layout(u).frameSize = FrameSize(u)
         /\ \A v : /\ HomeReg(u, v) = u.al.reg[v]
                   /\ HomeSlot(u, v) = Outgoing(u) + u.al.spillSlot[v]
                   /\ SpillOff(Gen(u), v) = HomeSlot(u, v)
<1>1. Layout(u).spillBase = Outgoing(u) /\ Layout(u).calleeBase = Outgoing(u) + u.al.numSpills
  BY DEF Layout, Outgoing, Outs
<1>2. /\ Layout(u).raOff = Outgoing(u) + u.al.numSpills + Len(u.al.usedCallee)
      /\ Layout(u).frameSize = Align(Outgoing(u) + u.al.numSpills + Len(u.al.usedCallee)
                                       + (IF u.al.isLeaf THEN 0 ELSE 1))
  BY DEF Layout, Outgoing, Outs
<1>3. Gen(u).spillBase = Outgoing(u) /\ Gen(u).spillSlot = u.al.spillSlot
  BY <1>1 DEF Gen
<1> QED BY <1>1, <1>2, <1>3 DEF Locals, RaSlot, FrameSize, HomeReg, HomeSlot, SpillOff

LEMMA FrameFacts ==
  ASSUME NEW p, NEW u, IsUnit(p, u)
  PROVE  /\ FrameSize(u) \in 0 .. Deepest /\ FrameSize(u) % 4 = 0
         /\ FrameSize(u) + Len(u.fn.params) =< Deepest
         /\ Outgoing(u) \in Nat /\ Locals(u) \in Nat /\ RaSlot(u) \in Nat
         /\ Outgoing(u) =< Locals(u) /\ Locals(u) =< RaSlot(u) /\ RaSlot(u) =< FrameSize(u)
         /\ ~Leaf(u) => RaSlot(u) < FrameSize(u)
         /\ \A v \in Vregs(u.fn) : HomeReg(u, v) = NoReg =>
              HomeSlot(u, v) \in Outgoing(u) .. Locals(u) - 1
<1> DEFINE n == Len(u.fn.params)
           top == RaSlot(u) + (IF Leaf(u) THEN 0 ELSE 1)
<1>1. /\ IsIRFunc(u.fn) /\ u.fn.numVregs \in Nat /\ n \in Nat
      /\ FrameSize(u) + n =< Deepest
  <2>1. u.fn.params \in Seq(Vregs(u.fn)) /\ IsIRFunc(u.fn) /\ u.fn.numVregs \in Nat
    BY DEF IsUnit, IsIRFunc
  <2> QED BY <2>1 DEF IsUnit, Deepest
<1>2. Outgoing(u) \in Nat
  BY <1>1, OutFacts DEF Outgoing
<1>3. /\ Locals(u) \in Nat /\ RaSlot(u) \in Nat /\ Outgoing(u) =< Locals(u) /\ Locals(u) =< RaSlot(u)
      /\ FrameSize(u) = Align(top)
      /\ \A v \in Vregs(u.fn) : HomeReg(u, v) = NoReg =>
           HomeSlot(u, v) \in Outgoing(u) .. Locals(u) - 1
  <2>1. CASE IsNaive(u)
    <3>1. \A v \in Vregs(u.fn) : v \in Int /\ 0 =< v /\ v < u.fn.numVregs
      BY <1>1 DEF Vregs
    <3>2. ~Leaf(u)
      BY <2>1 DEF Leaf
    <3> QED BY <1>1, <1>2, <2>1, <3>1, <3>2, NaiveParts
  <2>2. CASE ~IsNaive(u)
    <3>1. /\ u.al.numSpills \in Nat /\ u.al.usedCallee \in Seq(CalleeSaved)
          /\ \A v \in Vregs(u.fn) : u.al.reg[v] = NoReg => u.al.spillSlot[v] \in 0 .. u.al.numSpills - 1
      BY <2>2 DEF IsUnit, IsAllocation
    <3>2. Len(u.al.usedCallee) \in Nat
      BY <3>1
    <3>3. Leaf(u) = u.al.isLeaf
      <4>1. u.al.isLeaf \in BOOLEAN
        BY <2>2 DEF IsUnit, IsAllocation
      <4> QED BY <2>2, <4>1 DEF Leaf
    <3>4. /\ Locals(u) = Outgoing(u) + u.al.numSpills
          /\ RaSlot(u) = Locals(u) + Len(u.al.usedCallee)
          /\ FrameSize(u) = Align(RaSlot(u) + (IF u.al.isLeaf THEN 0 ELSE 1))
          /\ \A v : HomeReg(u, v) = u.al.reg[v] /\ HomeSlot(u, v) = Outgoing(u) + u.al.spillSlot[v]
      BY <2>2, OptParts
    <3>5. /\ Locals(u) \in Nat /\ RaSlot(u) \in Nat /\ Outgoing(u) =< Locals(u)
          /\ Locals(u) =< RaSlot(u)
      <4> DEFINE a == u.al.numSpills
                 l == Len(u.al.usedCallee)
      <4>1. a \in Nat /\ l \in Nat /\ Locals(u) = Outgoing(u) + a /\ RaSlot(u) = Locals(u) + l
        BY <3>1, <3>2, <3>4
      <4> HIDE DEF a, l
      <4> QED BY ONLY <1>2, <4>1
    <3>6. ASSUME NEW v \in Vregs(u.fn), HomeReg(u, v) = NoReg
          PROVE  HomeSlot(u, v) \in Outgoing(u) .. Locals(u) - 1
      <4>1. u.al.spillSlot[v] \in 0 .. u.al.numSpills - 1
        BY <3>1, <3>4, <3>6
      <4> QED BY <1>2, <3>1, <3>4, <4>1
    <3> QED BY <3>3, <3>4, <3>5, <3>6
  <2> QED BY <2>1, <2>2
<1>4. top \in Nat
  BY <1>3
<1>5. Align(top) \in Nat /\ Align(top) % 4 = 0 /\ top =< Align(top)
  <2> HIDE DEF top
  <2> QED BY <1>4, AlignFacts
<1>6. FrameSize(u) \in 0 .. Deepest
  BY <1>1, <1>3, <1>5, StackFacts
<1>7. RaSlot(u) =< FrameSize(u) /\ (~Leaf(u) => RaSlot(u) < FrameSize(u))
  BY <1>3, <1>5
<1> QED BY <1>1, <1>2, <1>3, <1>5, <1>6, <1>7

(* Registers: what a unit's instructions may compute into is everything    *)
(* but sp and what the unit hands back as it found it.                     *)
Free(u) == Names \ ({SP} \cup {q[1] : q \in Keeps(u)})

LEMMA KeepsFacts ==
  ASSUME NEW p, NEW u, IsUnit(p, u)
  PROVE  /\ \A q \in Keeps(u) : q[1] \in (CalleeSaved \cup {RA}) \ Used(u) /\ q[2] = q[1]
         /\ (CalleeSaved \cup {RA}) \subseteq Names \ {SP, T6}
         /\ {A6, A7, T5, T6, T0, T1} \cup A0 .. A7 \cup CallerSaved \cup (Used(u) \cap CalleeSaved)
              \subseteq Free(u)
         /\ Free(u) \in SUBSET (Names \ {SP})
         /\ ~Leaf(u) => RA \in Free(u)
         /\ \A q \in Keeps(u) : q[1] \in Names \ Free(u)
<1>1. /\ CalleeSaved = {8, 9} \cup 18 .. 27 /\ CallerSaved = {5, 6, 7, 28, 29} /\ RA = 1 /\ SP = 2
      /\ A6 = 16 /\ A7 = 17 /\ T5 = 30 /\ T6 = 31 /\ T0 = 5 /\ T1 = 6 /\ A0 = 10 /\ Names = 0 .. 31
  BY DEF CalleeSaved, CallerSaved, RA, SP, A6, A7, T5, T6, T0, T1, A0, Names
<1>2. ASSUME NEW q \in Keeps(u)
      PROVE  /\ q[1] \in (CalleeSaved \cup {RA}) \ Used(u) /\ q[2] = q[1]
             /\ ~Leaf(u) => q[1] # RA
  <2>1. RA \notin Used(u)
    <3>1. ~IsNaive(u) => u.al.usedCallee \in Seq(CalleeSaved)
      BY DEF IsUnit, IsAllocation
    <3>2. ~IsNaive(u) => \A k \in DOMAIN u.al.usedCallee : u.al.usedCallee[k] \in CalleeSaved
      BY <3>1
    <3> QED BY <1>1, <3>2 DEF Used
  <2>2. CASE \E x \in CalleeSaved \ Used(u) : q = <<x, x>>
    BY <1>1, <2>2
  <2>3. CASE Leaf(u) /\ q = <<RA, RA>>
    BY <1>1, <2>1, <2>3
  <2> QED BY <2>2, <2>3 DEF Keeps
<1> QED BY <1>1, <1>2 DEF Free

-----------------------------------------------------------------------------
(* The blocks that are emitted.  Reachable asks what Unwritten does of a   *)
(* register that no block writes.                                          *)
LEMMA ReachableIs ==
  ASSUME NEW f, IsIRFunc(f)
  PROVE  /\ Reachable(f) = Unwritten(f, -2)
         /\ \A S : S \subseteq Blocks(f) =>
              Wider(f, -2, S) = S \cup UNION {Succs(f.blocks[b]) : b \in S}
<1> DEFINE Is(g) == g = [n \in Nat |->
                    IF n = 0 THEN {0}
                    ELSE LET near == g[n - 1]
                         IN  near \cup UNION {Succs(f.blocks[b]) : b \in near}]
           All(S) == S \cup UNION {Succs(f.blocks[b]) : b \in S}
<1>1. ASSUME NEW b \in Blocks(f) PROVE ~Writes(f.blocks[b], -2)
  <2>1. ASSUME NEW m \in DOMAIN f.blocks[b].insts PROVE f.blocks[b].insts[m].dst # -2
    <3>1. f.blocks[b].insts[m] \in Insts(Vregs(f))
      BY BlockFacts
    <3>2. f.blocks[b].insts[m].dst \in Vregs(f) \cup {NoReg}
      BY <3>1 DEF Insts
    <3> QED BY <3>2 DEF Vregs, NoReg
  <2> QED BY <2>1 DEF Writes
<1>2. ASSUME NEW S, S \subseteq Blocks(f) PROVE Wider(f, -2, S) = All(S)
  <2>1. {k \in S : ~Writes(f.blocks[k], -2)} = S
    BY <1>1, <1>2
  <2> QED BY <2>1 DEF Wider
<1>3. PICK h : /\ h \in [Nat -> SUBSET Blocks(f)] /\ h[0] = {0}
               /\ \A n \in Nat : h[n + 1] = Wider(f, -2, h[n])
               /\ Unwritten(f, -2) = h[f.nb]
  BY UnwrittenTurns
<1>4. \A n \in Nat : h[n + 1] = All(h[n])
  BY <1>2, <1>3
<1>5. \A g : Is(g) <=> g = [n \in Nat |-> IF n = 0 THEN {0} ELSE All(g[n - 1])]
  OBVIOUS
<1>6. Reachable(f) = (CHOOSE g : Is(g))[f.nb]
  BY DEF Reachable
<1> HIDE DEF Is, All
<1>7. Is(h)
  <2>1. \A n \in Nat : h[n] = IF n = 0 THEN {0} ELSE All(h[n - 1])
    <3> TAKE n \in Nat
    <3>1. CASE n # 0
      <4>1. n - 1 \in Nat /\ (n - 1) + 1 = n
        BY <3>1
      <4> QED BY <1>4, <3>1, <4>1
    <3> QED BY <1>3, <3>1
  <2>2. h = [n \in Nat |-> IF n = 0 THEN {0} ELSE All(h[n - 1])]
    BY <1>3, <2>1
  <2> QED BY <1>5, <2>2
<1>8. PICK g : Is(g) /\ Reachable(f) = g[f.nb]
  BY <1>6, <1>7
<1>9. g = [n \in Nat |-> IF n = 0 THEN {0} ELSE All(g[n - 1])]
  BY <1>5, <1>8
<1>10. \A n \in Nat : g[n] = h[n]
  <2> DEFINE D == {n \in Nat : g[n] = h[n]}
  <2>1. 0 \in D
    BY <1>3, <1>9
  <2>2. ASSUME NEW n \in Nat, n \in D PROVE n + 1 \in D
    <3>1. n + 1 \in Nat /\ n + 1 # 0 /\ (n + 1) - 1 = n
      OBVIOUS
    <3>2. g[n + 1] = All(g[n])
      BY <1>9, <3>1
    <3> QED BY <1>4, <2>2, <3>2
  <2>3. Nat \subseteq D
    <3> HIDE DEF D
    <3> QED BY <2>1, <2>2, Upward
  <2> QED BY <2>3
<1>11. f.nb \in Nat
  BY DEF IsIRFunc
<1>12. Reachable(f) = Unwritten(f, -2)
  BY <1>3, <1>8, <1>10, <1>11
<1> QED BY <1>2, <1>12 DEF All

LEMMA ReachableFacts ==
  ASSUME NEW f, IsIRFunc(f)
  PROVE  /\ 0 \in Reachable(f) /\ Reachable(f) \subseteq Blocks(f)
         /\ \A b \in Reachable(f) : Succs(f.blocks[b]) \subseteq Reachable(f)
<1>1. /\ 0 \in Reachable(f) /\ Reachable(f) \subseteq Blocks(f)
      /\ Wider(f, -2, Reachable(f)) = Reachable(f)
  BY ReachableIs, UnwrittenFacts
<1>2. Reachable(f) = Reachable(f) \cup UNION {Succs(f.blocks[b]) : b \in Reachable(f)}
  BY <1>1, ReachableIs
<1> QED BY <1>1, <1>2

(* What is emitted after block b.                                          *)
LEMMA FollowingFacts ==
  ASSUME NEW f, IsIRFunc(f), NEW b \in Int
  PROVE  /\ Following(f, b) = NoReg => \A c \in Reachable(f) : c =< b
         /\ Following(f, b) # NoReg =>
              /\ Following(f, b) \in Reachable(f) /\ Following(f, b) > b
              /\ \A c \in Reachable(f) : c > b => Following(f, b) =< c
<1> DEFINE later == {c \in Blocks(f) : c > b /\ c \in Reachable(f)}
<1>1. /\ \A c : c \in later <=> c \in Reachable(f) /\ c > b
      /\ Reachable(f) \subseteq Nat
  <2>1. Reachable(f) \subseteq Blocks(f)
    BY ReachableFacts
  <2>2. Blocks(f) \subseteq Nat
    BY DEF Blocks, IsIRFunc
  <2> QED BY <2>1, <2>2
<1>2. Following(f, b) = IF later = {} THEN NoReg ELSE F!Min(later)
  BY DEF Following
<1> HIDE DEF later
<1>3. CASE later = {}
  BY <1>1, <1>2, <1>3
<1>4. CASE later # {}
  <2>1. F!Min(later) \in later /\ \A x \in later : F!Min(later) =< x
    BY <1>1, <1>4, Smallest
  <2> QED BY <1>1, <1>2, <1>4, <2>1 DEF NoReg
<1> QED BY <1>3, <1>4

-----------------------------------------------------------------------------
(* Parameters on their way to their homes, in either back end.             *)
Scratch(u) == IF IsNaive(u) THEN T6 ELSE A7
Via(u) == IF IsNaive(u) THEN T0 ELSE T5

ParamCode(u, i) ==
  LET r == HomeReg(u, Param(u, i))
      slot == HomeSlot(u, Param(u, i))
      load(x) == Accessing("lw", x, FrameSize(u) + i - 8, Scratch(u))
      store(x) == Accessing("sw", x, slot, Scratch(u))
  IN  CASE i < 8 /\ r # NoReg -> MoveTo(r, A0 + i)
        [] i < 8 /\ r = NoReg -> store(A0 + i)
        [] i >= 8 /\ r # NoReg -> load(r)
        [] OTHER -> load(Via(u)) \o store(Via(u))

LEMMA ParamCodes ==
  ASSUME NEW u, NEW i \in Nat
  PROVE  /\ ~IsNaive(u) => MoveParam(u, i) = ParamCode(u, i)
         /\ IsNaive(u) => NaiveParam(u.fn, i) = ParamCode(u, i)
<1> DEFINE v == u.fn.params[i + 1]
<1>1. ASSUME ~IsNaive(u) PROVE MoveParam(u, i) = ParamCode(u, i)
  <2>1. /\ HomeReg(u, v) = u.al.reg[v] /\ HomeSlot(u, v) = SpillOff(Gen(u), v)
        /\ Layout(u).frameSize = FrameSize(u)
    BY <1>1, OptParts
  <2>2. Param(u, i) = v /\ Scratch(u) = A7 /\ Via(u) = T5
    BY <1>1 DEF Param, Scratch, Via
  <2> HIDE DEF v
  <2> QED BY <2>1, <2>2, AccessForms DEF MoveParam, ParamCode, v
<1>2. ASSUME IsNaive(u) PROVE NaiveParam(u.fn, i) = ParamCode(u, i)
  <2>1. /\ HomeReg(u, v) = NoReg /\ HomeSlot(u, v) = SlotOff(u.fn, v)
        /\ NaiveFrame(u.fn).frameSize = FrameSize(u)
    BY <1>2 DEF HomeReg, HomeSlot, FrameSize
  <2>2. Param(u, i) = v /\ Scratch(u) = T6 /\ Via(u) = T0
    BY <1>2 DEF Param, Scratch, Via
  <2> HIDE DEF v
  <2> QED BY <2>1, <2>2, AccessForms DEF NaiveParam, ParamCode, StoreSlot, v
<1> QED BY <1>1, <1>2

(* Where a parameter lives, no other does.                                 *)
LEMMA HomeFacts ==
  ASSUME NEW p, NEW u, IsUnit(p, u), NEW v \in Vregs(u.fn)
  PROVE  /\ HomeReg(u, v) \in CallerSaved \cup CalleeSaved \cup {NoReg}
         /\ HomeReg(u, v) \in CalleeSaved => HomeReg(u, v) \in Used(u)
         /\ IsNaive(u) => HomeReg(u, v) = NoReg
         /\ HomeReg(u, v) # NoReg => HomeReg(u, v) \in Free(u) /\ HomeReg(u, v) \in Names \ {SP}
<1>1. CASE IsNaive(u)
  BY <1>1 DEF HomeReg, NoReg, CalleeSaved
<1>2. CASE ~IsNaive(u)
  <2>1. /\ u.al.reg[v] \in CallerSaved \cup CalleeSaved \cup {NoReg}
        /\ u.al.reg[v] \in CalleeSaved => u.al.reg[v] \in Used(u)
    BY <1>2 DEF IsUnit, IsAllocation, Used
  <2>2. CallerSaved \cup (Used(u) \cap CalleeSaved) \subseteq Free(u) /\ Free(u) \subseteq Names \ {SP}
    BY KeepsFacts
  <2> QED BY <1>2, <2>1, <2>2 DEF HomeReg
<1> QED BY <1>1, <1>2

LEMMA ParamHomes ==
  ASSUME NEW p, NEW u, IsUnit(p, u)
  PROVE  /\ Len(u.fn.params) \in Nat
         /\ \A j \in 0 .. Len(u.fn.params) - 1 : Param(u, j) \in Vregs(u.fn)
         /\ \A i, j \in 0 .. Len(u.fn.params) - 1 :
              i # j => \/ HomeReg(u, Param(u, i)) # HomeReg(u, Param(u, j))
                       \/ /\ HomeReg(u, Param(u, i)) = NoReg
                          /\ HomeSlot(u, Param(u, i)) # HomeSlot(u, Param(u, j))
<1> DEFINE n == Len(u.fn.params)
<1>1. /\ u.fn.params \in Seq(Vregs(u.fn)) /\ n \in Nat
      /\ \A i, j \in DOMAIN u.fn.params : u.fn.params[i] = u.fn.params[j] => i = j
  <2>1. u.fn.params \in Seq(Vregs(u.fn))
    BY DEF IsUnit, IsIRFunc
  <2> QED BY <2>1 DEF IsUnit, IsIRFunc
<1>2. \A j \in 0 .. n - 1 : j + 1 \in DOMAIN u.fn.params /\ u.fn.params[j + 1] \in Vregs(u.fn)
  BY <1>1
<1>3. ASSUME NEW i \in 0 .. n - 1, NEW j \in 0 .. n - 1, i # j
      PROVE  \/ HomeReg(u, Param(u, i)) # HomeReg(u, Param(u, j))
             \/ /\ HomeReg(u, Param(u, i)) = NoReg
                /\ HomeSlot(u, Param(u, i)) # HomeSlot(u, Param(u, j))
  <2> DEFINE v == u.fn.params[i + 1]
             w == u.fn.params[j + 1]
  <2>1. v \in Vregs(u.fn) /\ w \in Vregs(u.fn) /\ v # w /\ Param(u, i) = v /\ Param(u, j) = w
        /\ i + 1 # j + 1
    BY <1>1, <1>2, <1>3 DEF Param
  <2>2. CASE IsNaive(u)
    <3>1. /\ HomeReg(u, v) = NoReg /\ HomeReg(u, w) = NoReg
          /\ HomeSlot(u, v) = Outgoing(u) + v /\ HomeSlot(u, w) = Outgoing(u) + w
      BY <2>2, NaiveParts
    <3>2. Outgoing(u) \in Nat /\ v \in Int /\ w \in Int
      <4>1. Vregs(u.fn) \subseteq Int
        BY DEF Vregs
      <4>2. Outgoing(u) \in Nat
        BY FrameFacts
      <4> HIDE DEF v, w
      <4> QED BY <2>1, <4>1, <4>2
    <3> HIDE DEF v, w
    <3> QED BY <2>1, <3>1, <3>2
  <2>3. CASE ~IsNaive(u)
    <3>1. /\ HomeReg(u, v) = u.al.reg[v] /\ HomeReg(u, w) = u.al.reg[w]
          /\ HomeSlot(u, v) = Outgoing(u) + u.al.spillSlot[v]
          /\ HomeSlot(u, w) = Outgoing(u) + u.al.spillSlot[w]
      BY <2>3, OptParts
    <3>2. HomeIn(u.al, v) # HomeIn(u.al, w)
      BY <1>2, <2>1, <2>3 DEF IsUnit, IsAllocation
    <3>3. \A x \in {v, w} : u.al.reg[x] = NoReg => u.al.spillSlot[x] \in 0 .. u.al.numSpills - 1
      BY <2>1, <2>3 DEF IsUnit, IsAllocation
    <3>4. Outgoing(u) \in Nat
      BY FrameFacts
    <3> HIDE DEF v, w
    <3>5. u.al.reg[v] # u.al.reg[w] \/ (u.al.reg[v] = NoReg /\ u.al.spillSlot[v] # u.al.spillSlot[w])
      BY <3>2 DEF HomeIn
    <3> QED BY <2>1, <3>1, <3>3, <3>4, <3>5
  <2> QED BY <2>2, <2>3
<1> QED BY <1>1, <1>2, <1>3 DEF Param

(* An argument that a7 holds is tracked only where no slot is out of the   *)
(* reach of an immediate.                                                  *)
LEMMA TrackedFacts ==
  ASSUME NEW p, NEW u, IsUnit(p, u)
  PROVE  /\ Tracked(u) \subseteq 0 .. Len(u.fn.params) - 1
         /\ 7 \in Tracked(u) /\ ~IsNaive(u) => \A off \in 0 .. FrameSize(u) - 1 : Fits(off)
<1>1. Tracked(u) \subseteq 0 .. Len(u.fn.params) - 1
  BY DEF Tracked
<1>2. ASSUME 7 \in Tracked(u), ~IsNaive(u), NEW off \in 0 .. FrameSize(u) - 1 PROVE Fits(off)
  <2>1. Len(u.fn.params) \in Nat /\ 7 \in 0 .. Len(u.fn.params) - 1 /\ Careful(u)
    BY <1>2, ParamHomes DEF Tracked
  <2>2. Fits(FrameSize(u))
    BY <1>2, <2>1 DEF Careful
  <2>3. FrameSize(u) \in Nat /\ FitHalf \in Nat \ {0}
    BY FrameFacts, FitAssumption
  <2> QED BY <2>2, <2>3 DEF Fits
<1> QED BY <1>1, <1>2

(* What a parameter's move must keep, and what it adds.                    *)
Moving(u, i) == Keeps(u) \cup Waiting(u, i + 1) \cup InRegs(u, i)

StageRegs(u, i) == Keeps(u) \cup Waiting(u, i) \cup InRegs(u, i)
StageSlots(u, i) == Saves(u) \cup InSlots(u, i)

LEMMA StageRegsFacts ==
  ASSUME NEW p, NEW u, IsUnit(p, u), NEW i \in 0 .. Len(u.fn.params) - 1
  PROVE  /\ \A q \in Moving(u, i) :
              /\ q \in StageRegs(u, i) /\ q[1] \in Names \ {SP, T5, T6}
              /\ IsNaive(u) => q[1] # T0
              /\ q[1] # HomeReg(u, Param(u, i))
              /\ \A off \in Int : i >= 8 \/ off \in 0 .. FrameSize(u) - 1 =>
                   Fits(off) \/ q[1] # Scratch(u)
         /\ \A q \in StageRegs(u, i) : q[1] \in Names /\ q[1] # T6
         /\ \A q \in StageRegs(u, i + 1) :
              \/ q \in Moving(u, i)
              \/ /\ q = <<HomeReg(u, Param(u, i)), Argument(i)>>
                 /\ i \in Tracked(u) /\ HomeReg(u, Param(u, i)) # NoReg
         /\ i \in Tracked(u) /\ i < 8 => <<A0 + i, Argument(i)>> \in StageRegs(u, i)
<1> DEFINE n == Len(u.fn.params)
           r == HomeReg(u, Param(u, i))
<1>1. /\ CalleeSaved = {8, 9} \cup 18 .. 27 /\ CallerSaved = {5, 6, 7, 28, 29} /\ RA = 1 /\ SP = 2
      /\ A6 = 16 /\ A7 = 17 /\ T5 = 30 /\ T6 = 31 /\ T0 = 5 /\ A0 = 10 /\ Names = 0 .. 31 /\ NoReg = -1
  BY DEF CalleeSaved, CallerSaved, RA, SP, A6, A7, T5, T6, T0, A0, Names, NoReg
<1>2. /\ n \in Nat /\ \A j \in 0 .. n - 1 : Param(u, j) \in Vregs(u.fn)
      /\ \A k, j \in 0 .. n - 1 : k # j /\ HomeReg(u, Param(u, k)) # NoReg =>
           HomeReg(u, Param(u, k)) # HomeReg(u, Param(u, j))
  BY ParamHomes
<1>3. \A j \in 0 .. n - 1 :
        /\ HomeReg(u, Param(u, j)) \in CallerSaved \cup CalleeSaved \cup {NoReg}
        /\ HomeReg(u, Param(u, j)) \in CalleeSaved => HomeReg(u, Param(u, j)) \in Used(u)
        /\ IsNaive(u) => HomeReg(u, Param(u, j)) = NoReg
  BY <1>2, HomeFacts
<1>4. /\ Tracked(u) \subseteq 0 .. n - 1
      /\ 7 \in Tracked(u) /\ ~IsNaive(u) => \A off \in 0 .. FrameSize(u) - 1 : Fits(off)
  BY TrackedFacts
<1>5. i \in 0 .. n - 1 /\ i \in Nat
  BY <1>2
<1>6. r \in CallerSaved \cup CalleeSaved \cup {NoReg} /\ (r \in CalleeSaved => r \in Used(u))
  BY <1>3
<1>7. Scratch(u) = IF IsNaive(u) THEN T6 ELSE A7
  BY DEF Scratch
<1> HIDE DEF n
(* The three kinds of register.                                            *)
<1>8. ASSUME NEW q \in Keeps(u)
      PROVE  q[1] \in CalleeSaved \cup {RA} /\ q[1] # r
  <2>1. q[1] \in (CalleeSaved \cup {RA}) \ Used(u)
    BY KeepsFacts
  <2>2. RA \notin CallerSaved \cup CalleeSaved \cup {NoReg} /\ \A x \in CalleeSaved : x # RA /\ x # NoReg
    BY ONLY <1>1
  <2> HIDE DEF r
  <2>3. CASE r \in CalleeSaved
    BY ONLY <1>6, <2>1, <2>3
  <2>4. CASE r \notin CalleeSaved
    <3>1. r # RA
      BY ONLY <1>6, <2>2
    <3> QED BY ONLY <2>1, <2>4, <3>1
  <2> QED BY <2>3, <2>4
<1>9. ASSUME NEW k \in 0 .. i + 1, NEW q \in Waiting(u, k)
      PROVE  /\ \E j \in Tracked(u) : k =< j /\ j < 8 /\ j \in Nat /\ q = <<A0 + j, A0 + j>>
             /\ q[1] \in 10 .. 17 /\ q[1] # r
  <2>1. PICK j \in Tracked(u) : k =< j /\ j < 8 /\ q = <<A0 + j, A0 + j>>
    BY DEF Waiting
  <2>2. j \in Nat
    BY <1>2, <1>4, <2>1
  <2>3. q[1] = 10 + j
    BY <1>1, <2>1
  <2>4. q[1] \in 10 .. 17
    BY <2>1, <2>2, <2>3
  <2> HIDE DEF r
  <2>5. q[1] # r
    BY <1>1, <1>6, <2>4
  <2> QED BY <2>1, <2>2, <2>4, <2>5
<1>10. ASSUME NEW q \in InRegs(u, i)
       PROVE  q[1] \in CallerSaved \cup CalleeSaved /\ q[1] # r /\ ~IsNaive(u)
  <2>1. PICK j \in Tracked(u) : j < i /\ HomeReg(u, Param(u, j)) # NoReg
                                /\ q = <<HomeReg(u, Param(u, j)), Argument(j)>>
    BY DEF InRegs
  <2>2. j \in 0 .. n - 1 /\ j # i
    BY <1>4, <1>5, <2>1
  <2>3. q[1] = HomeReg(u, Param(u, j))
    BY <2>1
  <2>4. q[1] # r
    BY <1>2, <1>5, <2>1, <2>2, <2>3
  <2> HIDE DEF r
  <2> QED BY <1>3, <2>1, <2>2, <2>3, <2>4
<1>11. ASSUME NEW q \in Moving(u, i)
       PROVE  /\ q \in StageRegs(u, i) /\ q[1] \in Names \ {SP, T5, T6}
              /\ IsNaive(u) => q[1] # T0
              /\ q[1] # r
              /\ \A off \in Int : i >= 8 \/ off \in 0 .. FrameSize(u) - 1 =>
                   Fits(off) \/ q[1] # Scratch(u)
  <2>1. CASE q \in Keeps(u)
    <3>1. q \in StageRegs(u, i) /\ q[1] \in CalleeSaved \cup {RA} /\ q[1] # r
      BY <1>8, <2>1 DEF StageRegs
    <3> HIDE DEF r
    <3>2. q[1] \in Names \ {SP, T5, T6} /\ q[1] # T0 /\ q[1] # Scratch(u)
      <4> DEFINE x == q[1]
      <4>1. x \in {1, 8, 9} \cup 18 .. 27
        BY ONLY <1>1, <3>1
      <4>2. Scratch(u) \in {17, 31}
        BY ONLY <1>1, <1>7
      <4> HIDE DEF x
      <4>3. x \in Names \ {SP, T5, T6} /\ x # T0
        BY ONLY <1>1, <4>1
      <4>4. x # Scratch(u)
        BY ONLY <4>1, <4>2
      <4> QED BY <4>3, <4>4 DEF x
    <3> QED BY <3>1, <3>2
  <2>2. CASE q \in InRegs(u, i)
    <3>1. q \in StageRegs(u, i) /\ q[1] \in CallerSaved \cup CalleeSaved /\ q[1] # r /\ ~IsNaive(u)
      BY <1>10, <2>2 DEF StageRegs
    <3> HIDE DEF r
    <3>2. q[1] \in Names \ {SP, T5, T6} /\ q[1] # Scratch(u)
      <4> DEFINE x == q[1]
      <4>1. x \in {5, 6, 7, 28, 29, 8, 9} \cup 18 .. 27
        BY ONLY <1>1, <3>1
      <4>2. Scratch(u) \in {17, 31}
        BY ONLY <1>1, <1>7
      <4> HIDE DEF x
      <4>3. x \in Names \ {SP, T5, T6}
        BY ONLY <1>1, <4>1
      <4>4. x # Scratch(u)
        BY ONLY <4>1, <4>2
      <4> QED BY <4>3, <4>4 DEF x
    <3> QED BY <3>1, <3>2
  <2>3. CASE q \in Waiting(u, i + 1)
    <3>0. i + 1 \in 0 .. i + 1 /\ i \in 0 .. i + 1
      BY <1>5
    <3>1. PICK j \in Tracked(u) : i + 1 =< j /\ j < 8 /\ j \in Nat /\ q = <<A0 + j, A0 + j>>
      BY <1>9, <2>3, <3>0
    <3>2. q[1] \in 10 .. 17 /\ q[1] # r /\ q[1] = 10 + j
      BY <1>1, <1>9, <2>3, <3>0, <3>1
    <3>3. q \in StageRegs(u, i)
      <4>1. i =< j
        BY <1>5, <3>1
      <4>2. q \in Waiting(u, i)
        BY <3>1, <4>1 DEF Waiting
      <4> QED BY <4>2 DEF StageRegs
    <3> HIDE DEF r
    <3>4. ASSUME NEW off \in Int, i >= 8 \/ off \in 0 .. FrameSize(u) - 1
          PROVE  Fits(off) \/ q[1] # Scratch(u)
      <4>1. CASE j = 7 /\ ~IsNaive(u)
        <5>1. 7 \in Tracked(u) /\ ~(i >= 8)
          BY <1>5, <3>1, <4>1
        <5> QED BY <1>4, <3>4, <4>1, <5>1
      <4>2. CASE j # 7
        BY <1>1, <1>7, <3>1, <3>2, <4>2
      <4>3. CASE IsNaive(u)
        BY <1>1, <1>7, <3>2, <4>3
      <4> QED BY <4>1, <4>2, <4>3
    <3> QED BY <1>1, <3>2, <3>3, <3>4
  <2> QED BY <2>1, <2>2, <2>3 DEF Moving
<1>12. ASSUME NEW q \in StageRegs(u, i) PROVE q[1] \in Names /\ q[1] # T6
  <2>1. i \in 0 .. i + 1
    BY <1>5
  <2>2. q[1] \in CalleeSaved \cup {RA} \/ q[1] \in 10 .. 17 \/ q[1] \in CallerSaved \cup CalleeSaved
    BY <1>8, <1>9, <1>10, <2>1 DEF StageRegs
  <2>3. q[1] \in CalleeSaved \cup {RA} \cup CallerSaved => q[1] \in Names /\ q[1] # T6
    <3>1. CalleeSaved \cup {RA} \cup CallerSaved = {1, 5, 6, 7, 8, 9, 28, 29} \cup 18 .. 27
      BY ONLY <1>1
    <3>2. {1, 5, 6, 7, 8, 9, 28, 29} \cup 18 .. 27 \subseteq Names \ {T6}
      BY ONLY <1>1
    <3> QED BY ONLY <3>1, <3>2
  <2>4. q[1] \in 10 .. 17 => q[1] \in Names /\ q[1] # T6
    BY ONLY <1>1
  <2> QED BY <2>2, <2>3, <2>4
<1>13. ASSUME NEW q \in StageRegs(u, i + 1), q \notin Moving(u, i)
       PROVE  q = <<r, Argument(i)>> /\ i \in Tracked(u) /\ r # NoReg
  <2>1. q \in InRegs(u, i + 1) /\ q \notin InRegs(u, i)
    BY <1>13 DEF StageRegs, Moving
  <2>2. PICK j \in Tracked(u) : j < i + 1 /\ HomeReg(u, Param(u, j)) # NoReg
                                /\ q = <<HomeReg(u, Param(u, j)), Argument(j)>>
    BY <2>1 DEF InRegs
  <2>3. ~(j < i)
    BY <2>1, <2>2 DEF InRegs
  <2>4. j = i
    BY <1>2, <1>4, <1>5, <2>2, <2>3
  <2> QED BY <2>2, <2>4
<1>14. ASSUME i \in Tracked(u), i < 8 PROVE <<A0 + i, Argument(i)>> \in StageRegs(u, i)
  <2>1. Argument(i) = A0 + i /\ i =< i
    BY <1>5, <1>14 DEF Argument
  <2>2. <<A0 + i, A0 + i>> \in Waiting(u, i)
    BY <1>14, <2>1 DEF Waiting
  <2> QED BY <2>1, <2>2 DEF StageRegs
<1> QED BY <1>11, <1>12, <1>13, <1>14

LEMMA SavesFacts ==
  ASSUME NEW p, NEW u, IsUnit(p, u), NEW q \in Saves(u)
  PROVE  q[1] \in Int /\ Locals(u) =< q[1] /\ q[1] < FrameSize(u) /\ q[2] \in CalleeSaved \cup {RA}
<1>1. /\ Locals(u) \in Nat /\ RaSlot(u) \in Nat /\ Locals(u) =< RaSlot(u) /\ RaSlot(u) =< FrameSize(u)
      /\ FrameSize(u) \in Int /\ (~Leaf(u) => RaSlot(u) < FrameSize(u))
  BY FrameFacts
<1>2. CASE q \in SavedRa(u)
  <2>1. ~Leaf(u) /\ q[1] = RaSlot(u) /\ q[2] = RA
    BY <1>2 DEF SavedRa
  <2> QED BY <1>1, <2>1
<1>3. CASE ~IsNaive(u) /\ q \in SavedRegs(u, Len(u.al.usedCallee))
  <2>1. u.al.usedCallee \in Seq(CalleeSaved)
    BY <1>3 DEF IsUnit, IsAllocation
  <2>2. PICK k \in 1 .. Len(u.al.usedCallee) :
          q = <<Layout(u).calleeBase + k - 1, u.al.usedCallee[k]>>
    BY <1>3 DEF SavedRegs
  <2>3. Layout(u).calleeBase = Locals(u) /\ RaSlot(u) = Locals(u) + Len(u.al.usedCallee)
    BY <1>3, OptParts
  <2>4. q[1] = Locals(u) + k - 1 /\ q[2] = u.al.usedCallee[k]
    BY <2>2, <2>3
  <2>5. Len(u.al.usedCallee) \in Nat /\ u.al.usedCallee[k] \in CalleeSaved
    BY <2>1
  <2> QED BY <1>1, <2>3, <2>4, <2>5
<1> QED BY <1>2, <1>3 DEF Saves

LEMMA StageSlotsFacts ==
  ASSUME NEW p, NEW u, IsUnit(p, u), NEW i \in 0 .. Len(u.fn.params) - 1
  PROVE  /\ HomeReg(u, Param(u, i)) = NoReg =>
              HomeSlot(u, Param(u, i)) \in 0 .. FrameSize(u) - 1
         /\ \A q \in StageSlots(u, i) :
              /\ q[1] \in Int
              /\ HomeReg(u, Param(u, i)) = NoReg => q[1] # HomeSlot(u, Param(u, i))
         /\ \A q \in StageSlots(u, i + 1) :
              \/ q \in StageSlots(u, i)
              \/ /\ q = <<HomeSlot(u, Param(u, i)), Argument(i)>>
                 /\ i \in Tracked(u) /\ HomeReg(u, Param(u, i)) = NoReg
<1> DEFINE n == Len(u.fn.params)
           r == HomeReg(u, Param(u, i))
           slot == HomeSlot(u, Param(u, i))
<1>1. /\ n \in Nat /\ \A j \in 0 .. n - 1 : Param(u, j) \in Vregs(u.fn)
      /\ \A k, j \in 0 .. n - 1 : k # j /\ HomeReg(u, Param(u, k)) = NoReg
                                   /\ HomeReg(u, Param(u, j)) = NoReg =>
           HomeSlot(u, Param(u, k)) # HomeSlot(u, Param(u, j))
  BY ParamHomes
<1>2. Tracked(u) \subseteq 0 .. n - 1
  BY TrackedFacts
<1>3. i \in 0 .. n - 1 /\ i \in Nat
  BY <1>1
<1>4. /\ Locals(u) \in Nat /\ Outgoing(u) \in Nat /\ FrameSize(u) \in Int
      /\ Locals(u) =< FrameSize(u)
      /\ \A j \in 0 .. n - 1 : HomeReg(u, Param(u, j)) = NoReg =>
           HomeSlot(u, Param(u, j)) \in Outgoing(u) .. Locals(u) - 1
  BY <1>1, FrameFacts
<1> HIDE DEF n
<1>5. r = NoReg => slot \in Int /\ slot < Locals(u) /\ slot \in 0 .. FrameSize(u) - 1
  <2>1. r = NoReg => slot \in Outgoing(u) .. Locals(u) - 1
    BY <1>3, <1>4
  <2> HIDE DEF r, slot
  <2> QED BY <1>4, <2>1
<1>6. ASSUME NEW q \in StageSlots(u, i) PROVE q[1] \in Int /\ (r = NoReg => q[1] # slot)
  <2>1. CASE q \in Saves(u)
    <3>1. q[1] \in Int /\ Locals(u) =< q[1]
      BY <2>1, SavesFacts
    <3> HIDE DEF slot, r
    <3> QED BY <1>4, <1>5, <3>1
  <2>2. CASE q \in InSlots(u, i)
    <3>1. PICK j \in Tracked(u) : j < i /\ HomeReg(u, Param(u, j)) = NoReg
                                  /\ q = <<HomeSlot(u, Param(u, j)), Argument(j)>>
      BY <2>2 DEF InSlots
    <3>2. j \in 0 .. n - 1 /\ j # i
      BY <1>2, <1>3, <3>1
    <3>3. q[1] = HomeSlot(u, Param(u, j))
      BY <3>1
    <3>4. q[1] \in Int
      BY <1>4, <3>1, <3>2, <3>3
    <3> QED BY <1>1, <1>3, <3>1, <3>2, <3>3, <3>4
  <2> QED BY <2>1, <2>2 DEF StageSlots
<1>7. ASSUME NEW q \in StageSlots(u, i + 1), q \notin StageSlots(u, i)
      PROVE  q = <<slot, Argument(i)>> /\ i \in Tracked(u) /\ r = NoReg
  <2>1. q \in InSlots(u, i + 1) /\ q \notin InSlots(u, i)
    BY <1>7 DEF StageSlots
  <2>2. PICK j \in Tracked(u) : j < i + 1 /\ HomeReg(u, Param(u, j)) = NoReg
                                /\ q = <<HomeSlot(u, Param(u, j)), Argument(j)>>
    BY <2>1 DEF InSlots
  <2>3. ~(j < i)
    BY <2>1, <2>2 DEF InSlots
  <2>4. j = i
    BY <1>1, <1>2, <1>3, <2>2, <2>3
  <2> QED BY <2>2, <2>4
<1> QED BY <1>5, <1>6, <1>7

(* A parameter moves.                                                      *)
LEMMA MvStep ==
  ASSUME NEW p, NEW u, NEW d, NEW K, NEW K1, NEW S, NEW r \in Names \ {SP}, NEW x \in Names,
         \A q \in K1 : q[1] \in Names,
         \A q \in K1 : (q \in K /\ q[1] # r) \/ (q[1] = r /\ <<x, q[2]>> \in K)
  PROVE  Walk(p, MoveTo(r, x), At(u, d, K, S), At(u, d, K1, S))
<1> DEFINE A == At(u, d, K, S)
           B == At(u, d, K1, S)
           i == RR("mv", r, x)
<1>1. A \in SUBSET Legal /\ B \in SUBSET Legal
  BY AtLegal
<1>2. CASE r = x
  <2>1. \A q \in K1 : q[1] = r => \A s, f : Holds(s, f, d, K, S) => s.r[q[1]] = Given(f, q[2])
    <3> TAKE q \in K1
    <3> HAVE q[1] = r
    <3> TAKE s, f
    <3> HAVE Holds(s, f, d, K, S)
    <3>1. <<x, q[2]>> \in K \/ q \in K
      OBVIOUS
    <3>2. CASE q \in K
      BY <3>2 DEF Holds
    <3>3. CASE <<x, q[2]>> \in K
      <4> DEFINE y == <<x, q[2]>>
      <4>1. y \in K /\ y[1] = r /\ y[2] = q[2]
        BY <1>2, <3>3
      <4> HIDE DEF y
      <4>2. s.r[y[1]] = Given(f, y[2])
        BY <4>1 DEF Holds
      <4> QED BY <4>1, <4>2
    <3> QED BY <3>1, <3>2, <3>3
  <2>2. ASSUME NEW s, NEW f, Holds(s, f, d, K, S) PROVE Holds(s, f, d, K1, S)
    <3>1. ASSUME NEW q \in K1 PROVE s.r[q[1]] = Given(f, q[2])
      <4>1. CASE q[1] = r
        BY <2>1, <2>2, <4>1
      <4>2. CASE q \in K
        BY <2>2, <4>2 DEF Holds
      <4> QED BY <4>1, <4>2
    <3> QED BY <2>2, <3>1 DEF Holds
  <2>3. A \subseteq B
    BY <2>2 DEF At
  <2>4. Walk(p, << >>, A, A)
    BY <1>1, WalkNone
  <2>5. Walk(p, << >>, A, B)
    BY <2>3, <2>4, WalkWeaker
  <2> QED BY <1>2, <2>5 DEF MoveTo
<1>3. CASE r # x
  <2>1. i \in Instructions /\ i.op = "mv" /\ i.rd = r /\ i.rs = x /\ i.n = 0
    BY StackFacts DEF Instructions, Mnemonics, Computing, RR, RRI
  <2>2. ASSUME NEW y \in A PROVE <<After(i, y[1]), y[2]>> \in B
    <3> DEFINE w == y[1].r[x]
    <3>1. After(i, y[1]) = [y[1] EXCEPT !.r[r] = w]
      BY <2>1 DEF After, Computed
    <3>2. w \in Words
      BY AtFacts
    <3>3. \A q \in K1 : (q \in K /\ q[1] # r) \/ (q[1] = r /\ Given(y[2], q[2]) = w)
      <4> TAKE q \in K1
      <4>1. CASE q \in K /\ q[1] # r
        BY <4>1
      <4>2. CASE q[1] = r /\ <<x, q[2]>> \in K
        <5> DEFINE z == <<x, q[2]>>
        <5>1. z \in K /\ z[1] = x /\ z[2] = q[2]
          BY <4>2
        <5> HIDE DEF z
        <5>2. Holds(y[1], y[2], d, K, S)
          BY AtFacts
        <5>3. y[1].r[z[1]] = Given(y[2], z[2])
          BY <5>1, <5>2 DEF Holds
        <5> QED BY <4>2, <5>1, <5>3
      <4> QED BY <4>1, <4>2
    <3> HIDE DEF w
    <3>4. <<[y[1] EXCEPT !.r[r] = w], y[2]>> \in At(u, d, K1, S)
      BY <3>2, <3>3, WriteReg
    <3> QED BY <3>1, <3>4
  <2> HIDE DEF A, B, i
  <2>3. StraightStep(i, A, B)
    BY <2>1, <2>2 DEF StraightStep
  <2>4. Step(p, i, A, B)
    BY <2>1, <2>3 DEF Step, Computing
  <2>5. Walk(p, <<i>>, A, B)
    BY <1>1, <2>1, <2>4, WalkOne
  <2> QED BY <1>3, <2>5 DEF MoveTo, A, B, i
<1> QED BY <1>2, <1>3

LEMMA ParamWalk ==
  ASSUME NEW p, NEW u, IsUnit(p, u), NEW i \in 0 .. Len(u.fn.params) - 1
  PROVE  Walk(p, ParamCode(u, i), Stage(u, i), Stage(u, i + 1))
<1> DEFINE d == FrameSize(u)
           r == HomeReg(u, Param(u, i))
           slot == HomeSlot(u, Param(u, i))
           w == Argument(i)
           t == Scratch(u)
           via == Via(u)
           off == d + i - 8
           K == StageRegs(u, i)
           K1 == StageRegs(u, i + 1)
           M == Moving(u, i)
           S == StageSlots(u, i)
           S1 == StageSlots(u, i + 1)
           id == u.id
           tracked == i \in Tracked(u)
           load(x) == Accessing("lw", x, off, t)
           store(x) == Accessing("sw", x, slot, t)
<1>1. Stage(u, i) = At(id, d, K, S) /\ Stage(u, i + 1) = At(id, d, K1, S1)
  BY DEF Stage, StageRegs, StageSlots
<1>2. /\ d \in 0 .. Deepest /\ d \in Nat /\ i \in Nat /\ Len(u.fn.params) \in Nat
      /\ d + Len(u.fn.params) =< Deepest /\ i < Len(u.fn.params)
  BY FrameFacts, ParamHomes, StackFacts
<1>3. i >= 8 => off \in Words /\ off >= d /\ off >= 0 /\ w = 32 + (off - d) /\ off \in Int
  <2> SUFFICES ASSUME i >= 8
               PROVE  off \in Words /\ off >= d /\ off >= 0 /\ w = 32 + (off - d) /\ off \in Int
    OBVIOUS
  <2>1. off = d + (i - 8) /\ w = 32 + (i - 8)
    BY <1>2 DEF Argument
  <2>2. Deepest \in Nat /\ Half \in Nat /\ Deepest < Half
    BY StackFacts
  <2> DEFINE m == Len(u.fn.params)
             top == Deepest
  <2>0. d \in Nat /\ i \in Nat /\ m \in Nat /\ top \in Nat /\ d + m =< top /\ i < m /\ i >= 8 /\ top < Half
    BY <1>2, <2>2
  <2> HIDE DEF off, w, d, m, top
  <2>3. off \in Int /\ off >= d /\ off >= 0 /\ off < Half
    BY ONLY <2>0, <2>1, <2>2
  <2>4. w = 32 + (off - d)
    BY ONLY <2>0, <2>1
  <2>5. off \in Words
    BY ONLY <2>2, <2>3 DEF Words
  <2> QED BY <2>3, <2>4, <2>5
<1>4. r # NoReg => r \in Names \ {SP}
  BY HomeFacts, ParamHomes
<1>5. t \in Names \ {SP} /\ via \in Names \ {SP} /\ via # t /\ \A q : q[1] # via \/ q[1] # t
  BY DEF Scratch, Via, Names, SP, T0, T5, T6, A7
<1>6. /\ \A q \in M : /\ q \in K /\ q[1] \in Names /\ q[1] # via /\ q[1] # r
                      /\ i >= 8 => Fits(off) \/ q[1] # t
                      /\ r = NoReg => Fits(slot) \/ q[1] # t
      /\ \A q \in K : q[1] \in Names
      /\ \A q \in K1 : q \in M \/ (q = <<r, w>> /\ tracked /\ r # NoReg)
      /\ tracked /\ i < 8 => <<A0 + i, w>> \in K
  <2>1. r = NoReg => slot \in 0 .. d - 1 /\ slot \in Int
    BY StageSlotsFacts
  <2>2. ASSUME NEW q \in M
        PROVE  /\ q \in K /\ q[1] \in Names /\ q[1] # via /\ q[1] # r
               /\ i >= 8 => Fits(off) \/ q[1] # t
               /\ r = NoReg => Fits(slot) \/ q[1] # t
    <3>1. /\ q \in K /\ q[1] \in Names \ {SP, T5, T6} /\ (IsNaive(u) => q[1] # T0) /\ q[1] # r
          /\ \A n \in Int : i >= 8 \/ n \in 0 .. d - 1 => Fits(n) \/ q[1] # t
      BY StageRegsFacts
    <3>2. q[1] # via
      BY <3>1 DEF Via
    <3> HIDE DEF r, slot, off, t, M, K, via, d
    <3> QED BY <1>3, <2>1, <3>1, <3>2
  <2>3. /\ \A q \in K : q[1] \in Names
        /\ \A q \in K1 : q \in M \/ (q = <<r, w>> /\ tracked /\ r # NoReg)
        /\ tracked /\ i < 8 => <<A0 + i, w>> \in K
    BY StageRegsFacts
  <2> QED BY <2>2, <2>3
<1>7. /\ r = NoReg => slot \in 0 .. d - 1
      /\ \A q \in S : q[1] \in Int /\ (r = NoReg => q[1] # slot)
      /\ \A q \in S1 : q \in S \/ (q = <<slot, w>> /\ tracked /\ r = NoReg)
  BY StageSlotsFacts
<1>8. i < 8 => A0 + i \in Names
  BY <1>2 DEF A0, Names
<1>9. ParamCode(u, i) = CASE i < 8 /\ r # NoReg -> MoveTo(r, A0 + i)
                          [] i < 8 /\ r = NoReg -> store(A0 + i)
                          [] i >= 8 /\ r # NoReg -> load(r)
                          [] OTHER -> load(via) \o store(via)
  BY DEF ParamCode
<1>10. i = 7 /\ tracked /\ t = A7 /\ r = NoReg => Fits(slot)
  <2>1. t = A7 => ~IsNaive(u)
    BY DEF Scratch, A7, T6
  <2>2. i = 7 /\ tracked => 7 \in Tracked(u)
    OBVIOUS
  <2> HIDE DEF slot, r, t, tracked
  <2> QED BY <1>7, <2>1, <2>2, TrackedFacts
<1>14. i < 8 /\ A0 + i = t => i = 7 /\ t = A7
  BY <1>2 DEF Scratch, A0, A7, T6
<1> HIDE DEF d, r, slot, w, t, via, off, K, K1, M, S, S1, id
<1>11. CASE i < 8 /\ r # NoReg
  <2>1. S1 \subseteq S
    BY <1>7, <1>11
  <2>2. /\ \A q \in K1 : q[1] \in Names
        /\ \A q \in K1 : (q \in K /\ q[1] # r) \/ (q[1] = r /\ <<A0 + i, q[2]>> \in K)
    <3> SUFFICES ASSUME NEW q \in K1
                 PROVE  q[1] \in Names /\ ((q \in K /\ q[1] # r) \/ (q[1] = r /\ <<A0 + i, q[2]>> \in K))
      OBVIOUS
    <3>1. CASE q \in M
      BY <1>6, <3>1
    <3>2. CASE q = <<r, w>> /\ tracked
      <4>1. q[1] = r /\ q[2] = w
        BY <3>2
      <4> QED BY <1>4, <1>6, <1>11, <3>2, <4>1
    <3> QED BY <1>6, <3>1, <3>2
  <2>3. Walk(p, MoveTo(r, A0 + i), At(id, d, K, S), At(id, d, K1, S))
    BY <1>4, <1>8, <1>11, <2>2, MvStep
  <2>4. At(id, d, K1, S) \subseteq At(id, d, K1, S1)
    BY <2>1 DEF At, Holds
  <2>5. Walk(p, MoveTo(r, A0 + i), At(id, d, K, S), At(id, d, K1, S1))
    BY <2>3, <2>4, WalkWeaker
  <2> QED BY <1>1, <1>9, <1>11, <2>5
<1>12. CASE i < 8 /\ r = NoReg
  <2>1. slot \in 0 .. d - 1 /\ A0 + i \in Names
    BY <1>7, <1>8, <1>12
  <2>2. \A q \in K1 : q \in K /\ (Fits(slot) \/ q[1] # t)
    BY <1>6, <1>12
  <2>3. ASSUME NEW q \in S1
        PROVE  \/ q \in S /\ q[1] # slot
               \/ q[1] = slot /\ <<A0 + i, q[2]>> \in K /\ (Fits(slot) \/ A0 + i # t)
    <3>1. CASE q \in S
      BY <1>7, <1>12, <3>1
    <3>2. CASE q = <<slot, w>> /\ tracked
      <4>1. q[1] = slot /\ q[2] = w
        BY <3>2
      <4>2. Fits(slot) \/ A0 + i # t
        BY <1>10, <1>12, <1>14, <3>2
      <4> QED BY <1>6, <1>12, <3>2, <4>1, <4>2
    <3> QED BY <1>7, <3>1, <3>2
  <2>4. (\A q \in K : q[1] \in Names) /\ \A q \in S : q[1] \in Int
    BY <1>6, <1>7
  <2> DEFINE a == A0 + i
  <2>5. a \in Names /\ \A q \in S1 : \/ q \in S /\ q[1] # slot
                                     \/ q[1] = slot /\ <<a, q[2]>> \in K /\ (Fits(slot) \/ a # t)
    BY <2>1, <2>3
  <2> HIDE DEF a
  <2>6. Walk(p, store(a), At(id, d, K, S), At(id, d, K1, S1))
    BY ONLY <1>2, <1>5, <2>1, <2>2, <2>4, <2>5, StoreWalk
  <2> QED BY <1>1, <1>9, <1>12, <2>6 DEF a
<1>13. CASE i >= 8 /\ r # NoReg
  <2>1. S1 \subseteq S
    BY <1>7, <1>13
  <2>2. ASSUME NEW q \in K1
        PROVE  /\ q[1] \in Names
               /\ \/ q \in K /\ q[1] # r /\ (Fits(off) \/ q[1] # t)
                  \/ q[1] = r /\ Found(d, S, off, q[2])
    <3>1. CASE q \in M
      BY <1>6, <1>13, <3>1
    <3>2. CASE q = <<r, w>>
      <4>1. q[1] = r /\ q[2] = w
        BY <3>2
      <4>2. Found(d, S, off, w)
        BY <1>3, <1>13 DEF Found
      <4> QED BY <1>4, <1>13, <4>1, <4>2
    <3> QED BY <1>6, <3>1, <3>2
  <2>3. /\ off \in Words /\ off >= 0 /\ r \in Names \ {SP} /\ \A q \in K : q[1] \in Names
        /\ \A q \in K1 : q[1] \in Names
        /\ \A q \in K1 : \/ q \in K /\ q[1] # r /\ (Fits(off) \/ q[1] # t)
                         \/ q[1] = r /\ Found(d, S, off, q[2])
    BY <1>3, <1>4, <1>6, <1>13, <2>2
  <2>4. Walk(p, load(r), At(id, d, K, S), At(id, d, K1, S))
    BY ONLY <1>2, <1>5, <2>3, LoadWalk
  <2>5. At(id, d, K1, S) \subseteq At(id, d, K1, S1)
    BY <2>1 DEF At, Holds
  <2>6. Walk(p, load(r), At(id, d, K, S), At(id, d, K1, S1))
    BY <2>4, <2>5, WalkWeaker
  <2>7. ~(i < 8 /\ r # NoReg) /\ ~(i < 8 /\ r = NoReg)
    BY <1>2, <1>13
  <2> QED BY <1>1, <1>9, <1>13, <2>6, <2>7
<1>15. CASE i >= 8 /\ r = NoReg
  <2> DEFINE K2 == M \cup (IF tracked THEN {<<via, w>>} ELSE {})
  <2>1. ASSUME NEW q \in K2
        PROVE  /\ q[1] \in Names
               /\ \/ q \in K /\ q[1] # via /\ (Fits(off) \/ q[1] # t)
                  \/ q[1] = via /\ Found(d, S, off, q[2])
    <3>1. CASE q \in M
      BY <1>6, <1>15, <3>1
    <3>2. CASE q = <<via, w>>
      <4>1. q[1] = via /\ q[2] = w
        BY <3>2
      <4>2. Found(d, S, off, w)
        BY <1>3, <1>15 DEF Found
      <4> QED BY <1>5, <4>1, <4>2
    <3> QED BY <3>1, <3>2
  <2>2. /\ off \in Words /\ off >= 0 /\ \A q \in K : q[1] \in Names
        /\ \A q \in K2 : q[1] \in Names
        /\ \A q \in K2 : \/ q \in K /\ q[1] # via /\ (Fits(off) \/ q[1] # t)
                         \/ q[1] = via /\ Found(d, S, off, q[2])
    BY <1>3, <1>6, <1>15, <2>1
  <2>3. \A q \in K1 : q \in K2 /\ (Fits(slot) \/ q[1] # t)
    BY <1>6, <1>15
  <2>4. ASSUME NEW q \in S1
        PROVE  \/ q \in S /\ q[1] # slot
               \/ q[1] = slot /\ <<via, q[2]>> \in K2 /\ (Fits(slot) \/ via # t)
    <3>1. CASE q \in S
      BY <1>7, <1>15, <3>1
    <3>2. CASE q = <<slot, w>> /\ tracked
      <4>1. q[1] = slot /\ q[2] = w
        BY <3>2
      <4> QED BY <1>5, <3>2, <4>1
    <3> QED BY <1>7, <3>1, <3>2
  <2>5. slot \in 0 .. d - 1 /\ \A q \in S : q[1] \in Int
    BY <1>7, <1>15
  <2> HIDE DEF K2
  <2>6. Walk(p, load(via), At(id, d, K, S), At(id, d, K2, S))
    BY ONLY <1>2, <1>5, <2>2, LoadWalk
  <2>7. Walk(p, store(via), At(id, d, K2, S), At(id, d, K1, S1))
    <3>1. via \in Names
      BY <1>5
    <3> QED BY ONLY <1>2, <1>5, <2>2, <2>3, <2>4, <2>5, <3>1, StoreWalk
  <2>8. Walk(p, load(via) \o store(via), At(id, d, K, S), At(id, d, K1, S1))
    BY <2>6, <2>7, WalkBoth
  <2>9. ~(i < 8 /\ r # NoReg) /\ ~(i < 8 /\ r = NoReg) /\ ~(i >= 8 /\ r # NoReg)
    BY <1>2, <1>15
  <2> QED BY <1>1, <1>9, <2>8, <2>9
<1> QED BY <1>2, <1>11, <1>12, <1>13, <1>15

-----------------------------------------------------------------------------
(* The prologue.                                                           *)
Origin(u) == {<<x, x>> : x \in CalleeSaved \cup {RA}} \cup Waiting(u, 0)
Saving(u, k) == At(u.id, FrameSize(u), Origin(u), SavedRa(u) \cup SavedRegs(u, k))

LEMMA OriginFacts ==
  ASSUME NEW p, NEW u, IsUnit(p, u)
  PROVE  /\ Origin(u) \subseteq Handed
         /\ \A q \in Handed : q[1] \in Names \ {SP, T6} /\ q[1] \in Names
         /\ \A q \in Origin(u) : \A off \in 0 .. FrameSize(u) - 1 : Fits(off) \/ q[1] # Scratch(u)
         /\ \A q \in Origin(u) : q[1] \in Names
         /\ StageRegs(u, 0) \subseteq Origin(u) /\ InRegs(u, 0) = {} /\ InSlots(u, 0) = {}
<1>1. /\ CalleeSaved = {8, 9} \cup 18 .. 27 /\ RA = 1 /\ SP = 2 /\ A7 = 17 /\ T6 = 31 /\ A0 = 10
      /\ Names = 0 .. 31 /\ A0 .. A7 = 10 .. 17
  BY DEF CalleeSaved, RA, SP, A7, T6, A0, Names
<1>2. Scratch(u) = IF IsNaive(u) THEN T6 ELSE A7
  BY DEF Scratch
<1>3. /\ Tracked(u) \subseteq 0 .. Len(u.fn.params) - 1 /\ Len(u.fn.params) \in Nat
      /\ 7 \in Tracked(u) /\ ~IsNaive(u) => \A off \in 0 .. FrameSize(u) - 1 : Fits(off)
  BY TrackedFacts, ParamHomes
<1>4. ASSUME NEW q \in Waiting(u, 0)
      PROVE  q \in Handed /\ \A off \in 0 .. FrameSize(u) - 1 : Fits(off) \/ q[1] # Scratch(u)
  <2>1. PICK j \in Tracked(u) : 0 =< j /\ j < 8 /\ q = <<A0 + j, A0 + j>>
    BY DEF Waiting
  <2>2. j \in Nat
    BY <1>3, <2>1
  <2>3. q[1] = 10 + j /\ A0 + j \in A0 .. A7
    BY <1>1, <2>1, <2>2
  <2>4. q \in Handed
    BY <2>1, <2>3 DEF Handed
  <2>5. ASSUME NEW off \in 0 .. FrameSize(u) - 1 PROVE Fits(off) \/ q[1] # Scratch(u)
    <3>1. CASE j = 7 /\ ~IsNaive(u)
      BY <1>3, <2>1, <3>1
    <3>2. CASE j # 7 \/ IsNaive(u)
      BY <1>1, <1>2, <2>1, <2>2, <2>3, <3>2
    <3> QED BY <3>1, <3>2
  <2> QED BY <2>4, <2>5
<1>5. ASSUME NEW x \in CalleeSaved \cup {RA}, NEW q, q = <<x, x>>
      PROVE  q \in Handed /\ q[1] # Scratch(u)
  <2>1. q \in Handed
    BY <1>5 DEF Handed
  <2>2. q[1] = x
    BY <1>5
  <2>3. x # A7 /\ x # T6
    BY <1>1
  <2> QED BY <1>2, <2>1, <2>2, <2>3
<1>6. Origin(u) \subseteq Handed
  BY <1>4, <1>5 DEF Origin
<1>7. ASSUME NEW q \in Handed PROVE q[1] \in Names \ {SP, T6} /\ q[1] \in Names
  <2>1. PICK x \in CalleeSaved \cup {RA} \cup A0 .. A7 : q = <<x, x>>
    BY DEF Handed
  <2>2. q[1] = x
    BY <2>1
  <2>3. x \in Names \ {SP, T6}
    BY <1>1
  <2> QED BY <2>2, <2>3
<1>8. \A q \in Origin(u) : \A off \in 0 .. FrameSize(u) - 1 : Fits(off) \/ q[1] # Scratch(u)
  BY <1>4, <1>5 DEF Origin
<1>9. InRegs(u, 0) = {} /\ InSlots(u, 0) = {}
  <2>1. \A j \in Tracked(u) : ~(j < 0)
    BY <1>3
  <2> QED BY <2>1 DEF InRegs, InSlots
<1>10. Keeps(u) \subseteq Origin(u)
  BY DEF Keeps, Origin
<1> QED BY <1>6, <1>7, <1>8, <1>9, <1>10 DEF StageRegs, Origin

LEMMA SaveRaWalk ==
  ASSUME NEW p, NEW u, IsUnit(p, u)
  PROVE  Walk(p, IF Leaf(u) THEN << >> ELSE Accessing("sw", RA, RaSlot(u), Scratch(u)),
              At(u.id, FrameSize(u), Origin(u), {}),
              At(u.id, FrameSize(u), Origin(u), SavedRa(u)))
<1> DEFINE d == FrameSize(u)
           t == Scratch(u)
           off == RaSlot(u)
           K == Origin(u)
           id == u.id
           S == {}
           S1 == SavedRa(u)
<1>1. CASE Leaf(u)
  <2>1. At(id, d, K, {}) \in SUBSET Legal
    BY AtLegal
  <2> QED BY <1>1, <2>1, WalkNone DEF SavedRa
<1>2. CASE ~Leaf(u)
  <2>1. d \in 0 .. Deepest /\ off \in 0 .. d - 1
    BY <1>2, FrameFacts
  <2>2. RA \in Names /\ t \in Names \ {SP} /\ RA # t
    BY DEF RA, Scratch, Names, SP, T6, A7
  <2>3. \A q \in K : q[1] \in Names /\ (Fits(off) \/ q[1] # t)
    <3> HIDE DEF K, off, t, d
    <3> QED BY <2>1, OriginFacts DEF K, t, d
  <2>4. \A q \in S1 : q[1] = off /\ <<RA, q[2]>> \in K
    BY <1>2 DEF SavedRa, Origin
  <2>5. /\ \A q \in K : q[1] \in Names
        /\ \A q \in S : q[1] \in Int
        /\ \A q \in K : q \in K /\ (Fits(off) \/ q[1] # t)
        /\ \A q \in S1 : \/ q \in S /\ q[1] # off
                         \/ q[1] = off /\ <<RA, q[2]>> \in K /\ (Fits(off) \/ RA # t)
    BY <2>2, <2>3, <2>4
  <2> HIDE DEF d, t, off, K, id, S, S1
  <2>6. Walk(p, Accessing("sw", RA, off, t), At(id, d, K, S), At(id, d, K, S1))
    BY ONLY <2>1, <2>2, <2>5, StoreWalk
  <2> QED BY <1>2, <2>6 DEF d, t, off, K, id, S, S1
<1> QED BY <1>1, <1>2

LEMMA UsedFacts ==
  ASSUME NEW p, NEW u, IsUnit(p, u), ~IsNaive(u)
  PROVE  /\ u.al.usedCallee \in Seq(CalleeSaved) /\ Len(u.al.usedCallee) \in Nat
         /\ DOMAIN u.al.usedCallee = 1 .. Len(u.al.usedCallee)
         /\ \A k \in 1 .. Len(u.al.usedCallee) :
              /\ u.al.usedCallee[k] \in CalleeSaved
              /\ u.al.usedCallee[k] \in Names \ {SP, A7} /\ u.al.usedCallee[k] # RA
              /\ Layout(u).calleeBase + k - 1 = Locals(u) + k - 1
              /\ Locals(u) + k - 1 \in 0 .. FrameSize(u) - 1
              /\ Locals(u) + k - 1 < RaSlot(u)
              /\ <<Locals(u) + k - 1, u.al.usedCallee[k]>> \in Saves(u)
<1>1. u.al.usedCallee \in Seq(CalleeSaved)
  BY DEF IsUnit, IsAllocation
<1>2. /\ Len(u.al.usedCallee) \in Nat /\ DOMAIN u.al.usedCallee = 1 .. Len(u.al.usedCallee)
      /\ \A k \in 1 .. Len(u.al.usedCallee) : u.al.usedCallee[k] \in CalleeSaved
  BY <1>1
<1>3. /\ Layout(u).calleeBase = Locals(u) /\ RaSlot(u) = Locals(u) + Len(u.al.usedCallee)
      /\ Locals(u) \in Nat /\ RaSlot(u) =< FrameSize(u) /\ FrameSize(u) \in Int
  BY OptParts, FrameFacts
<1>4. \A x \in CalleeSaved : x \in Names \ {SP, A7} /\ x # RA
  BY DEF CalleeSaved, Names, SP, A7, RA
<1>5. ASSUME NEW k \in 1 .. Len(u.al.usedCallee)
      PROVE  /\ Locals(u) + k - 1 \in 0 .. FrameSize(u) - 1 /\ Locals(u) + k - 1 < RaSlot(u)
             /\ <<Locals(u) + k - 1, u.al.usedCallee[k]>> \in Saves(u)
  <2>1. <<Locals(u) + k - 1, u.al.usedCallee[k]>> \in SavedRegs(u, Len(u.al.usedCallee))
    BY <1>3 DEF SavedRegs
  <2> QED BY <1>2, <1>3, <2>1 DEF Saves
<1> QED BY <1>1, <1>2, <1>3, <1>4, <1>5

LEMMA SaveWalk ==
  ASSUME NEW p, NEW u, IsUnit(p, u), ~IsNaive(u), NEW k \in 1 .. Len(u.al.usedCallee)
  PROVE  Walk(p, StoreOff(u.al.usedCallee[k], Layout(u).calleeBase + k - 1),
              Saving(u, k - 1), Saving(u, k))
<1> DEFINE d == FrameSize(u)
           off == Locals(u) + k - 1
           x == u.al.usedCallee[k]
           K == Origin(u)
           id == u.id
           S == SavedRa(u) \cup SavedRegs(u, k - 1)
           S1 == SavedRa(u) \cup SavedRegs(u, k)
<1>1. /\ x \in CalleeSaved /\ x \in Names /\ x # A7 /\ off \in 0 .. d - 1 /\ off < RaSlot(u)
      /\ Layout(u).calleeBase + k - 1 = off /\ Len(u.al.usedCallee) \in Nat
  BY UsedFacts
<1>2. d \in 0 .. Deepest /\ Locals(u) \in Nat /\ RaSlot(u) \in Nat /\ Layout(u).calleeBase = Locals(u)
  BY FrameFacts, OptParts
<1>3. \A q \in K : q[1] \in Names /\ (Fits(off) \/ q[1] # A7)
  <2>1. Scratch(u) = A7
    BY DEF Scratch
  <2> HIDE DEF K, off, d
  <2> QED BY <1>1, <2>1, OriginFacts DEF K, d
<1>4. ASSUME NEW q \in S PROVE q[1] \in Int /\ q[1] # off
  <2>1. CASE q \in SavedRa(u)
    <3>1. q[1] = RaSlot(u)
      BY <2>1 DEF SavedRa
    <3> QED BY <1>1, <1>2, <3>1
  <2>2. CASE q \in SavedRegs(u, k - 1)
    <3>1. PICK j \in 1 .. k - 1 : q = <<Layout(u).calleeBase + j - 1, u.al.usedCallee[j]>>
      BY <2>2 DEF SavedRegs
    <3>2. q[1] = Locals(u) + j - 1
      BY <1>2, <3>1
    <3> QED BY <1>1, <1>2, <3>2
  <2> QED BY <2>1, <2>2
<1>5. ASSUME NEW q \in S1, q \notin S PROVE q = <<off, x>>
  <2>1. PICK j \in 1 .. k : q = <<Layout(u).calleeBase + j - 1, u.al.usedCallee[j]>>
    BY <1>5 DEF SavedRegs
  <2>2. ~(j \in 1 .. k - 1)
    BY <1>5, <2>1 DEF SavedRegs
  <2>3. j = k
    BY <1>1, <2>2
  <2> QED BY <1>1, <2>1, <2>3
<1>6. <<x, x>> \in K
  BY <1>1 DEF Origin
<1>7. /\ A7 \in Names \ {SP}
      /\ \A q \in K : q[1] \in Names
      /\ \A q \in S : q[1] \in Int
      /\ \A q \in K : q \in K /\ (Fits(off) \/ q[1] # A7)
      /\ \A q \in S1 : \/ q \in S /\ q[1] # off
                       \/ q[1] = off /\ <<x, q[2]>> \in K /\ (Fits(off) \/ x # A7)
  <2>1. A7 \in Names \ {SP}
    BY DEF A7, Names, SP
  <2>2. ASSUME NEW q \in S1
        PROVE  \/ q \in S /\ q[1] # off
               \/ q[1] = off /\ <<x, q[2]>> \in K /\ (Fits(off) \/ x # A7)
    <3>1. CASE q \in S
      BY <1>4, <3>1
    <3>2. CASE q \notin S
      <4>1. q[1] = off /\ q[2] = x
        BY <1>5, <3>2
      <4> QED BY <1>1, <1>6, <4>1
    <3> QED BY <3>1, <3>2
  <2> QED BY <1>3, <1>4, <2>1, <2>2
<1> HIDE DEF d, off, x, K, S, S1, id
<1>8. Walk(p, Accessing("sw", x, off, A7), At(id, d, K, S), At(id, d, K, S1))
  BY ONLY <1>1, <1>2, <1>7, StoreWalk
<1> QED BY <1>1, <1>8, AccessForms DEF Saving, d, off, x, K, S, S1, id

(* Pieces in a row, numbered, between stages given by their numbers.       *)
LEMMA WalkRow ==
  ASSUME NEW p, NEW n \in Nat, NEW codes, NEW St, codes = [k \in 1 .. n |-> codes[k]],
         St = [k \in 0 .. n |-> St[k]], \A k \in 0 .. n : St[k] \in SUBSET Legal,
         \A k \in 1 .. n : Walk(p, codes[k], St[k - 1], St[k])
  PROVE  Walk(p, Concat(codes), St[0], St[n])
<1>1. \A k \in 1 .. n : codes[k] \in Seq(Instructions)
  BY DEF Walk
<1>2. codes \in [1 .. n -> Seq(Instructions)] /\ St \in [0 .. n -> SUBSET Legal]
  BY <1>1
<1> QED BY <1>2, WalkPieces

EntryCode(u) == IF IsNaive(u) THEN NaiveEntry(u.fn) ELSE Entry(u)

LEMMA ParamsWalk ==
  ASSUME NEW p, NEW u, IsUnit(p, u), NEW codes,
         codes = [k \in DOMAIN u.fn.params |-> ParamCode(u, k - 1)]
  PROVE  Walk(p, Concat(codes), Stage(u, 0), Entered(u))
<1> DEFINE n == Len(u.fn.params)
           St == [k \in 0 .. n |-> Stage(u, k)]
<1>1. n \in Nat /\ DOMAIN u.fn.params = 1 .. n
  <2>1. u.fn.params \in Seq(Vregs(u.fn))
    BY DEF IsUnit, IsIRFunc
  <2> QED BY <2>1
<1>2. ASSUME NEW k \in 1 .. n PROVE Walk(p, codes[k], St[k - 1], St[k])
  <2> DEFINE i == k - 1
  <2>1. i \in 0 .. n - 1 /\ i + 1 = k /\ k - 1 \in 0 .. n /\ k \in 0 .. n
    BY <1>1
  <2>2. codes[k] = ParamCode(u, i) /\ St[k - 1] = Stage(u, i) /\ St[k] = Stage(u, k)
    BY <1>1, <2>1
  <2> HIDE DEF i, St
  <2>3. Walk(p, ParamCode(u, i), Stage(u, i), Stage(u, i + 1))
    BY <2>1, ParamWalk
  <2> QED BY <2>1, <2>2, <2>3
<1>3. \A k \in 0 .. n : St[k] \in SUBSET Legal
  BY AtLegal DEF Stage
<1>4. codes = [k \in 1 .. n |-> codes[k]] /\ St = [k \in 0 .. n |-> St[k]]
      /\ St[0] = Stage(u, 0) /\ St[n] = Stage(u, n)
  BY <1>1
<1> HIDE DEF St, n
<1>5. Walk(p, Concat(codes), St[0], St[n])
  BY <1>1, <1>2, <1>3, <1>4, WalkRow
<1> QED BY <1>4, <1>5 DEF Entered, n

LEMMA EntryWalk ==
  ASSUME NEW p, NEW u, IsUnit(p, u)
  PROVE  Walk(p, EntryCode(u), Started(u.id), Entered(u))
<1> DEFINE d == FrameSize(u)
           id == u.id
           A == At(id, d, Origin(u), {})
           B == At(id, d, Origin(u), SavedRa(u))
           ra == IF Leaf(u) THEN << >> ELSE Accessing("sw", RA, RaSlot(u), Scratch(u))
           moves == [k \in DOMAIN u.fn.params |-> ParamCode(u, k - 1)]
<1>1. Walk(p, Descend(d), Started(id), A)
  <2>1. d \in 0 .. Deepest /\ \A q \in Handed : q[1] \in Names \ {SP, T6}
    BY FrameFacts, OriginFacts
  <2> HIDE DEF d, id
  <2>2. Walk(p, Descend(d), At(id, 0, Handed, {}), At(id, d, Handed, {}))
    BY <2>1, DescendWalk
  <2>3. At(id, d, Handed, {}) \subseteq At(id, d, Origin(u), {})
    BY OriginFacts DEF At, Holds
  <2> QED BY <2>2, <2>3, WalkWeaker DEF Started
<1>2. Walk(p, ra, A, B)
  BY SaveRaWalk
<1>3. Walk(p, Concat(moves), Stage(u, 0), Entered(u))
  BY ParamsWalk
<1>4. Stage(u, 0) = At(id, d, StageRegs(u, 0), Saves(u)) /\ StageRegs(u, 0) \subseteq Origin(u)
  <2>1. InSlots(u, 0) = {} /\ StageRegs(u, 0) \subseteq Origin(u)
    BY OriginFacts
  <2>2. Saves(u) \cup {} = Saves(u)
    OBVIOUS
  <2> QED BY <2>1, <2>2 DEF Stage, StageRegs
<1>5. CASE IsNaive(u)
  <2>1. ra = Access("sw", RA, NaiveFrame(u.fn).raOff)
    BY <1>5, AccessForms DEF Leaf, RaSlot, Scratch
  <2>2. moves = [k \in DOMAIN u.fn.params |-> NaiveParam(u.fn, k - 1)]
    <3>1. \A k \in DOMAIN u.fn.params : k - 1 \in Nat
      <4>1. u.fn.params \in Seq(Vregs(u.fn))
        BY DEF IsUnit, IsIRFunc
      <4> QED BY <4>1
    <3>2. \A k \in DOMAIN u.fn.params : ParamCode(u, k - 1) = NaiveParam(u.fn, k - 1)
      BY <1>5, <3>1, ParamCodes
    <3> QED BY <3>2
  <2>3. EntryCode(u) = Descend(d) \o ra \o Concat(moves)
    <3> HIDE DEF ra, moves
    <3> QED BY <1>5, <2>1, <2>2 DEF EntryCode, NaiveEntry, FrameSize
  <2>4. Saves(u) = SavedRa(u)
    BY <1>5 DEF Saves
  <2> HIDE DEF ra, moves, d, id, A
  <2>5. B \subseteq Stage(u, 0)
    BY <1>4, <2>4 DEF At, Holds
  <2> HIDE DEF B
  <2>6. Walk(p, Descend(d) \o ra, Started(id), B)
    BY <1>1, <1>2, WalkBoth
  <2>7. Walk(p, Concat(moves), B, Entered(u))
    BY <1>3, <2>5, WalkWeaker
  <2>8. Walk(p, Descend(d) \o ra \o Concat(moves), Started(id), Entered(u))
    BY <2>6, <2>7, WalkBoth
  <2> QED BY <2>3, <2>8 DEF id
<1>6. CASE ~IsNaive(u)
  <2> DEFINE n == Len(u.al.usedCallee)
             saves == [k \in DOMAIN u.al.usedCallee |->
                         StoreOff(u.al.usedCallee[k], Layout(u).calleeBase + k - 1)]
             St == [k \in 0 .. n |-> Saving(u, k)]
  <2>1. Leaf(u) = u.al.isLeaf
    <3>1. u.al.isLeaf \in BOOLEAN
      BY <1>6 DEF IsUnit, IsAllocation
    <3> QED BY <1>6, <3>1 DEF Leaf
  <2>2. ra = IF u.al.isLeaf THEN << >> ELSE StoreOff(RA, Layout(u).raOff)
    BY <1>6, <2>1, AccessForms DEF RaSlot, Scratch
  <2>3. moves = [k \in DOMAIN u.fn.params |-> MoveParam(u, k - 1)]
    <3>1. \A k \in DOMAIN u.fn.params : k - 1 \in Nat
      <4>1. u.fn.params \in Seq(Vregs(u.fn))
        BY DEF IsUnit, IsIRFunc
      <4> QED BY <4>1
    <3>2. \A k \in DOMAIN u.fn.params : ParamCode(u, k - 1) = MoveParam(u, k - 1)
      BY <1>6, <3>1, ParamCodes
    <3> QED BY <3>2
  <2>4. EntryCode(u) = Descend(d) \o ra \o Concat(saves) \o Concat(moves)
    <3>1. Layout(u).frameSize = d
      BY <1>6, OptParts
    <3> HIDE DEF ra, moves, saves, d
    <3> QED BY <1>6, <2>2, <2>3, <3>1 DEF EntryCode, Entry, Prologue, saves
  <2>5. n \in Nat /\ DOMAIN u.al.usedCallee = 1 .. n
    BY <1>6, UsedFacts
  <2>6. ASSUME NEW k \in 1 .. n PROVE Walk(p, saves[k], St[k - 1], St[k])
    <3>1. k - 1 \in 0 .. n /\ k \in 0 .. n
      BY <2>5
    <3>2. St[k - 1] = Saving(u, k - 1) /\ St[k] = Saving(u, k)
      BY <3>1
    <3>3. saves[k] = StoreOff(u.al.usedCallee[k], Layout(u).calleeBase + k - 1)
      BY <2>5
    <3> HIDE DEF St, saves
    <3> QED BY <1>6, <3>2, <3>3, SaveWalk
  <2>7. \A k \in 0 .. n : St[k] \in SUBSET Legal
    BY AtLegal DEF Saving
  <2>8. saves = [k \in 1 .. n |-> saves[k]] /\ St = [k \in 0 .. n |-> St[k]]
        /\ St[0] = Saving(u, 0) /\ St[n] = Saving(u, n)
    BY <2>5
  <2>9. Saving(u, 0) = B
    <3>1. SavedRegs(u, 0) = {}
      BY DEF SavedRegs
    <3>2. SavedRa(u) \cup {} = SavedRa(u)
      OBVIOUS
    <3> QED BY <3>1, <3>2 DEF Saving
  <2>10. Saving(u, n) \subseteq Stage(u, 0)
    <3>1. Saves(u) = SavedRa(u) \cup SavedRegs(u, n)
      BY <1>6 DEF Saves
    <3> HIDE DEF d, n
    <3> QED BY <1>4, <3>1 DEF Saving, At, Holds, d
  <2> HIDE DEF ra, moves, saves, d, id, A, B, St, n
  <2>11. Walk(p, Concat(saves), St[0], St[n])
    BY <2>5, <2>6, <2>7, <2>8, WalkRow
  <2>12. Walk(p, Concat(saves), B, Stage(u, 0))
    BY <2>8, <2>9, <2>10, <2>11, WalkWeaker
  <2>13. Walk(p, Descend(d) \o ra, Started(id), B)
    BY <1>1, <1>2, WalkBoth
  <2>14. Walk(p, Descend(d) \o ra \o Concat(saves), Started(id), Stage(u, 0))
    BY <2>12, <2>13, WalkBoth
  <2>15. Walk(p, Descend(d) \o ra \o Concat(saves) \o Concat(moves), Started(id), Entered(u))
    BY <1>3, <2>14, WalkBoth
  <2> QED BY <2>4, <2>15 DEF id
<1> QED BY <1>5, <1>6

-----------------------------------------------------------------------------
(* The epilogue.                                                           *)
BackIn(u, k) == {<<u.al.usedCallee[j], u.al.usedCallee[j]>> : j \in 1 .. k}
Restoring(u, k) == At(u.id, FrameSize(u), Keeps(u) \cup BackIn(u, k), Saves(u))
Mine == {<<x, x>> : x \in CalleeSaved \cup {RA}}

EpilogueCode(u) == IF IsNaive(u) THEN NaiveEpilogue(u.fn) ELSE Epilogue(u)

LEMMA MineFacts ==
  /\ \A q \in Mine : /\ q[1] = q[2] /\ q[1] \in CalleeSaved \cup {RA}
                     /\ q[1] \in Names \ {SP, T6} /\ q[1] \in Names /\ q[1] # A7
  /\ RA \in Names \ {SP}
<1>1. \A x \in CalleeSaved \cup {RA} : x \in Names \ {SP, T6} /\ x # A7
  BY DEF CalleeSaved, RA, Names, SP, T6, A7
<1>2. \A q \in Mine : q[1] = q[2] /\ q[1] \in CalleeSaved \cup {RA}
  BY DEF Mine
<1>3. RA \in Names \ {SP}
  BY DEF RA, Names, SP
<1> QED BY <1>1, <1>2, <1>3

LEMMA RestoreWalk ==
  ASSUME NEW p, NEW u, IsUnit(p, u), ~IsNaive(u), NEW k \in 1 .. Len(u.al.usedCallee)
  PROVE  Walk(p, LoadOff(u.al.usedCallee[k], Layout(u).calleeBase + k - 1),
              Restoring(u, k - 1), Restoring(u, k))
<1> DEFINE d == FrameSize(u)
           off == Locals(u) + k - 1
           r == u.al.usedCallee[k]
           K == Keeps(u) \cup BackIn(u, k - 1)
           K1 == Keeps(u) \cup BackIn(u, k)
           id == u.id
           S == Saves(u)
<1>1. /\ r \in Names \ {SP} /\ off \in 0 .. d - 1 /\ <<off, r>> \in S
      /\ Layout(u).calleeBase + k - 1 = off /\ Len(u.al.usedCallee) \in Nat
  BY UsedFacts
<1>2. d \in 0 .. Deepest
  BY FrameFacts
<1>3. off \in Words /\ off >= 0
  BY <1>1, <1>2, StackFacts DEF Words
<1>4. Keeps(u) \subseteq Mine
  BY DEF Keeps, Mine
<1>5. ASSUME NEW n \in {k - 1, k} PROVE BackIn(u, n) \subseteq Mine
  <2>1. \A j \in 1 .. n : u.al.usedCallee[j] \in CalleeSaved
    BY <1>1, UsedFacts
  <2> QED BY <2>1 DEF BackIn, Mine
<1>6. K \subseteq Mine /\ K1 \subseteq Mine
  BY <1>4, <1>5
<1>7. ASSUME NEW q \in K1, q \notin K PROVE q = <<r, r>>
  <2>1. PICK j \in 1 .. k : q = <<u.al.usedCallee[j], u.al.usedCallee[j]>>
    BY <1>7 DEF BackIn
  <2>2. ~(j \in 1 .. k - 1)
    BY <1>7, <2>1 DEF BackIn
  <2>3. j = k
    BY <1>1, <2>2
  <2> QED BY <2>1, <2>3
<1>8. A7 \in Names \ {SP} /\ \A q \in K : q[1] \in Names
  BY <1>6, MineFacts DEF A7, Names, SP
<1>9. ASSUME NEW q \in K1
      PROVE  /\ q[1] \in Names
             /\ \/ q \in K /\ q[1] # r /\ (Fits(off) \/ q[1] # A7)
                \/ q[1] = r /\ Found(d, S, off, q[2])
  <2>1. q \in Mine
    BY <1>6
  <2>2. q[1] \in Names /\ q[1] # A7 /\ q[1] = q[2]
    BY <2>1, MineFacts
  <2>3. CASE q[1] = r
    <3>1. Found(d, S, off, r)
      BY <1>1 DEF Found
    <3> HIDE DEF S, off, r, d
    <3> QED BY <2>2, <2>3, <3>1
  <2>4. CASE q[1] # r
    BY <1>7, <2>2, <2>4
  <2> QED BY <2>3, <2>4
<1>10. /\ \A q \in K1 : q[1] \in Names
       /\ \A q \in K1 : \/ q \in K /\ q[1] # r /\ (Fits(off) \/ q[1] # A7)
                        \/ q[1] = r /\ Found(d, S, off, q[2])
  BY <1>9
<1> HIDE DEF d, off, r, K, K1, S, id
<1>11. Walk(p, Accessing("lw", r, off, A7), At(id, d, K, S), At(id, d, K1, S))
  BY ONLY <1>1, <1>2, <1>3, <1>8, <1>10, LoadWalk
<1> QED BY <1>1, <1>11, AccessForms DEF Restoring, d, off, r, K, K1, S, id

LEMMA RestoreRaWalk ==
  ASSUME NEW p, NEW u, IsUnit(p, u), NEW K, K \subseteq Mine,
         Mine \subseteq K \cup (IF Leaf(u) THEN {} ELSE {<<RA, RA>>})
  PROVE  Walk(p, IF Leaf(u) THEN << >> ELSE Accessing("lw", RA, RaSlot(u), Scratch(u)),
              At(u.id, FrameSize(u), K, Saves(u)), At(u.id, FrameSize(u), Mine, Saves(u)))
<1> DEFINE d == FrameSize(u)
           t == Scratch(u)
           off == RaSlot(u)
           id == u.id
           S == Saves(u)
<1>1. CASE Leaf(u)
  <2>1. At(id, d, K, S) \in SUBSET Legal
    BY AtLegal
  <2>2. K = Mine
    BY <1>1
  <2> QED BY <1>1, <2>1, <2>2, WalkNone
<1>2. CASE ~Leaf(u)
  <2>1. d \in 0 .. Deepest /\ off \in 0 .. d - 1
    BY <1>2, FrameFacts
  <2>2. off \in Words /\ off >= 0
    BY <2>1, StackFacts DEF Words
  <2>3. t \in Names \ {SP} /\ RA \in Names \ {SP} /\ (t = A7 \/ t = T6)
    BY MineFacts DEF Scratch, A7, T6, Names, SP
  <2>4. Found(d, S, off, RA)
    BY <1>2 DEF Found, Saves, SavedRa
  <2>5. ASSUME NEW q \in Mine
        PROVE  /\ q[1] \in Names
               /\ \/ q \in K /\ q[1] # RA /\ (Fits(off) \/ q[1] # t)
                  \/ q[1] = RA /\ Found(d, S, off, q[2])
    <3>1. q[1] = q[2] /\ q[1] \in Names /\ q[1] # t
      BY <2>3, MineFacts
    <3>2. CASE q[1] = RA
      <4> HIDE DEF d, t, off, S
      <4> QED BY <2>4, <3>1, <3>2
    <3>3. CASE q[1] # RA
      <4>1. q \in K
        BY <1>2, <3>3
      <4> QED BY <3>1, <3>3, <4>1
    <3> QED BY <3>2, <3>3
  <2>6. /\ \A q \in K : q[1] \in Names
        /\ \A q \in Mine : q[1] \in Names
        /\ \A q \in Mine : \/ q \in K /\ q[1] # RA /\ (Fits(off) \/ q[1] # t)
                           \/ q[1] = RA /\ Found(d, S, off, q[2])
    BY <2>5, MineFacts
  <2> HIDE DEF d, t, off, id, S
  <2>7. Walk(p, Accessing("lw", RA, off, t), At(id, d, K, S), At(id, d, Mine, S))
    BY ONLY <2>1, <2>2, <2>3, <2>6, LoadWalk
  <2> QED BY <1>2, <2>7 DEF d, t, off, id, S
<1> QED BY <1>1, <1>2

LEMMA RetWalk ==
  ASSUME NEW p, NEW id
  PROVE  Walk(p, <<RR("ret", ZERO, RA)>>, At(id, 0, Mine, {}), {})
<1> DEFINE i == RR("ret", ZERO, RA)
           A == At(id, 0, Mine, {})
<1>1. i \in Instructions /\ i.op = "ret"
  BY StackFacts, MineFacts DEF Instructions, Mnemonics, RR, RRI
<1>2. ASSUME NEW x \in A PROVE Restored(x[1], x[2])
  <2>1. Holds(x[1], x[2], 0, Mine, {}) /\ x[2].sp \in Int
    <3>1. 0 \in 0 .. Deepest
      BY StackFacts
    <3> QED BY <3>1, AtFacts, PointerFacts
  <2>2. \A y \in CalleeSaved \cup {RA} : x[1].r[y] = Given(x[2], y)
    <3> TAKE y \in CalleeSaved \cup {RA}
    <3> DEFINE q == <<y, y>>
    <3>1. q \in Mine /\ q[1] = y /\ q[2] = y
      BY DEF Mine
    <3> HIDE DEF q
    <3> QED BY <2>1, <3>1 DEF Holds
  <2>3. RA \notin CalleeSaved /\ RA \notin A0 .. A7 /\ \A y \in CalleeSaved : y \notin A0 .. A7
    BY DEF RA, CalleeSaved, A0, A7
  <2>4. Given(x[2], RA) = x[2].ra /\ \A y \in CalleeSaved : Given(x[2], y) = x[2].saved[y]
    BY <2>3 DEF Given
  <2>5. x[1].r[SP] = x[2].sp
    BY <2>1 DEF Holds
  <2> QED BY <2>2, <2>4, <2>5 DEF Restored
<1>3. A \in SUBSET Legal /\ {} \in SUBSET Legal
  BY AtLegal
<1> HIDE DEF i, A
<1>4. Step(p, i, A, {})
  BY <1>1, <1>2 DEF Step
<1>5. Walk(p, <<i>>, A, {})
  BY <1>1, <1>3, <1>4, WalkOne
<1> QED BY <1>5 DEF i, A

LEMMA EpilogueWalk ==
  ASSUME NEW p, NEW u, IsUnit(p, u)
  PROVE  Walk(p, EpilogueCode(u), Body(u), {})
<1> DEFINE d == FrameSize(u)
           id == u.id
           S == Saves(u)
           C == At(id, d, Mine, S)
           D == At(id, 0, Mine, {})
           ra == IF Leaf(u) THEN << >> ELSE Accessing("lw", RA, RaSlot(u), Scratch(u))
           ret == <<RR("ret", ZERO, RA)>>
           r == IF Leaf(u) THEN {} ELSE {<<RA, RA>>}
<1>1. Walk(p, Ascend(d), C, D)
  <2>1. d \in 0 .. Deepest /\ \A q \in Mine : q[1] \in Names \ {SP, T6}
    BY FrameFacts, MineFacts
  <2> HIDE DEF d, id, S
  <2> QED BY <2>1, AscendWalk
<1>2. Walk(p, ret, D, {})
  BY RetWalk
<1>3. ASSUME NEW K, K \subseteq Mine, Mine \subseteq K \cup r PROVE Walk(p, ra, At(id, d, K, S), C)
  BY <1>3, RestoreRaWalk
<1>4. Keeps(u) \subseteq Mine /\ {q \in Mine : q[1] \notin Used(u)} \subseteq Keeps(u) \cup r
  <2>1. ASSUME NEW q \in Mine, q[1] \notin Used(u) PROVE q \in Keeps(u) \cup r
    <3>1. PICK x \in CalleeSaved \cup {RA} : q = <<x, x>>
      BY DEF Mine
    <3>2. q[1] = x
      BY <3>1
    <3> QED BY <2>1, <3>1, <3>2 DEF Keeps
  <2> QED BY <2>1 DEF Keeps, Mine
<1>5. CASE IsNaive(u)
  <2>1. ra = Access("lw", RA, NaiveFrame(u.fn).raOff)
    BY <1>5, AccessForms DEF Leaf, RaSlot, Scratch
  <2>2. EpilogueCode(u) = ra \o Ascend(d) \o ret
    <3> HIDE DEF ra
    <3> QED BY <1>5, <2>1 DEF EpilogueCode, NaiveEpilogue, FrameSize
  <2>3. Used(u) = {}
    BY <1>5 DEF Used
  <2>4. Walk(p, ra, At(id, d, Keeps(u), S), C)
    BY <1>3, <1>4, <2>3
  <2> HIDE DEF ra, ret, C, D
  <2>5. Walk(p, ra \o Ascend(d), At(id, d, Keeps(u), S), D)
    BY <1>1, <2>4, WalkBoth
  <2>6. Walk(p, ra \o Ascend(d) \o ret, At(id, d, Keeps(u), S), {})
    BY <1>2, <2>5, WalkBoth
  <2> QED BY <2>2, <2>6 DEF Body
<1>6. CASE ~IsNaive(u)
  <2> DEFINE n == Len(u.al.usedCallee)
             loads == [k \in DOMAIN u.al.usedCallee |->
                         LoadOff(u.al.usedCallee[k], Layout(u).calleeBase + k - 1)]
             St == [k \in 0 .. n |-> Restoring(u, k)]
             K == Keeps(u) \cup BackIn(u, n)
  <2>1. Leaf(u) = u.al.isLeaf
    <3>1. u.al.isLeaf \in BOOLEAN
      BY <1>6 DEF IsUnit, IsAllocation
    <3> QED BY <1>6, <3>1 DEF Leaf
  <2>2. ra = IF u.al.isLeaf THEN << >> ELSE LoadOff(RA, Layout(u).raOff)
    BY <1>6, <2>1, AccessForms DEF RaSlot, Scratch
  <2>3. EpilogueCode(u) = Concat(loads) \o ra \o Ascend(d) \o ret
    <3>1. Layout(u).frameSize = d
      BY <1>6, OptParts
    <3> HIDE DEF ra, loads, d
    <3> QED BY <1>6, <2>2, <3>1 DEF EpilogueCode, Epilogue, loads
  <2>4. n \in Nat /\ DOMAIN u.al.usedCallee = 1 .. n /\ \A k \in 1 .. n : u.al.usedCallee[k] \in CalleeSaved
    BY <1>6, UsedFacts
  <2>5. ASSUME NEW k \in 1 .. n PROVE Walk(p, loads[k], St[k - 1], St[k])
    <3>1. k - 1 \in 0 .. n /\ k \in 0 .. n
      BY <2>4
    <3>2. St[k - 1] = Restoring(u, k - 1) /\ St[k] = Restoring(u, k)
      BY <3>1
    <3>3. loads[k] = LoadOff(u.al.usedCallee[k], Layout(u).calleeBase + k - 1)
      BY <2>4
    <3> HIDE DEF St, loads
    <3> QED BY <1>6, <3>2, <3>3, RestoreWalk
  <2>6. \A k \in 0 .. n : St[k] \in SUBSET Legal
    BY AtLegal DEF Restoring
  <2>7. loads = [k \in 1 .. n |-> loads[k]] /\ St = [k \in 0 .. n |-> St[k]]
        /\ St[0] = Restoring(u, 0) /\ St[n] = Restoring(u, n)
    BY <2>4
  <2>8. Restoring(u, 0) = Body(u)
    <3>1. BackIn(u, 0) = {}
      BY DEF BackIn
    <3>2. Keeps(u) \cup {} = Keeps(u)
      OBVIOUS
    <3> QED BY <3>1, <3>2 DEF Restoring, Body
  <2>9. K \subseteq Mine /\ Mine \subseteq K \cup r
    <3>1. BackIn(u, n) \subseteq Mine
      BY <2>4 DEF BackIn, Mine
    <3>2. ASSUME NEW q \in Mine, q[1] \in Used(u) PROVE q \in BackIn(u, n)
      <4>1. q[1] = q[2] /\ \E x : q = <<x, x>>
        BY DEF Mine
      <4>2. PICK x : q = <<x, x>>
        BY <4>1
      <4>3. q[1] = x
        BY <4>2
      <4>4. PICK k \in 1 .. n : x = u.al.usedCallee[k]
        BY <1>6, <2>4, <3>2, <4>3 DEF Used
      <4> QED BY <4>2, <4>4 DEF BackIn
    <3> HIDE DEF n
    <3> QED BY <1>4, <3>1, <3>2
  <2>10. Restoring(u, n) = At(id, d, K, S)
    BY DEF Restoring
  <2> HIDE DEF n, St, loads, K
  <2>11. Walk(p, Concat(loads), St[0], St[n])
    BY <2>4, <2>5, <2>6, <2>7, WalkRow
  <2>12. Walk(p, Concat(loads), Body(u), At(id, d, K, S))
    BY <2>7, <2>8, <2>10, <2>11
  <2>13. Walk(p, ra, At(id, d, K, S), C)
    BY <1>3, <2>9
  <2> HIDE DEF ra, ret, C, D, d, id, S
  <2>14. Walk(p, Concat(loads) \o ra, Body(u), C)
    BY <2>12, <2>13, WalkBoth
  <2>15. Walk(p, Concat(loads) \o ra \o Ascend(d), Body(u), D)
    BY <1>1, <2>14, WalkBoth
  <2>16. Walk(p, Concat(loads) \o ra \o Ascend(d) \o ret, Body(u), {})
    BY <1>2, <2>15, WalkBoth
  <2> QED BY <2>3, <2>16
<1> QED BY <1>5, <1>6

-----------------------------------------------------------------------------
(* Between entry and return: instructions that keep Body.                  *)
LEMMA CalmWalk ==
  ASSUME NEW p, NEW u, IsUnit(p, u), NEW code \in Seq(Calm(Free(u)))
  PROVE  Walk(p, code, Body(u), Body(u))
<1> DEFINE R == Free(u)
           I == Calm(R)
           A == At(u.id, FrameSize(u), Keeps(u), Saves(u))
<1>1. R \in SUBSET (Names \ {SP}) /\ \A q \in Keeps(u) : q[1] \in Names \ R
  BY KeepsFacts
<1>2. I \in SUBSET Instructions
  BY DEF Calm
<1>3. \A in \in I : Step(p, in, A, A)
  <2> HIDE DEF R
  <2> QED BY <1>1, CalmStep
<1>4. A \in SUBSET Legal
  BY AtLegal
<1> HIDE DEF A, R
<1>5. Walk(p, code, A, A)
  <2>1. code \in Seq(I)
    BY DEF R
  <2> HIDE DEF I
  <2> QED BY <1>2, <1>3, <1>4, <2>1, WalkAll
<1> QED BY <1>5 DEF A, Body

LEMMA CalmAccess ==
  ASSUME NEW R \in SUBSET Names, NEW r \in R, NEW t \in R, NEW off \in Words
  PROVE  Accessing("lw", r, off, t) \in Seq(Calm(R))
<1>1. r \in Names /\ t \in Names /\ off \in Int /\ SP \in Names /\ 0 \in Int
  BY StackFacts
<1>2. RRI("lw", r, SP, off) \in Calm(R) /\ RRI("lw", r, t, 0) \in Calm(R)
  BY <1>1, CalmForms
<1>3. LI(t, off) \in Calm(R)
  BY <1>1, CalmForms
<1>4. RRR("add", t, SP, t) \in Calm(R)
  BY <1>1, CalmForms DEF Threes
<1> QED BY <1>2, <1>3, <1>4 DEF Accessing

(* A result, or an outgoing argument, into the frame.                      *)
LEMMA SlotWalk ==
  ASSUME NEW p, NEW u, IsUnit(p, u), NEW r \in Names, NEW t \in Free(u), NEW off \in 0 .. Locals(u) - 1
  PROVE  Walk(p, Accessing("sw", r, off, t), Body(u), Body(u))
<1> DEFINE d == FrameSize(u)
           K == Keeps(u)
           S == Saves(u)
           id == u.id
<1>1. /\ d \in 0 .. Deepest /\ Locals(u) \in Nat /\ Locals(u) =< RaSlot(u) /\ RaSlot(u) =< d
      /\ RaSlot(u) \in Nat
  BY FrameFacts
<1>2. off \in 0 .. d - 1
  BY <1>1
<1>3. t \in Names \ {SP} /\ \A q \in K : q[1] \in Names /\ q[1] # t
  BY KeepsFacts
<1>4. \A q \in S : q[1] \in Int /\ q[1] # off
  <2>1. \A q \in S : q[1] \in Int /\ Locals(u) =< q[1]
    BY SavesFacts
  <2> HIDE DEF S
  <2> QED BY <1>1, <2>1
<1>5. /\ \A q \in K : q[1] \in Names
      /\ \A q \in S : q[1] \in Int
      /\ \A q \in K : q \in K /\ (Fits(off) \/ q[1] # t)
      /\ \A q \in S : \/ q \in S /\ q[1] # off
                      \/ q[1] = off /\ <<r, q[2]>> \in K /\ (Fits(off) \/ r # t)
  BY <1>3, <1>4
<1> HIDE DEF d, K, S, id
<1>6. Walk(p, Accessing("sw", r, off, t), At(id, d, K, S), At(id, d, K, S))
  BY ONLY <1>1, <1>2, <1>3, <1>5, StoreWalk
<1> QED BY <1>6 DEF d, K, S, id, Body

LEMMA GenSelects ==
  ASSUME NEW p, NEW u, IsUnit(p, u), ~IsNaive(u)
  PROVE  /\ Selects(Gen(u), Vregs(u.fn), Free(u))
         /\ Selects([Gen(u) EXCEPT !.dstOverride = A0], Vregs(u.fn), Free(u))
<1> DEFINE vs == Vregs(u.fn)
           R == Free(u)
<1>1. R \subseteq Names /\ {A6, A7, T5, T6} \subseteq R /\ A0 \in R
  <2>1. {A6, A7, T5, T6, T0, T1} \cup A0 .. A7 \subseteq R /\ R \in SUBSET (Names \ {SP})
    BY KeepsFacts
  <2>2. A0 \in A0 .. A7
    BY DEF A0, A7
  <2> QED BY <2>1, <2>2
<1>2. u.al.reg \in [vs -> R \cup {NoReg}]
  <2>1. u.al.reg \in [vs -> CallerSaved \cup CalleeSaved \cup {NoReg}]
    BY DEF IsUnit, IsAllocation
  <2>2. \A v \in vs : u.al.reg[v] \in R \cup {NoReg}
    <3>1. \A v \in vs : HomeReg(u, v) = u.al.reg[v]
      BY OptParts
    <3> QED BY <3>1, HomeFacts
  <2> QED BY <2>1, <2>2
<1>3. \A v \in vs : u.al.reg[v] = NoReg => SpillOff(Gen(u), v) \in Words
  <2> TAKE v \in vs
  <2> HAVE u.al.reg[v] = NoReg
  <2>1. HomeReg(u, v) = NoReg /\ SpillOff(Gen(u), v) = HomeSlot(u, v)
    BY OptParts
  <2>2. HomeSlot(u, v) \in Outgoing(u) .. Locals(u) - 1
    BY <2>1, FrameFacts
  <2>3. /\ Outgoing(u) \in Nat /\ Locals(u) \in Nat /\ Locals(u) =< RaSlot(u) /\ RaSlot(u) =< FrameSize(u)
        /\ RaSlot(u) \in Nat /\ FrameSize(u) \in 0 .. Deepest
    BY FrameFacts
  <2> QED BY <2>1, <2>2, <2>3, StackFacts DEF Words
<1>4. /\ Gen(u).reg = u.al.reg /\ Gen(u).dstOverride = NoReg
      /\ [Gen(u) EXCEPT !.dstOverride = A0].reg = u.al.reg
      /\ [Gen(u) EXCEPT !.dstOverride = A0].dstOverride = A0
      /\ [Gen(u) EXCEPT !.dstOverride = A0].spillBase = Gen(u).spillBase
      /\ [Gen(u) EXCEPT !.dstOverride = A0].spillSlot = Gen(u).spillSlot
  BY DEF Gen
<1>5. \A v : SpillOff([Gen(u) EXCEPT !.dstOverride = A0], v) = SpillOff(Gen(u), v)
  BY <1>4 DEF SpillOff
<1> HIDE DEF vs, R
<1> QED BY <1>1, <1>2, <1>3, <1>4, <1>5 DEF Selects, vs, R

(* A generator for the unit: its own, or the one for a fused return.       *)
Generates(cg, u) ==
  cg \in {Gen(u), [Gen(u) EXCEPT !.dstOverride = A0]}

LEMMA GeneratesFacts ==
  ASSUME NEW p, NEW u, IsUnit(p, u), ~IsNaive(u), NEW cg, Generates(cg, u)
  PROVE  /\ Selects(cg, Vregs(u.fn), Free(u)) /\ cg.reg = u.al.reg /\ cg.dstOverride \in {NoReg, A0}
         /\ \A in : Faults(cg, in) = Faults(Gen(u), in)
         /\ \A v \in Vregs(u.fn) : cg.reg[v] = NoReg => SpillOff(cg, v) \in 0 .. Locals(u) - 1
<1>1. Selects(cg, Vregs(u.fn), Free(u))
  BY GenSelects DEF Generates
<1>2. /\ cg.reg = u.al.reg /\ cg.dstOverride \in {NoReg, A0} /\ cg.opt = Gen(u).opt
      /\ cg.spillBase = Gen(u).spillBase /\ cg.spillSlot = Gen(u).spillSlot
  BY DEF Generates, Gen
<1>3. \A in : Faults(cg, in) = Faults(Gen(u), in)
  BY <1>2 DEF Faults
<1>4. ASSUME NEW v \in Vregs(u.fn), cg.reg[v] = NoReg PROVE SpillOff(cg, v) \in 0 .. Locals(u) - 1
  <2>1. SpillOff(cg, v) = HomeSlot(u, v) /\ HomeReg(u, v) = NoReg
    <3>1. SpillOff(cg, v) = SpillOff(Gen(u), v)
      BY <1>2 DEF SpillOff
    <3> QED BY <1>2, <1>4, <3>1, OptParts
  <2>2. HomeSlot(u, v) \in Outgoing(u) .. Locals(u) - 1 /\ Outgoing(u) \in Nat /\ Locals(u) \in Nat
    BY <2>1, FrameFacts
  <2> QED BY <2>1, <2>2
<1> QED BY <1>1, <1>2, <1>3, <1>4

InstsOf(u) == UNION {{u.fn.blocks[b].insts[k] : k \in DOMAIN u.fn.blocks[b].insts} : b \in Blocks(u.fn)}

LEMMA InstsOfFacts ==
  ASSUME NEW p, NEW u, IsUnit(p, u), NEW in \in InstsOf(u)
  PROVE  /\ in \in Insts(Vregs(u.fn)) /\ IsInstOf(p, u, in)
         /\ in.op \notin {"StoreGlobal", "Call"} => in.dst \in Vregs(u.fn)
         /\ in.dst \in Vregs(u.fn) \cup {NoReg}
         /\ in.op = "Call" => in \in Calls(u.fn) /\ Len(in.args) - 8 =< Outgoing(u)
<1>1. PICK b \in Blocks(u.fn) : \E k \in DOMAIN u.fn.blocks[b].insts : in = u.fn.blocks[b].insts[k]
  BY DEF InstsOf
<1>2. IsIRFunc(u.fn) /\ IsInstOf(p, u, in)
  BY <1>1 DEF IsUnit
<1>3. in \in Insts(Vregs(u.fn))
  BY <1>1, <1>2, BlockFacts
<1>4. in.dst \in Vregs(u.fn) \cup {NoReg}
  BY <1>3 DEF Insts
<1>5. in.op \notin {"StoreGlobal", "Call"} => in.dst # NoReg
  <2>1. PICK k \in DOMAIN u.fn.blocks[b].insts : in = u.fn.blocks[b].insts[k]
    BY <1>1
  <2>2. \A c \in Blocks(u.fn) : \A i \in DOMAIN u.fn.blocks[c].insts :
          u.fn.blocks[c].insts[i].op \notin {"StoreGlobal", "Call"} => u.fn.blocks[c].insts[i].dst # NoReg
    BY <1>2 DEF IsIRFunc
  <2> QED BY <2>1, <2>2
<1>6. in.op = "Call" => in \in Calls(u.fn) /\ Len(in.args) - 8 =< Outgoing(u)
  BY <1>1, <1>2, OutFacts DEF Outgoing
<1> QED BY <1>2, <1>3, <1>4, <1>5, <1>6

LEMMA InstWalk ==
  ASSUME NEW p, NEW u, IsUnit(p, u), ~IsNaive(u), NEW cg, Generates(cg, u),
         NEW in \in InstsOf(u), in.op # "Call"
  PROVE  Walk(p, InstCode(cg, in), Body(u), Body(u))
<1> DEFINE R == Free(u)
           vs == Vregs(u.fn)
<1>1. /\ Selects(cg, vs, R) /\ cg.dstOverride \in {NoReg, A0} /\ ~Faults(cg, in)
      /\ \A v \in vs : cg.reg[v] = NoReg => SpillOff(cg, v) \in 0 .. Locals(u) - 1
  <2>1. ~Faults(Gen(u), in)
    BY InstsOfFacts DEF IsInstOf
  <2> QED BY <2>1, GeneratesFacts
<1>2. /\ in \in Insts(vs) /\ (in.op # "StoreGlobal" => in.dst \in vs)
      /\ (ByUnsigned(in) => in.b.n > 0)
      /\ (in.op \in {"LoadGlobal", "StoreGlobal"} => in.gid \in Gids)
  BY InstsOfFacts DEF IsInstOf
<1>3. in.op = "StoreGlobal" => InstCode(cg, in) \in Seq(Calm(R))
  BY <1>1, <1>2, InstSelected
<1>4. in.op # "StoreGlobal" => Selected(R, cg, in, InstCode(cg, in))
  BY <1>1, <1>2, InstSelected
<1>5. CASE in.op = "StoreGlobal"
  BY <1>3, <1>5, CalmWalk
<1>6. CASE in.op # "StoreGlobal"
  <2>1. PICK body \in Seq(Calm(R)) :
          InstCode(cg, in) = body \o WriteBack(cg, in.dst, DstReg(cg, in.dst))
    BY <1>4, <1>6 DEF Selected
  <2>2. Walk(p, body, Body(u), Body(u))
    BY CalmWalk
  <2>3. Walk(p, WriteBack(cg, in.dst, DstReg(cg, in.dst)), Body(u), Body(u))
    <3>1. CASE cg.dstOverride = NoReg /\ cg.reg[in.dst] = NoReg
      <4>1. DstReg(cg, in.dst) = T5 /\ T5 \in Names /\ A7 \in Free(u)
        BY <3>1, KeepsFacts DEF DstReg, T5, Names
      <4>2. SpillOff(cg, in.dst) \in 0 .. Locals(u) - 1
        BY <1>1, <1>2, <1>6, <3>1
      <4>3. Walk(p, Accessing("sw", T5, SpillOff(cg, in.dst), A7), Body(u), Body(u))
        BY <4>1, <4>2, SlotWalk
      <4> QED BY <3>1, <4>1, <4>3, AccessForms DEF WriteBack
    <3>2. CASE ~(cg.dstOverride = NoReg /\ cg.reg[in.dst] = NoReg)
      <4>1. Body(u) \in SUBSET Legal
        BY AtLegal DEF Body
      <4> QED BY <3>2, <4>1, WalkNone DEF WriteBack
    <3> QED BY <3>1, <3>2
  <2> QED BY <2>1, <2>2, <2>3, WalkBoth
<1> QED BY <1>5, <1>6

-----------------------------------------------------------------------------
(* A call: aligned, and what comes back is what the caller relies on.      *)
LEMMA CallWalk ==
  ASSUME NEW p, NEW u, IsUnit(p, u), ~Leaf(u), NEW k \in DOMAIN Programs[p], k \in Int
  PROVE  Walk(p, <<RRI("call", ZERO, ZERO, k)>>, Body(u), Body(u))
<1> DEFINE in == RRI("call", ZERO, ZERO, k)
           d == FrameSize(u)
           K == Keeps(u)
           S == Saves(u)
           A == At(u.id, d, K, S)
<1>1. in \in Instructions /\ in.op = "call" /\ in.n = k
  BY StackFacts DEF Instructions, Mnemonics, RRI
<1>2. /\ d \in 0 .. Deepest /\ d % 4 = 0 /\ RaSlot(u) \in Nat /\ RaSlot(u) < d /\ Locals(u) \in Nat
      /\ Deepest \in Nat
  BY FrameFacts, StackFacts
<1>3. \A q \in K : q[1] \in CalleeSaved
  <2>1. \A q \in K : q \in {<<x, x>> : x \in CalleeSaved \ Used(u)}
    BY DEF Keeps
  <2> HIDE DEF K
  <2>2. ASSUME NEW q \in K PROVE q[1] \in CalleeSaved
    <3>1. PICK x \in CalleeSaved : q = <<x, x>>
      BY <2>1
    <3> QED BY <3>1
  <2> QED BY <2>2
<1>4. \A q \in S : q[1] \in Int /\ q[1] >= 0
  <2>1. \A q \in S : q[1] \in Int /\ Locals(u) =< q[1]
    BY SavesFacts
  <2> HIDE DEF S
  <2> QED BY <1>2, <2>1
<1>5. <<RaSlot(u), RA>> \in S
  BY DEF Saves, SavedRa
<1> HIDE DEF d, K, S
<1>6. ASSUME NEW x \in A PROVE x[1].r[SP] \in Levels
  <2>1. /\ x[1].r[SP] = x[2].sp - d /\ x[2].sp \in Levels /\ x[2].sp =< StackTop /\ x[2].sp \in Int
    BY <1>2, PointerFacts
  <2>2. x[1].r[SP] + RaSlot(u) \in 0 .. StackTop
    <3> DEFINE q == <<RaSlot(u), RA>>
    <3>1. q \in S /\ q[1] = RaSlot(u) /\ Holds(x[1], x[2], d, K, S)
      BY <1>5, AtFacts
    <3> HIDE DEF q
    <3>2. x[1].r[SP] + q[1] \in 0 .. StackTop
      BY <3>1 DEF Holds
    <3> QED BY <3>1, <3>2
  <2>3. x[2].sp % 4 = 0
    BY <2>1 DEF Levels
  <2>4. (x[2].sp - d) % 4 = 0
    BY <1>2, <2>1, <2>3
  <2> QED BY <1>2, <2>1, <2>2, <2>4, StackFacts DEF Levels
<1>7. ASSUME NEW x \in A, NEW t \in MachineStates, Back(x[1], t) PROVE <<t, x[2]>> \in A
  <2>1. /\ x[1].r[SP] = x[2].sp - d /\ x[2].sp \in Int /\ x[1].r[SP] \in Int
    BY <1>2, PointerFacts
  <2>2. /\ x[2] \in Activations /\ Kept(x[1], x[2]) /\ x[2].unit = u.id /\ Holds(x[1], x[2], d, K, S)
    BY AtFacts
  <2>3. /\ t.r[SP] = x[1].r[SP] /\ \A y \in CalleeSaved : t.r[y] = x[1].r[y]
        /\ \A a \in 0 .. StackTop : a >= x[1].r[SP] => t.m[a] = x[1].m[a]
    BY <1>7 DEF Back
  <2>4. Kept(t, x[2])
    <3>1. ASSUME NEW a \in 0 .. StackTop, a >= x[2].sp PROVE t.m[a] = x[2].mem[a]
      <4>1. a >= x[1].r[SP]
        BY <1>2, <2>1, <3>1, StackFacts
      <4> QED BY <2>2, <2>3, <3>1, <4>1 DEF Kept
    <3> QED BY <3>1 DEF Kept
  <2>5. \A q \in K : t.r[q[1]] = Given(x[2], q[2])
    BY <1>3, <2>2, <2>3 DEF Holds
  <2>6. ASSUME NEW q \in S
        PROVE  t.r[SP] + q[1] \in 0 .. StackTop /\ t.m[t.r[SP] + q[1]] = Given(x[2], q[2])
    <3> DEFINE a == x[1].r[SP] + q[1]
    <3>1. a \in 0 .. StackTop /\ x[1].m[a] = Given(x[2], q[2])
      BY <2>2 DEF Holds
    <3>2. a >= x[1].r[SP] /\ t.r[SP] + q[1] = a
      BY <1>4, <2>1, <2>3
    <3> HIDE DEF a
    <3> QED BY <2>3, <3>1, <3>2
  <2>7. Holds(t, x[2], d, K, S)
    BY <2>2, <2>3, <2>5, <2>6 DEF Holds
  <2> QED BY <2>2, <2>4, <2>7, IntoAt
<1>8. A \in SUBSET Legal
  BY AtLegal
<1> HIDE DEF in, A
<1>9. Step(p, in, A, A)
  BY <1>1, <1>6, <1>7 DEF Step, CallStep
<1>10. Walk(p, <<in>>, A, A)
  BY <1>1, <1>8, <1>9, WalkOne
<1> QED BY <1>10 DEF in, A, Body, d, K, S

(* Pieces in a row that all keep Body.                                     *)
LEMMA BodyRow ==
  ASSUME NEW p, NEW u, NEW n \in Nat, NEW codes, codes = [k \in 1 .. n |-> codes[k]],
         \A k \in 1 .. n : Walk(p, codes[k], Body(u), Body(u))
  PROVE  Walk(p, Concat(codes), Body(u), Body(u))
<1> DEFINE St == [k \in 0 .. n |-> Body(u)]
<1>1. /\ St = [k \in 0 .. n |-> St[k]] /\ \A k \in 0 .. n : St[k] = Body(u)
      /\ St[0] = Body(u) /\ St[n] = Body(u)
  OBVIOUS
<1>2. Body(u) \in SUBSET Legal
  BY AtLegal DEF Body
<1> HIDE DEF St
<1>3. \A k \in 1 .. n : Walk(p, codes[k], St[k - 1], St[k])
  <2> TAKE k \in 1 .. n
  <2>1. k - 1 \in 0 .. n /\ k \in 0 .. n
    OBVIOUS
  <2> QED BY <1>1, <2>1
<1>4. \A k \in 0 .. n : St[k] \in SUBSET Legal
  BY <1>1, <1>2
<1>5. Walk(p, Concat(codes), St[0], St[n])
  BY <1>1, <1>3, <1>4, WalkRow
<1> QED BY <1>1, <1>5

(* emitCall of the optimizing back end: arguments beyond the eighth go to  *)
(* words below the locals, which no one else uses.                         *)
Stacked(n) == IF n > 8 THEN n - 8 ELSE 0

LEMMA StackedFacts ==
  ASSUME NEW p, NEW u, IsUnit(p, u), NEW in \in InstsOf(u), in.op = "Call"
  PROVE  /\ Len(in.args) \in Nat /\ Stacked(Len(in.args)) \in Nat
         /\ Len(in.args) - Stacked(Len(in.args)) \in 0 .. 8
         /\ \A k \in 1 .. Len(in.args) : in.args[k] \in Vals(Vregs(u.fn))
         /\ \A k \in 1 .. Stacked(Len(in.args)) :
              /\ Len(in.args) + 1 - k \in 1 .. Len(in.args)
              /\ (Len(in.args) + 1 - k) - 9 \in 0 .. Locals(u) - 1
         /\ \A k \in 1 .. Len(in.args) - Stacked(Len(in.args)) :
              A0 + k - 1 \in A0 .. A7 /\ k \in 1 .. Len(in.args)
         /\ in.callee \in DOMAIN Programs[p] /\ in.callee \in Int
         /\ ~Leaf(u)
<1> DEFINE n == Len(in.args)
<1>1. /\ in \in Insts(Vregs(u.fn)) /\ IsInstOf(p, u, in) /\ in \in Calls(u.fn)
      /\ n - 8 =< Outgoing(u)
  BY InstsOfFacts
<1>2. in.args \in Seq(Vals(Vregs(u.fn))) /\ in.callee \in Int
  BY <1>1 DEF Insts
<1>3. n \in Nat /\ \A k \in 1 .. n : in.args[k] \in Vals(Vregs(u.fn))
  BY <1>2
<1>4. Outgoing(u) \in Nat /\ Locals(u) \in Nat /\ Outgoing(u) =< Locals(u)
  BY FrameFacts
<1>5. ~Leaf(u)
  BY <1>1 DEF Leaf, IsUnit, IsAllocation
<1>6. in.callee \in DOMAIN Programs[p]
  BY <1>1 DEF IsInstOf
<1> HIDE DEF n
<1>7. Stacked(n) \in Nat /\ n - Stacked(n) \in 0 .. 8
  BY <1>3 DEF Stacked
<1>8. \A k \in 1 .. Stacked(n) : n + 1 - k \in 1 .. n /\ (n + 1 - k) - 9 \in 0 .. Locals(u) - 1
  BY <1>1, <1>3, <1>4 DEF Stacked
<1>9. \A k \in 1 .. n - Stacked(n) : A0 + k - 1 \in A0 .. A7 /\ k \in 1 .. n
  BY <1>3, <1>7 DEF A0, A7
<1> QED BY <1>2, <1>3, <1>5, <1>6, <1>7, <1>8, <1>9 DEF n

LEMMA ScratchIsFree ==
  ASSUME NEW p, NEW u, IsUnit(p, u)
  PROVE  /\ {A6, A7, T5, T6, T0, T1} \subseteq Free(u) /\ A0 .. A7 \subseteq Free(u) /\ A0 \in Free(u)
         /\ Free(u) \in SUBSET Names /\ A0 \in Names
<1>1. {A6, A7, T5, T6, T0, T1} \cup A0 .. A7 \subseteq Free(u) /\ Free(u) \in SUBSET (Names \ {SP})
  BY KeepsFacts
<1>2. A0 \in A0 .. A7
  BY DEF A0, A7
<1> QED BY <1>1, <1>2

LEMMA CallCodeWalk ==
  ASSUME NEW p, NEW u, IsUnit(p, u), ~IsNaive(u), NEW cg, Generates(cg, u),
         NEW in \in InstsOf(u), in.op = "Call"
  PROVE  Walk(p, CallCode(cg, in), Body(u), Body(u))
<1> DEFINE n == Len(in.args)
           m == Stacked(n)
           R == Free(u)
           vs == Vregs(u.fn)
           pushes == [k \in 1 .. m |-> Materialize(cg, in.args[n + 1 - k], T5) \o StoreOff(T5, (n + 1 - k) - 9)]
           moves == [k \in 1 .. n - m |-> Materialize(cg, in.args[k], A0 + k - 1)]
           call == <<RRI("call", ZERO, ZERO, in.callee)>>
           result == CASE in.dst = NoReg -> << >>
                       [] in.dst # NoReg /\ cg.dstOverride # NoReg -> MoveTo(cg.dstOverride, A0)
                       [] in.dst # NoReg /\ cg.dstOverride = NoReg ->
                            IF cg.reg[in.dst] # NoReg THEN MoveTo(cg.reg[in.dst], A0)
                            ELSE StoreOff(A0, SpillOff(cg, in.dst))
<1>1. CallCode(cg, in) = Concat(pushes) \o Concat(moves) \o call \o result
  BY DEF CallCode, Stacked
<1>2. /\ Selects(cg, vs, R) /\ cg.dstOverride \in {NoReg, A0}
      /\ \A v \in vs : cg.reg[v] = NoReg => SpillOff(cg, v) \in 0 .. Locals(u) - 1
  BY GeneratesFacts
<1>3. {A6, A7, T5, T6} \subseteq R /\ A0 .. A7 \subseteq R /\ A0 \in R /\ R \in SUBSET Names /\ A0 \in Names
  BY ScratchIsFree
<1>4. /\ n \in Nat /\ m \in Nat /\ n - m \in 0 .. 8
      /\ \A k \in 1 .. n : in.args[k] \in Vals(vs)
      /\ \A k \in 1 .. m : n + 1 - k \in 1 .. n /\ (n + 1 - k) - 9 \in 0 .. Locals(u) - 1
      /\ \A k \in 1 .. n - m : A0 + k - 1 \in A0 .. A7 /\ k \in 1 .. n
      /\ in.callee \in DOMAIN Programs[p] /\ in.callee \in Int /\ ~Leaf(u)
  BY StackedFacts
<1>5. in.dst \in vs \cup {NoReg}
  BY InstsOfFacts
<1> HIDE DEF n, m
<1>6. ASSUME NEW k \in 1 .. m PROVE Walk(p, pushes[k], Body(u), Body(u))
  <2> DEFINE i == n + 1 - k
             load == Materialize(cg, in.args[i], T5)
             store == StoreOff(T5, i - 9)
  <2>1. i \in 1 .. n /\ i - 9 \in 0 .. Locals(u) - 1 /\ in.args[i] \in Vals(vs)
    BY <1>4
  <2>2. pushes[k] = load \o store
    OBVIOUS
  <2> HIDE DEF i
  <2>3. load \in Seq(Calm(R))
    <3> HIDE DEF R, vs
    <3> QED BY <1>2, <1>3, <2>1, CalmOperand
  <2>4. Walk(p, load, Body(u), Body(u))
    BY <2>3, CalmWalk
  <2>5. Walk(p, Accessing("sw", T5, i - 9, A7), Body(u), Body(u))
    <3>1. T5 \in Names /\ A7 \in Free(u)
      BY <1>3
    <3> QED BY <2>1, <3>1, SlotWalk
  <2>6. Walk(p, store, Body(u), Body(u))
    BY <2>5, AccessForms
  <2> HIDE DEF load, store, pushes
  <2> QED BY <2>2, <2>4, <2>6, WalkBoth
<1>7. ASSUME NEW k \in 1 .. n - m PROVE Walk(p, moves[k], Body(u), Body(u))
  <2> DEFINE d == A0 + k - 1
  <2>1. moves[k] = Materialize(cg, in.args[k], d)
    OBVIOUS
  <2>2. in.args[k] \in Vals(vs) /\ d \in R
    BY <1>3, <1>4
  <2> HIDE DEF d
  <2>3. Materialize(cg, in.args[k], d) \in Seq(Calm(R))
    <3> HIDE DEF R, vs
    <3> QED BY <1>2, <1>3, <2>2, CalmOperand
  <2> HIDE DEF moves
  <2> QED BY <2>1, <2>3, CalmWalk
<1>8. pushes = [k \in 1 .. m |-> pushes[k]] /\ moves = [k \in 1 .. n - m |-> moves[k]]
  OBVIOUS
<1>9. Walk(p, call, Body(u), Body(u))
  BY <1>4, CallWalk
<1>10. Walk(p, result, Body(u), Body(u))
  <2>1. CASE in.dst = NoReg
    <3>1. result = << >> /\ Body(u) \in SUBSET Legal
      BY <2>1, AtLegal DEF Body
    <3> QED BY <3>1, WalkNone
  <2>2. CASE in.dst # NoReg /\ cg.dstOverride # NoReg
    <3>1. result = MoveTo(A0, A0)
      BY <1>2, <2>2
    <3>2. result \in Seq(Calm(R))
      BY <1>3, <3>1, CalmMoves
    <3> HIDE DEF result
    <3> QED BY <3>2, CalmWalk
  <2>3. CASE in.dst # NoReg /\ cg.dstOverride = NoReg /\ cg.reg[in.dst] # NoReg
    <3>1. result = MoveTo(cg.reg[in.dst], A0)
      BY <2>3
    <3>2. cg.reg[in.dst] \in R
      BY <1>2, <1>5, <2>3 DEF Selects
    <3>3. result \in Seq(Calm(R))
      BY <1>3, <3>1, <3>2, CalmMoves
    <3> HIDE DEF result
    <3> QED BY <3>3, CalmWalk
  <2>4. CASE in.dst # NoReg /\ cg.dstOverride = NoReg /\ cg.reg[in.dst] = NoReg
    <3>1. result = StoreOff(A0, SpillOff(cg, in.dst))
      BY <2>4
    <3>2. SpillOff(cg, in.dst) \in 0 .. Locals(u) - 1
      BY <1>2, <1>5, <2>4
    <3>3. Walk(p, Accessing("sw", A0, SpillOff(cg, in.dst), A7), Body(u), Body(u))
      <4>1. A7 \in Free(u)
        BY <1>3
      <4> QED BY <1>3, <3>2, <4>1, SlotWalk
    <3> HIDE DEF result
    <3> QED BY <3>1, <3>3, AccessForms
  <2> QED BY <2>1, <2>2, <2>3, <2>4
<1> HIDE DEF pushes, moves, call, result
<1>11. Walk(p, Concat(pushes), Body(u), Body(u))
  BY <1>4, <1>6, <1>8, BodyRow
<1>12. Walk(p, Concat(moves), Body(u), Body(u))
  <2>1. n - m \in Nat
    BY <1>4
  <2> DEFINE k0 == n - m
  <2>2. k0 \in Nat /\ moves = [k \in 1 .. k0 |-> moves[k]]
        /\ \A k \in 1 .. k0 : Walk(p, moves[k], Body(u), Body(u))
    BY <1>7, <1>8, <2>1
  <2> HIDE DEF k0
  <2> QED BY <2>2, BodyRow
<1>13. Walk(p, Concat(pushes) \o Concat(moves), Body(u), Body(u))
  BY <1>11, <1>12, WalkBoth
<1>14. Walk(p, Concat(pushes) \o Concat(moves) \o call, Body(u), Body(u))
  BY <1>9, <1>13, WalkBoth
<1>15. Walk(p, Concat(pushes) \o Concat(moves) \o call \o result, Body(u), Body(u))
  BY <1>10, <1>14, WalkBoth
<1> QED BY <1>1, <1>15

LEMMA AnyInstWalk ==
  ASSUME NEW p, NEW u, IsUnit(p, u), ~IsNaive(u), NEW cg, Generates(cg, u), NEW in \in InstsOf(u)
  PROVE  Walk(p, AnyInst(cg, in), Body(u), Body(u))
BY CallCodeWalk, InstWalk DEF AnyInst

-----------------------------------------------------------------------------
(* The naive back end's instructions: every vreg has a slot.               *)
LEMMA NaiveSlots ==
  ASSUME NEW p, NEW u, IsUnit(p, u), IsNaive(u), NEW v \in Vregs(u.fn)
  PROVE  SlotOff(u.fn, v) \in 0 .. Locals(u) - 1 /\ SlotOff(u.fn, v) \in Words
<1>1. HomeReg(u, v) = NoReg /\ HomeSlot(u, v) = SlotOff(u.fn, v)
  BY DEF HomeReg, HomeSlot
<1>2. SlotOff(u.fn, v) \in Outgoing(u) .. Locals(u) - 1
  BY <1>1, FrameFacts
<1>3. /\ Outgoing(u) \in Nat /\ Locals(u) \in Nat /\ Locals(u) =< RaSlot(u) /\ RaSlot(u) =< FrameSize(u)
      /\ RaSlot(u) \in Nat /\ FrameSize(u) \in 0 .. Deepest
  BY FrameFacts
<1> QED BY <1>2, <1>3, StackFacts DEF Words

LEMMA NaiveLoad ==
  ASSUME NEW p, NEW u, IsUnit(p, u), IsNaive(u), NEW val \in Vals(Vregs(u.fn)), NEW r \in Free(u)
  PROVE  LoadVal(u.fn, val, r) \in Seq(Calm(Free(u)))
<1> DEFINE R == Free(u)
<1>1. T6 \in R /\ R \in SUBSET Names
  BY ScratchIsFree
<1>2. CASE IsReg(val)
  <2>1. val.n \in Vregs(u.fn)
    BY <1>2 DEF Vals, IsReg
  <2>2. SlotOff(u.fn, val.n) \in Words
    BY <2>1, NaiveSlots
  <2>3. Accessing("lw", r, SlotOff(u.fn, val.n), T6) \in Seq(Calm(R))
    <3> HIDE DEF R
    <3> QED BY <1>1, <2>2, CalmAccess DEF R
  <2> QED BY <1>2, <2>3, AccessForms DEF LoadVal
<1>3. CASE ~IsReg(val)
  <2>1. val.n \in Words
    BY <1>3 DEF Vals, IsReg
  <2>2. <<LI(r, val.n)>> \in Seq(Calm(R))
    <3>1. r \in R
      OBVIOUS
    <3> HIDE DEF R
    <3> QED BY <1>1, <2>1, <3>1, CalmMoves
  <2> QED BY <1>3, <2>2 DEF LoadVal
<1> QED BY <1>2, <1>3

LEMMA NaiveStore ==
  ASSUME NEW p, NEW u, IsUnit(p, u), IsNaive(u), NEW v \in Vregs(u.fn), NEW r \in Names
  PROVE  Walk(p, StoreSlot(u.fn, r, v), Body(u), Body(u))
<1>1. SlotOff(u.fn, v) \in 0 .. Locals(u) - 1
  BY NaiveSlots
<1>2. T6 \in Free(u)
  BY ScratchIsFree
<1>3. Walk(p, Accessing("sw", r, SlotOff(u.fn, v), T6), Body(u), Body(u))
  BY <1>1, <1>2, SlotWalk
<1> QED BY <1>3, AccessForms DEF StoreSlot

LEMMA CalmScratch ==
  ASSUME NEW R \in SUBSET Names, T0 \in R, T1 \in R, NEW op \in BinaryOps
  PROVE  OnScratch(op) \in Seq(Calm(R))
<1>1. T0 \in Names /\ T1 \in Names
  OBVIOUS
<1>2. ASSUME NEW o \in Threes, NEW x \in {T0, T1}, NEW y \in {T0, T1}
      PROVE  <<RRR(o, T0, x, y)>> \in Seq(Calm(R))
  <2>1. RRR(o, T0, x, y) \in Calm(R)
    BY <1>1, CalmForms
  <2> QED BY <2>1
<1>3. ASSUME NEW o \in Twos PROVE Zero(o) \in Seq(Calm(R))
  <2>1. RR(o, T0, T0) \in Calm(R)
    BY <1>1, CalmForms
  <2> QED BY <2>1 DEF Zero
<1>4. Less(T0, T1) \in Seq(Calm(R)) /\ Less(T1, T0) \in Seq(Calm(R)) /\ <<RRR("sub", T0, T0, T1)>> \in Seq(Calm(R))
  BY <1>2 DEF Less, Threes
<1>5. Zero("flip") \in Seq(Calm(R)) /\ Zero("seqz") \in Seq(Calm(R)) /\ Zero("snez") \in Seq(Calm(R))
  BY <1>3 DEF Twos
<1>6. CASE op \in {"Add", "Sub", "Mul", "Div", "Mod"}
  <2>1. op \in DOMAIN Arithmetic /\ Arithmetic[op] \in Threes
    BY <1>6 DEF Arithmetic, Threes
  <2>2. op \notin {"Lt", "Gt", "Le", "Ge", "Eq", "Ne"}
    BY <1>6
  <2>3. OnScratch(op) = <<RRR(Arithmetic[op], T0, T0, T1)>>
    BY <2>1, <2>2 DEF OnScratch
  <2> QED BY <1>2, <2>1, <2>3
<1>7. CASE op \in CmpOps
  <2>1. op \notin DOMAIN Arithmetic
    BY <1>7 DEF Arithmetic, CmpOps
  <2> HIDE DEF Calm
  <2>2. OnScratch(op) \in
          {Less(T0, T1), Less(T1, T0), Less(T1, T0) \o Zero("flip"), Less(T0, T1) \o Zero("flip"),
           <<RRR("sub", T0, T0, T1)>> \o Zero("seqz"), <<RRR("sub", T0, T0, T1)>> \o Zero("snez")}
    BY <1>7, <2>1 DEF OnScratch, CmpOps
  <2>3. \A s, t \in Seq(Calm(R)) : s \o t \in Seq(Calm(R))
    OBVIOUS
  <2> QED BY <1>4, <1>5, <2>2, <2>3
<1> QED BY <1>6, <1>7 DEF BinaryOps, CmpOps

LEMMA NaiveCallWalk ==
  ASSUME NEW p, NEW u, IsUnit(p, u), IsNaive(u), NEW in \in InstsOf(u), in.op = "Call"
  PROVE  Walk(p, NaiveCall(u.fn, in), Body(u), Body(u))
<1> DEFINE n == Len(in.args)
           m == Stacked(n)
           f == u.fn
           R == Free(u)
           vs == Vregs(u.fn)
           pushes == [k \in 1 .. m |-> LoadVal(f, in.args[n + 1 - k], T0) \o Access("sw", T0, n - k - 8)]
           moves == [k \in 1 .. n - m |-> LoadVal(f, in.args[k], A0 + k - 1)]
           call == <<RRI("call", ZERO, ZERO, in.callee)>>
           result == IF in.dst = NoReg THEN << >> ELSE StoreSlot(f, A0, in.dst)
<1>1. NaiveCall(f, in) = Concat(pushes) \o Concat(moves) \o call \o result
  BY DEF NaiveCall, Stacked
<1>3. T0 \in R /\ A0 .. A7 \subseteq R /\ R \in SUBSET Names /\ A0 \in Names /\ T6 \in R
  BY ScratchIsFree
<1>4. /\ n \in Nat /\ m \in Nat /\ n - m \in 0 .. 8
      /\ \A k \in 1 .. n : in.args[k] \in Vals(vs)
      /\ \A k \in 1 .. m : n + 1 - k \in 1 .. n /\ (n + 1 - k) - 9 \in 0 .. Locals(u) - 1
      /\ \A k \in 1 .. n - m : A0 + k - 1 \in A0 .. A7 /\ k \in 1 .. n
      /\ in.callee \in DOMAIN Programs[p] /\ in.callee \in Int /\ ~Leaf(u)
  BY StackedFacts
<1>5. in.dst \in vs \cup {NoReg}
  BY InstsOfFacts
<1> HIDE DEF n, m
<1>6. ASSUME NEW k \in 1 .. m PROVE Walk(p, pushes[k], Body(u), Body(u))
  <2> DEFINE i == n + 1 - k
             o == n - k - 8
             load == LoadVal(f, in.args[i], T0)
             store == Access("sw", T0, o)
  <2>1. in.args[i] \in Vals(vs) /\ o \in 0 .. Locals(u) - 1
    <3>1. i \in 1 .. n /\ i - 9 \in 0 .. Locals(u) - 1 /\ in.args[i] \in Vals(vs)
      BY <1>4
    <3>2. o = i - 9
      BY <1>4
    <3> QED BY <3>1, <3>2
  <2>2. pushes[k] = load \o store
    OBVIOUS
  <2> HIDE DEF i, o
  <2>3. load \in Seq(Calm(R))
    BY <1>3, <2>1, NaiveLoad
  <2>4. Walk(p, load, Body(u), Body(u))
    BY <2>3, CalmWalk
  <2>5. Walk(p, Accessing("sw", T0, o, T6), Body(u), Body(u))
    <3>1. T0 \in Names /\ T6 \in Free(u)
      BY <1>3
    <3> QED BY <2>1, <3>1, SlotWalk
  <2>6. Walk(p, store, Body(u), Body(u))
    BY <2>5, AccessForms
  <2> HIDE DEF load, store, pushes
  <2> QED BY <2>2, <2>4, <2>6, WalkBoth
<1>7. ASSUME NEW k \in 1 .. n - m PROVE Walk(p, moves[k], Body(u), Body(u))
  <2> DEFINE d == A0 + k - 1
  <2>1. moves[k] = LoadVal(f, in.args[k], d)
    OBVIOUS
  <2>2. in.args[k] \in Vals(vs) /\ d \in R
    BY <1>3, <1>4
  <2> HIDE DEF d
  <2>3. LoadVal(f, in.args[k], d) \in Seq(Calm(R))
    BY <2>2, NaiveLoad
  <2> HIDE DEF moves
  <2> QED BY <2>1, <2>3, CalmWalk
<1>8. pushes = [k \in 1 .. m |-> pushes[k]] /\ moves = [k \in 1 .. n - m |-> moves[k]]
  OBVIOUS
<1>9. Walk(p, call, Body(u), Body(u))
  BY <1>4, CallWalk
<1>10. Walk(p, result, Body(u), Body(u))
  <2>1. CASE in.dst = NoReg
    <3>1. result = << >> /\ Body(u) \in SUBSET Legal
      BY <2>1, AtLegal DEF Body
    <3> QED BY <3>1, WalkNone
  <2>2. CASE in.dst # NoReg
    <3>1. result = StoreSlot(f, A0, in.dst)
      BY <2>2
    <3> HIDE DEF result
    <3> QED BY <1>3, <1>5, <2>2, <3>1, NaiveStore
  <2> QED BY <2>1, <2>2
<1> HIDE DEF pushes, moves, call, result
<1>11. Walk(p, Concat(pushes), Body(u), Body(u))
  BY <1>4, <1>6, <1>8, BodyRow
<1>12. Walk(p, Concat(moves), Body(u), Body(u))
  <2> DEFINE k0 == n - m
  <2>1. k0 \in Nat /\ moves = [k \in 1 .. k0 |-> moves[k]]
        /\ \A k \in 1 .. k0 : Walk(p, moves[k], Body(u), Body(u))
    BY <1>4, <1>7, <1>8
  <2> HIDE DEF k0
  <2> QED BY <2>1, BodyRow
<1>13. Walk(p, Concat(pushes) \o Concat(moves), Body(u), Body(u))
  BY <1>11, <1>12, WalkBoth
<1>14. Walk(p, Concat(pushes) \o Concat(moves) \o call, Body(u), Body(u))
  BY <1>9, <1>13, WalkBoth
<1>15. Walk(p, Concat(pushes) \o Concat(moves) \o call \o result, Body(u), Body(u))
  BY <1>10, <1>14, WalkBoth
<1> QED BY <1>1, <1>15

LEMMA NaiveInstWalk ==
  ASSUME NEW p, NEW u, IsUnit(p, u), IsNaive(u), NEW in \in InstsOf(u)
  PROVE  Walk(p, NaiveInst(u.fn, in), Body(u), Body(u))
<1> DEFINE f == u.fn
           R == Free(u)
           vs == Vregs(u.fn)
           done == StoreSlot(f, T0, in.dst)
           load == LoadVal(f, in.a, T0)
           loadB == LoadVal(f, in.b, T1)
<1>1. /\ in \in Insts(vs) /\ IsInstOf(p, u, in)
      /\ (in.op \notin {"StoreGlobal", "Call"} => in.dst \in vs)
  BY InstsOfFacts
<1>2. in.a \in Vals(vs) /\ in.b \in Vals(vs) /\ in.op \in Ops /\ in.gid \in Int
  BY <1>1 DEF Insts
<1>3. T0 \in R /\ T1 \in R /\ R \in SUBSET Names /\ ZERO \in Names /\ T0 \in Names /\ T1 \in Names
  BY ScratchIsFree, StackFacts
<1>4. load \in Seq(Calm(R)) /\ loadB \in Seq(Calm(R))
  BY <1>2, <1>3, NaiveLoad
<1> HIDE DEF R
<1>5. CASE in.op = "Call"
  BY <1>5, NaiveCallWalk DEF NaiveInst, BinaryOps
<1>6. CASE in.op = "StoreGlobal"
  <2>1. in.gid \in Gids
    BY <1>1, <1>6 DEF IsInstOf
  <2>2. RRI("swg", T0, T1, in.gid) \in Calm(R)
    BY <1>2, <1>3, <2>1, CalmForms
  <2>3. load \o <<RRI("swg", T0, T1, in.gid)>> \in Seq(Calm(R))
    <3> HIDE DEF load
    <3> QED BY <1>4, <2>2
  <2>4. NaiveInst(f, in) = load \o <<RRI("swg", T0, T1, in.gid)>>
    BY <1>6 DEF NaiveInst, BinaryOps
  <2> HIDE DEF load
  <2> QED BY <2>3, <2>4, CalmWalk DEF R
<1>7. CASE in.op \notin {"Call", "StoreGlobal"}
  <2>1. Walk(p, done, Body(u), Body(u))
    BY <1>1, <1>3, <1>7, NaiveStore
  <2>2. ASSUME NEW body \in Seq(Calm(R)), NaiveInst(f, in) = body \o done
        PROVE  Walk(p, NaiveInst(f, in), Body(u), Body(u))
    <3>1. Walk(p, body, Body(u), Body(u))
      BY CalmWalk DEF R
    <3> HIDE DEF done
    <3> QED BY <2>1, <2>2, <3>1, WalkBoth
  <2>3. CASE in.op = "Mv"
    <3>1. NaiveInst(f, in) = load \o done
      BY <2>3 DEF NaiveInst, BinaryOps
    <3> HIDE DEF load, done
    <3> QED BY <1>4, <2>2, <3>1
  <2>4. CASE in.op \in {"Neg", "Not"}
    <3> DEFINE o == IF in.op = "Neg" THEN "neg" ELSE "seqz"
    <3>1. NaiveInst(f, in) = (load \o Zero(o)) \o done
      BY <2>4 DEF NaiveInst, BinaryOps
    <3>2. o \in Twos
      BY DEF Twos
    <3> HIDE DEF o
    <3>3. Zero(o) \in Seq(Calm(R))
      <4>1. RR(o, T0, T0) \in Calm(R)
        BY <1>3, <3>2, CalmForms
      <4> QED BY <4>1 DEF Zero
    <3>4. load \o Zero(o) \in Seq(Calm(R))
      <4> HIDE DEF load
      <4> QED BY <1>4, <3>3
    <3> HIDE DEF load, done
    <3> QED BY <2>2, <3>1, <3>4
  <2>5. CASE in.op = "LoadGlobal"
    <3>1. in.gid \in Gids
      BY <1>1, <2>5 DEF IsInstOf
    <3>2. RRI("lwg", T0, ZERO, in.gid) \in Calm(R)
      BY <1>2, <1>3, <3>1, CalmForms
    <3>3. <<RRI("lwg", T0, ZERO, in.gid)>> \in Seq(Calm(R))
      BY <3>2
    <3>4. NaiveInst(f, in) = <<RRI("lwg", T0, ZERO, in.gid)>> \o done
      BY <2>5 DEF NaiveInst, BinaryOps
    <3> HIDE DEF done
    <3> QED BY <2>2, <3>3, <3>4
  <2>6. CASE in.op \in BinaryOps
    <3>1. NaiveInst(f, in) = (load \o loadB \o OnScratch(in.op)) \o done
      <4>1. in.op \notin {"Mv", "Neg", "Not", "LoadGlobal", "StoreGlobal", "Call"}
        BY <2>6 DEF BinaryOps
      <4> QED BY <2>6, <4>1 DEF NaiveInst
    <3>2. OnScratch(in.op) \in Seq(Calm(R))
      BY <1>3, <2>6, CalmScratch
    <3>3. load \o loadB \o OnScratch(in.op) \in Seq(Calm(R))
      <4> HIDE DEF load, loadB
      <4>1. load \o loadB \in Seq(Calm(R))
        BY <1>4
      <4> QED BY <3>2, <4>1
    <3> HIDE DEF load, loadB, done
    <3> QED BY <2>2, <3>1, <3>3
  <2> QED BY <1>2, <1>7, <2>3, <2>4, <2>5, <2>6 DEF Ops, UnaryOps
<1> QED BY <1>5, <1>6, <1>7

-----------------------------------------------------------------------------
(* Labels and jumps.  A jump finds what its target expects: a block that   *)
(* is jumped to expects no more than Body, block 0 included, for then no   *)
(* parameter is tracked.                                                   *)
Placed(p, u) ==
  /\ p \in DOMAIN Programs /\ u.id \in DOMAIN Programs[p] /\ Programs[p][u.id] = u
  /\ u.id \in Nat /\ IsUnit(p, u)

LEMMA EmittedFacts ==
  ASSUME NEW p, NEW u, IsUnit(p, u)
  PROVE  /\ 0 \in EmittedBlocks(u) /\ EmittedBlocks(u) \subseteq Blocks(u.fn)
         /\ EmittedBlocks(u) \subseteq Nat
         /\ \A b \in EmittedBlocks(u) : Succs(u.fn.blocks[b]) \subseteq EmittedBlocks(u)
<1>1. IsIRFunc(u.fn)
  BY DEF IsUnit
<1>2. 0 \in Blocks(u.fn) /\ Blocks(u.fn) \subseteq Nat
  BY <1>1 DEF IsIRFunc, Blocks
<1>3. \A b \in Blocks(u.fn) : Succs(u.fn.blocks[b]) \subseteq Blocks(u.fn)
  BY <1>1, BlockFacts
<1>4. /\ 0 \in Reachable(u.fn) /\ Reachable(u.fn) \subseteq Blocks(u.fn)
      /\ \A b \in Reachable(u.fn) : Succs(u.fn.blocks[b]) \subseteq Reachable(u.fn)
  BY <1>1, ReachableFacts
<1> QED BY <1>2, <1>3, <1>4 DEF EmittedBlocks

LEMMA EnteredFacts ==
  ASSUME NEW u
  PROVE  /\ Entered(u) \subseteq Body(u)
         /\ Tracked(u) = {} => Entered(u) = Body(u)
<1> DEFINE n == Len(u.fn.params)
           d == FrameSize(u)
           K == Keeps(u) \cup Waiting(u, n) \cup InRegs(u, n)
           S == Saves(u) \cup InSlots(u, n)
           K0 == Keeps(u)
           S0 == Saves(u)
           id == u.id
<1>1. Entered(u) = At(id, d, K, S) /\ Body(u) = At(id, d, K0, S0)
  BY DEF Entered, Stage, Body
<1>2. K0 \subseteq K /\ S0 \subseteq S
  OBVIOUS
<1>3. Tracked(u) = {} => K = K0 /\ S = S0
  <2> SUFFICES ASSUME Tracked(u) = {} PROVE K = K0 /\ S = S0
    OBVIOUS
  <2>1. Waiting(u, n) = {} /\ InRegs(u, n) = {} /\ InSlots(u, n) = {}
    BY DEF Waiting, InRegs, InSlots
  <2> QED BY <2>1
<1> HIDE DEF K, S, K0, S0, d, n, id
<1>4. At(id, d, K, S) \subseteq At(id, d, K0, S0)
  BY <1>2 DEF At, Holds
<1> QED BY <1>1, <1>3, <1>4

LEMMA LabelFacts ==
  ASSUME NEW p, NEW u, Placed(p, u), NEW b \in EmittedBlocks(u)
  PROVE  /\ LabelOf(u, b) = <<u.id, b>> /\ LabelOf(u, b) \in Labels(p) /\ LabelOf(u, b) \in Int \X Int
         /\ AtLabel(p, LabelOf(u, b)) = (IF b = 0 THEN Entered(u) ELSE Body(u))
         /\ AtLabel(p, LabelOf(u, b)) \subseteq Body(u)
         /\ AtLabel(p, LabelOf(u, b)) \in SUBSET Legal
<1> DEFINE l == LabelOf(u, b)
<1>1. l = <<u.id, b>> /\ l[1] = u.id /\ l[2] = b
  BY DEF LabelOf
<1>2. u.id \in Nat /\ b \in Nat /\ u.id \in DOMAIN Programs[p] /\ Programs[p][u.id] = u
  BY EmittedFacts DEF Placed
<1>3. l \in Nat \X Nat /\ l \in Int \X Int
  BY <1>1, <1>2
<1> HIDE DEF l
<1>4. l \in Labels(p)
  BY <1>1, <1>2, <1>3 DEF Labels
<1>5. AtLabel(p, l) = (IF b = 0 THEN Entered(u) ELSE Body(u))
  BY <1>1, <1>2 DEF AtLabel
<1>6. AtLabel(p, l) \subseteq Body(u)
  BY <1>5, EnteredFacts
<1>7. Body(u) \in SUBSET Legal
  BY AtLegal DEF Body
<1> QED BY <1>1, <1>3, <1>4, <1>5, <1>6, <1>7 DEF l

LEMMA TargetFacts ==
  ASSUME NEW p, NEW u, Placed(p, u), NEW c \in EmittedBlocks(u), NEW b \in Succs(u.fn.blocks[c])
  PROVE  /\ b \in EmittedBlocks(u) /\ b # NoReg
         /\ Body(u) \subseteq AtLabel(p, LabelOf(u, b))
<1>1. /\ c \in Blocks(u.fn) /\ b \in EmittedBlocks(u) /\ b \in Nat
  BY EmittedFacts DEF Placed
<1>2. AtLabel(p, LabelOf(u, b)) = (IF b = 0 THEN Entered(u) ELSE Body(u))
  BY <1>1, LabelFacts
<1>3. b = 0 => Tracked(u) = {}
  BY <1>1 DEF Tracked, Careful, EntryOnce
<1>4. b # NoReg
  BY <1>1 DEF NoReg
<1> QED BY <1>1, <1>2, <1>3, <1>4, EnteredFacts

LEMMA JWalk ==
  ASSUME NEW p, NEW u, Placed(p, u), NEW c \in EmittedBlocks(u), NEW b \in Succs(u.fn.blocks[c])
  PROVE  /\ Walk(p, J(u, b), Body(u), {})
         /\ \A op \in Branches, s \in Names, t \in Names :
              Walk(p, <<Goto(op, s, t, u, b)>>, Body(u), Body(u))
<1>1. b \in EmittedBlocks(u) /\ Body(u) \subseteq AtLabel(p, LabelOf(u, b))
  BY TargetFacts
<1>2. LabelOf(u, b) \in Labels(p) /\ LabelOf(u, b) \in Int \X Int
  BY <1>1, LabelFacts
<1>3. Body(u) \in SUBSET Legal /\ {} \in SUBSET Legal
  BY AtLegal DEF Body
<1>4. ASSUME NEW op \in Branches \cup {"j"}, NEW s \in Names, NEW t \in Names,
             NEW B, B = (IF op = "j" THEN {} ELSE Body(u))
      PROVE  Walk(p, <<Goto(op, s, t, u, b)>>, Body(u), B)
  <2> DEFINE in == Goto(op, s, t, u, b)
  <2>1. in = [op |-> op, rd |-> ZERO, rs |-> s, rt |-> t, n |-> LabelOf(u, b)]
    BY DEF Goto, RRR
  <2>2. in.op = op /\ in.n = LabelOf(u, b) /\ in \in Instructions
    BY <1>2, <2>1, StackFacts DEF Instructions, Mnemonics
  <2> HIDE DEF in
  <2>3. JumpStep(p, in, Body(u), B)
    BY <1>1, <1>2, <1>4, <2>2 DEF JumpStep
  <2>4. Step(p, in, Body(u), B)
    BY <2>2, <2>3 DEF Step
  <2>5. B \in SUBSET Legal
    BY <1>3, <1>4
  <2> QED BY <1>3, <2>2, <2>4, <2>5, WalkOne DEF in
<1>5. Walk(p, J(u, b), Body(u), {})
  BY <1>4, StackFacts DEF J
<1>6. ASSUME NEW op \in Branches, NEW s \in Names, NEW t \in Names
      PROVE  Walk(p, <<Goto(op, s, t, u, b)>>, Body(u), Body(u))
  <2>1. op # "j"
    BY DEF Branches
  <2> QED BY <1>4, <2>1
<1> QED BY <1>5, <1>6

LEMMA LabelWalk ==
  ASSUME NEW p, NEW u, Placed(p, u), NEW b \in EmittedBlocks(u)
  PROVE  Walk(p, <<RRI("label", ZERO, ZERO, LabelOf(u, b))>>, AtLabel(p, LabelOf(u, b)), Body(u))
<1> DEFINE l == LabelOf(u, b)
           in == RRI("label", ZERO, ZERO, l)
           A == AtLabel(p, l)
<1>1. l \in Labels(p) /\ l \in Int \X Int /\ A \subseteq Body(u) /\ A \in SUBSET Legal
  BY LabelFacts
<1>2. Body(u) \in SUBSET Legal
  BY AtLegal DEF Body
<1> HIDE DEF l
<1>3. in.op = "label" /\ in.n = l /\ in \in Instructions
  BY <1>1, StackFacts DEF Instructions, Mnemonics, RRI
<1> HIDE DEF in
<1>4. LabelStep(p, in, A, Body(u))
  BY <1>1, <1>3 DEF LabelStep
<1> HIDE DEF A
<1>5. Step(p, in, A, Body(u))
  BY <1>4 DEF Step
<1>6. Walk(p, <<in>>, A, Body(u))
  BY <1>1, <1>2, <1>3, <1>5, WalkOne
<1> QED BY <1>6 DEF in, A, l

(* A branch of the optimizing back end, on a value or on a comparison.     *)
LEMMA BranchIfWalk ==
  ASSUME NEW p, NEW u, Placed(p, u), ~IsNaive(u), NEW c \in EmittedBlocks(u),
         NEW b \in Succs(u.fn.blocks[c]), NEW in,
         in = << >> \/ \E last \in InstsOf(u) : in = <<last>> /\ last.op \in CmpOps,
         NEW negate \in BOOLEAN
  PROVE  Walk(p, BranchIf(u, u.fn.blocks[c], in, b, negate), Body(u), Body(u))
<1> DEFINE R == Free(u)
           vs == Vregs(u.fn)
           bb == u.fn.blocks[c]
           cg == Gen(u)
           g(op, s, t) == <<Goto(op, s, t, u, b)>>
<1>1. IsUnit(p, u) /\ IsIRFunc(u.fn) /\ c \in Blocks(u.fn)
  BY EmittedFacts DEF Placed, IsUnit
<1>2. Selects(cg, vs, R) /\ T5 \in R /\ T6 \in R /\ ZERO \in Names
  BY <1>1, GenSelects, ScratchIsFree, StackFacts
<1>3. \A op \in Branches, s \in Names, t \in Names : Walk(p, g(op, s, t), Body(u), Body(u))
  BY JWalk
<1> HIDE DEF g
<1>4. ASSUME NEW val \in Vals(vs), NEW d \in R
      PROVE  /\ ToReg(cg, val, d) \in Seq(Calm(R)) /\ InReg(cg, val, d) \in Names
             /\ Walk(p, ToReg(cg, val, d), Body(u), Body(u))
  <2>1. ToReg(cg, val, d) \in Seq(Calm(R)) /\ InReg(cg, val, d) \in Names
    <3> HIDE DEF R, vs, cg
    <3> QED BY <1>2, CalmOperand
  <2>2. Walk(p, ToReg(cg, val, d), Body(u), Body(u))
    BY <1>1, <2>1, CalmWalk
  <2> QED BY <2>1, <2>2
<1>5. CASE in = << >>
  <2> DEFINE op == IF negate THEN "beq" ELSE "bne"
             code == ToReg(cg, bb.cond, T5)
             r == InReg(cg, bb.cond, T5)
  <2>1. bb.cond \in Vals(vs)
    <3>1. bb \in BasicBlocks(vs)
      BY <1>1, BlockFacts
    <3> QED BY <3>1 DEF BasicBlocks
  <2>2. Walk(p, code, Body(u), Body(u)) /\ r \in Names
    BY <1>2, <1>4, <2>1
  <2>3. BranchIf(u, bb, in, b, negate) = code \o g(op, r, ZERO)
    BY <1>5 DEF BranchIf, BranchVal, g
  <2>4. op \in Branches
    BY DEF Branches
  <2> HIDE DEF op, r, code
  <2>5. Walk(p, g(op, r, ZERO), Body(u), Body(u))
    BY <1>2, <1>3, <2>2, <2>4
  <2> QED BY <2>2, <2>3, <2>5, WalkBoth
<1>6. ASSUME NEW last \in InstsOf(u), in = <<last>>, last.op \in CmpOps
      PROVE  Walk(p, BranchIf(u, bb, in, b, negate), Body(u), Body(u))
  <2> DEFINE x == InReg(cg, last.a, T5)
             y == InReg(cg, last.b, T6)
             lx == ToReg(cg, last.a, T5)
             ly == ToReg(cg, last.b, T6)
             e == IF negate THEN InvertCmp(last.op) ELSE last.op
             br == CASE e = "Lt" -> Goto("blt", x, y, u, b)
                     [] e = "Ge" -> Goto("bge", x, y, u, b)
                     [] e = "Gt" -> Goto("blt", y, x, u, b)
                     [] e = "Le" -> Goto("bge", y, x, u, b)
                     [] e = "Eq" -> Goto("beq", x, y, u, b)
                     [] e = "Ne" -> Goto("bne", x, y, u, b)
  <2>1. last.a \in Vals(vs) /\ last.b \in Vals(vs)
    <3>1. last \in Insts(vs)
      BY <1>1, InstsOfFacts
    <3> QED BY <3>1 DEF Insts
  <2>2. /\ Walk(p, lx, Body(u), Body(u)) /\ x \in Names
        /\ Walk(p, ly, Body(u), Body(u)) /\ y \in Names
    BY <1>2, <1>4, <2>1
  <2>3. e \in CmpOps
    BY <1>6 DEF CmpOps, InvertCmp
  <2>4. BranchIf(u, bb, in, b, negate) = lx \o ly \o <<br>>
    <3>1. in # << >> /\ in[1] = last
      BY <1>6
    <3>2. BranchIf(u, bb, in, b, negate) = BranchCmp(u, last, b, negate)
      BY <3>1 DEF BranchIf
    <3> QED BY <3>2 DEF BranchCmp
  <2> HIDE DEF x, y, e, lx, ly
  <2>5. <<br>> \in {g("blt", x, y), g("bge", x, y), g("blt", y, x), g("bge", y, x),
                    g("beq", x, y), g("bne", x, y)}
    BY <2>3 DEF CmpOps, g
  <2>6. Walk(p, <<br>>, Body(u), Body(u))
    <3>1. {"blt", "bge", "beq", "bne"} \subseteq Branches
      BY DEF Branches
    <3> HIDE DEF br
    <3> QED BY <1>3, <2>2, <2>5, <3>1
  <2> HIDE DEF br
  <2>7. Walk(p, lx \o ly, Body(u), Body(u))
    BY <2>2, WalkBoth
  <2> QED BY <2>4, <2>6, <2>7, WalkBoth
<1> QED BY <1>5, <1>6

(* What is ahead of a block: the label of the block emitted next, or       *)
(* nothing.                                                                *)
Ahead(p, u, next) == IF next = NoReg THEN {} ELSE AtLabel(p, LabelOf(u, next))

LEMMA AheadFacts ==
  ASSUME NEW p, NEW u, Placed(p, u), NEW c \in EmittedBlocks(u), NEW next
  PROVE  next \in Succs(u.fn.blocks[c]) => Body(u) \subseteq Ahead(p, u, next)
BY TargetFacts DEF Ahead

LEMMA TwoWayWalk ==
  ASSUME NEW p, NEW u, Placed(p, u), ~IsNaive(u), NEW c \in EmittedBlocks(u),
         u.fn.blocks[c].term = "Br", NEW next, NEW in,
         in = << >> \/ \E last \in InstsOf(u) : in = <<last>> /\ last.op \in CmpOps
  PROVE  Walk(p, TwoWay(u, u.fn.blocks[c], next, in), Body(u), Ahead(p, u, next))
<1> DEFINE bb == u.fn.blocks[c]
<1>1. bb.succ0 \in Succs(bb) /\ bb.succ1 \in Succs(bb)
  BY DEF Succs
<1>2. ASSUME NEW b \in {bb.succ0, bb.succ1}, NEW negate \in BOOLEAN
      PROVE  Walk(p, BranchIf(u, bb, in, b, negate), Body(u), Body(u))
  BY <1>1, BranchIfWalk
<1>3. CASE bb.succ1 = next
  <2>1. TwoWay(u, bb, next, in) = BranchIf(u, bb, in, bb.succ0, FALSE)
    BY <1>3 DEF TwoWay
  <2>2. Body(u) \subseteq Ahead(p, u, next)
    BY <1>1, <1>3, AheadFacts
  <2>3. Walk(p, BranchIf(u, bb, in, bb.succ0, FALSE), Body(u), Body(u))
    BY <1>2
  <2> QED BY <2>1, <2>2, <2>3, WalkWeaker
<1>4. CASE bb.succ1 # next /\ bb.succ0 = next
  <2>1. TwoWay(u, bb, next, in) = BranchIf(u, bb, in, bb.succ1, TRUE)
    BY <1>4 DEF TwoWay
  <2>2. Body(u) \subseteq Ahead(p, u, next)
    BY <1>1, <1>4, AheadFacts
  <2>3. Walk(p, BranchIf(u, bb, in, bb.succ1, TRUE), Body(u), Body(u))
    BY <1>2
  <2> QED BY <2>1, <2>2, <2>3, WalkWeaker
<1>5. CASE bb.succ1 # next /\ bb.succ0 # next
  <2> DEFINE br == BranchIf(u, bb, in, bb.succ0, FALSE)
  <2>1. TwoWay(u, bb, next, in) = br \o J(u, bb.succ1)
    BY <1>5 DEF TwoWay
  <2>2. Walk(p, J(u, bb.succ1), Body(u), {})
    BY <1>1, JWalk
  <2>3. Walk(p, br, Body(u), Body(u))
    BY <1>2
  <2> HIDE DEF br
  <2>4. Walk(p, br \o J(u, bb.succ1), Body(u), {})
    BY <2>2, <2>3, WalkBoth
  <2>5. Walk(p, br \o J(u, bb.succ1), Body(u), Ahead(p, u, next))
    BY <2>4, WalkWeaker
  <2> QED BY <2>1, <2>5
<1> QED BY <1>3, <1>4, <1>5

-----------------------------------------------------------------------------
(* Instructions that occur in a text.                                      *)
Has(c, in) == \E k \in 1 .. Len(c) : c[k] = in

LEMMA HasParts ==
  ASSUME NEW c \in Seq(Instructions), NEW d \in Seq(Instructions), NEW in
  PROVE  /\ Has(c, in) => Has(c \o d, in)
         /\ Has(d, in) => Has(c \o d, in)
<1> DEFINE e == c \o d
<1>1. /\ Len(c) \in Nat /\ Len(d) \in Nat /\ Len(e) = Len(c) + Len(d)
      /\ \A k \in 1 .. Len(c) : e[k] = c[k]
      /\ \A k \in 1 .. Len(d) : e[Len(c) + k] = d[k]
  <2>1. Len(c) \in Nat /\ Len(d) \in Nat /\ Len(e) = Len(c) + Len(d)
    OBVIOUS
  <2>2. \A k \in 1 .. Len(c) : e[k] = c[k]
    OBVIOUS
  <2>3. ASSUME NEW k \in 1 .. Len(d) PROVE e[Len(c) + k] = d[k]
    <3>1. Len(c) + k \in 1 .. Len(c) + Len(d) /\ ~(Len(c) + k =< Len(c)) /\ (Len(c) + k) - Len(c) = k
      BY <2>1
    <3> QED BY <3>1
  <2> QED BY <2>1, <2>2, <2>3
<1> HIDE DEF e
<1>2. Has(c, in) => Has(e, in)
  <2> SUFFICES ASSUME NEW k \in 1 .. Len(c), c[k] = in PROVE \E j \in 1 .. Len(e) : e[j] = in
    BY DEF Has
  <2>1. k \in 1 .. Len(e) /\ e[k] = in
    BY <1>1
  <2> QED BY <2>1
<1>3. Has(d, in) => Has(e, in)
  <2> SUFFICES ASSUME NEW k \in 1 .. Len(d), d[k] = in PROVE \E j \in 1 .. Len(e) : e[j] = in
    BY DEF Has
  <2>1. Len(c) + k \in 1 .. Len(e) /\ e[Len(c) + k] = in
    BY <1>1
  <2> QED BY <2>1
<1> QED BY <1>2, <1>3 DEF e

LEMMA HasConcat ==
  ASSUME NEW n \in Nat, NEW codes \in [1 .. n -> Seq(Instructions)], NEW i \in 1 .. n, NEW in,
         Has(codes[i], in)
  PROVE  Has(Concat(codes), in)
<1>0. \A j \in 1 .. n : \E pre \in Seq(Instructions), post \in Seq(Instructions) :
        /\ Concat(codes) = (pre \o codes[j]) \o post
        /\ j = 1 => pre = << >>
  BY ConcatParts
<1>1. PICK pre \in Seq(Instructions), post \in Seq(Instructions) :
        Concat(codes) = (pre \o codes[i]) \o post
  BY <1>0
<1> DEFINE c == codes[i]
           x == pre \o c
<1>2. c \in Seq(Instructions) /\ x \in Seq(Instructions) /\ Has(c, in)
  BY <1>1
<1> HIDE DEF c
<1>3. Has(x, in)
  BY <1>2, HasParts
<1> HIDE DEF x
<1>4. Has(x \o post, in)
  BY <1>2, <1>3, HasParts
<1> QED BY <1>1, <1>4 DEF x, c

(* A first instruction stays the first.                                    *)
LEMMA FirstIs ==
  ASSUME NEW in \in Instructions, NEW s \in Seq(Instructions)
  PROVE  /\ Has(<<in>>, in) /\ Has(<<in>> \o s, in)
         /\ (<<in>> \o s)[1] = in /\ Len(<<in>> \o s) > 0 /\ <<in>> \o s \in Seq(Instructions)
<1> DEFINE c == <<in>>
<1>1. c \in Seq(Instructions) /\ Len(c) = 1 /\ c[1] = in
  OBVIOUS
<1>2. Has(c, in)
  <2>1. 1 \in 1 .. Len(c)
    BY <1>1
  <2> QED BY <1>1, <2>1 DEF Has
<1> HIDE DEF c
<1>3. Has(c \o s, in)
  BY <1>1, <1>2, HasParts
<1>4. Len(s) \in Nat
  OBVIOUS
<1>5. c \o s \in Seq(Instructions) /\ Len(c \o s) = 1 + Len(s)
  <2>1. c \o s \in Seq(Instructions) /\ Len(c \o s) = Len(c) + Len(s)
    BY <1>1, ConcatProperties
  <2> QED BY <1>1, <2>1
<1>6. (c \o s)[1] = in
  <2>1. \A i \in 1 .. Len(c) + Len(s) : (c \o s)[i] = IF i =< Len(c) THEN c[i] ELSE s[i - Len(c)]
    BY <1>1, ConcatProperties
  <2>2. 1 \in 1 .. Len(c) + Len(s) /\ 1 =< Len(c)
    BY <1>1, <1>4
  <2> QED BY <1>1, <2>1, <2>2
<1> QED BY <1>2, <1>3, <1>4, <1>5, <1>6 DEF c

LEMMA FirstStays ==
  ASSUME NEW c \in Seq(Instructions), NEW d \in Seq(Instructions), Len(c) > 0
  PROVE  (c \o d)[1] = c[1] /\ Len(c \o d) > 0 /\ c \o d \in Seq(Instructions)
<1>1. Len(c) \in Nat /\ Len(d) \in Nat
  OBVIOUS
<1>2. c \o d \in Seq(Instructions) /\ Len(c \o d) = Len(c) + Len(d)
  BY ConcatProperties
<1>3. \A i \in 1 .. Len(c) + Len(d) : (c \o d)[i] = IF i =< Len(c) THEN c[i] ELSE d[i - Len(c)]
  BY ConcatProperties
<1>4. 1 \in 1 .. Len(c) + Len(d) /\ 1 =< Len(c)
  BY <1>1
<1> QED BY <1>1, <1>2, <1>3, <1>4

Headed(n) == RRI("func", ZERO, ZERO, n)
Labelled(l) == RRI("label", ZERO, ZERO, l)

-----------------------------------------------------------------------------
(* Blocks.                                                                 *)
LEMMA BlockInsts ==
  ASSUME NEW p, NEW u, IsUnit(p, u), NEW b \in EmittedBlocks(u)
  PROVE  /\ Len(u.fn.blocks[b].insts) \in Nat
         /\ DOMAIN u.fn.blocks[b].insts = 1 .. Len(u.fn.blocks[b].insts)
         /\ \A k \in 1 .. Len(u.fn.blocks[b].insts) : u.fn.blocks[b].insts[k] \in InstsOf(u)
         /\ u.fn.blocks[b].cond \in Vals(Vregs(u.fn)) /\ u.fn.blocks[b].ret \in Vals(Vregs(u.fn))
<1>1. b \in Blocks(u.fn) /\ IsIRFunc(u.fn)
  BY EmittedFacts DEF IsUnit
<1>2. /\ u.fn.blocks[b] \in BasicBlocks(Vregs(u.fn)) /\ Len(u.fn.blocks[b].insts) \in Nat
      /\ DOMAIN u.fn.blocks[b].insts = 1 .. Len(u.fn.blocks[b].insts)
  BY <1>1, BlockFacts
<1>3. u.fn.blocks[b].cond \in Vals(Vregs(u.fn)) /\ u.fn.blocks[b].ret \in Vals(Vregs(u.fn))
  BY <1>2 DEF BasicBlocks
<1>4. \A k \in 1 .. Len(u.fn.blocks[b].insts) : u.fn.blocks[b].insts[k] \in InstsOf(u)
  BY <1>1, <1>2 DEF InstsOf
<1> QED BY <1>2, <1>3, <1>4

LEMMA BlockWalk ==
  ASSUME NEW p, NEW u, Placed(p, u), ~IsNaive(u), NEW b \in EmittedBlocks(u), NEW next
  PROVE  /\ Walk(p, BlockCode(u, b, next), AtLabel(p, LabelOf(u, b)), Ahead(p, u, next))
         /\ Has(BlockCode(u, b, next), Labelled(LabelOf(u, b)))
<1> DEFINE bb == u.fn.blocks[b]
           n == Len(bb.insts)
           last == bb.insts[n]
           feeds(val) == n > 0 /\ IsReg(val) /\ last.dst = val.n /\ UsedOnlyIn(u.fn, val.n, b)
           fused == bb.term = "Br" /\ feeds(bb.cond) /\ last.op \in CmpOps
           retFuse == bb.term = "Ret" /\ bb.hasVal /\ feeds(bb.ret)
           value == CASE retFuse -> AnyInst([Gen(u) EXCEPT !.dstOverride = A0], last)
                      [] ~retFuse /\ bb.hasVal -> Materialize(Gen(u), bb.ret, A0)
                      [] OTHER -> << >>
           one == IF fused THEN <<last>> ELSE << >>
           term == CASE bb.term = "Jmp" -> IF bb.succ0 # next THEN J(u, bb.succ0) ELSE << >>
                     [] bb.term = "Br" -> TwoWay(u, bb, next, one)
                     [] OTHER -> value \o Epilogue(u)
           m == IF fused \/ retFuse THEN n - 1 ELSE n
           codes == [k \in 1 .. m |-> AnyInst(Gen(u), bb.insts[k])]
           label == <<RRI("label", ZERO, ZERO, LabelOf(u, b))>>
<1>1. BlockCode(u, b, next) = label \o Concat(codes) \o term
  BY DEF BlockCode
<1>2. IsUnit(p, u)
  BY DEF Placed
<1>3. /\ n \in Nat /\ \A k \in 1 .. n : bb.insts[k] \in InstsOf(u)
      /\ bb.cond \in Vals(Vregs(u.fn)) /\ bb.ret \in Vals(Vregs(u.fn))
  BY <1>2, BlockInsts
<1>4. (fused \/ retFuse) => n > 0
  OBVIOUS
<1>5. n > 0 => last \in InstsOf(u)
  <2>1. n > 0 => n \in 1 .. n /\ last = bb.insts[n]
    BY <1>3
  <2> HIDE DEF last
  <2> QED BY <1>3, <2>1
<1>6. m \in Nat /\ \A k \in 1 .. m : k \in 1 .. n
  <2> HIDE DEF fused, retFuse, n
  <2> QED BY <1>3, <1>4
<1>7. Generates(Gen(u), u) /\ Generates([Gen(u) EXCEPT !.dstOverride = A0], u)
  BY DEF Generates
<1>8. ASSUME NEW k \in 1 .. m PROVE Walk(p, codes[k], Body(u), Body(u))
  <2>1. codes[k] = AnyInst(Gen(u), bb.insts[k])
    OBVIOUS
  <2>2. bb.insts[k] \in InstsOf(u)
    BY <1>3, <1>6
  <2> HIDE DEF codes
  <2> QED BY <1>2, <1>7, <2>1, <2>2, AnyInstWalk
<1>9. codes = [k \in 1 .. m |-> codes[k]]
  OBVIOUS
<1>10. Walk(p, label, AtLabel(p, LabelOf(u, b)), Body(u))
  BY LabelWalk
<1>11. Body(u) \in SUBSET Legal
  BY AtLegal DEF Body
<1>12. Walk(p, term, Body(u), Ahead(p, u, next))
  <2>1. CASE bb.term = "Jmp"
    <3>1. bb.succ0 \in Succs(bb)
      BY <2>1 DEF Succs
    <3>2. CASE bb.succ0 # next
      <4>1. term = J(u, bb.succ0)
        BY <2>1, <3>2
      <4>2. Walk(p, J(u, bb.succ0), Body(u), {})
        BY <3>1, JWalk
      <4> HIDE DEF term
      <4> QED BY <4>1, <4>2, WalkWeaker
    <3>3. CASE bb.succ0 = next
      <4>1. term = << >>
        BY <2>1, <3>3
      <4>2. Body(u) \subseteq Ahead(p, u, next)
        BY <3>1, <3>3, AheadFacts
      <4>3. Walk(p, << >>, Body(u), Body(u))
        BY <1>11, WalkNone
      <4> HIDE DEF term
      <4> QED BY <4>1, <4>2, <4>3, WalkWeaker
    <3> QED BY <3>2, <3>3
  <2>2. CASE bb.term = "Br"
    <3>1. term = TwoWay(u, bb, next, one)
      BY <2>2
    <3>2. one = << >> \/ \E x \in InstsOf(u) : one = <<x>> /\ x.op \in CmpOps
      <4>1. fused => last \in InstsOf(u) /\ last.op \in CmpOps
        BY <1>4, <1>5
      <4> HIDE DEF fused, last
      <4> QED BY <4>1
    <3> HIDE DEF term, one
    <3> QED BY <2>2, <3>1, <3>2, TwoWayWalk
  <2>3. CASE bb.term \notin {"Jmp", "Br"}
    <3>1. term = value \o Epilogue(u)
      BY <2>3
    <3>2. Walk(p, value, Body(u), Body(u))
      <4>1. CASE retFuse
        <5>1. last \in InstsOf(u)
          BY <1>4, <1>5, <4>1
        <5>2. value = AnyInst([Gen(u) EXCEPT !.dstOverride = A0], last)
          BY <4>1
        <5> HIDE DEF value, last
        <5> QED BY <1>2, <1>7, <5>1, <5>2, AnyInstWalk
      <4>2. CASE ~retFuse /\ bb.hasVal
        <5>1. value = Materialize(Gen(u), bb.ret, A0)
          BY <4>2
        <5>2. Selects(Gen(u), Vregs(u.fn), Free(u)) /\ A0 \in Free(u)
          BY <1>2, GenSelects, ScratchIsFree
        <5>3. Materialize(Gen(u), bb.ret, A0) \in Seq(Calm(Free(u)))
          BY <1>3, <5>2, CalmOperand
        <5> HIDE DEF value
        <5> QED BY <1>2, <5>1, <5>3, CalmWalk
      <4>3. CASE ~retFuse /\ ~bb.hasVal
        <5>1. value = << >>
          BY <4>3
        <5> HIDE DEF value
        <5> QED BY <1>11, <5>1, WalkNone
      <4> QED BY <4>1, <4>2, <4>3
    <3>3. Walk(p, Epilogue(u), Body(u), {})
      <4>1. Walk(p, EpilogueCode(u), Body(u), {})
        BY <1>2, EpilogueWalk
      <4> QED BY <4>1 DEF EpilogueCode
    <3> HIDE DEF term, value
    <3>4. Walk(p, value \o Epilogue(u), Body(u), {})
      BY <3>2, <3>3, WalkBoth
    <3>5. Walk(p, value \o Epilogue(u), Body(u), Ahead(p, u, next))
      BY <3>4, WalkWeaker
    <3> QED BY <3>1, <3>5
  <2> QED BY <2>1, <2>2, <2>3
<1> HIDE DEF term, codes, label, m
<1>13. Walk(p, Concat(codes), Body(u), Body(u))
  BY <1>6, <1>8, <1>9, BodyRow
<1>14. Walk(p, label \o Concat(codes), AtLabel(p, LabelOf(u, b)), Body(u))
  BY <1>10, <1>13, WalkBoth
<1>15. Walk(p, label \o Concat(codes) \o term, AtLabel(p, LabelOf(u, b)), Ahead(p, u, next))
  BY <1>12, <1>14, WalkBoth
<1>16. Has(label \o Concat(codes) \o term, Labelled(LabelOf(u, b)))
  <2> DEFINE in == Labelled(LabelOf(u, b))
  <2>1. label = <<in>> /\ in \in Instructions
    <3>1. LabelOf(u, b) \in Int \X Int
      BY LabelFacts
    <3> QED BY <3>1, StackFacts DEF label, Labelled, Instructions, Mnemonics, RRI
  <2>2. label \in Seq(Instructions) /\ Concat(codes) \in Seq(Instructions) /\ term \in Seq(Instructions)
    BY <1>10, <1>12, <1>13 DEF Walk
  <2> HIDE DEF in
  <2>3. Has(label, in)
    <3>1. << >> \in Seq(Instructions)
      OBVIOUS
    <3> QED BY <2>1, <3>1, FirstIs
  <2>4. Has(label \o Concat(codes), in) /\ label \o Concat(codes) \in Seq(Instructions)
    <3>1. Has(label \o Concat(codes), in)
      BY <2>2, <2>3, HasParts
    <3>2. label \o Concat(codes) \in Seq(Instructions)
      BY <2>2
    <3> QED BY <3>1, <3>2
  <2> DEFINE x == label \o Concat(codes)
  <2>5. Has(x, in) /\ x \in Seq(Instructions)
    BY <2>4
  <2> HIDE DEF x
  <2>6. Has(x \o term, in)
    BY <2>2, <2>5, HasParts
  <2> QED BY <2>6 DEF x, in
<1> QED BY <1>1, <1>15, <1>16

LEMMA NaiveBlockWalk ==
  ASSUME NEW p, NEW u, Placed(p, u), IsNaive(u), NEW b \in EmittedBlocks(u)
  PROVE  /\ Walk(p, NaiveBlock(u, b), AtLabel(p, LabelOf(u, b)), {})
         /\ Has(NaiveBlock(u, b), Labelled(LabelOf(u, b)))
<1> DEFINE bb == u.fn.blocks[b]
           n == Len(bb.insts)
           codes == [k \in DOMAIN bb.insts |-> NaiveInst(u.fn, bb.insts[k])]
           label == <<RRI("label", ZERO, ZERO, LabelOf(u, b))>>
           term == NaiveTerm(u, bb)
<1>1. NaiveBlock(u, b) = label \o Concat(codes) \o term
  BY DEF NaiveBlock
<1>2. IsUnit(p, u)
  BY DEF Placed
<1>3. /\ n \in Nat /\ DOMAIN bb.insts = 1 .. n /\ \A k \in 1 .. n : bb.insts[k] \in InstsOf(u)
      /\ bb.cond \in Vals(Vregs(u.fn)) /\ bb.ret \in Vals(Vregs(u.fn))
  BY <1>2, BlockInsts
<1>4. ASSUME NEW k \in 1 .. n PROVE Walk(p, codes[k], Body(u), Body(u))
  <2>1. codes[k] = NaiveInst(u.fn, bb.insts[k]) /\ bb.insts[k] \in InstsOf(u)
    BY <1>3
  <2> HIDE DEF codes
  <2> QED BY <1>2, <2>1, NaiveInstWalk
<1>5. codes = [k \in 1 .. n |-> codes[k]]
  BY <1>3
<1>6. Walk(p, label, AtLabel(p, LabelOf(u, b)), Body(u))
  BY LabelWalk
<1>7. Body(u) \in SUBSET Legal
  BY AtLegal DEF Body
<1>8. T0 \in Free(u) /\ A0 \in Free(u) /\ T0 \in Names /\ ZERO \in Names
  BY <1>2, ScratchIsFree, StackFacts
<1>9. ASSUME NEW val \in Vals(Vregs(u.fn)), NEW r \in Free(u)
      PROVE  Walk(p, LoadVal(u.fn, val, r), Body(u), Body(u))
  <2>1. LoadVal(u.fn, val, r) \in Seq(Calm(Free(u)))
    BY <1>2, NaiveLoad
  <2> QED BY <1>2, <2>1, CalmWalk
<1>10. Walk(p, term, Body(u), {})
  <2>1. CASE bb.term = "Jmp"
    <3>1. bb.succ0 \in Succs(bb)
      BY <2>1 DEF Succs
    <3>2. term = J(u, bb.succ0)
      BY <2>1 DEF NaiveTerm
    <3> HIDE DEF term
    <3> QED BY <3>1, <3>2, JWalk
  <2>2. CASE bb.term = "Br"
    <3> DEFINE load == LoadVal(u.fn, bb.cond, T0)
               go == <<Goto("bne", T0, ZERO, u, bb.succ0)>>
               j == J(u, bb.succ1)
    <3>1. bb.succ0 \in Succs(bb) /\ bb.succ1 \in Succs(bb)
      BY <2>2 DEF Succs
    <3>2. term = load \o go \o j
      BY <2>2 DEF NaiveTerm
    <3>3. Walk(p, load, Body(u), Body(u))
      BY <1>3, <1>8, <1>9
    <3>4. Walk(p, go, Body(u), Body(u))
      <4>1. "bne" \in Branches
        BY DEF Branches
      <4> QED BY <1>8, <3>1, <4>1, JWalk
    <3>5. Walk(p, j, Body(u), {})
      BY <3>1, JWalk
    <3> HIDE DEF term, load, go, j
    <3>6. Walk(p, load \o go, Body(u), Body(u))
      BY <3>3, <3>4, WalkBoth
    <3> QED BY <3>2, <3>5, <3>6, WalkBoth
  <2>3. CASE bb.term \notin {"Jmp", "Br"}
    <3> DEFINE value == IF bb.hasVal THEN LoadVal(u.fn, bb.ret, A0) ELSE << >>
    <3>1. term = value \o NaiveEpilogue(u.fn)
      BY <2>3 DEF NaiveTerm
    <3>2. Walk(p, value, Body(u), Body(u))
      <4>1. CASE bb.hasVal
        BY <1>3, <1>8, <1>9, <4>1
      <4>2. CASE ~bb.hasVal
        BY <1>7, <4>2, WalkNone
      <4> QED BY <4>1, <4>2
    <3>3. Walk(p, NaiveEpilogue(u.fn), Body(u), {})
      <4>1. Walk(p, EpilogueCode(u), Body(u), {})
        BY <1>2, EpilogueWalk
      <4> QED BY <4>1 DEF EpilogueCode
    <3> HIDE DEF term, value
    <3> QED BY <3>1, <3>2, <3>3, WalkBoth
  <2> QED BY <2>1, <2>2, <2>3
<1> HIDE DEF term, codes, label, n
<1>11. Walk(p, Concat(codes), Body(u), Body(u))
  BY <1>3, <1>4, <1>5, BodyRow
<1>12. Walk(p, label \o Concat(codes), AtLabel(p, LabelOf(u, b)), Body(u))
  BY <1>6, <1>11, WalkBoth
<1>13. Walk(p, label \o Concat(codes) \o term, AtLabel(p, LabelOf(u, b)), {})
  BY <1>10, <1>12, WalkBoth
<1>14. Has(label \o Concat(codes) \o term, Labelled(LabelOf(u, b)))
  <2> DEFINE in == Labelled(LabelOf(u, b))
  <2>1. label = <<in>> /\ in \in Instructions
    <3>1. LabelOf(u, b) \in Int \X Int
      BY LabelFacts
    <3> QED BY <3>1, StackFacts DEF label, Labelled, Instructions, Mnemonics, RRI
  <2>2. label \in Seq(Instructions) /\ Concat(codes) \in Seq(Instructions) /\ term \in Seq(Instructions)
    BY <1>6, <1>10, <1>11 DEF Walk
  <2> HIDE DEF in
  <2>3. Has(label, in)
    <3>1. << >> \in Seq(Instructions)
      OBVIOUS
    <3> QED BY <2>1, <3>1, FirstIs
  <2>4. Has(label \o Concat(codes), in) /\ label \o Concat(codes) \in Seq(Instructions)
    <3>1. Has(label \o Concat(codes), in)
      BY <2>2, <2>3, HasParts
    <3>2. label \o Concat(codes) \in Seq(Instructions)
      BY <2>2
    <3> QED BY <3>1, <3>2
  <2> DEFINE x == label \o Concat(codes)
  <2>5. Has(x, in) /\ x \in Seq(Instructions)
    BY <2>4
  <2> HIDE DEF x
  <2>6. Has(x \o term, in)
    BY <2>2, <2>5, HasParts
  <2> QED BY <2>6 DEF x, in
<1> QED BY <1>1, <1>13, <1>14

-----------------------------------------------------------------------------
(* Functions.  The blocks are in a row, each ahead of the next.            *)
LEMMA FollowingFirst ==
  ASSUME NEW f, IsIRFunc(f)
  PROVE  Following(f, -1) = 0 /\ Following(f, f.nb - 1) = NoReg
<1>1. 0 \in Reachable(f) /\ Reachable(f) \subseteq Blocks(f)
  BY ReachableFacts
<1>2. f.nb \in Nat /\ \A c \in Reachable(f) : c \in Nat /\ c =< f.nb - 1
  BY <1>1 DEF IsIRFunc, Blocks
<1>3. -1 \in Int /\ f.nb - 1 \in Int
  BY <1>2
<1>4. Following(f, -1) = 0
  <2>1. Following(f, -1) # NoReg
    <3>1. ~(0 =< -1)
      OBVIOUS
    <3> QED BY <1>1, <1>3, <3>1, FollowingFacts
  <2>2. /\ Following(f, -1) \in Reachable(f)
        /\ \A c \in Reachable(f) : c > -1 => Following(f, -1) =< c
    BY <1>3, <2>1, FollowingFacts
  <2> QED BY <1>1, <1>2, <2>2
<1>5. Following(f, f.nb - 1) = NoReg
  <2> DEFINE b == f.nb - 1
  <2>1. b \in Int /\ \A c \in Reachable(f) : ~(c > b)
    BY <1>2
  <2> HIDE DEF b
  <2>2. Following(f, b) = NoReg
    BY <2>1, FollowingFacts
  <2> QED BY <2>2 DEF b
<1> QED BY <1>4, <1>5

LEMMA FollowingNext ==
  ASSUME NEW f, IsIRFunc(f), NEW k \in Int
  PROVE  /\ k \in Reachable(f) => Following(f, k - 1) = k
         /\ k \notin Reachable(f) => Following(f, k - 1) = Following(f, k)
<1> DEFINE j == k - 1
           x == Following(f, j)
           y == Following(f, k)
           R == Reachable(f)
<1>1. \A c \in R : c \in Int
  BY ReachableFacts DEF Blocks, IsIRFunc
<1>2. j \in Int /\ j < k /\ \A c \in Int : c > j /\ c # k => c > k
  OBVIOUS
<1>3. /\ x = NoReg => \A c \in R : c =< j
      /\ x # NoReg => x \in R /\ x > j /\ \A c \in R : c > j => x =< c
  BY <1>2, FollowingFacts
<1>4. /\ y = NoReg => \A c \in R : c =< k
      /\ y # NoReg => y \in R /\ y > k /\ \A c \in R : c > k => y =< c
  BY FollowingFacts
<1> HIDE DEF j, x, y, R
<1>5. ASSUME k \in R PROVE x = k
  <2>1. ~(k =< j) /\ k > j
    BY <1>2
  <2>2. x # NoReg
    BY <1>3, <1>5, <2>1
  <2>3. x \in R /\ x \in Int /\ x > j /\ x =< k
    BY <1>1, <1>3, <1>5, <2>1, <2>2
  <2> QED BY <1>2, <2>3
<1>6. ASSUME k \notin R PROVE x = y
  <2>1. CASE x = NoReg
    <3>1. y = NoReg
      BY <1>1, <1>2, <1>3, <1>4, <2>1
    <3> QED BY <2>1, <3>1
  <2>2. CASE x # NoReg
    <3>1. x \in R /\ x \in Int /\ x > k
      BY <1>1, <1>2, <1>3, <1>6, <2>2
    <3>2. y # NoReg
      BY <1>4, <3>1
    <3>5. y =< x /\ y \in R /\ y \in Int /\ y > k
      BY <1>1, <1>4, <3>1, <3>2
    <3>3. y =< x /\ y \in R /\ y \in Int /\ y > j
      BY <1>2, <3>5
    <3>4. x =< y
      BY <1>3, <2>2, <3>3
    <3> QED BY <3>1, <3>3, <3>4
  <2> QED BY <2>1, <2>2
<1> QED BY <1>5, <1>6 DEF j, x, y, R

BlockCodes(u) ==
  IF IsNaive(u) THEN [k \in 1 .. u.fn.nb |-> NaiveBlock(u, k - 1)]
  ELSE [k \in 1 .. u.fn.nb |->
          IF k - 1 \in Reachable(u.fn) THEN BlockCode(u, k - 1, Following(u.fn, k - 1)) ELSE << >>]

LEMMA UnitParts ==
  ASSUME NEW u
  PROVE  UnitCode(u) = <<Headed(u.id)>> \o EntryCode(u) \o Concat(BlockCodes(u))
<1>1. CASE IsNaive(u)
  BY <1>1 DEF UnitCode, NaiveFunc, EntryCode, BlockCodes, Headed
<1>2. CASE ~IsNaive(u)
  BY <1>2 DEF UnitCode, FuncCode, EntryCode, BlockCodes, Headed
<1> QED BY <1>1, <1>2

LEMMA HeaderWalk ==
  ASSUME NEW p, NEW u, Placed(p, u)
  PROVE  Headed(u.id) \in Instructions /\ Walk(p, <<Headed(u.id)>>, Started(u.id), Started(u.id))
<1> DEFINE in == Headed(u.id)
           A == Started(u.id)
<1>1. in.op = "func" /\ in.n = u.id /\ in \in Instructions
  BY StackFacts DEF Headed, Instructions, Mnemonics, RRI, Placed
<1>2. A \in SUBSET Legal
  BY AtLegal DEF Started
<1> HIDE DEF in
<1>3. LabelStep(p, in, A, A)
  BY <1>1 DEF LabelStep, Placed
<1> HIDE DEF A
<1>4. Step(p, in, A, A)
  BY <1>3 DEF Step
<1>5. Walk(p, <<in>>, A, A)
  BY <1>1, <1>2, <1>4, WalkOne
<1> QED BY <1>1, <1>5 DEF in, A

(* The blocks, from the entry's end on.                                    *)
LEMMA BlocksWalk ==
  ASSUME NEW p, NEW u, Placed(p, u)
  PROVE  /\ Walk(p, Concat(BlockCodes(u)), Entered(u), {})
         /\ \A b \in EmittedBlocks(u) : Has(Concat(BlockCodes(u)), Labelled(LabelOf(u, b)))
<1> DEFINE f == u.fn
           nb == f.nb
           codes == BlockCodes(u)
           to(k) == IF IsNaive(u) THEN (IF k = nb THEN {} ELSE AtLabel(p, LabelOf(u, k)))
                    ELSE Ahead(p, u, Following(f, k - 1))
           St == [k \in 0 .. nb |-> to(k)]
<1>1. IsUnit(p, u) /\ IsIRFunc(f) /\ nb \in Nat /\ nb # 0
  BY DEF Placed, IsUnit, IsIRFunc
<1>2. \A b \in Blocks(f) : b \in Int /\ 0 =< b /\ b < nb
  BY <1>1 DEF Blocks
<1>3. \A k \in 1 .. nb : k - 1 \in Blocks(f) /\ k - 1 \in Int /\ k - 1 \in 0 .. nb /\ k \in 0 .. nb
  BY <1>1 DEF Blocks
<1>4. ASSUME NEW k \in 1 .. nb PROVE Walk(p, codes[k], to(k - 1), to(k))
  <2> DEFINE b == k - 1
  <2>1. b \in Blocks(f) /\ b \in Int /\ b # nb
    BY <1>2, <1>3
  <2>2. CASE IsNaive(u)
    <3>1. codes[k] = NaiveBlock(u, b) /\ b \in EmittedBlocks(u)
      BY <2>1, <2>2 DEF BlockCodes, EmittedBlocks
    <3>2. to(b) = AtLabel(p, LabelOf(u, b))
      BY <2>1, <2>2
    <3>3. to(k - 1) = to(b)
      OBVIOUS
    <3> HIDE DEF codes, to, b
    <3>4. Walk(p, NaiveBlock(u, b), AtLabel(p, LabelOf(u, b)), {})
      BY <2>2, <3>1, NaiveBlockWalk
    <3> QED BY <3>1, <3>2, <3>3, <3>4, WalkWeaker
  <2>3. CASE ~IsNaive(u) /\ b \in Reachable(f)
    <3>1. codes[k] = BlockCode(u, b, Following(f, b)) /\ b \in EmittedBlocks(u)
      BY <2>3 DEF BlockCodes, EmittedBlocks
    <3>2. Following(f, b - 1) = b
      BY <1>1, <2>1, <2>3, FollowingNext
    <3>3. b # NoReg
      BY <1>2, <2>1 DEF NoReg
    <3>4. to(b) = AtLabel(p, LabelOf(u, b)) /\ to(k) = Ahead(p, u, Following(f, b))
      BY <2>3, <3>2, <3>3 DEF Ahead
    <3>5. to(k - 1) = to(b)
      OBVIOUS
    <3> HIDE DEF codes, to, b
    <3>6. Walk(p, BlockCode(u, b, Following(f, b)), AtLabel(p, LabelOf(u, b)), Ahead(p, u, Following(f, b)))
      BY <2>3, <3>1, BlockWalk
    <3> QED BY <3>1, <3>4, <3>5, <3>6
  <2>4. CASE ~IsNaive(u) /\ b \notin Reachable(f)
    <3>1. codes[k] = << >>
      BY <2>4 DEF BlockCodes
    <3>2. Following(f, b - 1) = Following(f, b)
      BY <1>1, <2>1, <2>4, FollowingNext
    <3>3. to(b) = to(k) /\ to(k) = Ahead(p, u, Following(f, b))
      BY <2>4, <3>2
    <3>4. to(k - 1) = to(b)
      OBVIOUS
    <3>5. Ahead(p, u, Following(f, b)) \in SUBSET Legal
      <4>1. CASE Following(f, b) = NoReg
        BY <4>1 DEF Ahead
      <4>2. CASE Following(f, b) # NoReg
        <5>1. Following(f, b) \in EmittedBlocks(u)
          BY <1>1, <2>1, <2>4, <4>2, FollowingFacts DEF EmittedBlocks
        <5> QED BY <4>2, <5>1, LabelFacts DEF Ahead
      <4> QED BY <4>1, <4>2
    <3> HIDE DEF codes, to, b
    <3> QED BY <3>1, <3>3, <3>4, <3>5, WalkNone
  <2> QED BY <2>2, <2>3, <2>4
<1>5. ASSUME NEW k \in 0 .. nb PROVE to(k) \in SUBSET Legal
  <2>1. CASE IsNaive(u)
    <3>1. CASE k = nb
      BY <2>1, <3>1
    <3>2. CASE k # nb
      <4>1. k \in EmittedBlocks(u)
        BY <1>1, <2>1, <3>2 DEF EmittedBlocks, Blocks
      <4> QED BY <2>1, <3>2, <4>1, LabelFacts
    <3> QED BY <3>1, <3>2
  <2>2. CASE ~IsNaive(u)
    <3> DEFINE y == Following(f, k - 1)
    <3>1. to(k) = Ahead(p, u, y)
      BY <2>2
    <3>2. y # NoReg => y \in EmittedBlocks(u)
      <4>1. k - 1 \in Int
        OBVIOUS
      <4> QED BY <1>1, <2>2, <4>1, FollowingFacts DEF EmittedBlocks
    <3> HIDE DEF y, to
    <3> QED BY <3>1, <3>2, LabelFacts DEF Ahead
  <2> QED BY <2>1, <2>2
<1>6. to(0) = Entered(u) /\ to(nb) = {}
  <2>1. 0 \in EmittedBlocks(u) /\ 0 # NoReg
    BY <1>1, EmittedFacts DEF NoReg
  <2>2. AtLabel(p, LabelOf(u, 0)) = Entered(u)
    BY <2>1, LabelFacts
  <2>3. Following(f, 0 - 1) = 0 /\ Following(f, nb - 1) = NoReg
    <3>1. 0 - 1 = -1
      OBVIOUS
    <3> QED BY <1>1, <3>1, FollowingFirst
  <2>4. CASE IsNaive(u)
    BY <1>1, <2>2, <2>4
  <2>5. CASE ~IsNaive(u)
    BY <2>1, <2>2, <2>3, <2>5 DEF Ahead
  <2> QED BY <2>4, <2>5
<1>7. codes = [k \in 1 .. nb |-> codes[k]]
  <2>1. CASE IsNaive(u)
    BY <2>1 DEF BlockCodes
  <2>2. CASE ~IsNaive(u)
    BY <2>2 DEF BlockCodes
  <2> QED BY <2>1, <2>2
<1> HIDE DEF to, codes
<1>8. /\ St = [k \in 0 .. nb |-> St[k]] /\ \A k \in 0 .. nb : St[k] = to(k)
      /\ St[0] = to(0) /\ St[nb] = to(nb)
  BY <1>1
<1> HIDE DEF St
<1>9. \A k \in 1 .. nb : Walk(p, codes[k], St[k - 1], St[k])
  BY <1>3, <1>4, <1>8
<1>10. \A k \in 0 .. nb : St[k] \in SUBSET Legal
  BY <1>5, <1>8
<1> HIDE DEF nb
<1>11. Walk(p, Concat(codes), St[0], St[nb])
  BY <1>1, <1>7, <1>8, <1>9, <1>10, WalkRow
<1>12. codes \in [1 .. nb -> Seq(Instructions)]
  <2>1. \A k \in 1 .. nb : codes[k] \in Seq(Instructions)
    BY <1>4 DEF Walk
  <2> QED BY <1>7, <2>1
<1>13. ASSUME NEW b \in EmittedBlocks(u) PROVE Has(Concat(codes), Labelled(LabelOf(u, b)))
  <2> DEFINE k == b + 1
  <2>1. b \in Blocks(f) /\ b \in Int
    BY <1>1, <1>2, EmittedFacts
  <2>2. k \in 1 .. nb /\ k - 1 = b
    <3>1. 0 =< b /\ b < nb
      BY <1>2, <2>1 DEF nb
    <3> QED BY <1>1, <2>1, <3>1
  <2>3. codes[k] = (IF IsNaive(u) THEN NaiveBlock(u, b) ELSE BlockCode(u, b, Following(f, b)))
    <3>1. IsNaive(u) \/ b \in Reachable(f)
      BY DEF EmittedBlocks
    <3> HIDE DEF k
    <3> QED BY <2>2, <3>1 DEF codes, BlockCodes, nb
  <2> HIDE DEF k
  <2>4. Has(codes[k], Labelled(LabelOf(u, b)))
    BY <2>3, BlockWalk, NaiveBlockWalk
  <2> QED BY <1>1, <1>12, <2>2, <2>4, HasConcat
<1> QED BY <1>6, <1>8, <1>11, <1>13 DEF codes

LEMMA UnitWalk ==
  ASSUME NEW p, NEW u, Placed(p, u)
  PROVE  /\ Walk(p, UnitCode(u), {}, {}) /\ UnitCode(u) \in Seq(Instructions)
         /\ Len(UnitCode(u)) > 0 /\ UnitCode(u)[1] = Headed(u.id)
         /\ Has(UnitCode(u), Headed(u.id))
         /\ \A b \in EmittedBlocks(u) : Has(UnitCode(u), Labelled(LabelOf(u, b)))
<1> DEFINE in == Headed(u.id)
           h == <<in>>
           e == EntryCode(u)
           c == Concat(BlockCodes(u))
           x == h \o e
<1>1. UnitCode(u) = x \o c
  BY UnitParts
<1>2. in \in Instructions /\ Walk(p, h, Started(u.id), Started(u.id))
  BY HeaderWalk
<1>3. Walk(p, e, Started(u.id), Entered(u))
  BY EntryWalk DEF Placed
<1>4. Walk(p, c, Entered(u), {}) /\ \A b \in EmittedBlocks(u) : Has(c, Labelled(LabelOf(u, b)))
  BY BlocksWalk
<1> HIDE DEF in, e, c
<1>5. e \in Seq(Instructions) /\ c \in Seq(Instructions)
  BY <1>3, <1>4 DEF Walk
<1>6. Has(x, in) /\ x[1] = in /\ Len(x) > 0 /\ x \in Seq(Instructions)
  BY <1>2, <1>5, FirstIs
<1>7. Walk(p, x, Started(u.id), Entered(u))
  BY <1>2, <1>3, WalkBoth
<1> HIDE DEF x, h
<1>8. Walk(p, x \o c, Started(u.id), {})
  BY <1>4, <1>7, WalkBoth
<1>9. Walk(p, x \o c, {}, {})
  BY <1>8, WalkWeaker
<1>10. (x \o c)[1] = in /\ Len(x \o c) > 0 /\ x \o c \in Seq(Instructions)
  BY <1>5, <1>6, FirstStays
<1>11. Has(x \o c, in) /\ \A b \in EmittedBlocks(u) : Has(x \o c, Labelled(LabelOf(u, b)))
  BY <1>4, <1>5, <1>6, HasParts
<1> QED BY <1>1, <1>9, <1>10, <1>11 DEF in

(* The text of a program.                                                  *)
LEMMA PlacedUnits ==
  ASSUME NEW p \in DOMAIN Programs
  PROVE  /\ Len(Programs[p]) \in Nat /\ DOMAIN Programs[p] = 1 .. Len(Programs[p])
         /\ 1 \in DOMAIN Programs[p]
         /\ \A k \in DOMAIN Programs[p] : Placed(p, Programs[p][k]) /\ Programs[p][k].id = k
<1>1. DOMAIN Programs[p] = 1 .. Len(Programs[p]) /\ Len(Programs[p]) \in Nat \ {0}
  BY ProgramsAssumption
<1>2. 1 \in DOMAIN Programs[p]
  BY <1>1
<1>3. ASSUME NEW k \in DOMAIN Programs[p] PROVE Placed(p, Programs[p][k]) /\ Programs[p][k].id = k
  <2>1. Programs[p][k].id = k /\ IsUnit(p, Programs[p][k])
    BY ProgramsAssumption
  <2>2. k \in Nat
    BY <1>1
  <2> QED BY <2>1, <2>2 DEF Placed
<1> QED BY <1>1, <1>2, <1>3

LEMMA ProgramWalk ==
  ASSUME NEW p \in DOMAIN Programs
  PROVE  /\ Walk(p, Code[p], {}, {})
         /\ Len(Code[p]) > 0 /\ Code[p][1] = Headed(1)
         /\ \A n \in DOMAIN Programs[p] : Has(Code[p], Headed(n))
         /\ \A l \in Labels(p) : Has(Code[p], Labelled(l))
<1> DEFINE n == Len(Programs[p])
           codes == [k \in DOMAIN Programs[p] |-> UnitCode(Programs[p][k])]
           St == [k \in 0 .. n |-> {}]
<1>1. Code[p] = Concat(codes)
  BY DEF Code
<1>2. /\ n \in Nat /\ DOMAIN Programs[p] = 1 .. n /\ 1 \in 1 .. n
      /\ \A k \in 1 .. n : Placed(p, Programs[p][k]) /\ Programs[p][k].id = k
  BY PlacedUnits
<1>3. codes = [k \in 1 .. n |-> codes[k]] /\ \A k \in 1 .. n : codes[k] = UnitCode(Programs[p][k])
  BY <1>2
<1> HIDE DEF n, codes
<1>4. ASSUME NEW k \in 1 .. n
      PROVE  /\ Walk(p, codes[k], {}, {}) /\ codes[k] \in Seq(Instructions)
             /\ Len(codes[k]) > 0 /\ codes[k][1] = Headed(k) /\ Has(codes[k], Headed(k))
             /\ \A b \in EmittedBlocks(Programs[p][k]) :
                  Has(codes[k], Labelled(LabelOf(Programs[p][k], b)))
  BY <1>2, <1>3, UnitWalk
<1>5. codes \in [1 .. n -> Seq(Instructions)]
  BY <1>3, <1>4
<1>6. Walk(p, Concat(codes), {}, {})
  <2>1. /\ St \in [0 .. n -> SUBSET Legal] /\ \A k \in 0 .. n : St[k] = {}
        /\ St[0] = {} /\ St[n] = {}
    BY <1>2
  <2> HIDE DEF St
  <2>2. \A k \in 1 .. n : Walk(p, codes[k], St[k - 1], St[k])
    <3> TAKE k \in 1 .. n
    <3>1. k - 1 \in 0 .. n /\ k \in 0 .. n
      BY <1>2
    <3> QED BY <1>4, <2>1, <3>1
  <2>3. Walk(p, Concat(codes), St[0], St[n])
    BY <1>2, <1>5, <2>1, <2>2, WalkPieces
  <2> QED BY <2>1, <2>3
<1>7. ASSUME NEW k \in 1 .. n, NEW in, Has(codes[k], in) PROVE Has(Concat(codes), in)
  BY <1>2, <1>5, <1>7, HasConcat
<1>8. Len(Concat(codes)) > 0 /\ Concat(codes)[1] = Headed(1)
  <2>1. \A i \in 1 .. n : \E pre \in Seq(Instructions), post \in Seq(Instructions) :
          /\ Concat(codes) = (pre \o codes[i]) \o post
          /\ i = 1 => pre = << >>
    BY <1>2, <1>5, ConcatParts
  <2>2. PICK pre \in Seq(Instructions), post \in Seq(Instructions) :
          Concat(codes) = (pre \o codes[1]) \o post /\ pre = << >>
    BY <1>2, <2>1
  <2> DEFINE c == codes[1]
  <2>3. c \in Seq(Instructions) /\ Len(c) > 0 /\ c[1] = Headed(1)
    BY <1>2, <1>4
  <2> HIDE DEF c
  <2>4. pre \o c = c
    BY <2>2, <2>3, ConcatEmptySeq
  <2>5. Concat(codes) = c \o post
    BY <2>2, <2>4 DEF c
  <2> QED BY <2>3, <2>5, FirstStays
<1>9. ASSUME NEW l \in Labels(p) PROVE Has(Concat(codes), Labelled(l))
  <2> DEFINE k == l[1]
             b == l[2]
             u == Programs[p][k]
  <2>1. l \in Nat \X Nat /\ k \in 1 .. n /\ b \in EmittedBlocks(u)
    BY <1>2 DEF Labels
  <2>2. u.id = k
    BY <1>2, <2>1
  <2>3. l = LabelOf(u, b)
    <3>1. l = <<l[1], l[2]>>
      BY <2>1
    <3> QED BY <2>2, <3>1 DEF LabelOf
  <2> HIDE DEF k, b
  <2>4. Has(codes[k], Labelled(LabelOf(u, b)))
    BY <1>4, <2>1
  <2> QED BY <1>7, <2>1, <2>3, <2>4
<1>10. \A k \in DOMAIN Programs[p] : Has(Concat(codes), Headed(k))
  BY <1>2, <1>4, <1>7
<1> QED BY <1>1, <1>6, <1>8, <1>9, <1>10

-----------------------------------------------------------------------------
(* Running programs.  The text of a program is marked once and for all     *)
(* with what may stand between its instructions.                           *)
Marks(p) == CHOOSE tr : Marking(p, Code[p], tr) /\ tr[Len(Code[p])] = {}

LEMMA MarksFacts ==
  ASSUME NEW p \in DOMAIN Programs
  PROVE  /\ Code[p] \in Seq(Instructions) /\ Len(Code[p]) \in Nat /\ Len(Code[p]) > 0
         /\ DOMAIN Code[p] = 1 .. Len(Code[p]) /\ Len(Code[p]) < Half
         /\ Marks(p) \in [0 .. Len(Code[p]) -> SUBSET Legal]
         /\ \A k \in 1 .. Len(Code[p]) :
              Code[p][k] \in Instructions /\ Step(p, Code[p][k], Marks(p)[k - 1], Marks(p)[k])
         /\ Marks(p)[Len(Code[p])] = {}
<1> DEFINE c == Code[p]
           Is(tr) == Marking(p, c, tr) /\ tr[Len(c)] = {}
<1>1. Walk(p, c, {}, {}) /\ Len(c) > 0
  BY ProgramWalk
<1>2. c \in Seq(Instructions) /\ \E tr : Is(tr)
  BY <1>1 DEF Walk
<1>3. Is(Marks(p))
  <2>1. Marks(p) = CHOOSE tr : Is(tr)
    BY DEF Marks
  <2> HIDE DEF Is
  <2> QED BY <1>2, <2>1
<1>4. Len(c) < Half
  BY TextAssumption
<1> HIDE DEF c
<1>5. Len(c) \in Nat /\ DOMAIN c = 1 .. Len(c) /\ \A k \in 1 .. Len(c) : c[k] \in Instructions
  BY <1>2
<1> QED BY <1>1, <1>2, <1>3, <1>4, <1>5 DEF Marking, c

(* Where a label or a function is, its mark says what may stand there.     *)
LEMMA PlaceFacts ==
  ASSUME NEW p \in DOMAIN Programs, NEW k \in 1 .. Len(Code[p])
  PROVE  /\ Code[p][k].op = "func" => Marks(p)[k - 1] = Started(Code[p][k].n)
         /\ Code[p][k].op = "label" => Marks(p)[k - 1] = AtLabel(p, Code[p][k].n)
         /\ Code[p][k].op \in {"func", "label"} => Marks(p)[k - 1] \subseteq Marks(p)[k]
<1> DEFINE in == Code[p][k]
           A == Marks(p)[k - 1]
           B == Marks(p)[k]
<1>1. Step(p, in, A, B)
  BY MarksFacts
<1> HIDE DEF in, A, B
<1>2. in.op \in {"func", "label"} => LabelStep(p, in, A, B)
  BY <1>1 DEF Step, Computing, Branches
<1> QED BY <1>2 DEF LabelStep, in, A, B

LEMMA FindFacts ==
  ASSUME prog \in DOMAIN Programs, text = Code[prog]
  PROVE  /\ \A n \in DOMAIN Programs[prog] :
              /\ Find("func", n) \in 1 .. Len(text)
              /\ Marks(prog)[Find("func", n) - 1] = Started(n)
         /\ \A l \in Labels(prog) :
              /\ Find("label", l) \in 1 .. Len(text)
              /\ Marks(prog)[Find("label", l) - 1] = AtLabel(prog, l)
<1>1. DOMAIN text = 1 .. Len(text) /\ Code[prog] \in Seq(Instructions)
  BY MarksFacts
<1>2. /\ \A n \in DOMAIN Programs[prog] : Has(text, Headed(n))
      /\ \A l \in Labels(prog) : Has(text, Labelled(l))
  BY ProgramWalk
<1>3. ASSUME NEW op, NEW n, \E k \in 1 .. Len(text) : text[k].op = op /\ text[k].n = n
      PROVE  Find(op, n) \in 1 .. Len(text) /\ text[Find(op, n)].op = op /\ text[Find(op, n)].n = n
  <2> DEFINE Is(k) == text[k].op = op /\ text[k].n = n
  <2>1. Find(op, n) = CHOOSE k \in 1 .. Len(text) : Is(k)
    BY <1>1 DEF Find
  <2>2. \E k \in 1 .. Len(text) : Is(k)
    BY <1>3
  <2> HIDE DEF Is
  <2>3. Find(op, n) \in 1 .. Len(text) /\ Is(Find(op, n))
    BY <2>1, <2>2
  <2> QED BY <2>3 DEF Is
<1>4. ASSUME NEW n \in DOMAIN Programs[prog]
      PROVE  /\ Find("func", n) \in 1 .. Len(text)
             /\ Marks(prog)[Find("func", n) - 1] = Started(n)
  <2>1. \E k \in 1 .. Len(text) : text[k].op = "func" /\ text[k].n = n
    <3>1. PICK k \in 1 .. Len(text) : text[k] = Headed(n)
      BY <1>2 DEF Has
    <3>2. Headed(n).op = "func" /\ Headed(n).n = n
      BY DEF Headed, RRI
    <3> QED BY <3>1, <3>2
  <2>2. /\ Find("func", n) \in 1 .. Len(text)
        /\ text[Find("func", n)].op = "func" /\ text[Find("func", n)].n = n
    BY <1>3, <2>1
  <2> QED BY <2>2, PlaceFacts
<1>5. ASSUME NEW l \in Labels(prog)
      PROVE  /\ Find("label", l) \in 1 .. Len(text)
             /\ Marks(prog)[Find("label", l) - 1] = AtLabel(prog, l)
  <2>1. \E k \in 1 .. Len(text) : text[k].op = "label" /\ text[k].n = l
    <3>1. PICK k \in 1 .. Len(text) : text[k] = Labelled(l)
      BY <1>2 DEF Has
    <3>2. Labelled(l).op = "label" /\ Labelled(l).n = l
      BY DEF Labelled, RRI
    <3> QED BY <3>1, <3>2
  <2>2. /\ Find("label", l) \in 1 .. Len(text)
        /\ text[Find("label", l)].op = "label" /\ text[Find("label", l)].n = l
    BY <1>3, <2>1
  <2> QED BY <2>2, PlaceFacts
<1> QED BY <1>4, <1>5

-----------------------------------------------------------------------------
(* The invariant.  Once there is text, the machine and the innermost       *)
(* activation stand where the mark before the next instruction allows, and *)
(* every other activation awaits the return of the one above it: whatever  *)
(* machine has sp, the callee-saved registers and the callers' stack as    *)
(* they were at the call may stand after that call.                        *)
Awaited(p, f, g) ==
  /\ f.ra \in 1 .. Len(Code[p])
  /\ \A t \in MachineStates :
       /\ t.r[SP] = f.sp
       /\ \A x \in CalleeSaved : t.r[x] = f.saved[x]
       /\ Kept(t, f)
       => <<t, g>> \in Marks(p)[f.ra - 1]

Awaiting(p, fs) ==
  /\ fs[Len(fs)].ra = Halt
  /\ \A i \in 1 .. Len(fs) - 1 : Awaited(p, fs[i], fs[i + 1])

Standing ==
  /\ pos \in 1 .. Len(Code[prog])
  /\ frames \in Seq(Activations) /\ Len(frames) > 0
  /\ <<st, frames[1]>> \in Marks(prog)[pos - 1]
  /\ Awaiting(prog, frames)

Unstarted == text = << >> /\ pos = 1 /\ st = Fresh(init) /\ frames = <<Frame(st, 1)>>

CodeInv ==
  /\ prog \in DOMAIN Programs /\ init \in Globals /\ st \in MachineStates
  /\ Unstarted \/ (text = Code[prog] /\ (pos = Halt \/ Standing))

(* An activation that begins is given what the machine holds.              *)
LEMMA FrameStarts ==
  ASSUME NEW s \in MachineStates, NEW k \in Nat, s.r[SP] \in Levels, s.r[RA] \in Nat
  PROVE  Frame(s, k) \in Activations /\ <<s, Frame(s, k)>> \in Started(k)
<1> DEFINE f == Frame(s, k)
<1>1. f = [sp |-> s.r[SP], ra |-> s.r[RA], saved |-> [x \in CalleeSaved |-> s.r[x]],
           args |-> [i \in 0 .. 7 |-> s.r[A0 + i]], mem |-> s.m, unit |-> k]
  BY DEF Frame
<1>2. s.r \in [Names -> Words] /\ s.m \in [0 .. StackTop -> Words]
  BY DEF MachineStates
<1>3. CalleeSaved \subseteq Names /\ \A i \in 0 .. 7 : A0 + i \in Names
  BY DEF CalleeSaved, Names, A0
<1>4. f \in Activations
  <2>1. [x \in CalleeSaved |-> s.r[x]] \in [CalleeSaved -> Words]
    BY <1>2, <1>3
  <2>2. [i \in 0 .. 7 |-> s.r[A0 + i]] \in [0 .. 7 -> Words]
    BY <1>2, <1>3
  <2> QED BY <1>1, <1>2, <2>1, <2>2 DEF Activations
<1>5. Kept(s, f) /\ f.unit = k /\ s.r[SP] = f.sp /\ f.ra = s.r[RA]
      /\ f.saved = [x \in CalleeSaved |-> s.r[x]] /\ f.args = [i \in 0 .. 7 |-> s.r[A0 + i]]
  BY <1>1 DEF Kept
<1>6. ASSUME NEW q \in Handed PROVE s.r[q[1]] = Given(f, q[2])
  <2>1. PICK x \in CalleeSaved \cup {RA} \cup A0 .. A7 : q = <<x, x>>
    BY DEF Handed
  <2>2. q[1] = x /\ q[2] = x
    BY <2>1
  <2>3. RA \notin CalleeSaved /\ RA \notin A0 .. A7 /\ \A y \in CalleeSaved : y \notin A0 .. A7
    BY DEF RA, CalleeSaved, A0, A7
  <2>4. CASE x \in CalleeSaved
    BY <1>5, <2>2, <2>3, <2>4 DEF Given
  <2>5. CASE x = RA
    BY <1>5, <2>2, <2>3, <2>5 DEF Given
  <2>6. CASE x \in A0 .. A7
    <3>1. x - A0 \in 0 .. 7 /\ A0 + (x - A0) = x
      BY <2>6 DEF A0, A7
    <3>2. Given(f, x) = f.args[x - A0]
      BY <2>3, <2>6 DEF Given
    <3> QED BY <1>5, <2>2, <3>1, <3>2
  <2> QED BY <2>1, <2>4, <2>5, <2>6
<1>7. s.r[SP] = f.sp - 0
  BY <1>4, <1>5 DEF Activations, Levels
<1>8. Holds(s, f, 0, Handed, {})
  BY <1>6, <1>7 DEF Holds
<1> HIDE DEF f
<1>9. <<s, f>> \in At(k, 0, Handed, {})
  BY <1>4, <1>5, <1>8, IntoAt
<1> QED BY <1>4, <1>9 DEF Started, f

-----------------------------------------------------------------------------
(* The start, and compilation.                                             *)
LEMMA FreshFacts ==
  ASSUME NEW g \in Globals
  PROVE  Fresh(g) \in MachineStates /\ Fresh(g).r[SP] \in Levels /\ Fresh(g).r[RA] = 0
<1> DEFINE R == [x \in 0 .. 31 |-> CASE x = SP -> StackTop [] x \in {ZERO, RA} -> 0 [] OTHER -> -x]
           M == [k \in 0 .. StackTop |-> -40 - k]
<1>1. Fresh(g) = [r |-> R, m |-> M, g |-> g]
  BY DEF Fresh
<1>2. StackTop \in Nat /\ StackTop + 40 =< Half /\ StackTop % 4 = 0 /\ Half \in Nat /\ Deepest \in Nat
  BY StackFacts
<1>3. R \in [Names -> Words]
  <2>1. ASSUME NEW x \in 0 .. 31
        PROVE  (CASE x = SP -> StackTop [] x \in {ZERO, RA} -> 0 [] OTHER -> -x) \in Words
    <3>1. StackTop \in Words /\ 0 \in Words /\ -x \in Words
      BY <1>2 DEF Words
    <3>2. ~(x = SP /\ x \in {ZERO, RA})
      BY DEF SP, ZERO, RA
    <3> QED BY <3>1, <3>2
  <2> QED BY <2>1 DEF Names
<1>4. M \in [0 .. StackTop -> Words]
  <2>1. ASSUME NEW k \in 0 .. StackTop PROVE -40 - k \in Words
    BY <1>2 DEF Words
  <2> QED BY <2>1
<1>5. g \in [Gids -> Words]
  BY GlobalsAssumption
<1>6. R[SP] = StackTop /\ R[RA] = 0
  BY DEF SP, RA, ZERO
<1> HIDE DEF R, M
<1>7. StackTop \in Levels
  BY <1>2 DEF Levels
<1> QED BY <1>1, <1>3, <1>4, <1>5, <1>6, <1>7 DEF MachineStates

LEMMA CodeInvInit == CodeInit => CodeInv
<1> SUFFICES ASSUME CodeInit PROVE CodeInv
  OBVIOUS
<1>1. prog \in DOMAIN Programs /\ init \in Globals /\ Unstarted /\ st = Fresh(init)
  BY DEF CodeInit, Unstarted
<1>2. st \in MachineStates
  BY <1>1, FreshFacts
<1> QED BY <1>1, <1>2 DEF CodeInv

LEMMA CompileKeeps ==
  ASSUME CodeInv, Compile
  PROVE  CodeInv'
<1>1. prog' = prog /\ init' = init /\ pos' = pos /\ st' = st /\ frames' = frames
      /\ text = << >> /\ text' = Code[prog]
  BY DEF Compile
<1>2. prog \in DOMAIN Programs /\ init \in Globals /\ st \in MachineStates
  BY DEF CodeInv
<1>3. Len(Code[prog]) \in Nat /\ Len(Code[prog]) > 0 /\ Code[prog] # << >>
  <2>1. Len(Code[prog]) \in Nat /\ Len(Code[prog]) > 0
    BY <1>2, MarksFacts
  <2> QED BY <2>1
<1>4. pos = 1 /\ st = Fresh(init) /\ frames = <<Frame(st, 1)>>
  BY <1>1, <1>3 DEF CodeInv, Unstarted
<1> DEFINE f == Frame(st, 1)
<1>5. st.r[SP] \in Levels /\ st.r[RA] = 0
  BY <1>2, <1>4, FreshFacts
<1>6. f \in Activations /\ <<st, f>> \in Started(1)
  BY <1>2, <1>5, FrameStarts
<1>7. Marks(prog)[1 - 1] = Started(1)
  <2>1. 1 \in 1 .. Len(Code[prog])
    BY <1>3
  <2>2. Code[prog][1].op = "func" /\ Code[prog][1].n = 1
    <3>1. Code[prog][1] = Headed(1)
      BY <1>2, ProgramWalk
    <3> QED BY <3>1 DEF Headed, RRI
  <2> QED BY <1>2, <2>1, <2>2, PlaceFacts
<1>8. f.ra = Halt
  BY <1>5 DEF Frame, Halt
<1>9. frames \in Seq(Activations) /\ Len(frames) = 1 /\ frames[1] = f
  BY <1>4, <1>6
<1> HIDE DEF f
<1>10. Awaiting(prog, frames)
  BY <1>8, <1>9 DEF Awaiting
<1>11. Standing
  BY <1>3, <1>4, <1>6, <1>7, <1>9, <1>10 DEF Standing
<1>12. Standing'
  BY <1>1, <1>11 DEF Standing
<1> QED BY <1>1, <1>2, <1>12 DEF CodeInv

-----------------------------------------------------------------------------
(* What holds when an instruction is about to be executed.                 *)
LEMMA RunningFacts ==
  ASSUME CodeInv, Running
  PROVE  /\ prog \in DOMAIN Programs /\ init \in Globals /\ st \in MachineStates
         /\ text = Code[prog] /\ text # << >> /\ Standing
         /\ pos \in 1 .. Len(text) /\ Len(text) \in Nat /\ Len(text) < Half /\ DOMAIN text = 1 .. Len(text)
         /\ Here \in Instructions /\ Step(prog, Here, Marks(prog)[pos - 1], Marks(prog)[pos])
         /\ <<st, frames[1]>> \in Marks(prog)[pos - 1] /\ <<st, frames[1]>> \in Legal
         /\ frames \in Seq(Activations) /\ Len(frames) > 0 /\ frames[1] \in Activations
         /\ Kept(st, frames[1])
<1>1. prog \in DOMAIN Programs /\ init \in Globals /\ st \in MachineStates
  BY DEF CodeInv
<1>2. text = Code[prog] /\ text # << >> /\ Standing
  BY DEF CodeInv, Running, Unstarted
<1>3. /\ Code[prog] \in Seq(Instructions) /\ Len(Code[prog]) \in Nat /\ Len(Code[prog]) < Half
      /\ DOMAIN Code[prog] = 1 .. Len(Code[prog])
      /\ Marks(prog) \in [0 .. Len(Code[prog]) -> SUBSET Legal]
      /\ \A k \in 1 .. Len(Code[prog]) :
           Code[prog][k] \in Instructions /\ Step(prog, Code[prog][k], Marks(prog)[k - 1], Marks(prog)[k])
  BY <1>1, MarksFacts
<1>4. /\ pos \in 1 .. Len(text) /\ <<st, frames[1]>> \in Marks(prog)[pos - 1]
      /\ frames \in Seq(Activations) /\ Len(frames) > 0
  BY <1>2 DEF Standing
<1>5. Here \in Instructions /\ Step(prog, Here, Marks(prog)[pos - 1], Marks(prog)[pos])
  BY <1>2, <1>3, <1>4 DEF Here
<1>6. pos - 1 \in 0 .. Len(Code[prog])
  BY <1>2, <1>3, <1>4
<1>7. <<st, frames[1]>> \in Legal
  BY <1>3, <1>4, <1>6
<1>8. frames[1] \in Activations
  BY <1>4
<1>9. Kept(st, frames[1])
  BY <1>7 DEF Legal
<1> QED BY <1>1, <1>2, <1>3, <1>4, <1>5, <1>7, <1>8, <1>9

(* To the next instruction, or to another, in the same activation.         *)
LEMMA MovesOn ==
  ASSUME CodeInv, Running, UNCHANGED <<prog, init, text, frames>>,
         NEW k \in Int, pos' = k, k - 1 \in 0 .. Len(text), <<st', frames[1]>> \in Marks(prog)[k - 1]
  PROVE  CodeInv'
<1>1. /\ prog \in DOMAIN Programs /\ init \in Globals /\ text = Code[prog] /\ Standing
      /\ Len(text) \in Nat
  BY RunningFacts
<1>2. prog' = prog /\ init' = init /\ text' = text /\ frames' = frames
  OBVIOUS
<1>3. Marks(prog) \in [0 .. Len(text) -> SUBSET Legal] /\ Marks(prog)[Len(text)] = {}
  BY <1>1, MarksFacts
<1>4. st' \in MachineStates
  <2>1. <<st', frames[1]>> \in Legal
    BY <1>3
  <2> QED BY <2>1 DEF Legal
<1>5. k \in 1 .. Len(text)
  <2>1. k - 1 # Len(text)
    BY <1>3
  <2> QED BY <1>1, <2>1
<1>6. Standing'
  BY <1>1, <1>2, <1>5 DEF Standing
<1> QED BY <1>1, <1>2, <1>4, <1>6 DEF CodeInv

LEMMA MarkKeeps ==
  ASSUME CodeInv, Mark
  PROVE  CodeInv'
<1>1. Running /\ Here.op \in {"func", "label"} /\ pos' = pos + 1 /\ st' = st
      /\ UNCHANGED <<prog, init, text, frames>>
  BY DEF Mark
<1>2. /\ prog \in DOMAIN Programs /\ text = Code[prog] /\ pos \in 1 .. Len(text) /\ Len(text) \in Nat
      /\ <<st, frames[1]>> \in Marks(prog)[pos - 1]
  BY <1>1, RunningFacts
<1>3. Marks(prog)[pos - 1] \subseteq Marks(prog)[pos]
  BY <1>1, <1>2, PlaceFacts DEF Here
<1> DEFINE k == pos + 1
<1>4. k \in Int /\ k - 1 = pos /\ k - 1 \in 0 .. Len(text) /\ pos' = k
  BY <1>1, <1>2
<1> HIDE DEF k
<1>5. <<st', frames[1]>> \in Marks(prog)[k - 1]
  BY <1>1, <1>2, <1>3, <1>4
<1> QED BY <1>1, <1>4, <1>5, MovesOn

LEMMA StraightKeeps ==
  ASSUME CodeInv, Straight
  PROVE  CodeInv'
<1>1. /\ Running /\ Here.op \notin {"func", "label", "j", "call", "ret"} \cup Branches
      /\ ~Traps /\ pos' = pos + 1 /\ st' = After(Here, st) /\ UNCHANGED <<prog, init, text, frames>>
  BY DEF Straight
<1>2. /\ pos \in 1 .. Len(text) /\ Len(text) \in Nat /\ Here \in Instructions
      /\ <<st, frames[1]>> \in Marks(prog)[pos - 1]
      /\ Step(prog, Here, Marks(prog)[pos - 1], Marks(prog)[pos])
  BY <1>1, RunningFacts
<1>3. StraightStep(Here, Marks(prog)[pos - 1], Marks(prog)[pos])
  BY <1>1, <1>2 DEF Step, LabelStep
<1> DEFINE x == <<st, frames[1]>>
           k == pos + 1
<1>4. x[1] = st /\ x[2] = frames[1] /\ x \in Marks(prog)[pos - 1]
  BY <1>2
<1> HIDE DEF x
<1>5. ~Trapping(Here, st)
  BY <1>1 DEF Traps, Trapping
<1>6. <<After(Here, st), frames[1]>> \in Marks(prog)[pos]
  BY <1>3, <1>4, <1>5 DEF StraightStep
<1>7. k \in Int /\ k - 1 = pos /\ k - 1 \in 0 .. Len(text) /\ pos' = k
  BY <1>1, <1>2
<1> HIDE DEF k
<1>8. <<st', frames[1]>> \in Marks(prog)[k - 1]
  BY <1>1, <1>6, <1>7
<1> QED BY <1>1, <1>7, <1>8, MovesOn

(* A jump taken.                                                           *)
LEMMA JumpLands ==
  ASSUME CodeInv, Running, Here.op \in Branches \cup {"j"}
  PROVE  /\ Find("label", Here.n) \in 1 .. Len(text)
         /\ <<st, frames[1]>> \in Marks(prog)[Find("label", Here.n) - 1]
         /\ Here.op # "j" => <<st, frames[1]>> \in Marks(prog)[pos]
<1>1. /\ <<st, frames[1]>> \in Marks(prog)[pos - 1] /\ text = Code[prog] /\ prog \in DOMAIN Programs
      /\ Step(prog, Here, Marks(prog)[pos - 1], Marks(prog)[pos])
  BY RunningFacts
<1>2. JumpStep(prog, Here, Marks(prog)[pos - 1], Marks(prog)[pos])
  BY <1>1 DEF Step, LabelStep, Branches, Computing
<1>3. Here.n \in Labels(prog) /\ <<st, frames[1]>> \in AtLabel(prog, Here.n)
      /\ (Here.op # "j" => <<st, frames[1]>> \in Marks(prog)[pos])
  BY <1>1, <1>2 DEF JumpStep
<1> QED BY <1>1, <1>3, FindFacts

LEMMA ConditionalJumpKeeps ==
  ASSUME CodeInv, ConditionalJump
  PROVE  CodeInv'
<1>1. /\ Running /\ Here.op \in Branches /\ st' = st /\ UNCHANGED <<prog, init, text, frames>>
      /\ pos' = IF Taken(Here, st.r) THEN Find("label", Here.n) ELSE pos + 1
  BY DEF ConditionalJump
<1>2. pos \in 1 .. Len(text) /\ Len(text) \in Nat
  BY <1>1, RunningFacts
<1>3. /\ Find("label", Here.n) \in 1 .. Len(text)
      /\ <<st, frames[1]>> \in Marks(prog)[Find("label", Here.n) - 1]
      /\ <<st, frames[1]>> \in Marks(prog)[pos]
  BY <1>1, JumpLands DEF Branches
<1> DEFINE k == IF Taken(Here, st.r) THEN Find("label", Here.n) ELSE pos + 1
<1>4. /\ k \in Int /\ k - 1 \in 0 .. Len(text) /\ pos' = k /\ <<st', frames[1]>> \in Marks(prog)[k - 1]
  <2>1. CASE Taken(Here, st.r)
    BY <1>1, <1>2, <1>3, <2>1
  <2>2. CASE ~Taken(Here, st.r)
    <3>1. k = pos + 1 /\ (pos + 1) - 1 = pos /\ k \in Int /\ k - 1 = pos
      BY <1>2, <2>2
    <3> HIDE DEF k
    <3>2. pos' = k
      BY <1>1 DEF k
    <3>3. <<st', frames[1]>> \in Marks(prog)[k - 1]
      BY <1>1, <1>3, <3>1
    <3> QED BY <1>2, <3>1, <3>2, <3>3
  <2> QED BY <2>1, <2>2
<1> HIDE DEF k
<1> QED BY <1>1, <1>4, MovesOn

LEMMA JumpsKeeps ==
  ASSUME CodeInv, Jumps
  PROVE  CodeInv'
<1> DEFINE k == Find("label", Here.n)
<1>1. /\ Running /\ Here.op = "j" /\ st' = st /\ UNCHANGED <<prog, init, text, frames>> /\ pos' = k
  BY DEF Jumps
<1>2. k \in 1 .. Len(text) /\ Len(text) \in Nat /\ <<st, frames[1]>> \in Marks(prog)[k - 1]
  BY <1>1, JumpLands, RunningFacts
<1> HIDE DEF k
<1>3. k \in Int /\ k - 1 \in 0 .. Len(text) /\ <<st', frames[1]>> \in Marks(prog)[k - 1]
  BY <1>1, <1>2
<1> QED BY <1>1, <1>3, MovesOn

(* A call begins an activation, which its caller awaits.                   *)
LEMMA EnterKeeps ==
  ASSUME CodeInv, Enter
  PROVE  CodeInv'
<1> DEFINE f == Frame(st', Here.n)
           k == Find("func", Here.n)
<1>1. /\ Running /\ Here.op = "call" /\ st' = [st EXCEPT !.r[RA] = pos + 1] /\ pos' = k
      /\ frames' = <<f>> \o frames /\ UNCHANGED <<prog, init, text>>
  BY DEF Enter
<1>2. /\ prog \in DOMAIN Programs /\ init \in Globals /\ st \in MachineStates /\ text = Code[prog]
      /\ Standing /\ pos \in 1 .. Len(text) /\ Len(text) \in Nat /\ Len(text) < Half
      /\ Step(prog, Here, Marks(prog)[pos - 1], Marks(prog)[pos])
      /\ frames \in Seq(Activations) /\ Len(frames) > 0 /\ frames[1] \in Activations
  BY <1>1, RunningFacts
<1> DEFINE x == <<st, frames[1]>>
<1>3. x \in Marks(prog)[pos - 1] /\ x[1] = st /\ x[2] = frames[1]
  BY <1>1, RunningFacts
<1> HIDE DEF x
<1>4. CallStep(prog, Here, Marks(prog)[pos - 1], Marks(prog)[pos])
  BY <1>1, <1>2 DEF Step, LabelStep, Branches, Computing
<1>5. /\ Here.n \in DOMAIN Programs[prog] /\ st.r[SP] \in Levels
      /\ \A t \in MachineStates : Back(st, t) => <<t, frames[1]>> \in Marks(prog)[pos]
  BY <1>3, <1>4 DEF CallStep
<1>6. Here.n \in Nat
  BY <1>2, <1>5, PlacedUnits
<1>7. /\ Marks(prog) \in [0 .. Len(text) -> SUBSET Legal] /\ Marks(prog)[Len(text)] = {}
  BY <1>2, MarksFacts
<1>8. pos + 1 \in 1 .. Len(text)
  <2>1. Back(st, st)
    BY DEF Back
  <2>2. Marks(prog)[pos] # {}
    BY <1>2, <1>5, <2>1
  <2>3. pos # Len(text)
    BY <1>7, <2>2
  <2> QED BY <1>2, <2>3
<1>9. pos + 1 \in Words /\ pos + 1 \in Nat
  BY <1>2, <1>8, StackFacts DEF Words
<1>10. /\ st.r \in [Names -> Words] /\ RA \in Names /\ RA # SP /\ \A y \in CalleeSaved : y # RA
       /\ CalleeSaved \subseteq Names /\ SP \in Names
  <2>1. RA \in Names /\ RA # SP /\ (\A y \in CalleeSaved : y # RA)
        /\ CalleeSaved \subseteq Names /\ SP \in Names
    BY DEF Names, RA, SP, CalleeSaved
  <2> QED BY <1>2, <2>1 DEF MachineStates
<1>11. /\ st' \in MachineStates /\ st'.r[RA] = pos + 1 /\ st'.r[SP] = st.r[SP] /\ st'.m = st.m
       /\ \A y \in CalleeSaved : st'.r[y] = st.r[y]
  BY <1>1, <1>2, <1>9, <1>10 DEF MachineStates
<1>12. f \in Activations /\ <<st', f>> \in Started(Here.n)
  <2> DEFINE s == st'
             n == Here.n
  <2>1. s \in MachineStates /\ s.r[SP] \in Levels /\ s.r[RA] \in Nat /\ n \in Nat
    BY <1>5, <1>6, <1>9, <1>11
  <2> HIDE DEF s, n
  <2>2. Frame(s, n) \in Activations /\ <<s, Frame(s, n)>> \in Started(n)
    BY <2>1, FrameStarts
  <2> QED BY <2>2 DEF s, n
<1>13. /\ f.sp = st.r[SP] /\ f.ra = pos + 1 /\ f.mem = st.m
       /\ \A y \in CalleeSaved : f.saved[y] = st.r[y]
  BY <1>11 DEF Frame
<1>14. k \in 1 .. Len(text) /\ Marks(prog)[k - 1] = Started(Here.n)
  BY <1>2, <1>5, FindFacts
<1> HIDE DEF f, k
<1>15. Awaited(prog, f, frames[1])
  <2>1. ASSUME NEW t \in MachineStates, t.r[SP] = f.sp, \A y \in CalleeSaved : t.r[y] = f.saved[y],
               Kept(t, f)
        PROVE  <<t, frames[1]>> \in Marks(prog)[f.ra - 1]
    <3>1. Back(st, t)
      BY <1>13, <2>1 DEF Back, Kept
    <3>2. f.ra - 1 = pos
      BY <1>2, <1>13
    <3> QED BY <1>5, <3>1, <3>2
  <2> QED BY <1>2, <1>8, <1>13, <2>1 DEF Awaited
<1> DEFINE fs == <<f>> \o frames
           m == Len(frames)
<1>16. /\ m \in Nat /\ m > 0 /\ fs \in Seq(Activations) /\ Len(fs) = m + 1 /\ fs[1] = f
       /\ \A i \in 1 .. m : fs[i + 1] = frames[i]
  <2>1. m \in Nat /\ m > 0 /\ frames \in Seq(Activations) /\ <<f>> \in Seq(Activations)
        /\ Len(<<f>>) = 1 /\ <<f>>[1] = f
    BY <1>2, <1>12
  <2>2. fs \in Seq(Activations) /\ Len(fs) = m + 1 /\ fs[1] = f
    BY <2>1
  <2>3. ASSUME NEW i \in 1 .. m PROVE fs[i + 1] = frames[i]
    <3>1. i + 1 \in 1 .. Len(<<f>>) + m /\ ~(i + 1 =< Len(<<f>>)) /\ (i + 1) - Len(<<f>>) = i
      BY <2>1
    <3> QED BY <2>1, <3>1
  <2> QED BY <2>1, <2>2, <2>3
<1>17. Awaiting(prog, frames)
  BY <1>2 DEF Standing
<1> HIDE DEF fs, m
<1>18. Awaiting(prog, fs)
  <2>1. fs[Len(fs)].ra = Halt
    <3>1. m \in 1 .. m /\ frames[m].ra = Halt
      BY <1>16, <1>17 DEF Awaiting, m
    <3> QED BY <1>16, <3>1
  <2>2. ASSUME NEW i \in 1 .. Len(fs) - 1 PROVE Awaited(prog, fs[i], fs[i + 1])
    <3>1. CASE i = 1
      <4>1. 1 \in 1 .. m
        BY <1>16
      <4>2. fs[1 + 1] = frames[1]
        BY <1>16, <4>1
      <4> QED BY <1>15, <1>16, <3>1, <4>2
    <3>2. CASE i # 1
      <4> DEFINE j == i - 1
      <4>1. j \in 1 .. m - 1 /\ j \in 1 .. m /\ i \in 1 .. m /\ i = j + 1
        BY <1>16, <3>2
      <4> HIDE DEF j
      <4>2. fs[j + 1] = frames[j] /\ fs[i + 1] = frames[i]
        BY <1>16, <4>1
      <4>3. Awaited(prog, frames[j], frames[j + 1])
        BY <1>17, <4>1 DEF Awaiting, m
      <4> QED BY <4>1, <4>2, <4>3
    <3> QED BY <3>1, <3>2
  <2> QED BY <2>1, <2>2 DEF Awaiting
<1>19. prog' = prog /\ init' = init /\ text' = text /\ frames' = fs /\ pos' = k
  BY <1>1 DEF fs
<1>20. <<st', fs[1]>> \in Marks(prog)[k - 1]
  BY <1>12, <1>14, <1>16
<1>21. Standing'
  <2>1. pos' \in 1 .. Len(Code[prog'])
    BY <1>2, <1>14, <1>19
  <2>2. frames' \in Seq(Activations) /\ Len(frames') > 0
    BY <1>16, <1>19
  <2>3. <<st', frames'[1]>> \in Marks(prog')[pos' - 1]
    BY <1>19, <1>20
  <2>4. Awaiting(prog', frames')
    BY <1>18, <1>19
  <2> QED BY <2>1, <2>2, <2>3, <2>4 DEF Standing
<1> QED BY <1>2, <1>11, <1>19, <1>21 DEF CodeInv

(* A return hands back what was saved, and so finds the caller waiting.    *)
LEMMA ReturnFacts ==
  ASSUME CodeInv, Running, Here.op = "ret"
  PROVE  Restored(st, frames[1])
<1> DEFINE x == <<st, frames[1]>>
<1>1. x \in Marks(prog)[pos - 1] /\ x[1] = st /\ x[2] = frames[1]
      /\ Step(prog, Here, Marks(prog)[pos - 1], Marks(prog)[pos])
  BY RunningFacts
<1> HIDE DEF x
<1>2. \A y \in Marks(prog)[pos - 1] : Restored(y[1], y[2])
  BY <1>1 DEF Step, LabelStep, Branches, Computing
<1> QED BY <1>1, <1>2

LEMMA LeaveKeeps ==
  ASSUME CodeInv, Leave
  PROVE  CodeInv'
<1>1. /\ Running /\ Here.op = "ret" /\ pos' = st.r[RA] /\ frames' = Tail(frames)
      /\ st' = st /\ UNCHANGED <<prog, init, text>>
  BY DEF Leave
<1>2. /\ prog \in DOMAIN Programs /\ init \in Globals /\ st \in MachineStates /\ text = Code[prog]
      /\ Standing /\ frames \in Seq(Activations) /\ Len(frames) > 0 /\ frames[1] \in Activations
      /\ Kept(st, frames[1])
  BY <1>1, RunningFacts
<1>3. st.r[SP] = frames[1].sp /\ st.r[RA] = frames[1].ra
      /\ \A y \in CalleeSaved : st.r[y] = frames[1].saved[y]
  BY <1>1, ReturnFacts DEF Restored
<1> DEFINE m == Len(frames)
           fs == Tail(frames)
<1>4. Awaiting(prog, frames) /\ m \in Nat /\ m > 0
  BY <1>2 DEF Standing
<1>5. prog' = prog /\ init' = init /\ text' = text /\ frames' = fs /\ pos' = frames[1].ra
  BY <1>1, <1>3
<1>6. CASE m = 1
  <2>1. frames[1].ra = Halt
    BY <1>4, <1>6 DEF Awaiting
  <2> QED BY <1>1, <1>2, <1>5, <2>1 DEF CodeInv
<1>7. CASE m # 1
  <2>1. fs \in Seq(Activations) /\ Len(fs) = m - 1 /\ \A i \in 1 .. m - 1 : fs[i] = frames[i + 1]
    BY <1>2, <1>4, <1>7
  <2>2. 1 \in 1 .. m - 1 /\ m - 1 \in 1 .. m - 1 /\ (m - 1) + 1 = m
    BY <1>4, <1>7
  <2> HIDE DEF fs
  <2>3. fs[1] = frames[1 + 1] /\ fs[m - 1] = frames[m]
    BY <2>1, <2>2
  <2>4. Awaited(prog, frames[1], frames[1 + 1])
    BY <1>4, <2>2 DEF Awaiting
  <2>5. frames[1].ra \in 1 .. Len(Code[prog]) /\ <<st, fs[1]>> \in Marks(prog)[frames[1].ra - 1]
    BY <1>2, <1>3, <2>3, <2>4 DEF Awaited
  <2>6. Awaiting(prog, fs)
    <3>1. fs[Len(fs)].ra = Halt
      BY <1>4, <2>1, <2>3 DEF Awaiting
    <3>2. ASSUME NEW i \in 1 .. Len(fs) - 1 PROVE Awaited(prog, fs[i], fs[i + 1])
      <4> DEFINE j == i + 1
      <4>1. i \in 1 .. m - 1 /\ j \in 1 .. m - 1 /\ j = i + 1
        BY <1>4, <2>1
      <4> HIDE DEF j
      <4>2. fs[i] = frames[j] /\ fs[j] = frames[j + 1]
        BY <2>1, <4>1
      <4>3. Awaited(prog, frames[j], frames[j + 1])
        BY <1>4, <4>1 DEF Awaiting
      <4> QED BY <4>1, <4>2, <4>3
    <3> QED BY <3>1, <3>2 DEF Awaiting
  <2>7. Len(fs) > 0
    BY <1>4, <1>7, <2>1
  <2>8. Standing'
    BY <1>1, <1>5, <2>1, <2>5, <2>6, <2>7 DEF Standing
  <2> QED BY <1>1, <1>2, <1>5, <2>8 DEF CodeInv
<1> QED BY <1>6, <1>7

-----------------------------------------------------------------------------
(* The invariant is inductive.                                             *)
LEMMA CodeInvNext == CodeInv /\ [CodeNext]_codeVars => CodeInv'
<1> SUFFICES ASSUME CodeInv, [CodeNext]_codeVars PROVE CodeInv'
  OBVIOUS
<1>1. CASE Compile
  BY <1>1, CompileKeeps
<1>2. CASE Mark
  BY <1>2, MarkKeeps
<1>3. CASE Straight
  BY <1>3, StraightKeeps
<1>4. CASE ConditionalJump
  BY <1>4, ConditionalJumpKeeps
<1>5. CASE Jumps
  BY <1>5, JumpsKeeps
<1>6. CASE Enter
  BY <1>6, EnterKeeps
<1>7. CASE Leave
  BY <1>7, LeaveKeeps
<1>8. CASE UNCHANGED codeVars
  <2>1. prog' = prog /\ init' = init /\ text' = text /\ pos' = pos /\ st' = st /\ frames' = frames
    BY <1>8 DEF codeVars
  <2>2. Unstarted => Unstarted'
    BY <2>1 DEF Unstarted
  <2>3. Standing => Standing'
    BY <2>1 DEF Standing
  <2> QED BY <2>1, <2>2, <2>3 DEF CodeInv
<1> QED BY <1>1, <1>2, <1>3, <1>4, <1>5, <1>6, <1>7, <1>8 DEF CodeNext

(* In every state of every run of a compiled program, by either back end:  *)
(* the innermost activation stands where the emitted text expects it, and  *)
(* every caller can go on from whatever its callee promises to hand back.  *)
THEOREM CodeInvCorrect == CodeSpec => []CodeInv
<1>1. CodeInit => CodeInv
  BY CodeInvInit
<1>2. CodeInv /\ [CodeNext]_codeVars => CodeInv'
  BY CodeInvNext
<1> QED BY <1>1, <1>2, PTL DEF CodeSpec

-----------------------------------------------------------------------------
(* What follows from it.                                                   *)
LEMMA TypeFollows == CodeInv => CodeTypeOK
<1> SUFFICES ASSUME CodeInv PROVE CodeTypeOK
  OBVIOUS
<1>1. st.r \in [0 .. 31 -> Words] /\ st.m \in [0 .. StackTop -> Words]
  BY DEF CodeInv, MachineStates, Names
<1>2. text # << >> => pos \in DOMAIN text \cup {Halt}
  <2>1. ASSUME text # << >>, pos # Halt PROVE pos \in DOMAIN text
    BY <2>1, RunningFacts DEF Running
  <2> QED BY <2>1
<1>3. Running => {Here.rd, Here.rs, Here.rt} \subseteq 0 .. 31
  <2>1. ASSUME Running PROVE Here.rd \in 0 .. 31 /\ Here.rs \in 0 .. 31 /\ Here.rt \in 0 .. 31
    <3>1. Here \in Instructions
      BY <2>1, RunningFacts
    <3> QED BY <3>1 DEF Instructions, Names
  <2> QED BY <2>1
<1> QED BY <1>1, <1>2, <1>3 DEF CodeTypeOK

LEMMA PromisesFollow == CodeInv => KeepsPromises
<1> SUFFICES ASSUME CodeInv PROVE KeepsPromises
  OBVIOUS
<1>1. ASSUME Running, Here.op = "ret"
      PROVE  /\ st.r[SP] = Top.sp /\ st.r[RA] = Top.ra
             /\ \A x \in CalleeSaved : st.r[x] = Top.saved[x]
  BY <1>1, ReturnFacts DEF Restored, Top
<1>2. ASSUME Running, Here.op = "call" PROVE st.r[SP] % 4 = 0
  <2> DEFINE x == <<st, frames[1]>>
  <2>1. x \in Marks(prog)[pos - 1] /\ x[1] = st
        /\ Step(prog, Here, Marks(prog)[pos - 1], Marks(prog)[pos])
    BY <1>2, RunningFacts
  <2> HIDE DEF x
  <2>2. CallStep(prog, Here, Marks(prog)[pos - 1], Marks(prog)[pos])
    BY <1>2, <2>1 DEF Step, LabelStep, Branches, Computing
  <2>3. st.r[SP] \in Levels
    BY <2>1, <2>2 DEF CallStep
  <2> QED BY <2>3 DEF Levels
<1> QED BY <1>1, <1>2 DEF KeepsPromises

LEMMA CallersFollow == CodeInv => CallersKept
<1> SUFFICES ASSUME CodeInv, Running
             PROVE  /\ \A k \in 0 .. StackTop : k >= Top.sp => st.m[k] = Top.mem[k]
                    /\ Here.op = "sw" => st.r[Here.rs] + Here.n >= st.r[SP]
  BY DEF CallersKept
<1>1. \A k \in 0 .. StackTop : k >= Top.sp => st.m[k] = Top.mem[k]
  BY RunningFacts DEF Kept, Top
<1>2. ASSUME Here.op = "sw" PROVE st.r[Here.rs] + Here.n >= st.r[SP]
  <2> DEFINE x == <<st, frames[1]>>
  <2>1. x \in Marks(prog)[pos - 1] /\ x[1] = st
        /\ Step(prog, Here, Marks(prog)[pos - 1], Marks(prog)[pos])
    BY RunningFacts
  <2> HIDE DEF x
  <2>2. StraightStep(Here, Marks(prog)[pos - 1], Marks(prog)[pos])
    BY <1>2, <2>1 DEF Step, LabelStep, Branches
  <2> QED BY <1>2, <2>1, <2>2 DEF StraightStep
<1> QED BY <1>1, <1>2

(* At the label of the first block, the homes hold what was passed.        *)
LEMMA ParamsFollow ==
  ASSUME CodeInv, Careful(Programs[prog][Top.unit]), Running, Here.op = "label",
         Here.n = LabelOf([id |-> Top.unit], 0)
  PROVE  LET u == Programs[prog][Top.unit]
         IN  \A i \in 0 .. Len(u.fn.params) - 1 :
               LET v == u.fn.params[i + 1]
               IN  Passed(i) = CASE IsNaive(u) -> st.m[st.r[SP] + SlotOff(u.fn, v)]
                                 [] ~IsNaive(u) /\ u.al.reg[v] # NoReg -> st.r[u.al.reg[v]]
                                 [] OTHER -> st.m[st.r[SP] + SpillOff(Gen(u), v)]
<1> DEFINE f == frames[1]
           k == f.unit
           u == Programs[prog][k]
           n == Len(u.fn.params)
<1>1. /\ prog \in DOMAIN Programs /\ text = Code[prog] /\ pos \in 1 .. Len(text) /\ f \in Activations
      /\ <<st, f>> \in Marks(prog)[pos - 1] /\ <<st, f>> \in Legal
      /\ Step(prog, Here, Marks(prog)[pos - 1], Marks(prog)[pos])
  BY RunningFacts
<1>2. Here.n = <<k, 0>> /\ Here.n[1] = k /\ Here.n[2] = 0
  BY DEF LabelOf, Top
<1>3. LabelStep(prog, Here, Marks(prog)[pos - 1], Marks(prog)[pos])
  BY <1>1 DEF Step, Computing, Branches
<1>4. Here.n \in Labels(prog) /\ <<st, f>> \in AtLabel(prog, Here.n)
  BY <1>1, <1>3 DEF LabelStep
<1>5. k \in DOMAIN Programs[prog] /\ <<st, f>> \in Entered(u)
  BY <1>2, <1>4 DEF Labels, AtLabel
<1>6. IsIRFunc(u.fn)
  BY <1>1, <1>5, ProgramsAssumption DEF IsUnit
<1>7. n \in Nat
  <2>1. u.fn.params \in Seq(Vregs(u.fn))
    BY <1>6 DEF IsIRFunc
  <2> QED BY <2>1
<1>8. Tracked(u) = 0 .. n - 1
  BY DEF Tracked, Top
<1> HIDE DEF u, n
<1>9. Holds(st, f, FrameSize(u), Keeps(u) \cup Waiting(u, n) \cup InRegs(u, n), Saves(u) \cup InSlots(u, n))
  <2> DEFINE x == <<st, f>>
  <2>1. x \in Entered(u) /\ x[1] = st /\ x[2] = f
    BY <1>5
  <2> HIDE DEF x
  <2> QED BY <2>1 DEF Entered, Stage, At, n
<1>10. SUFFICES ASSUME NEW i \in 0 .. n - 1
                PROVE  LET v == u.fn.params[i + 1]
                       IN  Passed(i) = CASE IsNaive(u) -> st.m[st.r[SP] + SlotOff(u.fn, v)]
                                         [] ~IsNaive(u) /\ u.al.reg[v] # NoReg -> st.r[u.al.reg[v]]
                                         [] OTHER -> st.m[st.r[SP] + SpillOff(Gen(u), v)]
  BY DEF u, n, Top
<1> DEFINE v == u.fn.params[i + 1]
<1>11. v = Param(u, i)
  BY DEF Param
<1>12. Passed(i) = Given(f, Argument(i))
  <2>1. CASE i < 8
    <3> DEFINE a == A0 + i
    <3>1. a \in A0 .. A7 /\ a # RA /\ a \notin CalleeSaved /\ a - A0 = i /\ Argument(i) = a
      BY <1>7, <2>1 DEF A0, A7, RA, CalleeSaved, Argument
    <3>2. Passed(i) = f.args[i]
      BY <2>1 DEF Passed, Top
    <3> HIDE DEF a
    <3> QED BY <3>1, <3>2 DEF Given
  <2>2. CASE ~(i < 8)
    <3> DEFINE a == 32 + (i - 8)
    <3>0. i \in Int /\ i >= 8 /\ a \in Int /\ a >= 32 /\ a - 32 = i - 8 /\ Argument(i) = a
      BY <1>7, <2>2 DEF Argument
    <3> HIDE DEF a
    <3>1. a \notin A0 .. A7 /\ a # RA /\ a \notin CalleeSaved /\ a - 32 = i - 8 /\ Argument(i) = a
      BY <3>0 DEF A0, A7, RA, CalleeSaved
    <3>2. Passed(i) = f.mem[f.sp + i - 8]
      BY <2>2 DEF Passed, Top
    <3>3. f.sp \in Int
      BY <1>1 DEF Activations, Levels
    <3>4. f.sp + (a - 32) = f.sp + i - 8
      BY <3>0, <3>3
    <3>5. Given(f, a) = f.mem[f.sp + (a - 32)]
      BY <3>1 DEF Given
    <3> QED BY <3>1, <3>2, <3>4, <3>5
  <2> QED BY <2>1, <2>2
<1>13. i \in Tracked(u) /\ i < n
  BY <1>7, <1>8
<1> HIDE DEF v
<1>14. HomeReg(u, v) # NoReg => Passed(i) = st.r[HomeReg(u, v)]
  <2> SUFFICES ASSUME HomeReg(u, v) # NoReg PROVE Passed(i) = st.r[HomeReg(u, v)]
    OBVIOUS
  <2> DEFINE q == <<HomeReg(u, v), Argument(i)>>
  <2>1. q \in InRegs(u, n) /\ q[1] = HomeReg(u, v) /\ q[2] = Argument(i)
    BY <1>11, <1>13 DEF InRegs
  <2> HIDE DEF q
  <2> QED BY <1>9, <1>12, <2>1 DEF Holds
<1>15. HomeReg(u, v) = NoReg => Passed(i) = st.m[st.r[SP] + HomeSlot(u, v)]
  <2> SUFFICES ASSUME HomeReg(u, v) = NoReg PROVE Passed(i) = st.m[st.r[SP] + HomeSlot(u, v)]
    OBVIOUS
  <2> DEFINE q == <<HomeSlot(u, v), Argument(i)>>
  <2>1. q \in InSlots(u, n) /\ q[1] = HomeSlot(u, v) /\ q[2] = Argument(i)
    BY <1>11, <1>13 DEF InSlots
  <2> HIDE DEF q
  <2> QED BY <1>9, <1>12, <2>1 DEF Holds
<1>16. Passed(i) = CASE IsNaive(u) -> st.m[st.r[SP] + SlotOff(u.fn, v)]
                     [] ~IsNaive(u) /\ u.al.reg[v] # NoReg -> st.r[u.al.reg[v]]
                     [] OTHER -> st.m[st.r[SP] + SpillOff(Gen(u), v)]
  <2>1. CASE IsNaive(u)
    <3>1. HomeReg(u, v) = NoReg /\ HomeSlot(u, v) = SlotOff(u.fn, v)
      BY <2>1 DEF HomeReg, HomeSlot
    <3> QED BY <1>15, <2>1, <3>1
  <2>2. CASE ~IsNaive(u)
    <3>1. HomeReg(u, v) = u.al.reg[v] /\ HomeSlot(u, v) = SpillOff(Gen(u), v)
      BY <2>2 DEF HomeReg, HomeSlot
    <3> QED BY <1>14, <1>15, <2>2, <3>1
  <2> QED BY <2>1, <2>2
<1> QED BY <1>16 DEF v

LEMMA ArrivalFollows == CodeInv => (Careful(Programs[prog][Top.unit]) => ParamsArrive)
BY ParamsFollow DEF ParamsArrive

-----------------------------------------------------------------------------
(* What holds of every compiled program.                                   *)

(* The machine holds words, instructions name registers, and control never *)
(* leaves the text of the program but by its end: every jump finds its     *)
(* label, every call its function, every return the caller's text.         *)
THEOREM CodeTypeOKCorrect == CodeSpec => []CodeTypeOK
BY CodeInvCorrect, TypeFollows, PTL

(* emitFunc, emitEpilogue and emitCall: a function returns to the          *)
(* instruction after the call, with sp and the callee-saved registers as   *)
(* it found them, and sp is a multiple of 16 bytes at every call.          *)
THEOREM KeepsPromisesCorrect == CodeSpec => []KeepsPromises
BY CodeInvCorrect, PromisesFollow, PTL

(* Nothing an activation stores changes a word of a caller's frame, and no *)
(* store of either back end goes below the stack pointer.                  *)
THEOREM CallersKeptCorrect == CodeSpec => []CallersKept
BY CodeInvCorrect, CallersFollow, PTL

(* genEntry's parameter moves, both back ends: where the first block of a  *)
(* function begins, every parameter is in its home with the value passed,  *)
(* unless the eighth argument was in a7 when the prologue took a7 for the  *)
(* address of a frame beyond the reach of an immediate.                    *)
THEOREM ParamsArriveCorrect ==
  CodeSpec => [](Careful(Programs[prog][Top.unit]) => ParamsArrive)
BY CodeInvCorrect, ArrivalFollows, PTL
==============================================================================
