------------------------------- MODULE Select -------------------------------
(***************************************************************************)
(* Instruction selection of codegen/OptCodeGen.cpp: what emitInst and all  *)
(* it calls write for one IR instruction.  `cg` is the generator's own     *)
(* state: reg and spillSlot of the Allocation, spillBase, the -opt flag    *)
(* and dstOverride, a register to force the result into, or NoReg.         *)
(***************************************************************************)
EXTENDS Rv32

-----------------------------------------------------------------------------
(* Where values are and how they are brought into registers.               *)

SpillOff(cg, v) == cg.spillBase + cg.spillSlot[v]

(* toReg: the register that will hold val, and the code that sees to it.   *)
InReg(cg, val, scratch) ==
  CASE IsReg(val) /\ cg.reg[val.n] # NoReg -> cg.reg[val.n]
    [] ~IsReg(val) /\ val.n = 0 -> ZERO
    [] OTHER -> scratch

ToReg(cg, val, scratch) ==
  CASE IsReg(val) /\ cg.reg[val.n] = NoReg -> LoadOff(scratch, SpillOff(cg, val.n))
    [] ~IsReg(val) /\ val.n # 0 -> <<LI(scratch, val.n)>>
    [] OTHER -> << >>

Materialize(cg, val, r) ==
  IF ~IsReg(val) THEN <<LI(r, val.n)>>
  ELSE IF cg.reg[val.n] # NoReg THEN MoveTo(r, cg.reg[val.n])
  ELSE LoadOff(r, SpillOff(cg, val.n))

DstReg_NoScratch(cg, v) ==              \* mutant: a spilled result gets no scratch
  IF cg.dstOverride # NoReg THEN cg.dstOverride ELSE cg.reg[v]

DstReg(cg, v) ==
  CASE cg.dstOverride # NoReg -> cg.dstOverride
    [] cg.dstOverride = NoReg /\ cg.reg[v] # NoReg -> cg.reg[v]
    [] OTHER -> T5

WriteBack_Never(cg, v, r) == << >>      \* mutant: a spilled result is lost

WriteBack(cg, v, r) ==
  IF cg.dstOverride = NoReg /\ cg.reg[v] = NoReg THEN StoreOff(r, SpillOff(cg, v)) ELSE << >>

-----------------------------------------------------------------------------
(* Arithmetic on constants at compile time.                                *)

IsPow2(n) == \E k \in 1 .. Width - 1 : n = Pow2[k]         \* log2exact(n) >= 1
Log2(n) == CHOOSE k \in 0 .. Width - 1 : n = Pow2[k]

(* A division that the passes marked, with a constant divisor still.       *)
ByUnsigned(in) == in.unsignedDiv /\ in.op \in {"Div", "Mod"} /\ ~IsReg(in.b)

NeedsMagic(c) == Magnitude(c) >= 3 /\ ~IsPow2(Magnitude(c))

(* signedMagic, Hacker's Delight 10-1: the loop runs until the quotients   *)
(* of 2^p by anc and by |d| are close enough.                              *)
Twice(x, m) ==
  IF 2 * x.r >= m THEN [q |-> 2 * x.q + 1, r |-> 2 * x.r - m] ELSE [q |-> 2 * x.q, r |-> 2 * x.r]

DivMod(n, m) == [q |-> n \div m, r |-> n % m]

Anc(d) ==
  LET t == IF d < 0 THEN Half + 1 ELSE Half IN t - 1 - (t % Magnitude(d))

Doubled(d, x) == [p |-> x.p + 1, by1 |-> Twice(x.by1, Anc(d)), by2 |-> Twice(x.by2, Magnitude(d))]

Close(d, x) ==
  LET delta == Magnitude(d) - x.by2.r
  IN  ~(x.by1.q < delta \/ (x.by1.q = delta /\ x.by1.r = 0))

SignedLoop(d) ==
  LET loop[k \in Nat] ==
        IF k = 0 THEN Doubled(d, [p |-> Width - 1, by1 |-> DivMod(Half, Anc(d)),
                                  by2 |-> DivMod(Half, Magnitude(d))])
        ELSE LET x == loop[k - 1] IN IF Close(d, x) THEN x ELSE Doubled(d, x)
  IN  loop

SignedMagic == [d \in {c \in Words : NeedsMagic(c)} |->
  LET end == SignedLoop(d)[Width]
      M == Wrap(end.by2.q + 1)
  IN  [M |-> IF d < 0 THEN Wrap(-M) ELSE M, s |-> end.p - Width]]

(* unsignedMagic: the first k for which ceil(2^(width+k)/d) is a word.     *)
UnsignedMagic == [d \in 3 .. Half - 1 |->
  LET m(k) == (Pow2[Width + k] + d - 1) \div d
      s == CHOOSE k \in 0 .. Width : m(k) < 2 * Half /\ \A j \in 0 .. k - 1 : m(j) >= 2 * Half
  IN  [M |-> Wrap(m(s)), s |-> s]]

-----------------------------------------------------------------------------
(* Strength reduction.  ra is preserved; rd may be ra.                     *)

NegIf(c, rd) == IF c < 0 THEN <<RR("neg", rd, rd)>> ELSE << >>

MulConst_InPlace(rd, ra, c) ==          \* mutant: the operand itself is shifted
  LET ac == Magnitude(c)
  IN  IF ac >= 3 /\ IsPow2(ac - 1)
      THEN <<RRI("slli", ra, ra, Log2(ac - 1)), RRR("add", rd, ra, ra)>> \o NegIf(c, rd)
      ELSE <<LI(T6, c), RRR("mul", rd, ra, T6)>>

MulConst(rd, ra, c) ==
  LET ac == Magnitude(c)
      by(n, op) == <<RRI("slli", T6, ra, Log2(n)), RRR(op, rd, T6, ra)>> \o NegIf(c, rd)
  IN  CASE c = 0 -> <<LI(rd, 0)>>
        [] c = 1 -> MoveTo(rd, ra)
        [] c = -1 -> <<RR("neg", rd, ra)>>
        [] ac >= 2 /\ IsPow2(ac) -> <<RRI("slli", rd, ra, Log2(ac))>> \o NegIf(c, rd)
        [] ac >= 3 /\ ~IsPow2(ac) /\ IsPow2(ac - 1) -> by(ac - 1, "add")
        [] ac >= 3 /\ ~IsPow2(ac) /\ ~IsPow2(ac - 1) /\ IsPow2(ac + 1) -> by(ac + 1, "sub")
        [] OTHER -> <<LI(T6, c), RRR("mul", rd, ra, T6)>>

Pow2Bias_OneShort(rd, ra, k) ==         \* mutant: 2^(k-1) - 1
  <<RRI("srai", rd, ra, Width - 1), RRI("srli", rd, rd, Width - k + 1)>>

(* rd = 2^k - 1 if ra is negative, else 0.                                 *)
Pow2Bias(rd, ra, k) ==
  IF k = 1 THEN <<RRI("srli", rd, ra, Width - 1)>>
  ELSE <<RRI("srai", rd, ra, Width - 1), RRI("srli", rd, rd, Width - k)>>

(* Where the magic number is: hoisted into a vreg, or loaded here.         *)
MagicIn(cg, in) == IF in.magic # NoReg THEN InReg(cg, Reg(in.magic), A7) ELSE T6
LoadMagic(cg, in, M) == IF in.magic # NoReg THEN ToReg(cg, Reg(in.magic), A7) ELSE <<LI(T6, M)>>

MagicQuotient(cg, in, q, ra, c) ==
  IF in.unsignedDiv
  THEN LET u == UnsignedMagic[c]
       IN  LoadMagic(cg, in, u.M) \o <<RRR("mulhu", A7, ra, MagicIn(cg, in))>>
             \o (IF u.s > 0 THEN <<RRI("srli", q, A7, u.s)>> ELSE MoveTo(q, A7))
  ELSE LET m == SignedMagic[c]
       IN  LoadMagic(cg, in, m.M) \o <<RRR("mulh", A7, ra, MagicIn(cg, in))>>
             \o (CASE c > 0 /\ m.M < 0 -> <<RRR("add", A7, A7, ra)>>
                   [] c < 0 /\ m.M > 0 -> <<RRR("sub", A7, A7, ra)>>
                   [] OTHER -> << >>)
             \o (IF m.s > 0 THEN <<RRI("srai", A7, A7, m.s)>> ELSE << >>)
             \o <<RRI("srli", T6, A7, Width - 1), RRR("add", q, A7, T6)>>

DivConst(cg, in, rd, ra, c) ==
  LET k == Log2(Magnitude(c))
  IN  CASE c = 1 -> MoveTo(rd, ra)
        [] c = -1 -> <<RR("neg", rd, ra)>>
        [] IsPow2(Magnitude(c)) ->
             Pow2Bias(T6, ra, k)
               \o <<RRR("add", T6, ra, T6), RRI("srai", rd, T6, k)>> \o NegIf(c, rd)
        [] c = 0 -> <<LI(T6, 0), RRR("div", rd, ra, T6)>>
        [] NeedsMagic(c) -> MagicQuotient(cg, in, rd, ra, c)

ModConst(cg, in, rd, ra, c) ==
  LET k == Log2(Magnitude(c))
      u == UnsignedMagic[c]
      q == IF u.s > 0 THEN A6 ELSE A7
  IN  CASE Magnitude(c) = 1 -> <<LI(rd, 0)>>
        [] IsPow2(Magnitude(c)) ->
             Pow2Bias(T6, ra, k)
               \o <<RRR("add", T6, ra, T6), RRI("srai", T6, T6, k), RRI("slli", T6, T6, k),
                    RRR("sub", rd, ra, T6)>>
        [] NeedsMagic(c) /\ in.unsignedDiv ->
             LoadMagic(cg, in, u.M) \o <<RRR("mulhu", A7, ra, MagicIn(cg, in))>>
               \o (IF u.s > 0 THEN <<RRI("srli", A6, A7, u.s)>> ELSE << >>)
               \o MulConst(A7, q, c) \o <<RRR("sub", rd, ra, A7)>>
        [] NeedsMagic(c) /\ ~in.unsignedDiv ->
             MagicQuotient(cg, in, A6, ra, c) \o MulConst(A7, A6, c) \o <<RRR("sub", rd, ra, A7)>>

-----------------------------------------------------------------------------
(* emitBinary.  A constant operand selects an immediate form, a strength   *)
(* reduction, or, with -opt, a division without `div`.                     *)

Short(val) == ~IsReg(val) /\ Fits(val.n)

Framed(cg, in, before, body) == before \o body \o WriteBack(cg, in.dst, DstReg(cg, in.dst))
OnA(cg, in, body) == Framed(cg, in, ToReg(cg, in.a, T5), body)
OnB(cg, in, body) == Framed(cg, in, ToReg(cg, in.b, T5), body)

General(cg, in) ==
  LET a == InReg(cg, in.a, T5)
      b == InReg(cg, in.b, T6)
      d == DstReg(cg, in.dst)
      op3(op) == <<RRR(op, d, a, b)>>
  IN  Framed(cg, in, ToReg(cg, in.a, T5) \o ToReg(cg, in.b, T6),
        CASE in.op = "Add" -> op3("add")
          [] in.op = "Sub" -> op3("sub")
          [] in.op = "Mul" -> op3("mul")
          [] in.op = "Div" -> op3("div")
          [] in.op = "Mod" -> op3("rem")
          [] in.op = "Lt"  -> op3("slt")
          [] in.op = "Gt"  -> <<RRR("slt", d, b, a)>>
          [] in.op = "Le"  -> <<RRR("slt", d, b, a), RR("flip", d, d)>>
          [] in.op = "Ge"  -> op3("slt") \o <<RR("flip", d, d)>>
          [] in.op = "Eq"  -> op3("sub") \o <<RR("seqz", d, d)>>
          [] in.op = "Ne"  -> op3("sub") \o <<RR("snez", d, d)>>)

EmitBinary(cg, in) ==
  LET op == in.op
      a == InReg(cg, in.a, T5)
      b == InReg(cg, in.b, T5)
      d == DstReg(cg, in.dst)
      m == in.a.n
      n == in.b.n
      const == ~IsReg(in.b)
  IN  CASE op = "Add" /\ Short(in.b) -> OnA(cg, in, <<RRI("addi", d, a, n)>>)
        [] op = "Add" /\ ~Short(in.b) /\ Short(in.a) -> OnB(cg, in, <<RRI("addi", d, b, m)>>)
        [] op = "Sub" /\ const /\ Fits(-n) -> OnA(cg, in, <<RRI("addi", d, a, -n)>>)
        [] op = "Lt" /\ Short(in.b) -> OnA(cg, in, <<RRI("slti", d, a, n)>>)
        [] op = "Eq" /\ in.b = Imm(0) -> OnA(cg, in, <<RR("seqz", d, a)>>)
        [] op = "Ne" /\ in.b = Imm(0) -> OnA(cg, in, <<RR("snez", d, a)>>)
        [] op = "Mul" /\ ~IsReg(in.a) -> OnB(cg, in, MulConst(d, b, m))
        [] op = "Mul" /\ IsReg(in.a) /\ const -> OnA(cg, in, MulConst(d, a, n))
        [] op = "Div" /\ const /\ cg.opt -> OnA(cg, in, DivConst(cg, in, d, a, n))
        [] op = "Mod" /\ const /\ cg.opt -> OnA(cg, in, ModConst(cg, in, d, a, n))
        [] OTHER -> General(cg, in)

(* emitInst, for every instruction that is not a call.                     *)
InstCode(cg, in) ==
  LET a == InReg(cg, in.a, T5)
      d == DstReg(cg, in.dst)
  IN  CASE in.op = "Mv" -> Framed(cg, in, << >>, Materialize(cg, in.a, d))
        [] in.op = "Neg" -> OnA(cg, in, <<RR("neg", d, a)>>)
        [] in.op = "Not" -> OnA(cg, in, <<RR("seqz", d, a)>>)
        [] in.op = "LoadGlobal" -> Framed(cg, in, << >>, <<RRI("lwg", d, ZERO, in.gid)>>)
        [] in.op = "StoreGlobal" -> ToReg(cg, in.a, T5) \o <<RRI("swg", a, T6, in.gid)>>
        [] OTHER -> EmitBinary(cg, in)

(* signedMagic divides by |d|: the compiler itself stops on a zero.        *)
Faults(cg, in) == in.op = "Mod" /\ in.b = Imm(0) /\ cg.opt /\ ~in.unsignedDiv
=============================================================================
