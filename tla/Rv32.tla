-------------------------------- MODULE Rv32 --------------------------------
(***************************************************************************)
(* The RV32IM instructions the optimizing back end writes, as an assembler *)
(* expands them, and what each does to registers, to the stack frame and   *)
(* to the globals.  Registers have the numbers of codegen/Regs.h.  The     *)
(* frame is addressed in words.  Width, the number of bits, and FitHalf,   *)
(* 2^11 in the program, bounding a 12-bit immediate, are parameters.       *)
(***************************************************************************)
EXTENDS IR

CONSTANTS Width, FitHalf

Pow2[n \in Nat] == IF n = 0 THEN 1 ELSE 2 * Pow2[n - 1]

ASSUME WidthAssumption == Width \in Nat \ {0} /\ Half = Pow2[Width - 1]
ASSUME FitAssumption == FitHalf \in Nat \ {0}

ZERO == 0
RA == 1
SP == 2
A0 == 10
A6 == 16
A7 == 17
T5 == 30                 \* SCRATCH0
T6 == 31                 \* SCRATCH1

Fits(n) == n \in -FitHalf .. FitHalf - 1        \* fits12

(* Bits read as an unsigned number.                                        *)
Unsigned(x) == x % (2 * Half)

-----------------------------------------------------------------------------
(* op  rd, rs, rt  and  op  rd, rs, n;  loads and stores are op rd, n(rs). *)
RRR(op, d, s, t) == [op |-> op, rd |-> d, rs |-> s, rt |-> t, n |-> 0]
RRI(op, d, s, n) == [op |-> op, rd |-> d, rs |-> s, rt |-> ZERO, n |-> n]
RR(op, d, s) == RRI(op, d, s, 0)
LI(d, n) == RRI("li", d, ZERO, n)
MoveTo(d, s) == IF d = s THEN << >> ELSE <<RR("mv", d, s)>>

(* sp-relative accesses; a7 is the address scratch for large offsets.      *)
LoadOff(d, off) ==
  IF Fits(off) THEN <<RRI("lw", d, SP, off)>>
  ELSE <<LI(A7, off), RRR("add", A7, SP, A7), RRI("lw", d, A7, 0)>>

StoreOff(s, off) ==
  IF Fits(off) THEN <<RRI("sw", s, SP, off)>>
  ELSE <<LI(A7, off), RRR("add", A7, SP, A7), RRI("sw", s, A7, 0)>>

-----------------------------------------------------------------------------
(* The word a computing instruction leaves in rd.                          *)
Computed(in, r) ==
  LET x == r[in.rs]
      y == r[in.rt]
      n == in.n
  IN  CASE in.op = "li"    -> n
        [] in.op = "mv"    -> x
        [] in.op = "neg"   -> Wrap(-x)
        [] in.op = "seqz"  -> Truth(x = 0)
        [] in.op = "snez"  -> Truth(x # 0)
        [] in.op = "add"   -> Wrap(x + y)
        [] in.op = "sub"   -> Wrap(x - y)
        [] in.op = "mul"   -> Wrap(x * y)
        [] in.op = "mulh"  -> (x * y) \div (2 * Half)
        [] in.op = "mulhu" -> Wrap((Unsigned(x) * Unsigned(y)) \div (2 * Half))
        [] in.op = "div"   -> EvalBinary("Div", x, y)
        [] in.op = "rem"   -> EvalBinary("Mod", x, y)
        [] in.op = "slt"   -> Truth(x < y)
        [] in.op = "addi"  -> Wrap(x + n)
        [] in.op = "slti"  -> Truth(x < n)
        [] in.op = "flip"  -> IF x % 2 = 0 THEN x + 1 ELSE x - 1    \* xori 1
        [] in.op = "slli"  -> Wrap(x * Pow2[n])
        [] in.op = "srli"  -> Wrap(Unsigned(x) \div Pow2[n])
        [] in.op = "srai"  -> x \div Pow2[n]

(* The state after one instruction: registers r, memory m, globals g.  The *)
(* two-instruction accesses to a global are one step each here, lwg, swg;  *)
(* the store goes through rs, which is left holding an address.            *)
After(in, st) ==
  CASE in.op = "lw"  -> [st EXCEPT !.r[in.rd] = st.m[st.r[in.rs] + in.n]]
    [] in.op = "sw"  -> [st EXCEPT !.m[st.r[in.rs] + in.n] = st.r[in.rd]]
    [] in.op = "lwg" -> [st EXCEPT !.r[in.rd] = st.g[in.n]]
    [] in.op = "swg" -> [st EXCEPT !.g[in.n] = st.r[in.rd], !.r[in.rs] = 0]
    [] OTHER         -> [st EXCEPT !.r[in.rd] = Computed(in, st.r)]
=============================================================================
