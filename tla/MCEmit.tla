------------------------------- MODULE MCEmit -------------------------------
(***************************************************************************)
(* Emit on five-bit words: every constant divisor and factor with every    *)
(* other operand, every operator on edge values, under allocations in      *)
(* which operands, result and magic number share a register or a slot, or  *)
(* are spilled near to and far from the stack pointer.  The area of        *)
(* outgoing arguments has two words, so slots 0 and 1 are within reach of  *)
(* an immediate and slots 2, 3 and 4 are not.                              *)
(***************************************************************************)
EXTENDS Emit

(* Vregs 0 to 4: two operands, the result, a magic number, a bystander.    *)
Alloc(a, b, d, m, y, slots) ==
  [reg |-> [v \in 0 .. 4 |-> <<a, b, d, m, y>>[v + 1]],
   spillSlot |-> [v \in 0 .. 4 |-> slots[v + 1]]]

None == <<NoReg, NoReg, NoReg, NoReg, NoReg>>

Apart   == Alloc(5, 6, 7, 8, 9, None)
OverA   == Alloc(5, 6, 5, 8, 9, None)
OverB   == Alloc(5, 6, 6, 8, 9, None)
High    == Alloc(28, 6, 28, 29, 27, None)
Frame   == Alloc(NoReg, NoReg, NoReg, NoReg, NoReg, <<0, 1, 2, 3, 4>>)
FarArgs == Alloc(NoReg, NoReg, NoReg, NoReg, NoReg, <<4, 3, 0, 2, 1>>)
SameHome == Alloc(NoReg, 6, NoReg, NoReg, 9, <<3, NoReg, 3, 1, NoReg>>)
DstFar  == Alloc(5, 6, NoReg, 8, 9, <<NoReg, NoReg, 4, NoReg, NoReg>>)
BFar    == Alloc(5, NoReg, 5, NoReg, 9, <<NoReg, 2, NoReg, 4, NoReg>>)

Allocations == {Apart, OverA, OverB, High, Frame, FarArgs, SameHome, DstFar, BFar}

Edges == {-Half, -Half + 1, -1, 0, 1, 2, 7, Half - 1}

Case(i, al, o, dov, x, y, m) ==
  [in |-> i,
   cg |-> [reg |-> al.reg, spillSlot |-> al.spillSlot, spillBase |-> 2,
           opt |-> o, dstOverride |-> dov],
   held |-> <<x, y, Half \div 2, m, -3>>]

(* held is indexed from 1 above; the vregs count from 0.                   *)
FromZero(c) == [c EXCEPT !.held = [v \in 0 .. 4 |-> c.held[v + 1]]]

(* Every constant divisor and factor, with every other operand.            *)
ByConstant ==
  {Case(Binary(op, 2, Reg(0), Imm(c)), al, TRUE, NoReg, x, 5, 0) :
     op \in {"Mul", "Div", "Mod"}, c \in Words, al \in {OverA, Frame}, x \in Words}

(* ... with the magic number in a vreg of its own, as hoistMagicDiv leaves *)
(* it, signed and unsigned.                                                *)
WithMagic ==
  {Case([Binary(op, 2, Reg(0), Imm(c)) EXCEPT !.magic = 3], al, TRUE, NoReg, x, 5,
        SignedMagic[c].M) :
     op \in {"Div", "Mod"}, c \in {n \in Words : NeedsMagic(n)},
     al \in {High, FarArgs, SameHome, BFar}, x \in Edges}

Unsigneds ==
  {Case([Binary(op, 2, Reg(0), Imm(c)) EXCEPT !.unsignedDiv = TRUE, !.magic = g], al, TRUE,
        NoReg, x, 5, UnsignedMagic[c].M) :
     op \in {"Div", "Mod"}, c \in {n \in 3 .. Half - 1 : NeedsMagic(n)}, g \in {NoReg, 3},
     al \in {OverA, FarArgs}, x \in 0 .. Half - 1}

(* Marked and given a magic number, but the divisor went to a vreg, or the *)
(* division was folded.                                                    *)
Leftover ==
  {Case([i EXCEPT !.unsignedDiv = TRUE, !.magic = 3], al, TRUE, NoReg, x, y, 0) :
     i \in {Binary(op, 2, Reg(0), Reg(1)) : op \in {"Div", "Mod"}} \cup {Unary("Mv", 2, Reg(0))},
     al \in {High, FarArgs, BFar}, x \in Edges, y \in Edges}

(* Registers and immediates on both sides, everywhere.                     *)
Operands(v) == {Reg(v)} \cup {Imm(n) : n \in {-Half, -5, -4, 0, 3, 4}}

General2 ==
  {Case(Binary(op, 2, a, b), al, TRUE, NoReg, x, y, 0) :
     op \in BinaryOps, a \in Operands(0), b \in Operands(1) \cup {Reg(0)}, al \in Allocations,
     x \in {-Half, 6}, y \in {-1, 6}}

(* The result is the value of the return that follows.                     *)
IntoA0 ==
  {Case(Binary(op, 2, a, b), al, TRUE, A0, x, -7, 0) :
     op \in BinaryOps, a \in {Reg(0), Imm(3)}, b \in {Reg(1), Imm(-4)},
     al \in {High, Frame, BFar}, x \in {-Half, 6}}

WithoutOpt ==
  {Case(Binary(op, 2, Reg(0), b), al, FALSE, NoReg, x, y, 0) :
     op \in {"Div", "Mod"}, b \in {Reg(1)} \cup {Imm(c) : c \in Edges}, al \in {OverB, FarArgs},
     x \in Edges, y \in Edges}

Others ==
  {Case(i, al, TRUE, dov, x, 1, 0) :
     i \in {Unary(op, 2, a) : op \in UnaryOps, a \in Operands(0)} \cup {Load(2, 0), Load(2, 1)},
     al \in Allocations, dov \in {NoReg, A0}, x \in Edges}

Stores ==
  {Case(Store(1, a), al, TRUE, NoReg, x, 1, 0) :
     a \in Operands(0), al \in Allocations, x \in Edges}

MCCases == {{FromZero(c) : c \in family} :
              family \in {ByConstant, WithMagic, Unsigneds, Leftover, General2, IntoA0, WithoutOpt,
                         Others, Stores}}
=============================================================================
