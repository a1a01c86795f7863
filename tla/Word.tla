-------------------------------- MODULE Word --------------------------------
(***************************************************************************)
(* The 32-bit two's-complement words the compiler folds (opt/Passes.cpp)   *)
(* and the generated code computes with, and what each IR operator of      *)
(* ir/IR.h does to them.  The width is a parameter: Half is 2^31 in the    *)
(* program and a small number in the model-checking runs.                  *)
(***************************************************************************)
EXTENDS Integers

CONSTANT Half            \* 2^(width-1): words range over -Half .. Half-1

ASSUME HalfAssumption == Half \in Nat \ {0, 1}

Words == -Half .. Half - 1

(* Reduction modulo 2^width into the signed range: int32_t(uint32_t(n)).   *)
Wrap(n) == ((n + Half) % (2 * Half)) - Half

Magnitude(x) == IF x < 0 THEN -x ELSE x

(* Quotient and remainder that truncate towards zero (y # 0).              *)
TruncDiv(x, y) ==
  LET q == Magnitude(x) \div Magnitude(y)
  IN  IF (x < 0) = (y < 0) THEN q ELSE -q
TruncRem(x, y) == x - y * TruncDiv(x, y)

(* The words the generated comparisons leave in a register.                *)
Truth(p) == IF p THEN 1 ELSE 0

BinaryOps == {"Add", "Sub", "Mul", "Div", "Mod",
              "Lt", "Gt", "Le", "Ge", "Eq", "Ne"}
UnaryOps  == {"Neg", "Not", "Mv"}
CmpOps    == {"Lt", "Gt", "Le", "Ge", "Eq", "Ne"}

(* `div` and `rem` answer -1 and the dividend when the divisor is zero.    *)
EvalBinary(op, x, y) ==
  CASE op = "Add" -> Wrap(x + y)
    [] op = "Sub" -> Wrap(x - y)
    [] op = "Mul" -> Wrap(x * y)
    [] op = "Div" -> IF y = 0 THEN Wrap(-1) ELSE Wrap(TruncDiv(x, y))
    [] op = "Mod" -> IF y = 0 THEN x ELSE Wrap(TruncRem(x, y))
    [] op = "Lt"  -> Truth(x < y)
    [] op = "Gt"  -> Truth(x > y)
    [] op = "Le"  -> Truth(x =< y)
    [] op = "Ge"  -> Truth(x >= y)
    [] op = "Eq"  -> Truth(x = y)
    [] op = "Ne"  -> Truth(x # y)

EvalUnary(op, x) ==
  CASE op = "Neg" -> Wrap(-x)
    [] op = "Not" -> Truth(x = 0)
    [] op = "Mv"  -> x
=============================================================================
