-------------------------------- MODULE Ast --------------------------------
(***************************************************************************)
(* The syntax trees of ast/AST.h after semantic analysis, one constructor  *)
(* per node class.  A tree is built bottom-up, so the annotations that     *)
(* analyzeExpr of sema/Sema.cpp computes on the way up, isConst and        *)
(* constValue, are filled in by the constructor.  Names are resolved:      *)
(* a variable is a symbol, which is global or local to the function.       *)
(***************************************************************************)
EXTENDS Word, Sequences

Local(s)  == [kind |-> "local",  id |-> s]
Global(g) == [kind |-> "global", id |-> g]
NoSym == Local(-1)

IsGlobal(sym) == sym.kind = "global"

-----------------------------------------------------------------------------
(* Expressions.  `op` tells operators of one class apart, `kids` are the   *)
(* operands or arguments.                                                  *)

Expr == [kind |-> "Number", op |-> "", sym |-> NoSym, kids |-> << >>,
         isConst |-> FALSE, constValue |-> 0]

Number(n) == [Expr EXCEPT !.isConst = TRUE, !.constValue = n]
Var(s) == [Expr EXCEPT !.kind = "Var", !.sym = s]

Folded(e, n) == [e EXCEPT !.isConst = TRUE, !.constValue = n]

(* A constant division by zero is an error, so no analysed tree has one.   *)
Bin(op, l, r) ==
  LET e == [Expr EXCEPT !.kind = "Binary", !.op = op, !.kids = <<l, r>>]
  IN  IF l.isConst /\ r.isConst
      THEN Folded(e, EvalBinary(op, l.constValue, r.constValue)) ELSE e

Un(op, x) ==
  LET e == [Expr EXCEPT !.kind = "Unary", !.op = op, !.kids = <<x>>]
  IN  IF ~x.isConst THEN e
      ELSE Folded(e, IF op = "Plus" THEN x.constValue ELSE EvalUnary(op, x.constValue))

(* A short circuit folds when its left operand decides it, or when both    *)
(* operands are constants; a constant right operand alone is not enough.   *)
Logical_EitherConst(op, l, r) ==        \* mutant: the right operand decides alone too
  LET e == [Expr EXCEPT !.kind = "Logical", !.op = op, !.kids = <<l, r>>]
      decides(x) == x.isConst /\ (x.constValue # 0) = (op = "Or")
  IN  CASE decides(l) \/ decides(r) -> Folded(e, Truth(op = "Or"))
        [] ~decides(l) /\ ~decides(r) /\ l.isConst /\ r.isConst ->
             Folded(e, Truth(r.constValue # 0))
        [] OTHER -> e

Logical(op, l, r) ==
  LET e == [Expr EXCEPT !.kind = "Logical", !.op = op, !.kids = <<l, r>>]
      decided == l.isConst /\ (l.constValue # 0) = (op = "Or")
  IN  CASE decided -> Folded(e, Truth(op = "Or"))
        [] ~decided /\ l.isConst /\ r.isConst -> Folded(e, Truth(r.constValue # 0))
        [] OTHER -> e

CallInt(xs)  == [Expr EXCEPT !.kind = "Call", !.op = "int", !.kids = xs]
CallVoid(xs) == [Expr EXCEPT !.kind = "Call", !.op = "void", !.kids = xs]

-----------------------------------------------------------------------------
(* Statements.  `e` holds the expression, if any, `kids` the statements.   *)

Stmt == [kind |-> "Empty", sym |-> NoSym, e |-> Expr, hasE |-> FALSE, kids |-> << >>]

Block(ss)     == [Stmt EXCEPT !.kind = "Block", !.kids = ss]
ExprStmt(x)   == [Stmt EXCEPT !.kind = "ExprStmt", !.e = x, !.hasE = TRUE]
VarDecl(s, x) == [Stmt EXCEPT !.kind = "VarDecl", !.sym = s, !.e = x, !.hasE = TRUE]
Assign(s, x)  == [Stmt EXCEPT !.kind = "Assign", !.sym = s, !.e = x, !.hasE = TRUE]
If(c, t)      == [Stmt EXCEPT !.kind = "If", !.e = c, !.hasE = TRUE, !.kids = <<t>>]
IfElse(c, t, f) == [If(c, t) EXCEPT !.kids = <<t, f>>]
While(c, s)   == [Stmt EXCEPT !.kind = "While", !.e = c, !.hasE = TRUE, !.kids = <<s>>]
Break         == [Stmt EXCEPT !.kind = "Break"]
Continue      == [Stmt EXCEPT !.kind = "Continue"]
ReturnE(x)    == [Stmt EXCEPT !.kind = "Return", !.e = x, !.hasE = TRUE]
ReturnNone    == [Stmt EXCEPT !.kind = "Return"]

(* A function of n parameters and m locals, symbols 0 .. n-1 and n .. n+m-1. *)
FuncDef(n, m, void, body) ==
  [numParams |-> n, numSyms |-> n + m, returnsVoid |-> void, body |-> body]
=============================================================================
