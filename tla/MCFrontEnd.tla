----------------------------- MODULE MCFrontEnd -----------------------------
(***************************************************************************)
(* Functions to lower and to run on one-bit inputs: every statement form   *)
(* around every condition form, loops with break and continue, nested      *)
(* loops, short circuits as values, code after a return, and operands      *)
(* whose evaluation order shows.                                           *)
(***************************************************************************)
EXTENDS FrontEnd

P == Local(0)            \* the parameter
X == Local(1)            \* a local variable
Y == Local(2)            \* a variable of an inner block
G == Global(0)
p == Var(P)
x == Var(X)
y == Var(Y)
gv == Var(G)
call == CallInt(<<p>>)

Conds == {p, gv, Number(0), Number(1), Un("Not", p), Bin("Lt", x, p),
          Logical("And", p, call), Logical("Or", p, call),
          Logical("Or", Logical("And", p, gv), Un("Not", call)),
          Un("Not", Logical("And", Un("Not", p), gv)),
          Logical("And", Number(1), p), Logical("Or", Number(1), call),
          Logical("And", call, Number(0))}

Values == Conds \cup
  {Bin("Sub", gv, call), Bin("Add", call, gv), Un("Neg", Un("Plus", x)),
   Bin("Mul", Logical("Or", gv, p), CallInt(<<gv, call>>)), Bin("Div", x, Number(2))}

Simple == {Assign(X, gv), Assign(G, x), ExprStmt(CallVoid(<<x>>)), ReturnE(x),
           Block(<<VarDecl(Y, call), Assign(X, y)>>)}

Ifs == {If(c, s) : c \in Conds, s \in Simple}
         \cup {IfElse(c, s, t) : c \in Conds,
                 s \in {ReturnE(p), Assign(X, Number(1))},
                 t \in {ReturnE(x), Assign(G, p)}}

Dec(s) == Assign(s, Bin("Sub", Var(s), Number(1)))

Bodies == {Block(<<If(c, s), Dec(P), ExprStmt(CallVoid(<<p>>))>>) :
             c \in {gv, Logical("And", x, p)}, s \in {Break, Continue, ReturnE(gv)}}
            \cup {Block(<<Dec(P), IfElse(gv, Break, Continue), Assign(G, p)>>),
                  Block(<<While(call, If(gv, Break)), Dec(P)>>),
                  Block(<<While(p, Block(<<Dec(P), Continue>>)),
                          ExprStmt(CallVoid(<<p>>)), Break>>),
                  If(p, Block(<<Break, Dec(P)>>))}

Loops == {While(c, s) : c \in Conds, s \in Bodies}

Fun(void, ss) == FuncDef(1, 2, void, Block(<<VarDecl(X, Number(2))>> \o ss))

Functions ==
  {Fun(FALSE, <<Assign(X, v), ReturnE(x)>>) : v \in Values}
    \cup {Fun(FALSE, <<s, ReturnE(x)>>) : s \in Ifs}
    \cup {Fun(TRUE, <<s>>) : s \in Loops}
    \cup {Fun(FALSE, <<ReturnE(call), Assign(G, x)>>),
          Fun(TRUE, <<If(p, ReturnNone), While(gv, Assign(G, Number(0)))>>),
          Fun(FALSE, <<If(call, While(x, Block(<<Dec(X), If(p, Continue)>>)))>>)}

Nested ==
  {Fun(TRUE, <<While(c, Block(<<IfElse(d, s, t), Assign(X, d)>>))>>) :
     c \in {call, Logical("Or", p, call)},
     d \in {p, Un("Not", Logical("And", gv, call))},
     s \in {Break, ReturnNone, Block(<<Continue, Assign(X, gv)>>)},
     t \in {Break, If(x, Continue), While(gv, Break)}}

(* Declarations that are arms or loop bodies, their names used afterwards. *)
Bare ==
  {Fun(FALSE, <<s, Assign(X, y), ReturnE(x)>>) :
     s \in {If(p, VarDecl(Y, call)), If(Number(0), VarDecl(Y, gv)),
            If(Number(1), VarDecl(Y, gv)), IfElse(gv, VarDecl(Y, gv), Assign(Y, x)),
            While(call, VarDecl(Y, p)), While(p, If(gv, VarDecl(Y, Number(1))))}}
    \cup {Fun(FALSE, <<Assign(X, gv), Block(<<If(p, VarDecl(Y, x)), Assign(Y, x)>>), ReturnE(x)>>)}

AllFunctions == Functions \cup Nested \cup Bare

(* The trees of these functions: the sets with all parts, layer by layer.  *)
Kids(ts) == UNION {{t.kids[k] : k \in DOMAIN t.kids} : t \in ts}
Down(ts) ==
  LET a == Kids(ts)
      b == Kids(a)
      c == Kids(b)
      d == Kids(c)
      e == Kids(d)
  IN  ts \cup (a \cup (b \cup (c \cup (d \cup e))))

AllStmts == Down({Stmt} \cup {a.body : a \in AllFunctions})
AllExprs == Down({s.e : s \in AllStmts})

(* The scopes of these trees.                                              *)
RECURSIVE ExposesOf(_)
ExposesOf(s) ==
  CASE s.kind = "VarDecl" -> {s.sym.id}
    [] s.kind = "Block" -> {}
    [] OTHER -> UNION {ExposesOf(s.kids[k]) : k \in DOMAIN s.kids}

RECURSIVE InBlocksOf(_)
InBlocksOf(s) ==
  \A k \in DOMAIN s.kids :
    InBlocksOf(s.kids[k]) /\ (s.kind # "Block" => ExposesOf(s.kids[k]) = {})

RECURSIVE FreeOf(_)
FreeOf(t) ==
  LET Before(k) == IF "hasE" \notin DOMAIN t THEN {}
                   ELSE UNION {ExposesOf(t.kids[j]) : j \in 1 .. k - 1}
      own == IF t.kind \in {"Var", "Assign"} /\ ~IsGlobal(t.sym) THEN {t.sym.id} ELSE {}
      value == IF "hasE" \in DOMAIN t /\ t.hasE THEN FreeOf(t.e) ELSE {}
  IN  own \cup value \cup UNION {FreeOf(t.kids[k]) \ Before(k) : k \in DOMAIN t.kids}

RECURSIVE DeclaresOf(_)
DeclaresOf(s) ==
  (IF s.kind = "VarDecl" THEN {s.sym.id} ELSE {})
    \cup UNION {DeclaresOf(s.kids[k]) : k \in DOMAIN s.kids}

RECURSIVE LeavesOf(_)
LeavesOf(s) ==
  \/ s.kind \in {"Break", "Continue"}
  \/ s.kind # "While" /\ \E k \in DOMAIN s.kids : LeavesOf(s.kids[k])

Bits == {0, 1}
OneGlobal == {0}
=============================================================================
