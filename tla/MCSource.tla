------------------------------ MODULE MCSource ------------------------------
(***************************************************************************)
(* Texts.  Every sequence of up to four tokens as an initialiser and every *)
(* sequence of up to four statement pieces as a body, derivable or not;    *)
(* all longer bodies the grammar derives; expressions of two operators;    *)
(* modules of nested scopes, of constants and of several functions.        *)
(***************************************************************************)
EXTENDS Source, SequencesExt

Identifiers == {"x", "y", "f", "g", "main"}
Numerals == ("0" :> 0) @@ ("1" :> 1) @@ ("2" :> 2) @@ ("4" :> 4)

Upto(S, n) == UNION {[1 .. k -> S] : k \in 0 .. n}
Main(body) == <<"int", "main", "(", ")", "{">> \o body \o <<"}">>
Set0(e) == <<"int", "x", "=">> \o e \o <<";">>
Splice(S, T, infix) == {s \o infix \o t : s \in S, t \in T}

-----------------------------------------------------------------------------
(* Expressions by length, from the ambiguous grammar.                      *)
ExprTokens == {"x", "-", "(", ")", ",", "!"}

ExprsOf[n \in Nat] ==
  LET argsOf[k \in 0 .. n] ==
        IF k = 0 THEN {}
        ELSE ExprsOf[k] \cup UNION {Splice(ExprsOf[j], argsOf[k - 1 - j], <<",">>) :
                                      j \in 1 .. k - 1}
  IN  CASE n = 0 -> {}
        [] n = 1 -> {<<"x">>}
        [] n > 1 -> UNION {Splice(ExprsOf[k], ExprsOf[n - 1 - k], <<"-">>) : k \in 1 .. n - 2}
                    \cup {<<o>> \o e : o \in {"-", "!"}, e \in ExprsOf[n - 1]}
                    \cup (IF n < 3 THEN {} ELSE
                            {<<"(">> \o e \o <<")">> : e \in ExprsOf[n - 2]}
                            \cup {<<"x", "(">> \o as \o <<")">> :
                                    as \in (IF n = 3 THEN {<< >>} ELSE argsOf[n - 3])})

ShortExprs == Upto(ExprTokens, 4)
ShortDerived == UNION {ExprsOf[n] : n \in 1 .. 4}

(* Operators in pairs, with signs and parentheses.                         *)
Infix == {"||", "&&", "==", "!=", "<", ">", "<=", ">=", "+", "-", "*", "/", "%"}
Paired ==
  {<<"x", o, "y", q, "1">> : o, q \in Infix}
    \cup {<<"x", o, "(", "y", q, "1", ")", q, "x">> : o, q \in {"&&", "<", "-", "*"}}
    \cup {<<"!", "x", o, "-", "+", "y", "||", "x", "(", "x", o, "1", ",", "-", "y", ")">> :
            o \in Infix}

-----------------------------------------------------------------------------
(* Statements by number of pieces.                                         *)
IfPiece == <<"if", "(", "1", ")">>
WhilePiece == <<"while", "(", "1", ")">>
Pieces == {<<";">>, <<"{">>, <<"}">>, IfPiece, <<"else">>, WhilePiece}

(* grown[k] has the statements and the statement lists of k pieces.        *)
Grow(grown, n) ==
  LET lists(k) == IF k = 0 THEN {<< >>} ELSE grown[k].lists
      stmts ==
        IF n = 1 THEN {<<";">>}
        ELSE {w \o s : w \in {IfPiece, WhilePiece}, s \in grown[n - 1].stmts}
               \cup UNION {Splice({IfPiece \o s : s \in grown[k].stmts},
                                  grown[n - 2 - k].stmts, <<"else">>) : k \in 1 .. n - 3}
               \cup {<<"{">> \o b \o <<"}">> : b \in lists(n - 2)}
  IN  Append(grown,
        [stmts |-> stmts,
         lists |-> stmts \cup UNION {Splice(grown[j].stmts, lists(n - j), << >>) :
                                       j \in 1 .. n - 1}])

Grown == FoldLeft(Grow, << >>, <<1, 2, 3, 4, 5>>)
ShortBodies == {FlattenSeq(ps) : ps \in Upto(Pieces, 4)}
DerivedBodies == {<< >>} \cup UNION {Grown[n].lists : n \in DOMAIN Grown}

-----------------------------------------------------------------------------
(* Nested scopes: blocks of declarations and uses of x, in functions with  *)
(* and without a parameter x, before and after a global x.                 *)
DeclX == <<"int", "x", "=", "x", ";">>
ConstX == <<"const", "int", "x", "=", "2", ";">>
UseX == <<"x", "=", "x", "+", "y", ";">>
IfDecl == <<"if", "(", "x", ")">> \o ConstX
Items == {DeclX, ConstX, UseX, IfDecl}
Blocks == {<<"{">> \o a \o b \o <<"}">> : a, b \in Items}
Scoped == {a \o b \o UseX : a \in Items, b \in Blocks \cup Items}
            \cup {<<"{">> \o b \o a \o <<"}">> : a \in Items, b \in Blocks}

GlobalX == <<"int", "x", "=", "1", ";">>
GlobalY == <<"const", "int", "y", "=", "4", ";">>
FuncX(body) == <<"void", "f", "(", "int", "x", ",", "int", "y", ")", "{">> \o body \o <<"}">>
ReturnY == <<"return", "y", ";">>

Scopes ==
  {GlobalX \o GlobalY \o Main(b) : b \in Scoped}
    \cup {FuncX(b) \o ConstX \o Main(<<"return", "x", ";">>) : b \in Scoped}
    \cup {GlobalY \o Main(b \o ReturnY) \o GlobalX : b \in {a \o c : a \in Items, c \in Blocks}}

-----------------------------------------------------------------------------
(* Constants: operands of every kind under every operator.                 *)
Atoms == {<<"0">>, <<"1">>, <<"y">>, <<"x">>, <<"f", "(", ")">>, <<"-", "1">>,
          <<"(", "1", "/", "0", ")">>}
Sums == {a \o <<o>> \o b : a, b \in Atoms, o \in Infix \ {"!=", "<", ">", ">="}}
          \cup {<<"!", "(">> \o a \o <<o>> \o b \o <<")", "||">> \o c :
                  a, b, c \in {<<"0">>, <<"x">>, <<"f", "(", ")">>}, o \in {"&&", "||", "/"}}

FuncF == <<"int", "f", "(", ")", "{", "return", "1", ";", "}">>
Folding ==
  {FuncF \o GlobalY \o Main(<<"int", "x", "=", "0", ";", "return">> \o e \o <<";">>) :
     e \in Sums}
    \cup {FuncF \o GlobalY \o <<"const", "int", "x", "=">> \o e \o <<";">> \o Main(ReturnY) :
            e \in {a \o <<o>> \o b : a, b \in Atoms \ {<<"x">>}, o \in {"&&", "||", "*"}}}

-----------------------------------------------------------------------------
(* Loops, and jumps inside and outside of them.                            *)
Jumps == {<<"break", ";">>, <<"continue", ";">>, <<"return", ";">>}
Looped ==
  {WhilePiece \o <<"{">> \o a \o b \o <<"}">> \o c :
     a, b \in {<<";">>, WhilePiece \o <<"break", ";">>, IfPiece \o <<"{", "continue", ";", "}">>},
     c \in Jumps \cup {<<"}", "void", "g", "(", ")", "{">> \o j : j \in Jumps}}

(* Functions: calls forward, backward and of oneself, arity, redefinition. *)
CallF(args) == Main(<<"f", "(">> \o args \o <<")", ";">>)
Calls ==
  {FuncF \o CallF(<< >>), CallF(<< >>) \o FuncF, FuncF \o CallF(<<"1">>), CallF(<< >>),
   FuncX(<<"f", "(", "y", ",", "x", ")", ";">>) \o CallF(<<"1", ",", "2">>),
   FuncX(<< >>) \o FuncF \o CallF(<< >>), FuncF,
   Main(<< >>) \o Main(<< >>), FuncF \o <<"int", "x", "=", "f", "(", ")", ";">> \o Main(<< >>),
   <<"int", "x", "=", "0", "&&", "f", "(", ")", ";">> \o FuncF \o Main(<< >>),
   <<"int", "main", "(", "int", "x", ")", "{", "}">>, <<"void", "main", "(", ")", "{", "}">>,
   <<"void", "g", "(", "int", "x", ",", "int", "x", ")", "{", "x", "=", "1", ";", "}">> \o Main(<< >>)}

(* Variables among constants and functions, one of them declared twice.    *)
Globals ==
  {GlobalY \o GlobalX \o FuncF \o <<"int", "g", "=", "-", "y", ";">> \o ConstX
     \o <<"int", "y", "=", "1", "+", "x", ";">> \o Main(b) :
     b \in {<<"return", "g", "+", n, ";">> : n \in {"x", "y", "f", "main"}}
           \cup {<<"g", "=", "y", ";", "int", "g", "=", "y", ";", "g", "=", "2", ";">>}}
    \cup {GlobalX \o GlobalX \o Main(UseX \o ReturnY), GlobalX \o GlobalX \o Main(<<"return", "x", ";">>)}

Broken ==
  {<< >>, <<"int">>, <<"int", "x">>, <<"x">>, <<"void", "x", "=", "1", ";">>, <<"const", "x">>,
   Main(<<"{">>), Main(<<"break">>), Main(<<"return", ";", "}">>), <<"int", "x", "(", ",", ")">>,
   <<"int", "f", "(", "int", "x", "int", "y", ")", "{", "}">>, Main(<<"const", "x">>)}

-----------------------------------------------------------------------------
(* Pairs of tokens with something or nothing between them.                 *)
Plain == {"x", "int", "intx", "0", "4"}
Signs == {"=", "==", "!", "!=", "<", ">=", "+", "-", "*", "/", "&&", "||", "(", ";"}
Spaces == {" ", "\n", "\t", "/**/", "//x\n", "/* x // /* */", "/*/ x */"}

Joined(a, b) ==
  CASE a \in Plain /\ b \in Plain /\ ~(a \in {"0", "4"} /\ b \notin {"0", "4"}) -> <<a \o b, Eof>>
    [] a \in {"=", "!", "<"} /\ b \in {"=", "=="} ->
         <<a \o "=">> \o (IF b = "==" THEN <<"=">> ELSE << >>) \o <<Eof>>
    [] a = "/" /\ b = "/" -> <<Eof>>
    [] a = "/" /\ b = "*" -> <<"lexical error">>
    [] OTHER -> <<a, b, Eof>>

Tokens == Plain \cup Signs
Errors == {"&", "x & y", "|", "@", "x@", "/*", "x /* y", "/*/", "x /* /", "/* *", "0 // \n @"}
Comments == Spaces \ {" ", "\n", "\t"}
Spaced == {c \in (Tokens \X Tokens) \X Spaces : ~(c[1][1] = "/" /\ c[2] \in Comments)}

Cut ==
  {<<c[1][1] \o c[2] \o c[1][2], <<c[1][1], c[1][2], Eof>> >> : c \in Spaced}
    \cup {<<a \o b, Joined(a, b)>> : a, b \in Tokens}
    \cup {<<s, <<"lexical error">> >> : s \in Errors}

-----------------------------------------------------------------------------
Derived ==
  {m \o <<Eof>> :
     m \in {Set0(e) : e \in ShortDerived \cup Paired} \cup {Main(b) : b \in DerivedBodies}
            \cup Scopes \cup Folding \cup {Main(b) : b \in Looped} \cup Calls \cup Globals}

Modules ==
  Derived \cup {m \o <<Eof>> : m \in {Set0(e) : e \in ShortExprs} \cup Broken
                                        \cup {Main(b) : b \in ShortBodies}}

Spell(m) ==
  LET upto[k \in 0 .. Len(m)] == IF k = 0 THEN "" ELSE upto[k - 1] \o m[k] \o " "
  IN  upto[Len(m) - 1]

Texts == {Spell(m) : m \in Modules} \cup {c[1] : c \in Cut}

(* int main() { return x + f(); } int x = 1; int f() { return 1; }          *)
Forward ==
  {Spell(Main(<<"return", "x", "+", "f", "(", ")", ";">>) \o GlobalX \o FuncF \o <<Eof>>)}

(* int main() { return 1 || 1 / 0; }                                       *)
ShortCircuited == {Spell(Main(<<"return", "1", "||", "1", "/", "0", ";">>) \o <<Eof>>)}
=============================================================================
