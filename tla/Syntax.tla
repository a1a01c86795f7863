------------------------------- MODULE Syntax -------------------------------
(***************************************************************************)
(* Tokens, and the syntax trees of ast/AST.h as the parser leaves them,    *)
(* with names that are not resolved yet.  A token is its text.  A node is  *)
(* identified by the position `at` of the token its class is known by: an  *)
(* operator, a name, a numeral, the first token of a statement.            *)
(***************************************************************************)
EXTENDS Word, Sequences, FiniteSets

CONSTANTS Names,         \* the identifiers
          Numbers        \* the numerals and what they stand for, a function

ASSUME TokensAssumption == Names \cap DOMAIN Numbers = {}

Eof == "<eof>"

Kind(t) == CASE t \in Names -> "identifier"
             [] t \in DOMAIN Numbers -> "number"
             [] OTHER -> t

(* The value of a numeral: read as 64 bits, cut to a word.                 *)
Digit == [c \in {"0", "1", "2", "3", "4", "5", "6", "7", "8", "9"} |->
            CHOOSE d \in 0 .. 9 : <<"0", "1", "2", "3", "4", "5", "6", "7", "8", "9">>[d + 1] = c]

TokenValue(t) ==
  LET decimal[k \in 0 .. Len(t)] ==
        IF k = 0 THEN 0 ELSE 10 * decimal[k - 1] + Digit[SubSeq(t, k, k)]
  IN  Wrap(decimal[Len(t)])

Node(kind, name, at, kids) == [kind |-> kind, name |-> name, at |-> at, kids |-> kids]

RECURSIVE NodesOf(_)

(* The node n and everything below it.                                     *)
NodesOf(n) == {n} \cup UNION {NodesOf(n.kids[k]) : k \in DOMAIN n.kids}

(* All nodes of a sequence of trees.                                       *)
AllNodes(trees) == UNION {NodesOf(trees[k]) : k \in DOMAIN trees}

OperatorKinds == {"Unary", "Binary", "Logical"}
ExprKinds == OperatorKinds \cup {"Number", "Var", "Call"}
=============================================================================
