------------------------------- MODULE Source -------------------------------
(***************************************************************************)
(* A text becomes tokens, a tree, an analysed tree.  What the three stages *)
(* find is compared with definitions that know nothing of how they work:   *)
(* which token sequences the grammar derives, how tightly operators bind,  *)
(* which declaration a name stands for, what a constant expression is.     *)
(***************************************************************************)
EXTENDS Lexer, Parser, Sema

CONSTANTS Written,       \* pairs: a text and what it is as tokens
          Language       \* the token sequences the grammar derives

VARIABLE data            \* of the program: names and initial values, by globalId

sourceVars == <<lexVars, parseVars, semaVars, data>>

SourceInit == LexInit /\ ParseInit /\ SemaInit /\ data = << >>

Lexing == LexNext /\ UNCHANGED <<parseVars, semaVars, data>>

(* The driver passes each stage's result on.                               *)
StartParser ==
  /\ lexed = "lexed" /\ verdict = "waiting"
  /\ toks' = out /\ verdict' = "parsing"
  /\ UNCHANGED <<lexVars, pos, work, made, semaVars, data>>

Parsing == ParseNext /\ UNCHANGED <<lexVars, semaVars, data>>

StartAnalysis ==
  /\ verdict = "parsed" /\ outcome = "waiting"
  /\ items' = made /\ made' = << >>
  /\ Analyze(made)
  /\ UNCHANGED <<lexVars, toks, pos, work, verdict, data>>

Analysis == SemaNext /\ UNCHANGED <<lexVars, parseVars, data>>

(* IRGen::generate: a datum for every global that is not a constant, at    *)
(* the place its symbol has been given.                                    *)
Vars(its) == {it \in {its[k] : k \in DOMAIN its} : it.kind = "Global" /\ it.name # "const"}
SymbolOf(n) == arena[CHOOSE s \in DOMAIN arena : arena[s].at = n.at]
Datum(it) == [name |-> it.kids[1].name, value |-> ConstValue(it.kids[2])]

Generate ==
  /\ outcome = "accepted" /\ data = << >> /\ Vars(items) # {}
  /\ data' = [id \in 0 .. globalCount - 1 |->
                LET its == SelectSeq(items, LAMBDA it :
                             it \in Vars(items) /\ SymbolOf(it.kids[1]).globalId = id)
                IN  IF its = << >> THEN [name |-> "", value |-> 0] ELSE Datum(its[Len(its)])]
  /\ UNCHANGED <<lexVars, parseVars, semaVars>>

SourceNext == Lexing \/ StartParser \/ Parsing \/ StartAnalysis \/ Analysis \/ Generate

(* The compiler runs until it is done or throws.                           *)
SourceSpec == SourceInit /\ [][SourceNext]_sourceVars /\ WF_sourceVars(SourceNext)

-----------------------------------------------------------------------------
(* The parser has just finished its tree.                                  *)
Parsed == verdict = "parsed" /\ outcome = "waiting"
Trees == made \o items
Nodes == AllNodes(Trees)

(* A text is cut into the tokens it was written as: the longest operator   *)
(* and word wins, a comment separates, what starts no token is an error.   *)
WrittenTexts == {w[1] : w \in Written}

LexesAsWritten ==
  lexed # "lexing" /\ verdict = "waiting" /\ text \in WrittenTexts =>
    <<text, IF lexed = "lexed" THEN out ELSE <<lexed>> >> \in Written

(* Every text the grammar derives is parsed, and no other but the empty    *)
(* one: CompUnit has at least one declaration (任务要求.md:68), the loop of *)
(* parseModule none at least.  Nothing underived is accepted in the end,   *)
(* the empty text for want of main.                                        *)
AcceptsGrammar ==
  /\ Parsed => toks \in Language \cup {<<Eof>>}
  /\ verdict = "syntax error" => toks \notin Language
  /\ outcome = "accepted" => toks \in Language

(* How tightly a binary operator binds, and how many parentheses are open. *)
Strength(n) ==
  CASE n.name = "||" -> 1 [] n.name = "&&" -> 2 [] n.name \in {"==", "!="} -> 3
    [] n.name \in {"<", ">", "<=", ">="} -> 4
    [] n.name \in {"+", "-"} -> 5 [] n.name \in {"*", "/", "%"} -> 6

Nesting(p) == Cardinality({q \in 1 .. p : toks[q] = "("})
                - Cardinality({q \in 1 .. p : toks[q] = ")"})

(* In the operands of a binary operator, an operator outside of further    *)
(* parentheses binds tighter, or as tight and stands to the left; the      *)
(* operand of a unary operator has no such binary operator.  Left operands *)
(* precede the operator, right operands follow.                            *)
GroupsLikeC(n) ==
  \A k \in DOMAIN n.kids : \A m \in NodesOf(n.kids[k]) :
    LET open == m.kind \in {"Binary", "Logical"} /\ Nesting(m.at) = Nesting(n.at)
    IN  IF n.kind = "Unary" THEN m.at > n.at /\ ~open
        ELSE /\ IF k = 1 THEN m.at < n.at ELSE m.at > n.at
             /\ open => IF k = 1 THEN Strength(m) >= Strength(n)
                                 ELSE Strength(m) > Strength(n)

(* No branch before an else ends in an if that could still take it.        *)
RECURSIVE EndsOpen(_)

EndsOpen(s) ==
  \/ s.kind = "If" /\ (Len(s.kids) = 2 \/ EndsOpen(s.kids[3]))
  \/ s.kind = "While" /\ EndsOpen(s.kids[2])

ElseNearest(s) == Len(s.kids) = 3 => ~EndsOpen(s.kids[2])

(* What the text says of expressions and what the tree says.               *)
Spoken == {p \in DOMAIN toks : \/ Kind(toks[p]) \in {"identifier", "number"}
                               \/ toks[p] \in UNION {Operators[f] : f \in Layers} \cup {"!"}}
Said == {n \in Nodes : n.kind \in ExprKinds \cup {"Name"}}

(* The tree is the text read as C: its operators group as in C, an else    *)
(* belongs to the nearest if that has none, and every operator, name and   *)
(* numeral of the text is in it once, where it stands.                     *)
ReadsLikeC ==
  Parsed =>
    /\ \A n \in {m \in Nodes : m.kind \in OperatorKinds} : GroupsLikeC(n)
    /\ \A s \in {m \in Nodes : m.kind = "If"} : ElseNearest(s)
    /\ Spoken = {n.at : n \in Said}
    /\ \A n \in Said : n.name = toks[n.at]
    /\ Cardinality(Said) = Cardinality(Spoken)

-----------------------------------------------------------------------------
(* Which declaration a name stands for, from the braces and semicolons.    *)

Braces(p) == Cardinality({q \in 1 .. p : toks[q] = "{"})
               - Cardinality({q \in 1 .. p : toks[q] = "}"})

Decls == {d \in 2 .. Len(toks) - 1 : toks[d - 1] = "int" /\ Kind(toks[d]) = "identifier"
                                       /\ toks[d + 1] # "("}
IsGlobal(d) == Braces(d) = 0 /\ toks[d + 1] = "="

(* A parameter is known at once, a variable or constant after its          *)
(* declaration (任务要求.md:123), until the block it is in ends.            *)
Starts(d) == IF toks[d + 1] # "=" THEN d
             ELSE Min({q \in d .. Len(toks) : toks[q] = ";"})
Ended(d, u) == \E q \in d .. u : toks[q] = "}" /\ Braces(q) < Max({Braces(d), 1})

Visible(u) == {d \in Decls : /\ toks[d] = toks[u]
                             /\ Starts(d) < u
                             /\ IsGlobal(d) \/ ~Ended(d, u)}

IsConstDecl(d) == d > 2 /\ toks[d - 2] = "const"

Denotes(u) ==
  LET ds == Visible(u)
      local == {d \in ds : ~IsGlobal(d)}
  IN  IF local # {} THEN Max(local) ELSE Max(ds \cup {0})

Analysed == outcome \notin {"waiting", "analysing"}

(* A name of which a declaration is visible is bound to the nearest one.   *)
(* What becomes of a name used too early is the business of                *)
(* DeclaredBeforeUse.                                                      *)
BindsLexically ==
  Analysed =>
    \A u \in DOMAIN bound : Visible(u) # {} => arena[bound[u]].at = Denotes(u)

-----------------------------------------------------------------------------
(* The value of an expression by C's rules, whether it makes a call, and   *)
(* whether it divides by zero.  unknown[0], unknown[1] are what variables  *)
(* and calls give, by position; a constant has its initialiser's value.    *)
Initialiser(d) ==
  (CHOOSE n \in Nodes : n.kind \in {"VarDecl", "Global"} /\ n.kids[1].at = d).kids[2]

Result(v, calls, undefined) == [v |-> v, calls |-> calls, undefined |-> undefined]

RECURSIVE Value(_, _)

Value(n, unknown) ==
  LET l == Value(n.kids[1], unknown)
      r == Value(n.kids[2], unknown)
      both(v) == Result(v, l.calls \/ r.calls, l.undefined \/ r.undefined)
      other == unknown[n.at % 2]
  IN  CASE n.kind = "Number" -> Result(Wrap(Numbers[n.name]), FALSE, FALSE)
        [] n.kind = "Call" -> Result(other, TRUE, FALSE)
        [] n.kind = "Var" ->
             IF IsConstDecl(Denotes(n.at)) THEN Value(Initialiser(Denotes(n.at)), unknown)
             ELSE Result(other, FALSE, FALSE)
        [] n.kind = "Unary" -> [l EXCEPT !.v = EvalUn(n.name, @)]
        [] n.kind = "Binary" ->
             [both(EvalBinary(BinOp[n.name], l.v, r.v)) EXCEPT
                !.undefined = @ \/ (n.name \in {"/", "%"} /\ r.v = 0)]
        [] n.kind = "Logical" ->
             IF (l.v # 0) = (n.name = "||") THEN [l EXCEPT !.v = Truth(n.name = "||")]
             ELSE both(Truth(r.v # 0))

Unknowns == [{0, 1} -> {-1, 0, 2}]
Exprs == {n \in Nodes : n.kind \in ExprKinds}

Declared(n) == \A m \in NodesOf(n) : m.kind = "Var" => Visible(m.at) # {}

(* An expression of declared names that is folded to a constant has this   *)
(* value whatever variables and calls give, and evaluating it makes no     *)
(* call.                                                                   *)
FoldsToValue ==
  Analysed =>
    \A n \in {m \in Exprs : IsConst(m) /\ Declared(m)} : \A unknown \in Unknowns :
      Value(n, unknown) = Result(ConstValue(n), FALSE, FALSE)

(* The program's data are the variables declared outside of functions, in  *)
(* order, each with the value of its initialiser, and a name of which a    *)
(* declaration is visible has the number of that one.                      *)
GlobalDecls == {d \in Decls : IsGlobal(d) /\ ~IsConstDecl(d)}
Before(d) == Cardinality({c \in GlobalDecls : c < d})

DataAsDeclared ==
  data # << >> =>
    /\ DOMAIN data = {Before(d) : d \in GlobalDecls}
    /\ \A d \in GlobalDecls : \A unknown \in Unknowns :
         data[Before(d)] = [name |-> toks[d], value |-> Value(Initialiser(d), unknown).v]
    /\ \A u \in DOMAIN bound : Visible(u) # {} =>
         arena[bound[u]].globalId = IF Denotes(u) \in GlobalDecls THEN Before(Denotes(u)) ELSE -1

-----------------------------------------------------------------------------
(* The ways a module can be ill-formed by the rules of the language, told  *)
(* from the tree.  A function can be called after its head, so by itself   *)
(* too, but not before (任务要求.md:114).                                   *)
OfKind(kinds) == {n \in Nodes : n.kind \in kinds}
Uses == {n.at : n \in OfKind({"Var"})} \cup {n.kids[1].at : n \in OfKind({"Assign"})}
Functions == OfKind({"FuncDef"})
Named(c) == {f \in Functions : FuncName(f) = c.name}
Callees(c) == {f \in Named(c) : f.at < c.at}
ConstInits == {n.kids[2] : n \in {m \in OfKind({"VarDecl", "Global"}) :
                                    m.kind = "Global" \/ m.name = "const"}}
Mains == {f \in Functions : FuncName(f) = "main"}
InLoops == UNION {NodesOf(w.kids[2]) : w \in OfKind({"While"})}

Varies(n) ==
  \E m \in NodesOf(n) : \/ m.kind = "Call"
                        \/ m.kind = "Var" /\ ~IsConstDecl(Denotes(m.at))

(* The expressions that are no part of another, and whether an expression  *)
(* divides by zero whenever it is evaluated.                               *)
Wholes == Exprs \ UNION {{m.kids[k] : k \in DOMAIN m.kids} : m \in Exprs}
IsUndefined(n) == \A unknown \in Unknowns : Value(n, unknown).undefined

Reasons == {"undeclared identifier", "assignment to a constant", "outside of a loop",
            "not a constant", "division by zero", "undeclared function",
            "number of arguments", "function redefined", "no main", "not int main()"}

IllFormed(why) ==
  CASE why = "undeclared identifier" -> \E u \in Uses : Denotes(u) = 0
    [] why = "assignment to a constant" ->
         \E n \in OfKind({"Assign"}) : IsConstDecl(Denotes(n.kids[1].at))
    [] why = "outside of a loop" -> OfKind({"Break", "Continue"}) \ InLoops # {}
    [] why = "not a constant" -> \E n \in ConstInits : Varies(n)
    [] why = "division by zero" -> \E n \in Wholes : IsUndefined(n)
    [] why = "undeclared function" -> \E c \in OfKind({"Call"}) : Callees(c) = {}
    [] why = "number of arguments" ->
         \E c \in OfKind({"Call"}) : \E f \in Callees(c) : Len(Params(f)) # Len(c.kids)
    [] why = "function redefined" -> \E f, g \in Functions : f # g /\ FuncName(f) = FuncName(g)
    [] why = "no main" -> Mains = {}
    [] why = "not int main()" -> \E f \in Mains : f.name # "int" \/ Params(f) # << >>

(* Uses and calls of what is declared only later.                          *)
TooEarly ==
  {u \in Uses : Denotes(u) = 0 /\ \E d \in Decls : IsGlobal(d) /\ d > u /\ toks[d] = toks[u]}
    \cup {c.at : c \in {b \in OfKind({"Call"}) : Callees(b) = {} /\ Named(b) # {}}}

(* Whether an expression has one value whatever variables and calls give,  *)
(* and makes no call: so it may be, though it names them (0 && f()).       *)
Settled(n) ==
  \E r \in {Value(n, unknown) : unknown \in Unknowns} :
    ~r.calls /\ \A unknown \in Unknowns : Value(n, unknown) = r

(* A division of constants by zero, in an expression that need not make it.*)
IdleDivision ==
  \E n \in OfKind({"Binary"}) : ~Varies(n) /\ IsUndefined(n)

(* Where nothing is used too early, a module is rejected for what is wrong *)
(* with it, or for an idle division by zero; what is accepted has every    *)
(* name declared, every jump in a loop, every constant left alone, with a  *)
(* value that is settled, every call answered by a function, and no        *)
(* constant that divides by zero.                                          *)
JudgesRightly ==
  Analysed /\ TooEarly = {} =>
    /\ outcome # "accepted" =>
         IllFormed(outcome) \/ (outcome = "division by zero" /\ IdleDivision)
    /\ outcome = "accepted" =>
         /\ \A why \in Reasons \ {"not a constant", "division by zero"} : ~IllFormed(why)
         /\ \A n \in ConstInits : Settled(n)
         /\ \A n \in Wholes : IsUndefined(n) => Varies(n)

(* Nothing is used before it is declared: no variable or constant          *)
(* (任务要求.md:123), no function (任务要求.md:114); the scope stack is to  *)
(* see to that (实践报告.md:79-80).                                         *)
DeclaredBeforeUse == outcome = "accepted" => TooEarly = {}

(* No program is rejected that some rule does not forbid: "绝不误拒合法程   *)
(* 序" (实践报告.md:70), "it never rejects a program it cannot prove        *)
(* invalid" (Sema.h:14).                                                   *)
RejectsOnlyInvalid ==
  Analysed /\ outcome # "accepted" => \E why \in Reasons : IllFormed(why)

(* Every text gets an answer.                                              *)
Answers == <>(lexed = "lexical error" \/ verdict = "syntax error" \/ Analysed)
=============================================================================
