------------------------------- MODULE Parser -------------------------------
(***************************************************************************)
(* parser/Parser.cpp, recursive descent, as a stack machine.  `work` is    *)
(* the call stack: what the active functions still have to do, the next    *)
(* task first.  `made` holds the trees finished so far, the latest last;   *)
(* what is left at the end are the items of the module.                    *)
(***************************************************************************)
EXTENDS Syntax

VARIABLES toks, pos,     \* the tokens, the last one Eof, and the position in them
          work, made,
          verdict        \* "waiting", "parsing", "parsed" or "syntax error"

parseVars == <<toks, pos, work, made, verdict>>

Peek(off) == IF pos + off =< Len(toks) THEN toks[pos + off] ELSE toks[Len(toks)]
Cur == Peek(0)

(* Tasks: take a token of kind f; run the parse function f; go on with the *)
(* loop of f, which has n operands; make a node of the last n trees.       *)
Task(do, f, n, node) == [do |-> do, f |-> f, n |-> n, node |-> node]
NoNode == Node("", "", 0, << >>)
Need(k) == Task("need", k, 0, NoNode)
Parse(f) == Task("parse", f, 0, NoNode)
More(f, n, node) == Task("more", f, n, node)
Build(kind, name, n) == Task("build", "", n, Node(kind, name, pos, << >>))
Expr0 == Parse("LOr")

Running == verdict = "parsing" /\ work # << >>
At(do, f) == Running /\ Head(work).do = do /\ Head(work).f = f

(* Skip some tokens and do these tasks before the rest.                    *)
Call(skip, tasks) ==
  /\ pos' = pos + skip
  /\ work' = tasks \o Tail(work)
  /\ UNCHANGED <<toks, made, verdict>>

Leaf(kind, skip) ==
  /\ pos' = pos + skip
  /\ work' = Tail(work)
  /\ made' = Append(made, Node(kind, Cur, pos, << >>))
  /\ UNCHANGED <<toks, verdict>>

-----------------------------------------------------------------------------
(* expect: names are kept.                                                 *)
Expect ==
  /\ Running /\ Head(work).do = "need" /\ Kind(Cur) = Head(work).f
  /\ IF Kind(Cur) = "identifier" THEN Leaf("Name", 1) ELSE Call(1, << >>)

MakeNode ==
  /\ Running /\ Head(work).do = "build"
  /\ LET cut == Len(made) - Head(work).n
         node == [Head(work).node EXCEPT !.kids = SubSeq(made, cut + 1, Len(made))]
     IN  made' = Append(SubSeq(made, 1, cut), node)
  /\ work' = Tail(work)
  /\ UNCHANGED <<toks, pos, verdict>>

-----------------------------------------------------------------------------
(* Top level: `int` is looked through to tell functions from variables.    *)

ParseModule ==
  /\ At("parse", "Module") /\ Cur = Eof
  /\ verdict' = "parsed" /\ work' = << >>
  /\ UNCHANGED <<toks, pos, made>>

FuncTasks(void) ==
  <<Need("identifier"), Need("("),
    More("Params", 0, Node("FuncDef", void, pos, << >>)), Parse("Module")>>

ParseFuncDef ==
  /\ At("parse", "Module")
  /\ \/ Cur = "void" /\ Call(1, FuncTasks("void"))
     \/ Cur = "int" /\ Kind(Peek(1)) = "identifier" /\ Peek(2) = "("
        /\ Call(1, FuncTasks("int"))

DeclTasks(kind) ==
  (IF Cur = "const" THEN <<Need("const")>> ELSE << >>)
    \o <<Need("int"), Need("identifier"), Need("="), Expr0, Need(";"), Build(kind, Cur, 2)>>

ParseGlobalVar ==
  /\ At("parse", "Module")
  /\ \/ Cur = "const"
     \/ Cur = "int" /\ Kind(Peek(1)) = "identifier" /\ Peek(2) # "("
  /\ Call(0, DeclTasks("Global") \o <<Parse("Module")>>)

(* Parameters, then `)` and the body; the node has the name before them    *)
(* and the body after them.                                                *)
MoreParams ==
  /\ At("more", "Params")
  /\ LET t == Head(work)
         param == <<Need("int"), Need("identifier"), More("Params", t.n + 1, t.node)>>
     IN  CASE t.n = 0 /\ Cur # ")" -> Call(0, param)
           [] t.n > 0 /\ Cur = "," -> Call(1, param)
           [] OTHER -> Call(0, <<Need(")"), Parse("Block"),
                                 Task("build", "", t.n + 2, t.node)>>)

-----------------------------------------------------------------------------
(* Statements, told apart by their first token.                            *)

AtStmt(k) == At("parse", "Stmt") /\ Kind(Cur) = k

ParseBlock ==
  /\ At("parse", "Block") \/ AtStmt("{")
  /\ Call(0, <<Need("{"), More("Stmts", 0, Node("Block", "", pos, << >>))>>)

MoreStmts ==
  /\ At("more", "Stmts")
  /\ LET t == Head(work)
     IN  IF Cur \in {"}", Eof}
         THEN Call(0, <<Need("}"), Task("build", "", t.n, t.node)>>)
         ELSE Call(0, <<Parse("Stmt"), More("Stmts", t.n + 1, t.node)>>)

ParseEmpty == AtStmt(";") /\ Leaf("Empty", 1)

ParseDeclStmt == (AtStmt("const") \/ AtStmt("int")) /\ Call(0, DeclTasks("VarDecl"))

ParseIf ==
  /\ AtStmt("if")
  /\ Call(1, <<Need("("), Expr0, Need(")"), Parse("Stmt"),
               More("Else", 2, Node("If", "", pos, << >>))>>)

(* An else goes with the if whose branch has just been parsed.             *)
MoreElse_Outermost ==                   \* mutant: an enclosing if has first claim to it
  /\ At("more", "Else")
  /\ LET t == Head(work)
         claimed == \E k \in 2 .. Len(work) : work[k].f = "Else"
     IN  IF Cur = "else" /\ ~claimed
         THEN Call(1, <<Parse("Stmt"), Task("build", "", 3, t.node)>>)
         ELSE Call(0, <<Task("build", "", 2, t.node)>>)

MoreElse ==
  /\ At("more", "Else")
  /\ LET t == Head(work)
     IN  IF Cur = "else" THEN Call(1, <<Parse("Stmt"), Task("build", "", 3, t.node)>>)
                         ELSE Call(0, <<Task("build", "", 2, t.node)>>)

ParseWhile ==
  /\ AtStmt("while")
  /\ Call(1, <<Need("("), Expr0, Need(")"), Parse("Stmt"), Build("While", "", 2)>>)

ParseBreak == AtStmt("break") /\ Call(1, <<Need(";"), Build("Break", "", 0)>>)

ParseContinue == AtStmt("continue") /\ Call(1, <<Need(";"), Build("Continue", "", 0)>>)

ParseReturn ==
  /\ AtStmt("return")
  /\ IF Peek(1) = ";" THEN Call(1, <<Need(";"), Build("Return", "", 0)>>)
     ELSE Call(1, <<Expr0, Need(";"), Build("Return", "", 1)>>)

ParseAssign ==
  /\ AtStmt("identifier") /\ Peek(1) = "="
  /\ Call(0, <<Need("identifier"), Need("="), Expr0, Need(";"), Build("Assign", "", 2)>>)

StmtWords == {"{", ";", "const", "int", "if", "while", "break", "continue", "return"}

ParseExprStmt ==
  /\ At("parse", "Stmt") /\ Cur \notin StmtWords
  /\ ~(Kind(Cur) = "identifier" /\ Peek(1) = "=")
  /\ Call(0, <<Expr0, Need(";"), Build("ExprStmt", "", 1)>>)

-----------------------------------------------------------------------------
(* Expressions: six layers of left-associative operators, each built from  *)
(* operands of the layer below.                                            *)

Below == [LOr |-> "LAnd", LAnd |-> "Eq", Eq |-> "Rel", Rel |-> "Add",
          Add |-> "Mul", Mul |-> "Unary"]
Layers == DOMAIN Below

Operators == [LOr |-> {"||"}, LAnd |-> {"&&"}, Eq |-> {"==", "!="},
              Rel |-> {"<", ">", "<=", ">="}, Add |-> {"+", "-"}, Mul |-> {"*", "/", "%"}]

ParseLayer(f) ==
  /\ At("parse", f)
  /\ Call(0, <<Parse(Below[f]), More(f, 1, NoNode)>>)

MoreOperands_Right(f) ==                \* mutant: operators associate to the right
  /\ At("more", f)
  /\ IF Cur \in Operators[f]
     THEN Call(1, <<Parse(f),
                    Build(IF f \in {"LOr", "LAnd"} THEN "Logical" ELSE "Binary", Cur, 2)>>)
     ELSE Call(0, << >>)

MoreOperands(f) ==
  /\ At("more", f)
  /\ IF Cur \in Operators[f]
     THEN Call(1, <<Parse(Below[f]),
                    Build(IF f \in {"LOr", "LAnd"} THEN "Logical" ELSE "Binary", Cur, 2),
                    More(f, 1, NoNode)>>)
     ELSE Call(0, << >>)

ParseUnary_Once ==                      \* mutant: the operand is a primary expression
  /\ At("parse", "Unary")
  /\ IF Cur \in {"+", "-", "!"} THEN Call(1, <<Parse("Primary"), Build("Unary", Cur, 1)>>)
                                ELSE Call(0, <<Parse("Primary")>>)

ParseUnary_NoPlus ==                    \* mutant: a unary plus leaves no node
  /\ At("parse", "Unary")
  /\ CASE Cur = "+" -> Call(1, <<Parse("Unary")>>)
       [] Cur \in {"-", "!"} -> Call(1, <<Parse("Unary"), Build("Unary", Cur, 1)>>)
       [] OTHER -> Call(0, <<Parse("Primary")>>)

ParseUnary ==
  /\ At("parse", "Unary")
  /\ IF Cur \in {"+", "-", "!"} THEN Call(1, <<Parse("Unary"), Build("Unary", Cur, 1)>>)
                                ELSE Call(0, <<Parse("Primary")>>)

ParsePrimary ==
  /\ At("parse", "Primary")
  /\ \/ Kind(Cur) = "number" /\ Leaf("Number", 1)
     \/ Cur = "(" /\ Call(1, <<Expr0, Need(")")>>)
     \/ Kind(Cur) = "identifier" /\ Peek(1) # "(" /\ Leaf("Var", 1)
     \/ Kind(Cur) = "identifier" /\ Peek(1) = "("
        /\ Call(2, <<More("Args", 0, Node("Call", Cur, pos, << >>))>>)

MoreArgs ==
  /\ At("more", "Args")
  /\ LET t == Head(work)
         arg == <<Expr0, More("Args", t.n + 1, t.node)>>
     IN  CASE t.n = 0 /\ Cur # ")" -> Call(0, arg)
           [] t.n > 0 /\ Cur = "," -> Call(1, arg)
           [] OTHER -> Call(0, <<Need(")"), Task("build", "", t.n, t.node)>>)

-----------------------------------------------------------------------------
(* The exceptions thrown by expect, parseTopLevel and parsePrimary.        *)
Unexpected_NoDefault ==                 \* mutant: parsePrimary has no default case
  \/ Head(work).do = "need" /\ Kind(Cur) # Head(work).f
  \/ At("parse", "Module") /\ \/ Cur \notin {Eof, "const", "void", "int"}
                              \/ Cur = "int" /\ Kind(Peek(1)) # "identifier"

Unexpected ==
  \/ Head(work).do = "need" /\ Kind(Cur) # Head(work).f
  \/ At("parse", "Primary") /\ Kind(Cur) \notin {"number", "identifier", "("}
  \/ At("parse", "Module") /\ \/ Cur \notin {Eof, "const", "void", "int"}
                              \/ Cur = "int" /\ Kind(Peek(1)) # "identifier"

SyntaxError ==
  /\ Running /\ Unexpected
  /\ verdict' = "syntax error"
  /\ UNCHANGED <<toks, pos, work, made>>

ParseInit ==
  /\ toks = << >> /\ pos = 1
  /\ work = <<Parse("Module")>> /\ made = << >>
  /\ verdict = "waiting"

ParseNext ==
  \/ Expect \/ MakeNode \/ SyntaxError
  \/ ParseModule \/ ParseFuncDef \/ ParseGlobalVar \/ MoreParams
  \/ ParseBlock \/ MoreStmts \/ ParseEmpty \/ ParseDeclStmt \/ ParseIf \/ MoreElse
  \/ ParseWhile \/ ParseBreak \/ ParseContinue \/ ParseReturn \/ ParseAssign
  \/ ParseExprStmt
  \/ \E f \in Layers : ParseLayer(f) \/ MoreOperands(f)
  \/ ParseUnary \/ ParsePrimary \/ MoreArgs
=============================================================================
