-------------------------------- MODULE Sema --------------------------------
(***************************************************************************)
(* sema/Sema.cpp as a stack machine.  `todo` is the call stack of the      *)
(* analysis: nodes to visit and what remains to be done after their parts. *)
(* The annotations of the tree are functions on node positions: `bound` is *)
(* the sym member of uses, `folded` is isConst with constValue.            *)
(***************************************************************************)
EXTENDS Syntax, FiniteSetsExt, TLC

VARIABLES items,         \* of the module
          todo,
          scopes,        \* the open scopes, names to symbols, innermost last
          funcs,         \* the functions known, by name
          arena,         \* the symbols made, in order; a symbol is its index
          bound, folded,
          loopDepth, globalCount,
          outcome        \* "waiting", "analysing", "accepted", or the error

nameVars == <<scopes, arena, bound>>
semaVars == <<items, todo, nameVars, funcs, folded, loopDepth, globalCount, outcome>>

Do(what, n) == [do |-> what, node |-> n]
Visits(ns) == [k \in DOMAIN ns |-> Do("visit", ns[k])]
NoScope == [x \in {} |-> 0]
Whole == Node("Module", "", 0, << >>)

Lookup(name) ==
  LET ks == {k \in DOMAIN scopes : name \in DOMAIN scopes[k]}
  IN  IF ks = {} THEN 0 ELSE scopes[Max(ks)][name]

Symbol(kind, n, value, id) ==
  [kind |-> kind, at |-> n.at, constValue |-> value, globalId |-> id]

Declare(n, symbol) ==
  /\ arena' = Append(arena, symbol)
  /\ scopes' = [scopes EXCEPT ![Len(scopes)] = (n.name :> Len(arena) + 1) @@ @]

IsConst(n) == n.at \in DOMAIN folded
ConstValue(n) == folded[n.at]
Fold(n, value) == folded' = (n.at :> value) @@ folded

-----------------------------------------------------------------------------
(* The errors, each at the task that throws it.                            *)

Params(fn) == SubSeq(fn.kids, 2, Len(fn.kids) - 1)
Body(fn) == fn.kids[Len(fn.kids)]
FuncName(fn) == fn.kids[1].name

DividesByZero(n) ==
  /\ n.kind = "Binary" /\ n.name \in {"/", "%"}
  /\ IsConst(n.kids[1]) /\ IsConst(n.kids[2]) /\ ConstValue(n.kids[2]) = 0

VisitFault(n) ==
  CASE n.kind = "FuncDef" /\ FuncName(n) \in DOMAIN funcs -> "function redefined"
    [] n.kind = "FuncDef" /\ FuncName(n) = "main" /\ (n.name = "void" \/ Params(n) # << >>) ->
         "not int main()"
    [] n.kind = "Var" /\ Lookup(n.name) = 0 -> "undeclared identifier"
    [] n.kind = "Assign" /\ Lookup(n.kids[1].name) = 0 -> "undeclared identifier"
    [] n.kind = "Assign" /\ arena[Lookup(n.kids[1].name)].kind = "Const" ->
         "assignment to a constant"
    [] n.kind \in {"Break", "Continue"} /\ loopDepth = 0 -> "outside of a loop"
    [] n.kind = "Call" /\ n.name \notin DOMAIN funcs -> "undeclared function"
    [] n.kind = "Call" /\ Len(n.kids) # Len(Params(funcs[n.name])) -> "number of arguments"
    [] OTHER -> "none"

Fault(task) ==
  LET n == task.node
  IN  CASE task.do = "visit" -> VisitFault(n)
        [] task.do = "main" /\ "main" \notin DOMAIN funcs -> "no main"
        [] task.do = "fold" /\ DividesByZero(n) -> "division by zero"
        [] task.do = "declare" /\ (n.kind = "Global" \/ n.name = "const")
             /\ ~IsConst(n.kids[2]) -> "not a constant"
        [] OTHER -> "none"

Analysing == outcome = "analysing" /\ todo # << >>

SemaError ==
  /\ Analysing /\ Fault(Head(todo)) # "none"
  /\ outcome' = Fault(Head(todo))
  /\ UNCHANGED <<items, todo, nameVars, funcs, folded, loopDepth, globalCount>>

-----------------------------------------------------------------------------
(* The task at hand, on a node of one of these kinds, without an error.    *)
On(do, kinds) ==
  /\ Analysing /\ Head(todo).do = do /\ Head(todo).node.kind \in kinds
  /\ Fault(Head(todo)) = "none"

This == Head(todo).node
Then(tasks) == todo' = tasks \o Tail(todo) /\ UNCHANGED <<items, outcome>>

(* Definitions at the top level, then the bodies.                          *)
BodiesOf(its) == LET fns == SelectSeq(its, LAMBDA it : it.kind = "FuncDef")
                 IN  [k \in DOMAIN fns |-> Do("body", fns[k])]

(* analyze, given the items of the module.                                 *)
Analyze(its) ==
  /\ scopes' = <<NoScope>> /\ outcome' = "analysing"
  /\ todo' = Visits(its) \o <<Do("main", Whole)>> \o BodiesOf(its) \o <<Do("popScope", Whole)>>
  /\ UNCHANGED <<funcs, arena, bound, folded, loopDepth, globalCount>>

RegisterFunc ==
  /\ On("visit", {"FuncDef"})
  /\ funcs' = (FuncName(This) :> This) @@ funcs
  /\ Then(<< >>)
  /\ UNCHANGED <<nameVars, folded, loopDepth, globalCount>>

CheckMain ==
  /\ On("main", {"Module"}) /\ Then(<< >>)
  /\ UNCHANGED <<nameVars, funcs, folded, loopDepth, globalCount>>

(* analyzeFunc: the parameters get a scope of their own; of two with one   *)
(* name the later is found.                                                *)
AnalyzeFunc ==
  /\ On("body", {"FuncDef"})
  /\ LET ps == Params(This)
         named(x) == {k \in DOMAIN ps : ps[k].name = x}
     IN  /\ arena' = arena \o [k \in DOMAIN ps |-> Symbol("Param", ps[k], 0, -1)]
         /\ scopes' = Append(scopes, [x \in {ps[k].name : k \in DOMAIN ps} |->
                                        Len(arena) + Max(named(x))])
  /\ Then(<<Do("visit", Body(This)), Do("popScope", Whole)>>)
  /\ UNCHANGED <<bound, funcs, folded, loopDepth, globalCount>>

PopScope ==
  /\ On("popScope", {"Module"})
  /\ scopes' = SubSeq(scopes, 1, Len(scopes) - 1)
  /\ Then(<< >>)
  /\ UNCHANGED <<arena, bound, funcs, folded, loopDepth, globalCount>>

-----------------------------------------------------------------------------
(* Statements.                                                             *)

VisitBlock ==
  /\ On("visit", {"Block"})
  /\ scopes' = Append(scopes, NoScope)
  /\ Then(Visits(This.kids) \o <<Do("popScope", Whole)>>)
  /\ UNCHANGED <<arena, bound, funcs, folded, loopDepth, globalCount>>

(* The parts of these statements are visited and nothing else happens.     *)
VisitParts ==
  /\ On("visit", {"Empty", "ExprStmt", "If", "Break", "Continue", "Return"})
  /\ Then(Visits(This.kids))
  /\ UNCHANGED <<nameVars, funcs, folded, loopDepth, globalCount>>

VisitAssign ==
  /\ On("visit", {"Assign"})
  /\ bound' = (This.kids[1].at :> Lookup(This.kids[1].name)) @@ bound
  /\ Then(<<Do("visit", This.kids[2])>>)
  /\ UNCHANGED <<scopes, arena, funcs, folded, loopDepth, globalCount>>

(* A declaration, local or global: the initialiser first, then the name.   *)
VisitDecl_NameFirst ==                  \* mutant: the name is visible in its initialiser
  /\ On("visit", {"VarDecl", "Global"})
  /\ Declare(This.kids[1], Symbol("LocalVar", This.kids[1], 0, -1))
  /\ Then(<<Do("visit", This.kids[2]), Do("declare", This)>>)
  /\ UNCHANGED <<bound, funcs, folded, loopDepth, globalCount>>

VisitDecl ==
  /\ On("visit", {"VarDecl", "Global"})
  /\ Then(<<Do("visit", This.kids[2]), Do("declare", This)>>)
  /\ UNCHANGED <<nameVars, funcs, folded, loopDepth, globalCount>>

DeclareConst_Counted ==                 \* mutant: a constant takes a number too
  /\ On("declare", {"VarDecl", "Global"}) /\ This.name = "const"
  /\ Declare(This.kids[1], Symbol("Const", This.kids[1], ConstValue(This.kids[2]), -1))
  /\ globalCount' = globalCount + 1
  /\ Then(<< >>)
  /\ UNCHANGED <<bound, funcs, folded, loopDepth>>

DeclareConst ==
  /\ On("declare", {"VarDecl", "Global"}) /\ This.name = "const"
  /\ Declare(This.kids[1], Symbol("Const", This.kids[1], ConstValue(This.kids[2]), -1))
  /\ Then(<< >>)
  /\ UNCHANGED <<bound, funcs, folded, loopDepth, globalCount>>

DeclareVar ==
  /\ On("declare", {"VarDecl", "Global"}) /\ This.name # "const"
  /\ IF This.kind = "Global"
     THEN /\ Declare(This.kids[1], Symbol("GlobalVar", This.kids[1], 0, globalCount))
          /\ globalCount' = globalCount + 1
     ELSE /\ Declare(This.kids[1], Symbol("LocalVar", This.kids[1], 0, -1))
          /\ UNCHANGED globalCount
  /\ Then(<< >>)
  /\ UNCHANGED <<bound, funcs, folded, loopDepth>>

VisitWhile ==
  /\ On("visit", {"While"})
  /\ Then(<<Do("visit", This.kids[1]), Do("loop", This), Do("visit", This.kids[2]),
            Do("endLoop", This)>>)
  /\ UNCHANGED <<nameVars, funcs, folded, loopDepth, globalCount>>

EnterLoop ==
  /\ On("loop", {"While"}) /\ loopDepth' = loopDepth + 1 /\ Then(<< >>)
  /\ UNCHANGED <<nameVars, funcs, folded, globalCount>>

LeaveLoop_Reset ==                      \* mutant: a flag in place of a counter
  /\ On("endLoop", {"While"}) /\ loopDepth' = 0 /\ Then(<< >>)
  /\ UNCHANGED <<nameVars, funcs, folded, globalCount>>

LeaveLoop_Kept ==                       \* mutant: loopDepth_-- is missing
  /\ On("endLoop", {"While"}) /\ loopDepth' = loopDepth /\ Then(<< >>)
  /\ UNCHANGED <<nameVars, funcs, folded, globalCount>>

LeaveLoop ==
  /\ On("endLoop", {"While"}) /\ loopDepth' = loopDepth - 1 /\ Then(<< >>)
  /\ UNCHANGED <<nameVars, funcs, folded, globalCount>>

-----------------------------------------------------------------------------
(* Expressions: parts first, then the annotation of the whole.             *)

VisitNumber ==
  /\ On("visit", {"Number"})
  /\ Fold(This, TokenValue(This.name)) /\ Then(<< >>)
  /\ UNCHANGED <<nameVars, funcs, loopDepth, globalCount>>

VisitVar ==
  /\ On("visit", {"Var"})
  /\ LET s == Lookup(This.name)
     IN  /\ bound' = (This.at :> s) @@ bound
         /\ IF arena[s].kind = "Const" THEN Fold(This, arena[s].constValue)
                                       ELSE UNCHANGED folded
  /\ Then(<< >>)
  /\ UNCHANGED <<scopes, arena, funcs, loopDepth, globalCount>>

VisitOperation ==
  /\ On("visit", OperatorKinds)
  /\ Then(Visits(This.kids) \o <<Do("fold", This)>>)
  /\ UNCHANGED <<nameVars, funcs, folded, loopDepth, globalCount>>

VisitCall ==
  /\ On("visit", {"Call"})
  /\ Then(Visits(This.kids))
  /\ UNCHANGED <<nameVars, funcs, folded, loopDepth, globalCount>>

BinOp == ("+" :> "Add") @@ ("-" :> "Sub") @@ ("*" :> "Mul") @@ ("/" :> "Div")
           @@ ("%" :> "Mod") @@ ("<" :> "Lt") @@ (">" :> "Gt") @@ ("<=" :> "Le")
           @@ (">=" :> "Ge") @@ ("==" :> "Eq") @@ ("!=" :> "Ne")

(* The values of constant operands decide; a short circuit needs only the  *)
(* left one when that suffices.                                            *)
Decides_Either(n, k) ==                 \* mutant: the right operand decides alone too
  \E j \in k .. 2 : IsConst(n.kids[j]) /\ (ConstValue(n.kids[j]) # 0) = (n.name = "||")

Decides(n, k) == IsConst(n.kids[k]) /\ (ConstValue(n.kids[k]) # 0) = (n.name = "||")

EvalUn(op, x) == CASE op = "+" -> x
                   [] op = "-" -> EvalUnary("Neg", x)
                   [] op = "!" -> EvalUnary("Not", x)

FoldOperation ==
  /\ On("fold", OperatorKinds)
  /\ LET n == This
         value(k) == ConstValue(n.kids[k])
         known == \A k \in DOMAIN n.kids : IsConst(n.kids[k])
     IN  CASE n.kind = "Unary" /\ known -> Fold(n, EvalUn(n.name, value(1)))
           [] n.kind = "Binary" /\ known -> Fold(n, EvalBinary(BinOp[n.name], value(1), value(2)))
           [] n.kind = "Logical" /\ Decides(n, 1) -> Fold(n, Truth(n.name = "||"))
           [] n.kind = "Logical" /\ ~Decides(n, 1) /\ known -> Fold(n, Truth(value(2) # 0))
           [] OTHER -> UNCHANGED folded
  /\ Then(<< >>)
  /\ UNCHANGED <<nameVars, funcs, loopDepth, globalCount>>

Accept ==
  /\ outcome = "analysing" /\ todo = << >>
  /\ outcome' = "accepted"
  /\ UNCHANGED <<items, todo, nameVars, funcs, folded, loopDepth, globalCount>>

SemaInit ==
  /\ items = << >> /\ todo = << >> /\ outcome = "waiting"
  /\ scopes = << >> /\ funcs = [f \in {} |-> Whole] /\ arena = << >>
  /\ bound = [p \in {} |-> 0] /\ folded = [p \in {} |-> 0]
  /\ loopDepth = 0 /\ globalCount = 0

SemaNext ==
  \/ SemaError \/ RegisterFunc \/ CheckMain \/ AnalyzeFunc \/ PopScope
  \/ VisitBlock \/ VisitParts \/ VisitAssign \/ VisitDecl \/ DeclareConst \/ DeclareVar
  \/ VisitWhile \/ EnterLoop \/ LeaveLoop
  \/ VisitNumber \/ VisitVar \/ VisitOperation \/ VisitCall \/ FoldOperation \/ Accept
=============================================================================
