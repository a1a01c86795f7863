------------------------------- MODULE IRGen -------------------------------
(***************************************************************************)
(* genFunc of ir/IRGen.cpp: the lowering of one analysed function to       *)
(* basic blocks.  The mutual recursion of genStmt, genExpr and genCond is  *)
(* run as a stack machine: `work` holds the calls and the code after calls *)
(* that are still to come, `vals` the values genExpr has returned and its  *)
(* callers have not consumed.  `g` is the state of class IRGen.            *)
(***************************************************************************)
EXTENDS Ast, IR

CONSTANTS Asts,          \* the functions to lower
          Stmts, Exprs,  \* the statements and expressions they are made of
          Free(_),       \* the locals a tree uses and does not itself declare
          Declares(_),   \* the locals a statement declares, the ones inside it too
          Exposes(_),    \* those of them the statements after it may use
          InBlocks(_),   \* whether every declaration in a statement stands in a block
          Leaves(_)      \* whether a statement breaks or continues a loop around it

(* Trees are well formed: parts of trees are trees, and every class of     *)
(* node has the operands, the operator and the value that genFunc takes    *)
(* from it.                                                                *)
ASSUME TreesAssumption ==
  /\ \A a \in Asts : a.body \in Stmts /\ a.numParams \in Nat
  /\ Stmt \in Stmts /\ Expr \in Exprs
  /\ \A s \in Stmts : /\ s.kids \in Seq(Stmts) /\ s.e \in Exprs
                      /\ s.kind \in {"If", "While"} => s.hasE /\ s.kids # << >>
                      /\ s.kind = "Assign" /\ IsGlobal(s.sym) => s.sym.id \in Nat
  /\ \A x \in Exprs : /\ x.kids \in Seq(Exprs)
                      /\ x.isConst => x.constValue \in Words
                      /\ x.kind = "Binary" => Len(x.kids) = 2 /\ x.op \in BinaryOps
                      /\ x.kind = "Logical" => Len(x.kids) = 2
                      /\ x.kind = "Unary" => Len(x.kids) = 1 /\ x.op \in UnaryOps \cup {"Plus"}
                      /\ x.kind = "Call" => x.op \in {"int", "void"}
                      /\ x.kind = "Var" /\ IsGlobal(x.sym) => x.sym.id \in Nat

(* What analyzeFunc of sema/Sema.cpp has checked: a local is declared      *)
(* before it is used, in the block around its use or in one around that;   *)
(* every declaration makes a symbol of its own; and only a loop is left by *)
(* break and continue.  It does not check that a declaration stands in a   *)
(* block: parseStmt (parser/Parser.cpp:132) takes one for an arm of if or  *)
(* a loop's body too, and the analysis then declares its name for the      *)
(* statements that come after.                                             *)
ASSUME ScopeAssumption ==
  /\ \A a \in Asts : /\ a.numParams =< a.numSyms /\ a.numSyms \in Nat
                     /\ Free(a.body) \subseteq 0 .. a.numParams - 1
                     /\ Declares(a.body) \subseteq a.numParams .. a.numSyms - 1
                     /\ ~Leaves(a.body)
  /\ \A s \in Stmts :
       /\ s.hasE => Free(s.e) \subseteq Free(s)
       /\ s.kind = "Assign" /\ ~IsGlobal(s.sym) => s.sym.id \in Free(s)
       /\ s.kind = "VarDecl" => s.sym.id \in Declares(s) /\ ~IsGlobal(s.sym)
       /\ s.kind \in {"Break", "Continue"} => Leaves(s)
       /\ \A k \in DOMAIN s.kids :
            /\ Free(s.kids[k]) \subseteq
                 Free(s) \cup UNION {Exposes(s.kids[j]) : j \in 1 .. k - 1}
            /\ Declares(s.kids[k]) \subseteq Declares(s)
            /\ \A j \in DOMAIN s.kids :
                 j # k => Declares(s.kids[j]) \cap Declares(s.kids[k]) = {}
            /\ Leaves(s.kids[k]) /\ s.kind # "While" => Leaves(s)
  /\ \A x \in Exprs :
       /\ x.kind = "Var" /\ ~IsGlobal(x.sym) => x.sym.id \in Free(x)
       /\ \A k \in DOMAIN x.kids : Free(x.kids[k]) \subseteq Free(x)

(* What the two words mean: a block keeps what its statements expose, and  *)
(* declarations stand in blocks when nothing else has any to pass on.      *)
ASSUME BlockAssumption ==
  \A s \in Stmts :
    /\ Exposes(s) = CASE s.kind = "VarDecl" -> {s.sym.id}
                      [] s.kind = "Block" -> {}
                      [] OTHER -> UNION {Exposes(s.kids[k]) : k \in DOMAIN s.kids}
    /\ InBlocks(s) <=> \A k \in DOMAIN s.kids :
                        /\ InBlocks(s.kids[k])
                        /\ s.kind # "Block" => Exposes(s.kids[k]) = {}

VARIABLES ast,           \* the function being lowered
          g,             \* blocks_, curBB_, sealed_, nextVreg_, loops_, irId
          work, vals,    \* the call stack
          out            \* the IRFunc, or NoFunc until it is complete

genVars == <<ast, g, work, vals, out>>

NoFunc == [nb |-> 0]

-----------------------------------------------------------------------------
(* The builder: each operation takes a state of the class to the next.     *)

NewVreg(st) == [st EXCEPT !.nextVreg = @ + 1]

NewBlock(st) ==
  [st EXCEPT !.blocks = [k \in 0 .. st.nb |-> IF k = st.nb THEN Open ELSE @[k]],
             !.nb = @ + 1]

StartBlock(st, id) == [st EXCEPT !.cur = id, !.sealed = FALSE]

(* Code after a jump goes to a fresh block nothing leads to.               *)
EnsureOpen_Never(st) == st              \* mutant: the sealed block is written again

EnsureOpen(st) == IF st.sealed THEN StartBlock(NewBlock(st), st.nb) ELSE st

Emit(st, in) ==
  LET o == EnsureOpen(st) IN [o EXCEPT !.blocks[o.cur].insts = Append(@, in)]

Terminate(st, bb) ==
  LET o == EnsureOpen(st)
  IN  [o EXCEPT !.blocks[o.cur] = [bb EXCEPT !.insts = o.blocks[o.cur].insts],
                !.sealed = TRUE]

TermJmp(st, t) == Terminate(st, Jump(<< >>, t))
TermBr(st, c, t, f) == Terminate(st, Branch(<< >>, c, t, f))
TermRet(st, x) == Terminate(st, Return(<< >>, x))
TermRetVoid(st) == Terminate(st, ReturnVoid(<< >>))

-----------------------------------------------------------------------------
(* What is left to do when a call returns.                                 *)

Item == [do |-> "", s |-> Stmt, e |-> Expr, n |-> << >>]

DoStmt(s)       == [Item EXCEPT !.do = "stmt", !.s = s]
DoExpr(x)       == [Item EXCEPT !.do = "expr", !.e = x]
DoCond(x, t, f) == [Item EXCEPT !.do = "cond", !.e = x, !.n = <<t, f>>]
Do(what, ns)    == [Item EXCEPT !.do = what, !.n = ns]
DoValue(s)      == [Item EXCEPT !.do = "value", !.s = s]

Top == work[1]
Doing(what) == out = NoFunc /\ work # << >> /\ Top.do = what

(* The call on top is replaced by the calls its: the rest of its body.     *)
Then(its) == work' = its \o Tail(work)

-----------------------------------------------------------------------------
(* genStmt.                                                                *)

Keep == UNCHANGED <<ast, out>>

GenBlock ==
  /\ Doing("stmt") /\ Top.s.kind \in {"Block", "Empty"}
  /\ Then([k \in DOMAIN Top.s.kids |-> DoStmt(Top.s.kids[k])])
  /\ Keep /\ UNCHANGED <<g, vals>>

(* An assignment, a declaration or a return first evaluates its value;     *)
(* a declared variable takes its vreg before that.                         *)
GenValueStmt ==
  /\ Doing("stmt") /\ Top.s.kind \in {"ExprStmt", "Assign", "Return", "VarDecl"} /\ Top.s.hasE
  /\ g' = IF Top.s.kind # "VarDecl" THEN g
          ELSE [NewVreg(g) EXCEPT !.irId[Top.s.sym.id] = g.nextVreg]
  /\ Then(<<DoExpr(Top.s.e), DoValue(Top.s)>>)
  /\ Keep /\ UNCHANGED vals

(* The value is on top of vals.                                            *)
GenValueDone ==
  /\ Doing("value")
  /\ LET s == Top.s
         v == vals[1]
     IN  g' = CASE s.kind = "ExprStmt" -> g
                [] s.kind = "Return" -> TermRet(g, v)
                [] s.kind = "Assign" /\ IsGlobal(s.sym) -> Emit(g, Store(s.sym.id, v))
                [] OTHER -> Emit(g, Unary("Mv", g.irId[s.sym.id], v))
  /\ Then(<< >>) /\ vals' = Tail(vals)
  /\ Keep

GenReturnVoid ==
  /\ Doing("stmt") /\ Top.s.kind = "Return" /\ ~Top.s.hasE
  /\ g' = TermRetVoid(g)
  /\ Then(<< >>)
  /\ Keep /\ UNCHANGED vals

GenIfConst ==
  /\ Doing("stmt") /\ Top.s.kind = "If" /\ Top.s.e.isConst
  /\ LET arms == Top.s.kids
     IN  Then(CASE Top.s.e.constValue # 0 -> <<DoStmt(arms[1])>>
                [] Top.s.e.constValue = 0 /\ Len(arms) = 2 -> <<DoStmt(arms[2])>>
                [] OTHER -> << >>)
  /\ Keep /\ UNCHANGED <<g, vals>>

(* Blocks tBB, jBB and, if there is an else, eBB.                          *)
GenIf_FallsThrough ==                   \* mutant: the last arm does not jump to jBB
  /\ Doing("stmt") /\ Top.s.kind = "If" /\ ~Top.s.e.isConst
  /\ LET arms == Top.s.kids
         tBB == g.nb
         jBB == g.nb + 1
         eBB == g.nb + 2
     IN  IF Len(arms) = 2
         THEN /\ g' = NewBlock(NewBlock(NewBlock(g)))
              /\ Then(<<DoCond(Top.s.e, tBB, eBB), Do("start", <<tBB>>), DoStmt(arms[1]),
                        Do("jmp", <<jBB>>), Do("start", <<eBB>>), DoStmt(arms[2]),
                        Do("start", <<jBB>>)>>)
         ELSE /\ g' = NewBlock(NewBlock(g))
              /\ Then(<<DoCond(Top.s.e, tBB, jBB), Do("start", <<tBB>>), DoStmt(arms[1]),
                        Do("start", <<jBB>>)>>)
  /\ Keep /\ UNCHANGED vals

GenIf ==
  /\ Doing("stmt") /\ Top.s.kind = "If" /\ ~Top.s.e.isConst
  /\ LET arms == Top.s.kids
         tBB == g.nb
         jBB == g.nb + 1
         eBB == g.nb + 2
     IN  IF Len(arms) = 2
         THEN /\ g' = NewBlock(NewBlock(NewBlock(g)))
              /\ Then(<<DoCond(Top.s.e, tBB, eBB), Do("start", <<tBB>>), DoStmt(arms[1]),
                        Do("jmp", <<jBB>>), Do("start", <<eBB>>), DoStmt(arms[2]),
                        Do("jmp", <<jBB>>), Do("start", <<jBB>>)>>)
         ELSE /\ g' = NewBlock(NewBlock(g))
              /\ Then(<<DoCond(Top.s.e, tBB, jBB), Do("start", <<tBB>>), DoStmt(arms[1]),
                        Do("jmp", <<jBB>>), Do("start", <<jBB>>)>>)
  /\ Keep /\ UNCHANGED vals

(* Rotated loop: body block, condition block, block after the loop.        *)
GenWhile ==
  /\ Doing("stmt") /\ Top.s.kind = "While"
  /\ LET bBB == g.nb
         cBB == g.nb + 1
         aBB == g.nb + 2
         made == TermJmp(NewBlock(NewBlock(NewBlock(g))), cBB)
     IN  /\ g' = [made EXCEPT !.loops = <<[continueBB |-> cBB, breakBB |-> aBB]>> \o @]
         /\ Then(<<Do("start", <<bBB>>), DoStmt(Top.s.kids[1]), Do("jmp", <<cBB>>),
                   Do("popLoop", << >>), Do("start", <<cBB>>),
                   DoCond(Top.s.e, bBB, aBB), Do("start", <<aBB>>)>>)
  /\ Keep /\ UNCHANGED vals

GenBreak ==
  /\ Doing("stmt") /\ Top.s.kind = "Break"
  /\ g' = TermJmp(g, Head(g.loops).breakBB)
  /\ Then(<< >>)
  /\ Keep /\ UNCHANGED vals

GenContinue ==
  /\ Doing("stmt") /\ Top.s.kind = "Continue"
  /\ g' = TermJmp(g, Head(g.loops).continueBB)
  /\ Then(<< >>)
  /\ Keep /\ UNCHANGED vals

(* The calls between the recursive ones: startBlock, termJmp, pop_back.    *)
Housekeep_LoopKept ==                   \* mutant: the finished loop stays on the stack
  /\ \/ Doing("start") /\ g' = StartBlock(g, Top.n[1])
     \/ Doing("jmp") /\ g' = TermJmp(g, Top.n[1])
     \/ Doing("popLoop") /\ g' = g
  /\ Then(<< >>)
  /\ Keep /\ UNCHANGED vals

Housekeep ==
  /\ \/ Doing("start") /\ g' = StartBlock(g, Top.n[1])
     \/ Doing("jmp") /\ g' = TermJmp(g, Top.n[1])
     \/ Doing("popLoop") /\ g' = [g EXCEPT !.loops = Tail(@)]
  /\ Then(<< >>)
  /\ Keep /\ UNCHANGED vals

-----------------------------------------------------------------------------
(* genExpr.  Its result goes on top of vals.                               *)

Answer(v, n) == vals' = <<v>> \o SubSeq(vals, n + 1, Len(vals))

(* Constants are inlined, locals are their vregs.                          *)
GenLeaf ==
  /\ Doing("expr")
  /\ Top.e.isConst \/ (Top.e.kind = "Var" /\ ~IsGlobal(Top.e.sym))
  /\ Answer(IF Top.e.isConst THEN Imm(Top.e.constValue) ELSE Reg(g.irId[Top.e.sym.id]), 0)
  /\ Then(<< >>)
  /\ Keep /\ UNCHANGED g

GenGlobal ==
  /\ Doing("expr") /\ ~Top.e.isConst /\ Top.e.kind = "Var" /\ IsGlobal(Top.e.sym)
  /\ g' = Emit(NewVreg(g), Load(g.nextVreg, Top.e.sym.id))
  /\ Answer(Reg(g.nextVreg), 0)
  /\ Then(<< >>)
  /\ Keep

(* Operands left to right, then the operator; unary plus emits nothing.    *)
GenOperands ==
  /\ Doing("expr") /\ ~Top.e.isConst /\ Top.e.kind \in {"Binary", "Unary", "Call"}
  /\ LET kids == Top.e.kids
     IN  Then([k \in DOMAIN kids |-> DoExpr(kids[k])]
                \o (IF Top.e.op = "Plus" THEN << >>
                    ELSE <<[Item EXCEPT !.do = "apply", !.e = Top.e]>>))
  /\ Keep /\ UNCHANGED <<g, vals>>

GenBinary ==
  /\ Doing("apply") /\ Top.e.kind = "Binary"
  /\ g' = Emit(NewVreg(g), Binary(Top.e.op, g.nextVreg, vals[2], vals[1]))
  /\ Answer(Reg(g.nextVreg), 2)
  /\ Then(<< >>)
  /\ Keep

GenUnary_NoNew ==                       \* mutant: newVreg() is not called
  /\ Doing("apply") /\ Top.e.kind = "Unary"
  /\ g' = Emit(g, Unary(Top.e.op, g.nextVreg, vals[1]))
  /\ Answer(Reg(g.nextVreg), 1)
  /\ Then(<< >>)
  /\ Keep

GenUnary ==
  /\ Doing("apply") /\ Top.e.kind = "Unary"
  /\ g' = Emit(NewVreg(g), Unary(Top.e.op, g.nextVreg, vals[1]))
  /\ Answer(Reg(g.nextVreg), 1)
  /\ Then(<< >>)
  /\ Keep

GenCall ==
  /\ Doing("apply") /\ Top.e.kind = "Call"
  /\ LET n == Len(Top.e.kids)
         args == [k \in 1 .. n |-> vals[n + 1 - k]]
     IN  IF Top.e.op = "void"
         THEN g' = Emit(g, Call(NoReg, args)) /\ Answer(Imm(0), n)
         ELSE /\ g' = Emit(NewVreg(g), Call(g.nextVreg, args))
              /\ Answer(Reg(g.nextVreg), n)
  /\ Then(<< >>)
  /\ Keep

(* A short circuit as a value: res is set to 1 or 0 on the two ways out of *)
(* the condition.                                                          *)
GenLogical ==
  /\ Doing("expr") /\ ~Top.e.isConst /\ Top.e.kind = "Logical"
  /\ g' = NewBlock(NewBlock(NewBlock(NewVreg(g))))
  /\ LET tBB == g.nb
         fBB == g.nb + 1
         endBB == g.nb + 2
     IN  Then(<<DoCond(Top.e, tBB, fBB),
                Do("set", <<tBB, g.nextVreg, 1, endBB>>),
                Do("set", <<fBB, g.nextVreg, 0, endBB>>),
                Do("start", <<endBB>>), Do("yield", <<g.nextVreg>>)>>)
  /\ Keep /\ UNCHANGED vals

SetFlag_TrueOnly ==                     \* mutant: res is not cleared on the way to 0
  /\ Doing("set")
  /\ LET o == StartBlock(g, Top.n[1])
     IN  g' = TermJmp(IF Top.n[3] = 1 THEN Emit(o, Unary("Mv", Top.n[2], Imm(1))) ELSE o,
                      Top.n[4])
  /\ Then(<< >>)
  /\ Keep /\ UNCHANGED vals

SetFlag ==
  /\ Doing("set")
  /\ g' = TermJmp(Emit(StartBlock(g, Top.n[1]), Unary("Mv", Top.n[2], Imm(Top.n[3]))),
                  Top.n[4])
  /\ Then(<< >>)
  /\ Keep /\ UNCHANGED vals

YieldFlag ==
  /\ Doing("yield")
  /\ Answer(Reg(Top.n[1]), 0)
  /\ Then(<< >>)
  /\ Keep /\ UNCHANGED g

-----------------------------------------------------------------------------
(* genCond: jump to n[1] when the expression is non-zero, else to n[2].    *)

CondConst ==
  /\ Doing("cond") /\ Top.e.isConst
  /\ g' = TermJmp(g, IF Top.e.constValue # 0 THEN Top.n[1] ELSE Top.n[2])
  /\ Then(<< >>)
  /\ Keep /\ UNCHANGED vals

CondLogical ==
  /\ Doing("cond") /\ ~Top.e.isConst /\ Top.e.kind = "Logical"
  /\ g' = NewBlock(g)
  /\ LET mid == g.nb
         left == IF Top.e.op = "Or" THEN <<Top.n[1], mid>> ELSE <<mid, Top.n[2]>>
     IN  Then(<<DoCond(Top.e.kids[1], left[1], left[2]), Do("start", <<mid>>),
                DoCond(Top.e.kids[2], Top.n[1], Top.n[2])>>)
  /\ Keep /\ UNCHANGED vals

CondNot ==
  /\ Doing("cond") /\ ~Top.e.isConst /\ Top.e.kind = "Unary" /\ Top.e.op = "Not"
  /\ Then(<<DoCond(Top.e.kids[1], Top.n[2], Top.n[1])>>)
  /\ Keep /\ UNCHANGED <<g, vals>>

CondValue ==
  /\ Doing("cond") /\ ~Top.e.isConst /\ Top.e.kind # "Logical"
  /\ ~(Top.e.kind = "Unary" /\ Top.e.op = "Not")
  /\ Then(<<DoExpr(Top.e), Do("br", Top.n)>>)
  /\ Keep /\ UNCHANGED <<g, vals>>

CondBranch ==
  /\ Doing("br")
  /\ g' = TermBr(g, vals[1], Top.n[1], Top.n[2])
  /\ Then(<< >>) /\ vals' = Tail(vals)
  /\ Keep

-----------------------------------------------------------------------------
(* genFunc: parameters take the first vregs, the body follows, and code    *)
(* that can fall off the end returns.                                      *)

Fresh(a) == [blocks |-> [k \in {0} |-> Open], nb |-> 1, cur |-> 0, sealed |-> FALSE,
             nextVreg |-> a.numParams, loops |-> << >>,
             irId |-> [s \in 0 .. a.numSyms - 1 |-> IF s < a.numParams THEN s ELSE NoReg]]

FinishFunc_NoReturn ==                  \* mutant: falling off the end adds no return
  /\ out = NoFunc /\ work = << >>
  /\ out' = [numVregs |-> g.nextVreg, nb |-> g.nb, blocks |-> g.blocks,
             params |-> [k \in 1 .. ast.numParams |-> k - 1]]
  /\ UNCHANGED <<ast, g, work, vals>>

FinishFunc ==
  /\ out = NoFunc /\ work = << >>
  /\ LET last == CASE g.sealed -> g
                   [] ~g.sealed /\ ast.returnsVoid -> TermRetVoid(g)
                   [] ~g.sealed /\ ~ast.returnsVoid -> TermRet(g, Imm(0))
     IN  out' = [numVregs |-> last.nextVreg, nb |-> last.nb, blocks |-> last.blocks,
                 params |-> [k \in 1 .. ast.numParams |-> k - 1]]
  /\ UNCHANGED <<ast, g, work, vals>>

GenInit ==
  /\ ast \in Asts
  /\ g = Fresh(ast)
  /\ work = <<DoStmt(ast.body)>> /\ vals = << >>
  /\ out = NoFunc

GenNext ==
  \/ GenBlock \/ GenValueStmt \/ GenValueDone \/ GenReturnVoid
  \/ GenIfConst \/ GenIf \/ GenWhile \/ GenBreak \/ GenContinue \/ Housekeep
  \/ GenLeaf \/ GenGlobal \/ GenOperands \/ GenBinary \/ GenUnary \/ GenCall
  \/ GenLogical \/ SetFlag \/ YieldFlag
  \/ CondConst \/ CondLogical \/ CondNot \/ CondValue \/ CondBranch
  \/ FinishFunc

GenSpec == GenInit /\ [][GenNext]_genVars

-----------------------------------------------------------------------------
(* Blocks that have been created for code that is still to come.           *)
Pending ==
  {work[k].n[1] : k \in {j \in DOMAIN work : work[j].do \in {"start", "set"}}}

(* Where a declaration is the arm of an if that genStmt skips, because the *)
(* condition is a constant (ir/IRGen.cpp:145), its name never gets a vreg, *)
(* and where it is one the program skips, nothing is written to the vreg.  *)
(* What is said of a function's vregs is said of functions without.        *)
DeclaresInBlocks == InBlocks(ast.body)

(* Types of the generator's state: the vregs an instruction names have     *)
(* been created, and so have the blocks still to be filled.                *)
GenTypeOK ==
  DeclaresInBlocks /\ out = NoFunc =>
    /\ g.nb \in Nat \ {0} /\ g.nextVreg \in Nat /\ g.sealed \in BOOLEAN
    /\ g.blocks \in [0 .. g.nb - 1 -> BasicBlocks(0 .. g.nextVreg - 1)]
    /\ g.cur \in 0 .. g.nb - 1
    /\ g.loops \in Seq([continueBB : 0 .. g.nb - 1, breakBB : 0 .. g.nb - 1])
    /\ vals \in Seq(Vals(0 .. g.nextVreg - 1))
    /\ Pending \subseteq 0 .. g.nb - 1

(* While a function is being lowered, the blocks without a terminator are  *)
(* exactly the open one and those reserved for code still to come, each    *)
(* reserved once and still empty: no block is forgotten, none is filled    *)
(* twice, and no jump emitted so far can lead into the void.               *)
NoBlockLost ==
  out = NoFunc =>
    /\ \A k \in 0 .. g.nb - 1 :
         g.blocks[k].term = "None" <=> (k = g.cur /\ ~g.sealed) \/ k \in Pending
    /\ \A k \in Pending : g.blocks[k].insts = << >> /\ (k = g.cur => g.sealed)
    /\ \A i, j \in DOMAIN work :
         /\ i # j /\ {work[i].do, work[j].do} \subseteq {"start", "set"}
         => work[i].n[1] # work[j].n[1]

(* What the optimizer is handed is a well-formed function: every block is  *)
(* closed, every jump stays inside the function, and no path reads a vreg  *)
(* before some block has written it, parameters apart.                     *)
LowersToIR ==
  DeclaresInBlocks /\ out # NoFunc =>
    /\ IsIRFunc(out)
    /\ \A k \in Blocks(out) : out.blocks[k].term # "None"
    /\ \A v \in Vregs(out) \ {out.params[k] : k \in DOMAIN out.params} :
         DeadSet(out, v, Unwritten(out, v))
=============================================================================
