# A verification of the ToyC compiler

The repository is a compiler for ToyC, a subset of C with `int` variables,
functions, `if`, `while` and short-circuit operators, to RV32IM assembly. This
directory holds TLA+ models of its stages, the TLC runs that check them on
small instances, and TLAPS proofs of the theorems that hold for every instance.
Source paths below are relative to the repository.

The compiler is sequential and keeps nothing between runs, so there are no
interleavings and no crashes to model. What is hard in it is of another kind:
each stage is a fixpoint or a one-pass algorithm whose result is *used* by
another machine, the program that runs later, and a wrong set, a wrong order
or a stale table shows only when that program takes one path after another.
The models therefore contain both halves: the compiler's algorithm, step by
step, and the execution of what it made.

## The system

| Part | Source | State | Operations |
|---|---|---|---|
| Driver | `src/main.cpp` | none | runs the stages in order |
| Lexer | `src/lexer/` | text, position, tokens so far | `tokenize`; throws at a character that starts no token and at an unfinished comment |
| Parser | `src/parser/` | tokens, position, call stack | recursive descent with up to three tokens of look-ahead, builds the tree or throws |
| Syntax tree | `src/ast/AST.h` | the tree | constructors |
| Semantic analysis | `src/sema/Sema.cpp` | scopes, symbols, functions, loop depth, number of globals | declare, lookup, fold constants, reject |
| IR generation | `src/ir/IRGen.cpp` | blocks, open block, sealed flag, vreg counter, loop stack | `genFunc`, `genStmt`, `genExpr`, `genCond` |
| Intermediate representation | `src/ir/IR.h` | functions, blocks, instructions | `succsOf`, `computeCFG` |
| Optimization passes | `src/opt/Passes.cpp` | the module, tables local to each pass | inlining, folding, propagation, CSE, peephole, jump threading, LICM, hoisting, dead code |
| Register allocation | `src/opt/RegAlloc.cpp` | live sets, interference graph, colours, slots | `allocateRegisters` |
| Optimizing back end | `src/codegen/OptCodeGen.cpp` | use counts, frame layout, output | instruction selection, prologue, epilogue, calls, fusion |
| Naive back end | `src/codegen/CodeGen.cpp` | one slot per vreg, frame sizes, output | every instruction through `t0` and `t1`; used when `TOYC_NAIVE` is set |

Each stage hands a finished data structure to the next: tokens, a tree, an
annotated tree, an `IRModule`, the same module rewritten, an `Allocation` per
function, text. The annotations are the coupling that is easy to get wrong:
`isConst`/`constValue` of the analysis decide which code the generator makes;
`magicVreg` and `unsignedDiv` of the passes decide which instructions the back
end selects, and must be counted as uses by liveness, by dead-code elimination
and by the fusion test; the allocation decides which writes destroy what.

What must hold, part by part:

- *Lexer*: the longest operator and the longest word win; comments separate
  tokens, and one that is not closed is an error rather than the end.
- *Parser*: exactly what the grammar derives is accepted; operators group as in
  C, and an else belongs to the nearest if; it stops on every text.
- *Semantic analysis*: a name stands for the nearest declaration visible where
  it is used; a folded expression has the value the run would compute, and
  folding drops no call; what is rejected is what is ill-formed; globals are
  numbered as the data section lays them out.
- *IR generation*: every block gets exactly one terminator, jumps stay in the
  function, nothing is read before it is written, and the lowered function
  makes the calls, stores and return that the source denotes.
- *Inlining*: the program computes what it computed before, at every splice,
  although callees are rewritten in place before or after they are copied.
- *Passes*: the same events before and after.
- *Register allocation*: exact liveness; a result never lands on a value that
  is still to be read; values that cross calls survive them; parameters do not
  overwrite each other on arrival; slots are packed.
- *Back end*: registers and slots hold what the IR denotes, whatever is fused,
  copied or spilled; instruction sequences compute the operators; frames keep
  the caller's registers and deliver arguments.

## Modules

### Shared vocabulary

- **Word**: two's-complement words of a parameterised width (`Half` is 2^31 in
  the program), truncating division, the value of each IR operator.
- **IR**: `ir/IR.h`; instruction and terminator uses (`instUses`,
  `termUses`), and what it means for a vreg to be dead into a block, stated
  without iteration (`DeadSet`, `DeadInto`).
- **VregMachine**: the abstract machine of the IR. Every vreg is a variable;
  the environment supplies parameters, call results and the globals after each
  call; `obs` is what the environment sees. This is the specification the back
  end is shown to implement and the machine on which lowered code is run.

### Register allocation and compiled code

- **RegAlloc**: `allocateRegisters`, one action per loop body (`SweepBlock`,
  `ScanInst`, `LinkParams`, `ColourLikePartner`, `ColourByPreference`,
  `Spill`, ...). The order of `std::sort` on equal degrees is left open, so
  vregs of equal degree are coloured in any order.
- **CompiledRun**: the allocation in use. A function is allocated, then the
  code `OptCodeGen.cpp` emits for it runs on registers, `a0` and spill slots,
  including the fusion of the last instruction with a branch or a return
  (`computeUseCounts`, `emitBlock`), the parameter moves of the prologue and
  the registers a call overwrites. Values an action uses are always read from
  the physical state; `vreg` records what the abstract machine would hold.
  `ImplementsIR` is the refinement of VregMachine.
- **IRLemmas**, **CompiledRunProofs**: the proofs about both.

### The optimizing back end

- **Rv32**: the instructions the back end prints, as records, and what one of
  them does to registers, stack and globals (`After`). The processor is not
  part of the repository; its entries in the map are marked external.
- **Select**: instruction selection, `emitInst` and what it calls: materialised
  constants, spilled operands through scratch registers, multiplication by
  shifts, division by powers of two with its bias, signed and unsigned magic
  numbers, write-back of spilled results. The generator's members that steer it
  (`allocation`, `spillBase_`, `dstOverride_`, `opt_`) are the record `cg`.
- **Emit**: one IR instruction is selected under an allocation, then runs;
  **MagicProofs**: the arithmetic of shifts and magic numbers; **EmitProofs**: what
  the sequence computes and what it leaves alone.
- **Codegen**: `emitFunc` as a whole: frame layout, prologue, parameter moves,
  blocks with fused comparisons and return values, calls with stack arguments,
  branches arranged around the next block, epilogue.
- **Naive**: the other back end, `CodeGen.cpp`, into the same instructions.
- **CodeRun**: programs of such functions on one machine with one stack, through
  calls, recursion and returns. `frames` is a history variable holding what each
  caller relies on; the machine never reads it. **CodeRunProofs**: the proofs of its
  types, of the promises of a return, of the callers' frames and of arriving
  parameters, for every program.
- **IRMeaning**: the value and the globals a program of IR functions denotes, a
  recursive evaluator; **CodeMeaning** compares CodeRun with it.

CompiledRun and CodeRun look at the back end from two sides. The first keeps
machine code abstract (an instruction reads homes and writes a home) and takes
its allocations from the allocator, for every function; the second has every
instruction, every frame word and real calls, and takes a few programs.

### From text to tree

- **Syntax**: tokens, and the trees of `ast/AST.h` as the parser leaves them. A
  token is its text; a node is known by the position of its token.
- **Lexer**: `tokenize` on strings, one action per kind of token.
- **Parser**: every parse function, as tasks on a stack (`work`), with the
  finished trees beside it (`made`). A loop of the source is a task that puts
  itself back.
- **Sema**: `analyze` and what it calls. `todo` is its call stack; the
  annotations of the tree (`sym`, `isConst`, `constValue`, `globalId`) are
  functions of node positions and of symbols.
- **Source**: the three stages in the driver's order, then the data of
  `IRGen::generate`. Its properties compare what the stages find with
  definitions that do not know how they work: a grammar that derives token
  sequences, the strength of operators, the braces and semicolons around a name,
  an evaluator that knows no folding. They follow the language's rules, not the
  analysis: a name, of a variable or of a function, is declared above its use,
  and a division by zero counts when it is made. Where the analysis goes by other
  rules there is a run that finds it so (`forward_reference`, `valid_rejected`).

### From tree to intermediate code

- **Ast**: trees after semantic analysis. A constructor computes the
  `isConst` and `constValue` annotation as `analyzeExpr` does.
- **IRGen**: `genFunc` as a stack machine: one action per case of `genStmt`,
  `genExpr` and `genCond`, `work` being the call stack. What the analysis has
  checked of a tree is an assumption (`ScopeAssumption`), in terms of the locals
  it uses (`Free`) and declares (`Declares`) and of whether it leaves a loop around
  it (`Leaves`), which MCFrontEnd computes for the trees of the run. That every
  declaration stands in a block (`DeclaresInBlocks`) the analysis does not check;
  it is a condition in the properties that need it.
- **SourceMeaning**: the meaning of a tree by C's rules, a recursive evaluator
  that models no code; the reference for the next module.
- **IRGenProofs**: the proofs that no block is lost, that the graph is well formed
  at every step and that finished code reads nothing unwritten.
- **FrontEnd**: lowers a tree with IRGen, runs the result on VregMachine and
  compares the events with SourceMeaning.

### Optimization passes

- **Inline**: `inlineFunctions` over a module, one action per instruction
  looked at: a call is replaced (`InlineCall`), everything else kept. Functions
  change in place, so `mod` is at every moment a mixture of old and new ones.
  **InlineProofs**: the proofs that functions stay well formed, that one sweep is
  enough and that no vreg comes to be read before it is written.
- **Passes**: the passes that rewrite one function without looking for loops
  (`constFold`, `copyProp`, `constProp`, `cseBlock`, `peephole`,
  `jumpThreading`, `unreachableElim`, `deadCodeElim`, `markUnsignedDiv`), each an
  operator from functions to functions. Worklists and flags of the source that
  only organise a fixpoint are fixpoints here; the order in which instructions
  are visited is kept wherever a pass changes what it will visit later.
- **LoopPasses**: dominators, natural loops and preheaders, and the passes that
  use them (`licm`, `hoistLoopConstants`, `hoistMagicDiv`,
  `hoistDivModConstants`).
- **Optimize**: `optimizeIR` on one function, one action per pass. `phase`,
  `next`, `iter` and `changed` are the place in the schedule and the two
  counted loops; `orig` is the function before the first pass.
  **OptimizeProofs**: the proofs that every pass leaves functions well formed and
  the last ones nothing to remove, and that the passes that work in place keep what a
  function means.
- **Optimizer**: `optimizeIR` on a module: Inline runs first, then Optimize takes
  one function after the other (`NextTurn`, `PassStep`, `EndTurn`; `opted` holds
  those it is done with). The module is at every moment a mixture of functions
  before, in and behind the passes (`Current`), which `SameMeaning` evaluates with
  IRMeaning and compares with the module as it was.
- **PassRun**: one pass applied to one function (`given`), and the result (`made`)
  running on VregMachine. `MeansGiven` is the refinement: the run is one of `given`, vreg by
  vreg. **LooseMachine** is VregMachine with what C leaves open: the result of
  a division by zero is any word (`doc/任务要求.md:126`). Neither models code of its own,
  and no run uses them; they state what is proved.
- **PassMeaning**: what a function does in an environment of parameters,
  globals and call results: the events, up to the first division by zero and as
  far as `Steps` reaches. It models no code. **OptimizeMeaning** compares the
  function of Optimize with what it was, by these events, and looks at what the
  marks on a division promise when it runs.

The modules `MC*` give the constants their values for TLC.

## Runs

| Run | Checks | Instance |
|---|---|---|
| `source` | `LexesAsWritten`, `AcceptsGrammar`, `ReadsLikeC`, `BindsLexically`, `FoldsToValue`, `JudgesRightly`, `DataAsDeclared`, `Answers` | 7393 texts: every sequence of up to four tokens as an initialiser and of up to four statement pieces as a body, longer ones about scopes, folding, loops, calls and globals, and characters in every neighbourhood |
| `front_end` | `GenTypeOK`, `NoBlockLost`, `LowersToIR`, `SameEvents`, `SameEnd` | 311 functions: every statement form around every condition form, nested loops with break and continue, declarations that are arms of their own; 268 of them run on every one-bit parameter, global and call result |
| `optimization` | `InlineTypeOK`, `InlineInitialised`, `OneSweep`, `SameMeaning`, `SameBehaviour`, `MagicHeld`, `UnsignedRight`, `StaysWellFormed`, `NothingLeft` | 115 modules: a leaf, its caller, a recursion and main in three orders of definition, functions that inline into each other, into themselves and in a circle, and results kept that are not given; and 1026 modules of one function: straight lines that enable each other's rewritings, branches on what becomes a constant, loops over a global with and without a preheader, a loop inside a loop left from within; all of them inlined, then through all passes; eight environments, four values of a global, 5-bit words |
| `register_allocation` | `TypeOK`, `LivenessExact`, `NoClobber`, `SurvivesCalls`, `ParamsApart`, `HomesPacked`, `Terminates`, and of the functions that are then run `RunTypeOK`, `Agree`, `ImplementsIR` | every function of three blocks over three vregs from a list of bodies and terminators (diamonds, loops, calls, moves, dead results), larger shapes, and functions to run: a loop around a call, a comparison read twice, copies, a hoisted magic number; one register per pool, one-bit inputs |
| `instruction_selection` | `ComputesOp`, `LeavesOthers` | 5-bit words: every constant divisor and factor with every dividend; every operator and operand form on edge values; nine allocations |
| `whole_programs` | `CodeTypeOK`, `KeepsPromises`, `CallersKept`, `ParamsArrive`, `MeansIR`, `Ends` | six programs (two recursions, ten arguments, a loop with every order of successors, every operator, a frame beyond the reach of an immediate), each by the naive back end and under four allocations, every pair of globals in 0..3 |
| `unsigned_division` | `UnsignedDivides`, violated | as `instruction_selection` |
| `modulus_by_zero` | `AlwaysSelects`, violated | as `instruction_selection` |
| `far_frame` | `ParamsArrive`, violated | the program with ten parameters, immediates of 4 bits |
| `wrong_passes` | `KeepsSemantics`, violated | `y = x; x = 5; f(!!g); return y` |
| `forward_reference` | `DeclaredBeforeUse`, violated | a global read and functions called above their declarations |
| `valid_rejected` | `RejectsOnlyInvalid`, violated | `1 \|\| (1 / 0)` |

What the less obvious ones say. `LowersToIR`: the finished function is well
formed, every block of it ends, and no path reads a vreg before writing it;
the last is what CompiledRun assumes of its input. `SameEnd` and `Answers` are
temporal: the lowered code ends as the source does, the front end stops on every
text with a tree, an analysed program or an error. `StaysWellFormed`: after each
pass the function has the shape and the initialised reads that the later passes
and the back end rely on. `KeepsPromises`: what a function has promised its
caller holds at each return (stack pointer, callee-saved registers, return
address), and the stack pointer is aligned at each call. `OneSweep`: a module whose calls
all go backward, to earlier functions or from one with a branch to itself, is
finished after one sweep. `SameMeaning` follows whole modules through both
halves of `optimizeIR`, `SameBehaviour` each function, with the order of its calls
and stores, through the passes.

In `source` the texts are cut into tokens where the text is the point and start
as tokens where it is not; four tokens hold a unary operator before a
binary one and a parenthesis not closed, four statement pieces hold an if within a
loop and an else after it. Words are those of three bits (`Half = 4`), so
that sums of the numerals 0, 1, 2 and 4 wrap, the smallest word can be written, and
folded values of one bit and of all bits occur. In `optimization` the limit on the
size of what is inlined is 6 instead of 24 (`MaxInsts`), which separates
small functions from large ones of a few lines; `Sweeps` is the source's 5.

One register in each pool is the smallest machine on which sharing, biasing,
preference and spilling all occur; more registers only make collisions rarer.
Three blocks hold a loop and a join; the larger functions hold an inner exit and
an unreachable block. In `front_end`, `Fuel` (6 loop iterations) and
`MaxEvents` (5 events) cut off runs that would not end; a run that is cut off
is compared as far as it went. Inputs are 0 and 1, which take every branch;
arithmetic wraps at 3 bits (`Half = 4`).

`instruction_selection` scales the machine down instead of sampling it: words
have 5 bits (`Half = 16`, `Width = 5`), immediates 3 (`FitHalf = 4`), and the
algorithms that compute magic numbers are parameterised by the word as the
source is by 2^32. All pairs of dividend and constant divisor can then be
tried, and what fits an immediate and what does not occurs in every
combination. `whole_programs` uses 10-bit words so that the stack can be
addressed (`StackTop` is 180 words, and a store below the stack pointer is
reported by `CallersKept`), and immediates that reach 20 words, so that only
`Deep` has a far frame. Globals of 0 to 3 make the recursions at most four
deep.

The functions of `optimization` that come alone assign every vreg once, and none
has `Not` of `Not`. The generator makes such code for programs whose local
variables are initialised and not assigned again (loops then run over globals);
for other programs the passes are wrong, as `wrong_passes` shows. Functions of the
modules of several assign vregs twice as well, by loops, by parameters that
change, by copies of functions in which they do. So the properties have
conditions: `SameBehaviour` is about functions that copy propagation and peephole
are right about (`Handled`), `SameMeaning` follows a module as far as only such have
come to the passes (in 31 of the 115, all of them; in all, everything inlining does), and the
initialised reads of `StaysWellFormed` are about functions that assign once. Runs are
followed for 40 steps, rewritten ones for 80, because hoisting adds steps in front of a
loop; the loops of the instances end, or have gone round several times, by then.
`UnsignedRight` excludes runs in which a sum or product overflows: the source
assumes there are none (`Passes.cpp:779`).

Fairness: the compiler and the code it emits are sequential programs that take
a step whenever one is possible. That is weak fairness of the whole next-state
relation, `WF_sourceVars(SourceNext)` in Source, `WF_vars(Next)` in RegAlloc, and
for the programs that run `WF_runVars(Run)` in FrontEnd and
`WF_codeVars(CodeNext)` in CodeRun; nothing stronger is assumed. Deadlock checking
is off where the system stops: a text that is analysed or rejected, an
allocator that has returned, a function that has returned.

## Findings

Six runs state what a comment or a document of the repository says and find
it violated. Each was reproduced with the compiler.

- `unsigned_division`. `unsignedMagic` (`OptCodeGen.cpp:47`) looks for the
  smallest `k` with `ceil(2^(32+k)/d) < 2^32` and never tests the error bound
  that makes the quotient exact. For every `d >= 3` the loop stops at `k = 0`.
  The quotient is then one too large for some non-negative dividends, on 32
  bits for `d = 7` and `n = 1431655770`, for instance.
- `modulus_by_zero`. `emitModConst` treats 1, -1 and powers of two, then calls
  `signedMagic`, which computes `t % 0` when the constant is 0. `emitDivConst`
  has a case for 0. Constant propagation turns `x % z` into `x % 0`, so the
  compiler stops on a program whose division need never run.
- `far_frame`. A slot beyond the reach of an immediate is addressed through
  `a7`. In the prologue such stores come before the eighth parameter, which
  arrives in `a7`, is moved. `ParamsArrive` therefore fails for it in functions
  with a frame above 2 KiB; `whole_programs` has such a frame with fewer
  parameters and holds.

- `wrong_passes`, twice. `copyProp` (`Passes.cpp:447`) collects the moves of the
  whole function and replaces uses of their destinations everywhere, also after
  the source, or the destination, has been assigned again. `int f(int x) { int
  y = x; x = 5; return y; }` returns 5 with `-opt`. `constProp` does the same
  with constants and says so in its comment; `doc/optimization-report.md:164`
  promises that semantics are preserved. And `peephole` turns `Not(Not(x))` into
  `x`, though `!!5` is 1. The last state of the run has both: the return reads `x`
  and the call is given the global itself.
- `forward_reference`. `analyze` (`Sema.cpp:71`) goes through all globals and
  functions before it analyses the first body, so a body may use a global and call
  a function declared below it. The rules of the language ask for declaration before
  use (`doc/任务要求.md:114`, `:123`), and the report says that the scope stack
  ensures it and that forward references are forbidden
  (`doc/report/实践报告.md:79-80`). The comment on `inlineFunctions`
  (`Passes.cpp:54`) calls the call graph acyclic for that reason; it need not be,
  and what ends the inlining of two functions into each other is the bound of five
  sweeps. `optimization` has such modules, and they keep their meaning.
- `valid_rejected`. `Sema.h:13-14` says that the analysis never rejects what it
  cannot prove invalid, the report that it never rejects a legal program
  (`doc/report/实践报告.md:70`). `1 || (1 / 0)` is rejected as a division by zero
  (`Sema.cpp:208`), though it is never evaluated.

Smaller disagreements, seen in the models but without a run of their own:

- `markUnsignedDiv` calls a vreg non-negative when one of its definitions is, not
  when all are (`Passes.cpp:776` speaks of "which vregs hold non-negative
  values"); `int y = 0; y = x; return y / 5;` is divided as unsigned for
  negative `x`. `UnsignedRight` fails as soon as vregs are assigned twice.
- The structural phase, "iterated to a fixed point" (`Passes.cpp:914`), stops
  after twelve rounds, and one round folds one link of a chain of constant sums.
- Keys of common subexpressions keep the order of operands, against
  `doc/optimization-report.md:51` and the comment on `BinKey`: `a + b` and
  `b + a` are both computed.
- The empty text is a module for `parseModule`, but `CompUnit` of the grammar has at
  least one declaration or function (`doc/任务要求.md:68`). The analysis rejects it
  for want of `main`; `AcceptsGrammar` excepts this one text.
- The initialiser of a constant is to contain literals and constants only
  (`doc/任务要求.md:122`); `const int x = 0 && f();` is accepted, because the short
  circuit folds. `JudgesRightly` asks of accepted constants that their value is
  settled, whatever variables and calls give.
- A global may be declared twice, or have the name of a function; both put
  the same label into the assembly text twice, and a function between two
  declarations of a global uses the later one. No text of `source` has a function there.

## Proofs

`CompiledRunProofs` proves of the allocator, for every set of well-formed functions and every pair
of disjoint pools:

- `LivenessCorrect`. The sweeps compute a least fixpoint in place. The
  invariant has two halves: every vreg in `liveIn` is really live (no
  `DeadSet` contains its block), and, when a sweep is under way, a block already
  visited since `changed` was reset satisfies its equation. When the sweeps
  end every block does, and the complement of `liveIn` is itself a `DeadSet`.
- `NoClobberCorrect`, `SurvivesCallsCorrect`, `ParamsApartCorrect`. The
  invariant says, of the scan, that the edges and the crossing set already
  contain everything the instructions behind the scan require, that `live` is
  what `LiveAt` denotes at the instruction reached, that the graph is
  symmetric, and, of the colouring, that coloured neighbours differ, that vregs
  that cross calls have callee-saved registers and that slots are distinct.

It also proves `HomesPackedCorrect` on top of them: the spill area has no
slot too many and nothing spills that could have had a register. The invariant
`SpillInv` says that every slot number given out belongs to a coloured vreg
without register, and that the neighbours of such a vreg hold all the registers
it may have, which they never give back. The degree follows by counting: the
positions of the pool map one to one into the neighbours. That needs pools
that list no register twice, as those of `Regs.h` do (`PoolsAssumption`).

`CompiledRunProofs` then proves `AgreeCorrect` and `Refinement`, that the running
code implements VregMachine. `Agree` is nearly inductive; what it needs in
addition is the allocator's invariant at `done`, the agreement of moved
parameters during the prologue and the types. Its assumptions are named in
CompiledRun: the environment supplies words, `a0` is not allocatable, globals
named in the code exist, and nothing but a parameter is live into the entry
block. The last one is part of `LowersToIR`, which is proved of IRGen (below).

`IRGenProofs` proves `NoBlockLostCorrect` for every tree: blocks without a
terminator are the open one and those reserved by a call still to come, each
once and each empty. `NoBlockLost` is not inductive: starting a reserved block
would abandon the open one if that had not been ended. The invariant `GenInv`
adds the discipline of the recursion that excludes this, as a property of the
call stack: an item that starts a block stands behind one that has ended the
block before it (`Ordered`), and no two start the same (`Distinct`). Every
action replaces the item on top, so one lemma (`Replaced`) says when that keeps the
discipline and the actions have to show only what their own items look like
(`Fits`). It rests on `TreesAssumption` in IRGen: parts of trees are trees, and a
short circuit has two operands, a loop and an if have a statement.

`IRGenProofs` also proves `GenTypeOKCorrect` and `LowersToIRCorrect`, for every
tree that satisfies the assumptions. The two need each other and `GenInv`: to know
that an instruction names vregs there are, one has to know what is on the stack of
values, who will take it, and which variables have got their vreg.
`TypeInv` has three parts.

- The graph. For every block there is a set of vregs that every path to it has
  written (`Shown`): its code reads no others before it writes them, and its jumps lead
  only to blocks that ask for no more than has been written at its end. `Unwritten`
  is a greatest fixpoint; the sets are what shows a vreg dead into the
  entry (`UnwrittenShows` of IRLemmas). They are chosen when a block is created,
  before anything jumps there, and never change: the block after a short circuit
  asks for the flag, the blocks of an `if` or a loop for what had been written
  in front of it.
- The calls still to come (`Goes`). Each is given a stage before it and one behind
  it: how many values are on the stack and how many loops are open, which
  variables have a vreg and what has been written. A call may lower what it finds
  by what it takes and raise it by what it gives (`Counts`), reads only variables
  that have a vreg (`Reads`), jumps where no more is asked than its stage offers
  (`Jumps`), and starts or sets blocks likewise (`Lands`).
- Scope. The variables a call may read are declared in front of it, and what it
  will declare has no vreg yet (`Undeclared`), so a declaration takes no vreg away
  from code to come.

Every action replaces the call on top by those its body makes. The lemmas about
the builder say what each of its functions does to the graph (`Grows`,
`Carries`); those about stages, that calls put in place of one lead from the stage
before it to the one behind it (`Runs`); and an action is sound if both hold.
`break` and `continue` leave the stage of their loop's body, whatever is
behind them is never reached, and the stage there is any (`MayLeave`).

The assumptions used are in IRGen. `TreesAssumption` is what the parser builds: the
operands, the operator and the parts each class of node has. `ScopeAssumption` is
what `analyzeFunc` has checked or numbered: a local is used after its
declaration and inside its block, each declaration makes a symbol of its own
(`declare`, `Sema.cpp:20`), parameters come first, `break` and `continue` are in a
loop. `BlockAssumption` says what two operators mean that describe trees: the names
a statement declares for those behind it (`Exposes`), and whether every declaration
in it stands in a block (`InBlocks`).

**A condition the code does not check.** That declarations stand in blocks is a
condition of the two theorems, and of the properties they are about: it came out of the
proof, as the only way to finish it. C
demands it, and a ToyC file is one a C compiler accepts
(`doc/任务要求.md:60`), but the compiler does not ask: `parseStmt` takes a declaration
wherever a statement may stand (`Parser.cpp:132`), and the analysis of an
`if` or `while` opens no scope around its arm, so that the name is declared
for the statements behind it. For

    int main() { if (0) int x = 1; x = 2; return x; }

the analysis reports nothing, `genStmt` skips the arm of the constant condition
(`IRGen.cpp:145`), `x` keeps the `irId` of -1 it was made with (`AST.h:22`), and the
assignment and the `return` name a vreg there is not; a build of the compiler
stops with a segmentation fault on this text, with `-opt` and without. With a
condition that is not constant the program is compiled, and `x` is read
unwritten on the path around the arm. The trees of `front_end` have such arms too
(`Bare`): `GenTypeOK` and `LowersToIR` without their condition fail on them, and
`NoBlockLost`, which has none, holds. They are lowered, but not run.

`InlineProofs` proves `InlineTypeCorrect`: whatever the module, and in whatever
order its functions call each other, every function stays well formed. The
invariant adds that every call is of a function there is, which a copied
call keeps. It rests on `ModulesAssumption` in Inline, the part of it
about calls being what `Sema::analyzeExpr` checks.

`InlineProofs` also proves `OneSweepCorrect`. The invariant `SweepInv` speaks of
positions: no call behind the one reached could be inlined, in this function or
an earlier one, and every call there is goes backward and has as many arguments as its
callee parameters. A call passed over is of a finished function that is too large or
has a branch, or of the function itself, which has one. A copy brings only
calls of its callee, which is finished, so they were behind the position too
(`CopiedCalls`, `SplicedParts`), and no function before the current one grows.

And it proves `InlineInitialisedCorrect`: no function comes to read a vreg before
it has been written. `InlineInitialised` speaks of the set that `Unwritten` computes by
turns, so `UnwrittenFacts` shows first that it has closed after as many turns
as there are blocks, each turn before that having added one; then it is as good as any
set that shows a vreg dead into the entry (`UnwrittenShows`). The invariant
`FreshInv` says for all functions at once that no vreg but the parameters is
live into the entry, that a call with a result is of a function that gives one
and that no instruction names a magic number, which copies would not rename.
Code is taken apart where it was put together: a sequence reads a vreg first if its
first part does, or its second does and the first does not write it
(`JoinedReads`). An argument's read stands for the call's, the copy's own
vregs are those of its function (`ExpansionReads`), and so what was dead stays dead (`SplicedDead`).
It rests on `FreshAssumption` in Inline: what `LowersToIRCorrect` proves of the front end,
and that inlining comes before hoisting. And it has a condition, as the property has:
a function whose result is kept gives one (`ResultsGiven`). That is a rule of the
language (`doc/任务要求.md:114`) which the analysis leaves to the program, also where
an `int` function has `return;` (`Sema.cpp:182`). For a program that breaks it, the reader
of an inlined call's result is left with a vreg nobody writes; `optimization` has two
such modules (`Ungiven`).

`EmitProofs` proves `LeavesOthersCorrect`, for every instruction, constant,
allocation and width of a word. Selection is followed bottom up: every sequence
computes only into registers from a given set (`Into`), and what `emitInst`
appends after it is at most one store (`Selected`, `TidyCode`). The invariant
`EmitInv` says of each position that it is such a computation, the store of
the result or that of the global (`Tidy`), and follows `a7` through the address of a
distant slot (`Addressed`), for the store through it to reach the result's slot.
It rests on `CasesAssumption` in Emit: `sp` is nobody's home, a slot's offset is
a word, and a constant divisor of a division marked unsigned is positive.

`MagicProofs` proves `MagicDivides`: the numbers `signedMagic` computes for a divisor
(`M` and `s`) make the high half of a product, corrected, shifted and biased by
its sign, the truncated quotient of every dividend, for every divisor that needs
them and every width. It has three parts. The loop of `signedMagic` keeps
quotients and remainders of 2^p by `anc` and by the divisor's magnitude
(`Doubled`), and ends by the time its counter is twice the width, when 2^p exceeds
all that it is compared with (`CloseInTime`); so its result satisfies the
inequality that Hacker's Delight derives. The inequality gives the quotient for
dividends of both signs. And the multiplier fits a word once wrapped, the
correction by the dividend undoing the wrap (`CorrectedHigh`). Induction over the
loop is a least element: a set of counters at which the claim fails has a
least one (`Least`, `Upward` in IRLemmas), an argument the provers can check
where a rule of induction over operators is not.

`EmitProofs` then proves `ComputesOpCorrect` on top of both, for every operator,
constant operand and divisor: the sequence leaves the operator's value in
the result's home. Pieces are followed one at a time: a run of two sequences
in a row is a run of each (`RunsInARow`), and each piece is shown to lead from one
machine to another (`Leads`: one register gets a value, only listed registers
change). Products by shifts and additions are wrapped products (`MulConstRuns`),
quotients by powers of two are shifts after a bias (`BiasedRuns`), the others
are those of `MagicDivides` (`DivConstRuns`, `ModConstRuns`); operands come from
registers, slots near and far and constants (`ToRegRuns`), results go to theirs
(`WriteBackRuns`). The invariant of the running machine only says that what has
run so far is a prefix of the code (`SoFar`). It rests on `PlacedAssumption` in Emit: every
vreg named lives in an allocatable register or a slot of the frame, and a magic
number hoisted into a vreg is the one its division needs, which `MagicHeld` checks of
the passes. A division marked unsigned whose divisor is a constant is not part of
it (`ByUnsigned` in Select): that one is selected by `unsignedMagic`, and has a run of
its own that finds it wrong. Where the divisor has been moved to a vreg, the mark
has no effect, and the theorem covers it.

`CodeRunProofs` proves four things of CodeRun, for every program, either back end,
every stack and every width: `CodeTypeOKCorrect` (control never leaves the text but by its
end: a jump finds its label, a call its function, a return the caller),
`KeepsPromisesCorrect`, `CallersKeptCorrect` and `ParamsArriveCorrect`. None is
inductive: that a function restores what it saved depends on every instruction
since its prologue, and on the same of every function called meanwhile. The argument
follows the text, not the run.

- A text is marked between its instructions with the machines, each with the
  activation it works for, that may stand there (`Marking`). A mark says where `sp` is
  below the activation's, that the callers' part of the stack is as it was, and
  which registers and slots hold what the function was entered with (`At`,
  `Holds`): during the prologue more and more is saved and moved, in the body
  every saved register is in its slot, in the epilogue it comes back.
- An instruction is fit for its place (`Step`) if it leads from the mark before it to the
  mark behind it; a branch, to that of its label as well. A store must not go
  below `sp`. After a call may stand any machine with `sp`, the
  callee-saved registers and the callers' stack as they were (`Back`), which is
  all a caller relies on. Before a return everything is restored (`Restored`).
- A piece of code is walked (`Walk`) if such marks lead through it. Each emitter
  is shown to be walked from what it finds to what it leaves: the sequences of Select by the
  registers they compute into, the layout of a frame, prologue, parameter moves,
  stack arguments and epilogue of Codegen, then the same of Naive; walks in
  a row are a walk. `ProgramWalk` puts the functions of a program together.
- The invariant `CodeInv` is then short: the machine and the innermost activation
  are where the mark before the next instruction allows, and every other
  activation awaits the return of the one above it (`Awaited`): whatever machine
  comes back as that one promises may stand behind its call.

`ParamsArriveCorrect` has a condition on the function, `Careful`. Its first block is no
branch target, as `genFunc` leaves it; and the frame is within reach of an immediate,
or there are fewer than eight parameters, or the naive back end made it. What is excluded
is the finding of `far_frame`, where the eighth argument is lost: the proof
found the same case by having no mark for it.

The assumptions are named in CodeRun and TLC evaluates them on the programs of
`whole_programs`. `ProgramsAssumption`: functions are well formed, callees and
globals exist, a constant divisor of a division marked unsigned is positive, frames and
parameters take at most half of the words there are; an allocation lists the
callee-saved registers it uses, packs its slots and keeps parameters apart
(`IsAllocation`), which `CompiledRunProofs` proves of the allocator as `TypeOK`, `HomesPacked`
and `ParamsApart`. It also excludes what the finding of
`modulus_by_zero` is about, a remainder by the constant 0 in the optimizing back end. `GlobalsAssumption`,
`TextAssumption` and `StackAssumption` say that what is stored in words fits. `CodeInv`
itself is beyond TLC: it chooses among markings with sets of all machines.

`OptimizeProofs` proves three things of the passes, for every function and every width of a
word; the first two of the whole schedule, with `-opt` and without.

- `StaysFunctionCorrect`. After every pass the function is well formed and has the
  blocks and parameters it had: every vreg and label named exists, an
  instruction has the operands its operator takes, and a division that names a
  magic number names a vreg there is. This is the first half of `StaysWellFormed`, and what
  `IsIRFunc` asks of the functions given to the allocator and to both back ends.
  There is one lemma for each of the thirteen passes (`ConstFoldStays`, ...,
  `HoistMagicStays`). `Formed` is the invariant, and it has two manners. Until
  `hoistDivModConstants` every division marked unsigned has a constant divisor of 3 or more
  ("exact"): `unsignedMagic`, which `hoistMagicDiv` calls for it, needs that to stop
  and find a word. Afterwards the divisor may be a vreg, and later
  constant propagation may put back any constant ("any"); no pass that is still to
  come looks at the mark. `Manner` says which of the two holds by the place in the
  schedule.
- `NothingLeftCorrect`. At the end every instruction has an effect or a result that is
  read, and with `-opt` no unreachable block has code. The sweep of dead code is
  repeated until it changes nothing, so it ends `Clean` (`DceStays`): every turn but the last
  removes an instruction, and there are only so many. `unreachableElim` makes what is
  left reachable (`EmptiedTouched`), but may take the last reader of a result away; that
  is why it runs between two sweeps, and the second only removes
  (`SweptTouched`).
- `PassesMean`. What runs after `constFold`, `markUnsignedDiv`, `jumpThreading` or
  `unreachableElim` is a run of the function that was given, on LooseMachine: the same
  vregs, globals and events at every step. Of `cse`, `copyProp` and `constProp` it is
  said for functions that assign each vreg in one place, parameters in none, and
  read nothing unassigned (`AssignedOnce`); without that the last two are wrong, as
  `wrong_passes` finds. `constFold` needs the loose division: it makes `x / x` the constant 1.
  That each pass does the right thing where control is (`InStep`) takes three
  facts about the run, which `Together` adds to the types. Control is in a reachable block
  (`ReachableClosed`), which `unreachableElim` relies on. A vreg holds what was moved
  to it, unless some path leads there that has not assigned it yet (`MovesAt`); where `x`
  may be unassigned, so may be what is moved from `x` (`FreshFollows`), so nothing moved from `x`
  becomes wrong when `x` is assigned. And a vreg holds what a fact of the block says it
  does (`FactsAt`), for `cse`; an instruction drops the facts it makes untrue
  (`SurvivingHold`).

A pass is a computation in turns over blocks, positions, loops or a worklist, and
the models write it as a function over the turns. The lemmas have one form: a
predicate names the values between the turns of one such computation (`Picked`,
`Sweeps`, `Peeps`, `Cses`, `Moves`, `Hoists`, ...), a lemma shows that there are such
values (`StaysIn`: a computation whose steps do not leave a set never leaves it), and
an induction over the turns, by `Upward`, shows what the result is. The assumption is
`SourcesAssumption` in Optimize: the functions are well formed, which
`LowersToIRCorrect` and `InlineTypeCorrect` prove of what comes before, and IR generation
marks nothing unsigned.

Only model-checked: `Terminates` of the allocator; the meaning of lowered code
and of compiled programs (`MeansIR`) and that these end (`Ends`);
what inlining computes (`SameMeaning`); what the passes compute one after another and what
those do that remove or move instructions (`SameBehaviour`: `deadCodeElim`, `peephole` and
the passes over loops are not part of `PassesMean`); `MagicHeld` and `UnsignedRight`; the second half of `StaysWellFormed`, that passes leave nothing
read unwritten, which is not true of every function: it needs vregs that are
assigned once, like `SameBehaviour`; that a constant which propagation puts
back into a hoisted division marked unsigned is positive, which
`CasesAssumption` and `ProgramsAssumption` take from the passes; and everything
about Source. Liveness under
fairness is outside the prover. Syntax, Source, SourceMeaning, IRMeaning and
PassMeaning have recursive operators, so nothing that reaches them can be proved:
that holds for the lexer, the parser and the analysis as a whole.

## What is not modelled

- Line and column numbers, which only messages use; the vertical tab, which
  the lexer takes for a blank; numerals beyond 64 bits, of which the lexer
  keeps the last ten digits (`Lexer.cpp:123`).
- Reading the input, the flag `-opt`, the environment variable and printing in
  `main.cpp`; the data section and the directives of the assembly text.
- The composition of the passes with the allocator and of the allocator with
  whole programs: the functions given to those models have the shapes the
  stages before them make (hoisted magic numbers, unreachable blocks, dead results).
- Undefined behaviour of the compiler itself when it folds: sums that overflow
  wrap in the model, as they do in its builds, and the smallest word divided by
  -1 wraps as on the target, where the compiler would stop.
- Calls of functions without a result whose value is used: the analysis
  accepts them, and what they give is whatever `a0` holds.
- Declarations of constants in Ast: the analysis replaces their uses (Sema
  has them), the generator skips them.
- `computeCFG` fills predecessor lists, which LoopPasses computes where it needs
  them.

## Plan

Done, in this order: register allocation with its proofs; the running compiled
code with its refinement proof; lowering; instruction selection, frames and calls;
the passes over one function; lexer, parser and analysis; inlining; the naive back
end; the proofs about lowering, inlining and selection; what selected sequences
compute; types and initialised reads of lowered and of inlined code; the promises
of frames and calls; well-formed results of the passes; the passes that work in place as
refinements.

Left:

1. RegAlloc composed with CodeRun, so that the allocations of whole programs
   are the allocator's own, and Optimize in front of it.
2. Sema joined to IRGen: the trees Ast builds, taken from analysed texts.
3. Proofs: that `deadCodeElim` and the passes over loops keep what a function means, which
   takes a refinement mapping where `PassesMean` has the identity, and that the
   passes in a row do.
