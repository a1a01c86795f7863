--------------------------- MODULE MCCompiledRun ---------------------------
(***************************************************************************)
(* Functions to allocate, to compile and to run.  `Small` enumerates every *)
(* function of three blocks over three vregs built from a handful of       *)
(* instructions: straight lines, diamonds and loops, with and without a    *)
(* call, a move, a dead result.  `Shaped` holds larger ones the IR         *)
(* generator makes.  `Programs` are run: a loop around a call, copies, a   *)
(* division with a hoisted magic number, and functions whose last          *)
(* instruction the generator folds into the terminator.                    *)
(***************************************************************************)
EXTENDS CompiledRun

Bodies0 == {<< >>, <<Unary("Mv", 1, Imm(0))>>, <<Unary("Mv", 1, Reg(0))>>,
            <<Unary("Mv", 1, Reg(0)), Unary("Mv", 2, Imm(1))>>}
Steps == {Binary("Add", 2, Reg(0), Reg(1)), Unary("Mv", 1, Reg(2)),
          Unary("Neg", 1, Reg(0)), Call(2, <<Reg(1)>>)}
Bodies1 == {<< >>} \cup {<<s>> : s \in Steps} \cup {<<s, t>> : s, t \in Steps}
Bodies2 == {<< >>} \cup {<<s>> : s \in Steps}

Ends(is) == {Jump(is, 1), Branch(is, Reg(1), 1, 2), Branch(is, Reg(0), 2, 1),
             Return(is, Reg(2)), Return(is, Reg(0))}

Made(ps, n, bs) == [numVregs |-> n, params |-> ps, nb |-> Len(bs),
                    blocks |-> [k \in 0 .. Len(bs) - 1 |-> bs[k + 1]]]

Candidates ==
  {Made(<<0>>, 3, <<Branch(x, Reg(0), 1, 2), y, z>>) :
     x \in Bodies0, y \in UNION {Ends(is) : is \in Bodies1},
     z \in UNION {Ends(is) : is \in Bodies2}}

(* No vreg is read before it is written, as in all code the generator      *)
(* makes: what is live into block 0 is a parameter.                        *)
Initialised(f) == \A v \in Vregs(f) \ PoolRegs(f.params) : DeadInto(f, v, 0)

Small == {f \in Candidates : Initialised(f)}

(* while (p) { q = g(p, q); if (q) break; p = p - 1; } return p + q;       *)
LoopWithCall ==
  Made(<<0, 1>>, 5,
    <<Jump(<< >>, 2),
      Branch(<<Call(2, <<Reg(0), Reg(1)>>), Unary("Mv", 1, Reg(2))>>, Reg(1), 3, 4),
      Branch(<<Unary("Not", 4, Reg(0))>>, Reg(4), 3, 1),
      Return(<<Binary("Add", 3, Reg(0), Reg(1))>>, Reg(3)),
      Jump(<<Binary("Sub", 4, Reg(0), Imm(1)), Unary("Mv", 0, Reg(4))>>, 2)>>)

(* x = p; a value copied around and read through both names; an unread     *)
(* parameter; a result nobody reads; a block nothing jumps to.             *)
CopiesAndDeadCode ==
  Made(<<0, 1, 2>>, 6,
    <<Branch(<<Unary("Mv", 3, Reg(0)), Load(4, 0), Unary("Mv", 0, Reg(3))>>,
             Reg(4), 1, 2),
      Jump(<<Binary("Mul", 5, Reg(3), Reg(0)), Store(0, Reg(4))>>, 3),
      Jump(<<Call(NoReg, <<Reg(3)>>), Unary("Mv", 4, Reg(3))>>, 3),
      Return(<<Binary("Sub", 5, Reg(4), Reg(0))>>, Reg(4)),
      Jump(<<Unary("Mv", 1, Reg(1))>>, 3)>>)

(* A division whose magic number was hoisted into vreg 3.                  *)
HoistedMagic ==
  Made(<<0>>, 4,
    <<Jump(<<Unary("Mv", 3, Imm(1)), Unary("Mv", 1, Imm(0))>>, 2),
      Jump(<<[Binary("Div", 2, Reg(0), Imm(1)) EXCEPT !.magic = 3],
             Binary("Add", 1, Reg(1), Reg(2))>>, 2),
      Branch(<<Binary("Lt", 2, Reg(1), Reg(0))>>, Reg(2), 1, 3),
      Return(<< >>, Reg(1))>>)

(* Only the second parameter is read.                                      *)
ReadsSecond == Made(<<0, 1>>, 2, <<Return(<< >>, Reg(1))>>)

Shaped == {ReadsSecond, LoopWithCall, CopiesAndDeadCode, HoistedMagic}
AllFuncs == Small \cup Shaped

OneCaller == <<5>>
OneCallee == <<8>>

(* A comparison read by its branch and again later is not folded; copies   *)
(* and a dead result sit next to live values.                              *)
ComparedTwice ==
  Made(<<0>>, 4,
    <<Branch(<<Unary("Mv", 1, Reg(0)), Load(2, 0), Binary("Lt", 3, Reg(0), Reg(2))>>,
             Reg(3), 1, 2),
      Jump(<<Binary("Add", 2, Reg(1), Reg(0)), Store(0, Reg(1))>>, 2),
      Return(<<Binary("Mul", 1, Reg(1), Reg(3)), Call(NoReg, <<Reg(1)>>),
               Binary("Eq", 0, Reg(2), Reg(1))>>, Reg(0))>>)

(* for (a = 0; a < p; a = a + p / 1);  the quotient carries a magic vreg.  *)
MagicInLoop ==
  Made(<<0>>, 5,
    <<Jump(<<Unary("Mv", 3, Imm(1)), Unary("Mv", 1, Imm(0))>>, 2),
      Jump(<<[Binary("Div", 2, Reg(0), Imm(1)) EXCEPT !.magic = 3],
             Binary("Add", 1, Reg(1), Reg(2))>>, 2),
      Branch(<<Binary("Lt", 4, Reg(1), Reg(0))>>, Reg(4), 1, 3),
      Return(<<Call(2, <<Reg(1)>>)>>, Reg(2))>>)

Programs == {LoopWithCall, ComparedTwice, MagicInLoop}
OneGlobal == {0}
Bits == {0, 1}
AllocateAndRun == AllFuncs \cup Programs

(* The other functions are allocated and left at that.                     *)
MCInit ==
  /\ Init /\ blk = 0 /\ idx = 1 /\ obs = M!Silent
  /\ IF fn \in Programs THEN vreg \in [V -> Inputs] /\ glob \in [Gids -> Inputs]
                         ELSE vreg = [v \in V |-> 0] /\ glob = [x \in Gids |-> 0]
  /\ phys = << >> /\ moved = -1

MCNext == RunNext /\ (pc = "done" => fn \in Programs)

MCSpec == MCInit /\ [][MCNext]_runVars /\ WF_runVars(Next /\ UNCHANGED <<blk, idx, vreg, glob, obs, phys, moved>>)
=============================================================================
