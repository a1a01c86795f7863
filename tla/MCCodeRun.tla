------------------------------ MODULE MCCodeRun ------------------------------
(***************************************************************************)
(* Six programs, each by the naive back end and under several allocations: *)
(* a recursive product, a recursion through a returned call, calls with    *)
(* ten arguments, a loop among blocks in every order of successors, every  *)
(* operator, and frames beyond the reach of an immediate.                  *)
(***************************************************************************)
EXTENDS CodeMeaning, FiniteSets

Fn(ps, n, bs) == [numVregs |-> n, nb |-> Len(bs), params |-> ps,
                  blocks |-> [b \in 0 .. Len(bs) - 1 |-> bs[b + 1]]]

To(k, d, xs) == [Call(d, xs) EXCEPT !.callee = k]

-----------------------------------------------------------------------------
Product ==
  <<Fn(<< >>, 3, <<Return(<<Load(0, 0), To(2, 1, <<Reg(0)>>), Store(1, Reg(1)),
                            Binary("Div", 2, Reg(1), Imm(-3))>>, Reg(2))>>),
    Fn(<<0>>, 5, <<Branch(<<Binary("Le", 1, Reg(0), Imm(1))>>, Reg(1), 1, 2),
                   Return(<< >>, Imm(1)),
                   Return(<<Binary("Sub", 2, Reg(0), Imm(1)), To(2, 3, <<Reg(2)>>),
                            Binary("Mul", 4, Reg(0), Reg(3))>>, Reg(4))>>)>>

(* A void function, stores, and a call whose result is returned at once.   *)
Summing ==
  <<Fn(<< >>, 2, <<Return(<<Load(0, 0), To(2, 1, <<Reg(0), Imm(5)>>)>>, Reg(1))>>),
    Fn(<<0, 1>>, 4, <<Branch(<<Binary("Mod", 3, Reg(0), Imm(4))>>, Reg(3), 2, 1),
                      Return(<<Load(2, 1)>>, Reg(2)),
                      Return(<<To(3, NoReg, <<Reg(0)>>), Binary("Sub", 2, Reg(0), Imm(1)),
                               To(2, 3, <<Reg(2), Reg(1)>>)>>, Reg(3))>>),
    Fn(<<0>>, 2, <<ReturnVoid(<<Load(1, 1), Binary("Add", 1, Reg(1), Reg(0)),
                                Store(1, Reg(1))>>)>>)>>

(* Ten arguments, and parameters that outlive a call.                      *)
Ten(x) == <<x, Imm(1), Imm(2), Imm(3), Imm(4), Imm(5), Imm(6), Imm(7), Imm(9), x>>

Wide ==
  <<Fn(<< >>, 3, <<Return(<<Load(0, 0), To(2, 1, Ten(Reg(0))),
                            Binary("Add", 2, Reg(1), Reg(0))>>, Reg(2))>>),
    Fn([k \in 1 .. 10 |-> k - 1], 14,
       <<Return(<<To(3, 10, <<Reg(7), Reg(9), Reg(8)>>), Binary("Mul", 11, Reg(10), Imm(3)),
                  Binary("Sub", 12, Reg(11), Reg(8)), Binary("Add", 13, Reg(12), Reg(7))>>,
                Reg(13))>>),
    Fn(<<0, 1, 2>>, 4, <<Return(<<Binary("Sub", 3, Reg(1), Reg(0)),
                                  Binary("Mul", 3, Reg(3), Reg(2))>>, Reg(3))>>)>>

(* A sum in a loop; successors before, after and next to their block.      *)
Looping ==
  <<Fn(<< >>, 6,
       <<Jump(<<Load(0, 0), Unary("Mv", 1, Imm(0))>>, 3),
         Jump(<<Binary("Add", 1, Reg(1), Reg(0)), Binary("Sub", 0, Reg(0), Imm(1))>>, 3),
         Branch(<<Store(1, Reg(1))>>, Reg(1), 5, 4),
         Branch(<<Binary("Gt", 2, Reg(0), Imm(0))>>, Reg(2), 1, 2),
         Return(<<Unary("Neg", 4, Reg(1))>>, Reg(4)),
         Branch(<<Binary("Eq", 3, Reg(1), Imm(3))>>, Reg(3), 7, 4),
         Jump(<< >>, 5),
         Branch(<<Binary("Ne", 5, Reg(1), Reg(3))>>, Reg(5), 8, 4),
         Return(<< >>, Imm(77))>>)>>

(* Every operator on each pair of small operands of either sign, the       *)
(* results weighted and added up in global 1 and returned.                 *)
InTurn == <<"Lt", "Gt", "Le", "Ge", "Eq", "Ne", "Sub", "Mul", "Div", "Mod">>

Weighed(k) == <<Binary(InTurn[k], 2, Reg(0), Reg(1)), Binary("Mul", 2, Reg(2), Imm(k)),
                Binary("Add", 4, Reg(4), Reg(2))>>

Comparing ==
  <<Fn(<< >>, 5,
       <<Return(<<Load(3, 0), Load(1, 1), Binary("Sub", 0, Reg(3), Imm(2)), Unary("Mv", 4, Imm(0))>>
                  \o Concat([k \in DOMAIN InTurn |-> Weighed(k)])
                  \o <<Unary("Not", 2, Reg(4)), Store(1, Reg(2)), Unary("Mv", 2, Reg(4)),
                       Unary("Neg", 4, Reg(2))>>, Reg(4))>>)>>

(* A recursive function with more values than an immediate reaches.        *)
Deep ==
  <<Fn(<< >>, 2, <<Return(<<Load(0, 0), To(2, 1, <<Reg(0)>>)>>, Reg(1))>>),
    Fn(<<0>>, 26,
       <<Branch(<< >>, Reg(0), 1, 2),
         Return([k \in 1 .. 22 |-> Binary("Add", k, Reg(k - 1), Imm(k))]
                  \o <<Binary("Sub", 23, Reg(0), Imm(1)), To(2, 24, <<Reg(23)>>),
                       Binary("Add", 25, Reg(22), Reg(24)), Binary("Sub", 25, Reg(25), Reg(21))>>,
                Reg(25)),
         Return(<< >>, Imm(1))>>)>>

-----------------------------------------------------------------------------
(* Allocations: none, for the naive back end; every vreg in a callee-saved *)
(* register, every vreg in a slot, or every other one; registers a call    *)
(* may change where there is none.                                         *)
CalleeNo == <<8, 9, 18, 19, 20, 21, 22, 23, 24, 25, 26, 27>>
CallerNo == <<5, 6, 7, 28, 29>>

Allocation(f, inReg(_)) ==
  LET leaf == Calls(f) = {}
      pool == IF leaf THEN CallerNo \o CalleeNo ELSE CalleeNo
      before(v, P(_)) == Cardinality({w \in 0 .. v - 1 : P(w)})
      reg == [v \in Vregs(f) |-> IF inReg(v) /\ before(v, inReg) < Len(pool)
                                 THEN pool[before(v, inReg) + 1] ELSE NoReg]
      out(v) == reg[v] = NoReg
      used(n) == \E v \in Vregs(f) : reg[v] = n
  IN  [reg |-> reg,
       spillSlot |-> [v \in Vregs(f) |-> IF out(v) THEN before(v, out) ELSE NoReg],
       numSpills |-> before(f.numVregs, out),
       usedCallee |-> SelectSeq(CalleeNo, used),
       isLeaf |-> leaf]

Units(fs, inReg(_)) ==
  [k \in DOMAIN fs |-> [fn |-> fs[k], al |-> Allocation(fs[k], inReg), id |-> k]]

Naively(fs) == [k \in DOMAIN fs |-> [fn |-> fs[k], al |-> NoAllocation, id |-> k]]

Kinds(fs) == <<Naively(fs), Units(fs, LAMBDA v : TRUE), Units(fs, LAMBDA v : FALSE),
               Units(fs, LAMBDA v : v % 2 = 0), Units(fs, LAMBDA v : v % 3 # 0)>>

MCPrograms == Kinds(Product) \o Kinds(Summing) \o Kinds(Looping) \o Kinds(Wide)
                \o Kinds(Comparing) \o Kinds(Deep)
MCGlobals == [{0, 1} -> {0, 1, 2, 3}]

(* Eight parameters and a frame beyond the reach of an immediate.          *)
FarPrograms == Kinds(Wide)
=============================================================================
