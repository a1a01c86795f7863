------------------------------ MODULE MCInline ------------------------------
(***************************************************************************)
(* Modules of four functions: a leaf, a function that calls it, one that   *)
(* recurses and calls both, and main, in three orders of definition, so    *)
(* that calls go backward and forward.  Five more have functions that can  *)
(* be inlined into one another, two keep a result that is not given.       *)
(***************************************************************************)
EXTENDS IR

Fn(ps, n, bs) == [numVregs |-> n, nb |-> Len(bs), params |-> ps,
                  blocks |-> [b \in 0 .. Len(bs) - 1 |-> bs[b + 1]]]
Straight(ps, n, is, v) == Fn(ps, n, <<Return(is, v)>>)

To(k, d, xs) == [Call(d, xs) EXCEPT !.callee = k]

(* Leaves of two parameters: one that changes its parameters, one with a   *)
(* store, one that returns nothing, one with a branch, one too large.      *)
Leaves ==
  {Straight(<<0, 1>>, 3, <<Binary("Sub", 2, Reg(0), Reg(1))>>, Reg(2)),
   Straight(<<1, 0>>, 2, <<Binary("Add", 0, Reg(0), Reg(1)), Unary("Neg", 1, Reg(0))>>, Reg(1)),
   Straight(<<0, 1>>, 3, <<Load(2, 0), Binary("Sub", 2, Reg(2), Reg(0)), Store(0, Reg(2))>>, Imm(3)),
   Fn(<<0, 1>>, 2, <<ReturnVoid(<<Store(0, Reg(1)), Store(1, Reg(0))>>)>>),
   Fn(<<0, 1>>, 2, <<Branch(<< >>, Reg(0), 1, 2), Return(<< >>, Reg(1)), Return(<< >>, Imm(5))>>),
   Straight(<<0, 1>>, 6, [k \in 1 .. 7 |-> Binary("Sub", IF k < 4 THEN k + 1 ELSE 5, Reg(0), Reg(1))],
            Reg(5))}

(* The value of function k, which is h, in vreg d; of a void one, a global. *)
Ask(k, h, d, xs) ==
  IF h.blocks[h.nb - 1].hasVal THEN <<To(k, d, xs)>> ELSE <<To(k, NoReg, xs), Load(d, 0)>>

(* Callers of leaf k: swapped and nested arguments, a result not used.     *)
Middles(k, h) ==
  {Straight(<<0, 1>>, 3, Ask(k, h, 2, <<Reg(1), Reg(0)>>), Reg(2)),
   Straight(<<0, 1>>, 4, Ask(k, h, 2, <<Reg(0), Imm(1)>>) \o Ask(k, h, 3, <<Reg(2), Reg(1)>>), Reg(3)),
   Straight(<<0, 1>>, 3, <<Store(1, Reg(0)), To(k, NoReg, <<Imm(2), Reg(1)>>), Load(2, 1)>>, Reg(2))}

(* A recursive function that counts vreg 0 down.                           *)
Counter(self, k, h, j) ==
  Fn(<<0, 1>>, 6,
     <<Branch(<< >>, Reg(0), 1, 2),
       Return(<<Binary("Sub", 2, Reg(0), Imm(1))>> \o Ask(k, h, 3, <<Reg(0), Reg(1)>>)
                \o <<To(self, 4, <<Reg(2), Reg(3)>>), To(j, 5, <<Reg(4), Reg(1)>>)>>, Reg(5)),
       Return(<< >>, Reg(1))>>)

(* Callers of the others: from a block, and from a loop.                   *)
Mains(k, j) ==
  {Straight(<< >>, 4, <<Load(0, 0), To(k, 1, <<Reg(0), Imm(1)>>), To(j, 2, <<Reg(1), Reg(0)>>),
                        Binary("Sub", 3, Reg(2), Reg(1))>>, Reg(3)),
   Fn(<< >>, 3, <<Jump(<<Load(0, 0), Unary("Mv", 1, Imm(0))>>, 1),
                  Branch(<<To(j, 1, <<Reg(1), Reg(0)>>), Binary("Gt", 2, Reg(0), Imm(0))>>, Reg(2), 2, 3),
                  Jump(<<Binary("Sub", 0, Reg(0), Imm(1)), To(k, NoReg, <<Reg(0), Reg(1)>>)>>, 1),
                  Return(<< >>, Reg(1))>>)}

(* Places of the leaf, the middle, the recursive function and main.        *)
Orders == {<<1, 2, 3, 4>>, <<4, 3, 2, 1>>, <<3, 1, 4, 2>>}

Place(o, fs) == [funcs |-> [k \in 1 .. 4 |-> fs[CHOOSE j \in 1 .. 4 : o[j] = k]], main |-> o[4]]

Layered == UNION {{Place(o, <<c[1], c[2], Counter(o[3], o[1], c[1], o[2]), t>>) :
                     c \in UNION {{<<l, m>> : m \in Middles(o[1], l)} : l \in Leaves},
                     t \in Mains(o[3], o[2])} : o \in Orders}

-----------------------------------------------------------------------------
(* even and odd by way of each other; odd is small.                        *)
EvenOdd(e, d) ==
  [fns |-> <<Fn(<<0>>, 3, <<Branch(<< >>, Reg(0), 1, 2),
                            Return(<<Binary("Sub", 1, Reg(0), Imm(1)), To(d, 2, <<Reg(1)>>)>>, Reg(2)),
                            Return(<< >>, Imm(1))>>),
             Straight(<<0>>, 3, <<To(e, 1, <<Reg(0)>>), Unary("Not", 2, Reg(1))>>, Reg(2))>>,
   main |-> Straight(<< >>, 2, <<Load(0, 0), To(e, 1, <<Reg(0)>>)>>, Reg(1))]

Mutual ==
  {[funcs |-> <<EvenOdd(1, 2).fns[1], EvenOdd(1, 2).fns[2], EvenOdd(1, 2).main>>, main |-> 3],
   [funcs |-> <<EvenOdd(3, 2).main, EvenOdd(3, 2).fns[2], EvenOdd(3, 2).fns[1]>>, main |-> 1]}

(* Small functions that call each other, or themselves, and never return;  *)
(* main does not call them, or is small itself.                            *)
Endless ==
  {[funcs |-> <<Straight(<<0>>, 2, <<To(2, 1, <<Reg(0)>>)>>, Reg(1)),
                Straight(<<0>>, 2, <<To(1, 1, <<Reg(0)>>), To(1, 1, <<Reg(1)>>)>>, Reg(1)),
                Straight(<< >>, 1, << >>, Imm(1))>>, main |-> 3],
   [funcs |-> <<Straight(<<0>>, 2, <<To(1, 1, <<Reg(0)>>)>>, Reg(1)),
                Straight(<<0>>, 2, <<To(1, 1, <<Reg(0)>>)>>, Reg(1)),
                Straight(<< >>, 1, << >>, Imm(1))>>, main |-> 3],
   [funcs |-> <<Straight(<<0>>, 2, <<To(2, 1, << >>)>>, Reg(1)),
                Fn(<< >>, 2, <<Branch(<<Load(0, 0)>>, Reg(0), 1, 2),
                               Return(<< >>, Reg(0)), Return(<< >>, Imm(4))>>)>>, main |-> 2]}

(* int f() { return; } int main() { f(); return f(); }                     *)
Ungiven ==
  {[funcs |-> <<Fn(<< >>, 1, <<ReturnVoid(<<Store(0, Imm(3))>>)>>),
                Straight(<< >>, 1, is \o <<To(1, 0, << >>)>>, Reg(0))>>, main |-> 2] :
     is \in {<< >>, <<To(1, NoReg, << >>)>>}}

MCModules == Layered \cup Mutual \cup Endless \cup Ungiven
MCGlobals == {[v \in {0, 1} |-> IF v = 0 THEN n ELSE 2] : n \in 0 .. 3}
=============================================================================
