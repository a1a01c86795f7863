----------------------------- MODULE MCOptimize -----------------------------
(***************************************************************************)
(* Functions in which every vreg has one definition, in shapes the         *)
(* generator makes: straight lines, a branch, a loop over a global; each   *)
(* is a module of its own.  The modules in which something is inlined are  *)
(* those of MCInline.                                                      *)
(***************************************************************************)
EXTENDS Optimizer, MCInline, TLC

Made(n, bs) == [numVregs |-> n, params |-> <<0>>, nb |-> Len(bs),
                blocks |-> [k \in 0 .. Len(bs) - 1 |-> bs[k + 1]]]

x == Reg(0)
Again(d) == [Call(d, <<x>>) EXCEPT !.callee = 1]

(* Straight lines: an instruction that defines 1, one that defines 2, one  *)
(* that defines 3, a return.                                               *)
First == {Unary("Mv", 1, Imm(3)), Unary("Mv", 1, x), Unary("Neg", 1, x), Load(1, 0),
          Binary("Add", 1, x, Imm(0)), Binary("Eq", 1, Imm(2), x)}

Second(d) ==
  {Unary("Mv", d, Reg(1)), Unary("Neg", d, Reg(1)), Unary("Neg", d, x), Load(d, 0), Again(d),
   Store(0, x), Binary("Sub", d, Imm(0), Reg(1)), Binary("Mul", d, Reg(1), Imm(-1)),
   Binary("Sub", d, Reg(1), Reg(1)), Binary("Div", d, Reg(1), Imm(1)),
   Binary("Add", d, Reg(1), Imm(2)), Binary("Lt", d, Imm(2), Imm(3))}

Third ==
  {Unary("Neg", 3, Reg(2)), Unary("Not", 3, Reg(2)), Load(3, 0), Store(0, Reg(2)),
   Binary("Add", 3, Reg(1), Reg(2)), Binary("Mod", 3, Reg(2), Imm(5)),
   Binary("Add", 3, Reg(1), Imm(2)), Binary("Div", 3, Reg(2), Reg(2)),
   Binary("Eq", 3, Imm(2), x), Binary("Mul", 3, Reg(2), Imm(0))}

Lines == {Made(4, <<Return(<<a, b, c>>, r)>>) :
            a \in First, b \in Second(2), c \in Third, r \in {Reg(3)}}

(* The same global read twice, with something in between.                  *)
Rereads == {Made(5, <<Return(<<Load(1, 0), b, Load(3, 0), Binary("Sub", 4, Reg(1), Reg(3))>>,
                             Reg(4))>>) : b \in Second(2)}

(* if (c) A else B, where c may turn out to be a constant.                 *)
Ifs == {Made(5, <<Branch(<<a, c>>, Reg(2), 1, 2), Jump(<<Store(0, Reg(1))>>, 3), e,
                  Return(<<r>>, Reg(4))>>) :
          a \in {Unary("Mv", 1, Imm(3)), Unary("Mv", 1, x), Load(1, 0)},
          c \in {Binary("Eq", 2, Reg(1), Imm(3)), Unary("Not", 2, Reg(1)), Unary("Mv", 2, Reg(1)),
                 Binary("Le", 2, x, x), Binary("Mul", 2, Reg(1), Imm(0))},
          e \in {Jump(<<Store(0, x), Unary("Neg", 3, Reg(1))>>, 3), Return(<<Again(3)>>, Reg(3))},
          r \in {Load(4, 0), Binary("Sub", 4, x, Reg(2)), Unary("Neg", 4, Reg(1))}}

(* while (g < c) { body } return value; c a constant or computed before.   *)
Entries == {<<Binary("Mul", 1, x, Imm(3)), Unary("Mv", 2, Imm(5))>>,
            <<Unary("Not", 1, x), Unary("Mv", 2, x)>>}

Heads == {<<Load(3, 0), Binary("Lt", 4, Reg(3), c)>> : c \in {Imm(9), Imm(-4), Reg(2)}}

Grow(v) == <<Binary("Add", 7, Reg(3), v), Store(0, Reg(7))>>

Inner ==
  {<<Binary("Add", 5, Reg(1), Reg(2)), Unary("Neg", 6, Reg(5))>>,
   <<Binary("Div", 5, Reg(3), Imm(5)), Binary("Mod", 6, Reg(5), Imm(5))>>,
   <<Binary("Div", 5, Reg(4), Imm(5)), Binary("Mod", 6, Reg(3), Imm(5)), Store(0, Reg(5))>>,
   <<Binary("Div", 5, Reg(1), Imm(-7)), Load(6, 0)>>,
   <<Unary("Mv", 5, Reg(3)), Binary("Ge", 6, Reg(5), Imm(7))>>,
   <<Unary("Mv", 5, Imm(12)), Again(6)>>}

Whiles ==
  {Made(9, <<e, Jump(i \o Grow(v), 2), Branch(h, Reg(4), 1, 3), Return(<<r>>, Reg(8))>>) :
     e \in {Jump(is, 2) : is \in Entries} \cup {Branch(is, Reg(1), 2, 3) : is \in Entries},
     h \in Heads, i \in Inner, v \in {Imm(2), Reg(6)},
     r \in {Binary("Div", 8, x, Imm(6)), Binary("Add", 8, Reg(2), Reg(1))}}

(* A loop left from within and one around it; a block nothing jumps to.    *)
Nested ==
  {Made(9, <<Jump(is, 1), Branch(h, Reg(4), 2, 5), Branch(<<Load(5, 0)>>, Reg(5), 3, 4),
             Branch(i, Reg(8), 2, 5), Jump(Grow(Imm(3)), 1), Return(<< >>, Reg(1)),
             Jump(<<Store(0, Reg(2))>>, t)>>) :
     is \in Entries, h \in Heads, t \in {1, 4},
     i \in {<<Binary("Mod", 6, Reg(5), Imm(3)), Store(0, Reg(6)), Binary("Gt", 8, Reg(1), Imm(6))>>,
            <<Binary("Sub", 6, Reg(1), Imm(6)), Store(0, Reg(2)), Again(8)>>}}

(* No vreg is read before it is written, as in all code of the generator.  *)
OneDefinition == {f \in Lines \cup Rereads \cup Ifs \cup Whiles \cup Nested : Initialised(f)}

Singles == {[funcs |-> <<f>>, main |-> 1] : f \in OneDefinition}
AllModules == MCModules \cup Singles

(* int y = x; x = 5; f(!!g); return y;                                     *)
Mishandled ==
  {Made(5, <<Return(<<Unary("Mv", 1, x), Unary("Mv", 0, Imm(5)), Load(2, 0),
                      Unary("Not", 3, Reg(2)), Unary("Not", 4, Reg(3)),
                      [Call(NoReg, <<Reg(4)>>) EXCEPT !.callee = 1]>>, Reg(1))>>)}

MishandledModules == {[funcs |-> <<f>>, main |-> 1] : f \in Mishandled}

MCEnvs == {[params |-> <<p, 3>>, g |-> (0 :> g @@ 1 :> 4), junk |-> 13,
            replies |-> <<[val |-> 6, g |-> (0 :> 2 @@ 1 :> 0)],
                          [val |-> -2, g |-> (0 :> 0 @@ 1 :> -1)]>>] :
             p \in {-16, -3, 0, 5}, g \in {1, -7}}
=============================================================================
