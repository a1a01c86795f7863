--------------------------------- MODULE IR ---------------------------------
(***************************************************************************)
(* The three-address intermediate representation of ir/IR.h: values,       *)
(* instructions, basic blocks and functions, and what the back end reads   *)
(* off them.  A function is a finite control-flow graph whose blocks hold  *)
(* sequences of instructions over the virtual registers 0..numVregs-1.     *)
(***************************************************************************)
EXTENDS Word, Sequences

NoReg == -1              \* the -1 the code stores where there is no register

Imm(n) == [tag |-> "imm", n |-> n]
Reg(v) == [tag |-> "reg", n |-> v]
IsReg(val) == val.tag = "reg"

Ops == BinaryOps \cup UnaryOps \cup {"LoadGlobal", "StoreGlobal", "Call"}

(* One constructor per shape of instruction; fields a shape does not use   *)
(* keep the defaults of struct Inst.                                       *)
Plain == [op |-> "Mv", dst |-> NoReg, a |-> Imm(0), b |-> Imm(0),
          args |-> << >>, callee |-> 0, gid |-> 0, magic |-> NoReg,
          unsignedDiv |-> FALSE]
Binary(op, d, x, y) == [Plain EXCEPT !.op = op, !.dst = d, !.a = x, !.b = y]
Unary(op, d, x)     == [Plain EXCEPT !.op = op, !.dst = d, !.a = x]
Load(d, g)          == [Plain EXCEPT !.op = "LoadGlobal", !.dst = d, !.gid = g]
Store(g, x)         == [Plain EXCEPT !.op = "StoreGlobal", !.gid = g, !.a = x]
Call(d, xs)         == [Plain EXCEPT !.op = "Call", !.dst = d, !.args = xs]

Open == [insts |-> << >>, term |-> "None", cond |-> Imm(0),
         succ0 |-> NoReg, succ1 |-> NoReg, hasVal |-> FALSE, ret |-> Imm(0)]
Jump(is, t)         == [Open EXCEPT !.insts = is, !.term = "Jmp", !.succ0 = t]
Branch(is, c, t, e) == [Open EXCEPT !.insts = is, !.term = "Br", !.cond = c,
                                    !.succ0 = t, !.succ1 = e]
Return(is, x)       == [Open EXCEPT !.insts = is, !.term = "Ret",
                                    !.hasVal = TRUE, !.ret = x]
ReturnVoid(is)      == [Open EXCEPT !.insts = is, !.term = "Ret"]

Vregs(f)  == 0 .. f.numVregs - 1
Blocks(f) == 0 .. f.nb - 1

Succs(bb) == CASE bb.term = "Jmp" -> {bb.succ0}
               [] bb.term = "Br"  -> {bb.succ0, bb.succ1}
               [] OTHER           -> {}

-----------------------------------------------------------------------------
(* What an instruction and a terminator read and write.                    *)

OperandRegs(val) == IF IsReg(val) THEN {val.n} ELSE {}

OpUses(in) ==
  CASE in.op \in UnaryOps \cup {"StoreGlobal"} -> OperandRegs(in.a)
    [] in.op = "LoadGlobal" -> {}
    [] in.op = "Call" -> UNION {OperandRegs(in.args[k]) : k \in DOMAIN in.args}
    [] OTHER -> OperandRegs(in.a) \cup OperandRegs(in.b)

MagicUses(in) == IF in.magic = NoReg THEN {} ELSE {in.magic}

InstUses(in) == OpUses(in) \cup MagicUses(in)

TermUses(bb) ==
  CASE bb.term = "Br" -> OperandRegs(bb.cond)
    [] bb.term = "Ret" /\ bb.hasVal -> OperandRegs(bb.ret)
    [] OTHER -> {}

IsMove(in) == in.op = "Mv" /\ IsReg(in.a)

(* Block bb reads v before any write to it; bb writes v.                   *)
ReadsFirst(bb, v) ==
  \/ \E m \in DOMAIN bb.insts :
        /\ v \in InstUses(bb.insts[m])
        /\ \A j \in 1 .. m - 1 : bb.insts[j].dst # v
  \/ /\ v \in TermUses(bb)
     /\ \A j \in DOMAIN bb.insts : bb.insts[j].dst # v

Writes(bb, v) == \E m \in DOMAIN bb.insts : bb.insts[m].dst = v

(* No path that starts in D reads v before it writes it: no block of D     *)
(* does, and control leaves D only through blocks that write v.  This is   *)
(* what it means to be dead, with no iteration in it.                      *)
DeadSet(f, v, D) ==
  \A k \in D : /\ ~ReadsFirst(f.blocks[k], v)
               /\ Writes(f.blocks[k], v) \/ Succs(f.blocks[k]) \subseteq D

DeadInto(f, v, k) == \E D \in SUBSET Blocks(f) : k \in D /\ DeadSet(f, v, D)

(* The blocks control can reach from the entry before any block on the way *)
(* has written v: the smallest set that can show v dead into block 0.      *)
Unwritten(f, v) ==
  LET reach[n \in Nat] ==
        IF n = 0 THEN {0}
        ELSE LET near == reach[n - 1]
                 open == {k \in near : ~Writes(f.blocks[k], v)}
             IN  near \cup UNION {Succs(f.blocks[k]) : k \in open}
  IN  reach[f.nb]

-----------------------------------------------------------------------------
(* The functions the passes are given.                                     *)

Vals(vs) == [tag : {"imm"}, n : Words] \cup [tag : {"reg"}, n : vs]

Insts(vs) == [op : Ops, dst : vs \cup {NoReg}, a : Vals(vs), b : Vals(vs),
              args : Seq(Vals(vs)), callee : Nat, gid : Nat, magic : vs \cup {NoReg},
              unsignedDiv : BOOLEAN]

BasicBlocks(vs) == [insts : Seq(Insts(vs)), term : {"None", "Jmp", "Br", "Ret"},
                    cond : Vals(vs), succ0 : Int, succ1 : Int,
                    hasVal : BOOLEAN, ret : Vals(vs)]

IsIRFunc(f) ==
  /\ DOMAIN f = {"numVregs", "params", "nb", "blocks"}
  /\ f.numVregs \in Nat
  /\ f.nb \in Nat \ {0}
  /\ f.params \in Seq(Vregs(f))
  /\ f.blocks \in [Blocks(f) -> BasicBlocks(Vregs(f))]
  /\ \A b \in Blocks(f) :
       /\ Succs(f.blocks[b]) \subseteq Blocks(f)
       /\ \A i \in DOMAIN f.blocks[b].insts :
            LET in == f.blocks[b].insts[i]
            IN  /\ in.op \notin {"StoreGlobal", "Call"} => in.dst # NoReg
                /\ in.op = "StoreGlobal" => in.dst = NoReg
  /\ \A i, j \in DOMAIN f.params : f.params[i] = f.params[j] => i = j
=============================================================================
