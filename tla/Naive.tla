-------------------------------- MODULE Naive --------------------------------
(***************************************************************************)
(* codegen/CodeGen.cpp, the baseline back end that TOYC_NAIVE selects:     *)
(* every vreg has a slot in the frame, an instruction loads its operands   *)
(* into t0 and t1 and stores its result.  t6 is the address scratch.       *)
(***************************************************************************)
EXTENDS Codegen

(* The allocation of a unit that this back end is given.                   *)
NoAllocation == [reg |-> << >>, spillSlot |-> << >>, numSpills |-> -1, usedCallee |-> << >>,
                 isLeaf |-> FALSE]

T0 == 5
T1 == 6

(* The frame: outgoing arguments, a slot for each vreg, ra.                *)
NaiveFrame_NoArgs(f) ==                     \* mutant: no area for outgoing arguments
  [outArgArea |-> 0, raOff |-> f.numVregs, frameSize |-> Align(f.numVregs + 1)]

NaiveFrame(f) ==
  LET out == F!Max({0} \cup {Len(in.args) - 8 : in \in Calls(f)})
      raOff == out + f.numVregs
  IN  [outArgArea |-> out, raOff |-> raOff, frameSize |-> Align(raOff + 1)]

SlotOff(f, v) == NaiveFrame(f).outArgArea + v

(* lw or sw at an offset from sp.                                          *)
Access(op, r, off) ==
  IF Fits(off) THEN <<RRI(op, r, SP, off)>>
  ELSE <<LI(T6, off), RRR("add", T6, SP, T6), RRI(op, r, T6, 0)>>

LoadVal(f, val, r) == IF IsReg(val) THEN Access("lw", r, SlotOff(f, val.n)) ELSE <<LI(r, val.n)>>
StoreSlot(f, r, v) == Access("sw", r, SlotOff(f, v))

-----------------------------------------------------------------------------
(* emitBinary: on t0 and t1, the result in t0.                             *)
Arithmetic == [Add |-> "add", Sub |-> "sub", Mul |-> "mul", Div |-> "div", Mod |-> "rem"]

Zero(op) == <<RR(op, T0, T0)>>
Less(x, y) == <<RRR("slt", T0, x, y)>>

OnScratch(op) ==
  CASE op \in DOMAIN Arithmetic -> <<RRR(Arithmetic[op], T0, T0, T1)>>
    [] op = "Lt" -> Less(T0, T1)
    [] op = "Gt" -> Less(T1, T0)
    [] op = "Le" -> Less(T1, T0) \o Zero("flip")
    [] op = "Ge" -> Less(T0, T1) \o Zero("flip")
    [] op = "Eq" -> <<RRR("sub", T0, T0, T1)>> \o Zero("seqz")
    [] op = "Ne" -> <<RRR("sub", T0, T0, T1)>> \o Zero("snez")

(* emitCall.                                                               *)
NaiveCall(f, in) ==
  LET n == Len(in.args)
      stacked == IF n > 8 THEN n - 8 ELSE 0
      push(k) == LoadVal(f, in.args[n + 1 - k], T0) \o Access("sw", T0, n - k - 8)
  IN  Concat([k \in 1 .. stacked |-> push(k)])
        \o Concat([k \in 1 .. n - stacked |-> LoadVal(f, in.args[k], A0 + k - 1)])
        \o <<RRI("call", ZERO, ZERO, in.callee)>>
        \o (IF in.dst = NoReg THEN << >> ELSE StoreSlot(f, A0, in.dst))

NaiveInst(f, in) ==
  LET done == StoreSlot(f, T0, in.dst)
      load == LoadVal(f, in.a, T0)
  IN  CASE in.op = "Mv"  -> load \o done
        [] in.op = "Neg" -> load \o Zero("neg") \o done
        [] in.op = "Not" -> load \o Zero("seqz") \o done
        [] in.op = "LoadGlobal"  -> <<RRI("lwg", T0, ZERO, in.gid)>> \o done
        [] in.op = "StoreGlobal" -> load \o <<RRI("swg", T0, T1, in.gid)>>
        [] in.op = "Call" -> NaiveCall(f, in)
        [] in.op \in BinaryOps ->
             load \o LoadVal(f, in.b, T1) \o OnScratch(in.op) \o done

-----------------------------------------------------------------------------
(* emitFunc, emitBlock, emitTerm, emitEpilogue.  A frame has at least the  *)
(* word for ra.                                                            *)
NaiveParam(f, i) ==
  LET v == f.params[i + 1]
  IN  IF i < 8 THEN StoreSlot(f, A0 + i, v)
      ELSE Access("lw", T0, NaiveFrame(f).frameSize + i - 8) \o StoreSlot(f, T0, v)

NaiveEntry(f) ==
  Descend(NaiveFrame(f).frameSize) \o Access("sw", RA, NaiveFrame(f).raOff)
    \o Concat([k \in DOMAIN f.params |-> NaiveParam(f, k - 1)])

NaiveEpilogue(f) ==
  Access("lw", RA, NaiveFrame(f).raOff) \o Ascend(NaiveFrame(f).frameSize) \o <<RR("ret", ZERO, RA)>>

NaiveTerm(u, bb) ==
  CASE bb.term = "Jmp" -> J(u, bb.succ0)
    [] bb.term = "Br"  -> LoadVal(u.fn, bb.cond, T0) \o <<Goto("bne", T0, ZERO, u, bb.succ0)>>
                            \o J(u, bb.succ1)
    [] OTHER -> (IF bb.hasVal THEN LoadVal(u.fn, bb.ret, A0) ELSE << >>) \o NaiveEpilogue(u.fn)

NaiveBlock(u, b) ==
  LET bb == u.fn.blocks[b]
  IN  <<RRI("label", ZERO, ZERO, LabelOf(u, b))>>
        \o Concat([k \in DOMAIN bb.insts |-> NaiveInst(u.fn, bb.insts[k])])
        \o NaiveTerm(u, bb)

NaiveFunc(u) ==
  <<RRI("func", ZERO, ZERO, u.id)>> \o NaiveEntry(u.fn)
    \o Concat([k \in 1 .. u.fn.nb |-> NaiveBlock(u, k - 1)])
=============================================================================
