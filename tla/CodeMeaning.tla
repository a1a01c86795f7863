----------------------------- MODULE CodeMeaning -----------------------------
(***************************************************************************)
(* The emitted program against the meaning of the functions it was made    *)
(* from: the back end end to end, from IR functions to machine state.      *)
(***************************************************************************)
EXTENDS CodeRun, IRMeaning

Source(p) == [k \in DOMAIN Programs[p] |-> Programs[p][k].fn]

ReturnsValue(f) == \E b \in Blocks(f) : f.blocks[b].hasVal

(* When the first function has returned, a0 holds the value and the        *)
(* globals hold the contents that its IR denotes: blocks, branches, calls, *)
(* spills and frames of all activations together did what was meant.       *)
MeansIR ==
  pos = Halt =>
    LET meant == Meaning(Source(prog), 1, << >>, init)
    IN  /\ st.g = meant.g
        /\ ReturnsValue(Source(prog)[1]) => st.r[A0] = meant.val
=============================================================================
