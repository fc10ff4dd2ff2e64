----------------------------- MODULE MCMutationGate -----------------------------
(* MutationGate for TLC: three cases in two files; the sentinels of one    *)
(* overlap those of another.                                               *)
EXTENDS MutationGate

MCCases ==
  <<[path |-> "gates.py", sentinels |-> {"t1"}],
    [path |-> "gates.py", sentinels |-> {"t1", "t2"}],
    [path |-> "fsm.py",   sentinels |-> {"t2"}]>>
MCTests == {"t1", "t2"}

(* The second replacement contains its own anchor, and the first replaces  *)
(* the second's, too; so does a cut with the third's.                      *)
MCHides == {<<1, 1>>, <<1, 2>>, <<3, 3>>, <<Cut, 3>>}
=============================================================================
