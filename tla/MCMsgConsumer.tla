--------------------------- MODULE MCMsgConsumer ----------------------------
(* MsgConsumer for TLC: four messages, more than there are items, and two  *)
(* pool threads.                                                           *)
EXTENDS MsgConsumer, TLC

CONSTANTS m1, m2, m3, m4, i1, i2, i3

MCMsg  == {m1, m2, m3, m4}
MCItem == {i1, i2, i3}

\* Messages and items are only ever compared.
Symmetry == Permutations(MCMsg) \cup Permutations(MCItem)
=============================================================================
