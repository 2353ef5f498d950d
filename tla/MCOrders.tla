------------------------------ MODULE MCOrders -------------------------------
(* Orders for TLC: one user buys twice, a small plan and one too dear for  *)
(* a bonus; three reports.                                                 *)
EXTENDS Orders, TLC

CONSTANTS o1, o2, q1, q2, q3, alice, bob

MCOrder   == {o1, o2}
MCRequest == {q1, q2, q3}
MCUser    == {alice, bob}
MCBuyer   == o1 :> alice @@ o2 :> alice
MCPrice   == o1 :> 2 @@ o2 :> 5
MCRefer   == alice :> bob @@ bob :> Nobody

\* Reports are alike.
Symmetry == Permutations(MCRequest)
=============================================================================
