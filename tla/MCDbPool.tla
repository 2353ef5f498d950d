------------------------------ MODULE MCDbPool ------------------------------
(* DbPool for TLC: three threads compete for two handles. *)
EXTENDS DbPool

CONSTANTS c1, c2, c3, h1, h2

MCClient == {c1, c2, c3}
MCHandle == {h1, h2}
=============================================================================
