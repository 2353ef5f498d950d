---------------------------- MODULE MCGasServer -----------------------------
(* GasServer for TLC: three connections share two descriptors; a login and *)
(* a server list are handled at once and want the same database handle.    *)
EXTENDS GasServer, TLC

CONSTANTS c1, c2, c3, f1, f2, r1, r2, alice

MCConn  == {c1, c2, c3}
MCFd    == {f1, f2}
MCReq   == {r1, r2}
MCLogin == r1 :> alice @@ r2 :> None
=============================================================================
