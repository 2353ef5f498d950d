----------------------------- MODULE MCAsyncDll -----------------------------
(* AsyncDll for TLC: two threads that send, one that calls back, and more  *)
(* messages than the queues have room for.                                 *)
EXTENDS AsyncDll

CONSTANTS s1, s2, d1

MCSender    == {s1, s2}
MCDllThread == {d1}
MCMaxMsg    == [send |-> 3, msg |-> 2]
=============================================================================
