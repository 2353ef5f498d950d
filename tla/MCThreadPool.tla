---------------------------- MODULE MCThreadPool ----------------------------
(* ThreadPool for TLC: two threads, two callers and three jobs, so that    *)
(* callers contend, wait on mIdleCond and overtake each other, and a       *)
(* thread is created, reused and shut down.                                *)
EXTENDS ThreadPool

CONSTANTS t1, t2, d1, d2, j1, j2, j3

MCThread     == {t1, t2}
MCDispatcher == {d1, d2}
MCJob        == {j1, j2, j3}
=============================================================================
