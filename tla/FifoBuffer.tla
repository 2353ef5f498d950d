----------------------------- MODULE FifoBuffer -----------------------------
(***************************************************************************)
(* What a consumer pool promises the event loop and the consumer thread    *)
(* (msg_pool_producer()/msg_pool_consumer() of Server/Lib/lib-msgpool.c):  *)
(* an unbounded first-in first-out buffer that never invents, repeats or   *)
(* loses a message.                                                        *)
(***************************************************************************)
EXTENDS Sequences

CONSTANT Msg

VARIABLES buf,    \* the messages waiting for the consumer
          seen    \* every message ever put

FifoInit == buf = <<>> /\ seen = {}

Put(m) == /\ m \notin seen
          /\ buf'  = Append(buf, m)
          /\ seen' = seen \cup {m}

Take == /\ buf # <<>>
        /\ buf' = Tail(buf)
        /\ UNCHANGED seen

FifoSpec == FifoInit /\ [][Take \/ \E m \in Msg : Put(m)]_<<buf, seen>>
=============================================================================
