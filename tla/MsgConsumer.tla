---------------------------- MODULE MsgConsumer -----------------------------
(***************************************************************************)
(* The message path of gas: Server/Lib/lib-msgpool.c, lib-msg-consumer.c   *)
(* and the threads gas-main.c and gas-user-msg.c start over them.          *)
(*                                                                         *)
(* The event loop (main thread) receives a message, takes an item from the *)
(* cache pool, copies the message into it and appends it to the consumer   *)
(* pool.  The high priority thread initialises both pools, then takes the  *)
(* items in order and hands each to the thread pool, of which only what    *)
(* WorkerPool states is used.  A pool thread runs the handler on the item  *)
(* and puts the item back into the cache.                                  *)
(*                                                                         *)
(* Each pool has one mutex and no section takes two, so a section under a  *)
(* mutex is one step.                                                      *)
(***************************************************************************)
EXTENDS Integers, Sequences, FiniteSets

CONSTANTS Msg,             \* the messages clients send, each once
          Item,            \* the addresses malloc may return for a msg_item_t
          Nothing,         \* no item, no message
          CacheCount,      \* items msg_pool_init() puts into the cache (100)
          MaxCount,        \* MSG_POOL_MAX_COUNT
          MaxThreads,      \* threads of the high priority pool
          UIntMax,         \* the largest UInt32
          SpuriousWakeup,  \* may pthread_cond_wait return unsignalled?
          EarlyClients     \* may a message come before mc_start()?

ASSUME ConsumerAssumption ==
  /\ CacheCount \in Nat \ {0} /\ MaxCount \in Nat /\ CacheCount <= MaxCount
  /\ MaxThreads \in Nat \ {0}
  /\ IsFiniteSet(Item) /\ Cardinality(Item) >= MaxCount
  /\ Nothing \notin Item \cup Msg
  /\ UIntMax \in Nat /\ MaxCount < UIntMax
  /\ SpuriousWakeup \in BOOLEAN /\ EarlyClients \in BOOLEAN

VARIABLES
  cache,      \* msg_pool_t pool_cache: type, count, limit and msg_list
  queue,      \* msg_pool_t pool_consumer
  heap,       \* the items malloc'ed so far
  content,    \* [Item -> the message copied into it]
  evpc,       \* where the event loop is
  evItem,     \* the item it holds
  cpc,        \* where the high priority thread is
  cItem,      \* the item it holds
  running,    \* messages whose job holds a slot of the thread pool
  returned,   \* jobs among them that have returned
  served,     \* jobs among them whose handler is through
  workItem,   \* [Msg -> the item its job was given]
  fate        \* history: what became of each message

evVars   == <<evpc, evItem>>
conVars  == <<cpc, cItem>>
workVars == <<running, returned, served, workItem>>
vars     == <<cache, queue, heap, content, evVars, conVars, workVars, fate>>

BootPc == {"bootCache", "bootCacheCount", "bootQueue", "bootQueueCount"}
ConPc  == BootPc \cup {"take", "wait", "signalled", "dispatch", "corrupt"}
Fate   == {"unsent", "held", "discarded", "leaked", "accepted", "dropped",
           "handled"}

WP == INSTANCE WorkerPool WITH Job <- Msg

NoPool == [type |-> "NONE", count |-> 0, limit |-> 0, list |-> <<>>]

(* ras_msg_pool_init(): cleared memory. *)
Init ==
  /\ cache = NoPool /\ queue = NoPool
  /\ heap = {}
  /\ content = [i \in Item |-> Nothing]
  /\ evpc = "poll" /\ evItem = Nothing
  /\ cpc = "bootCache" /\ cItem = Nothing
  /\ WP!PoolInit /\ served = {}
  /\ workItem = [m \in Msg |-> Nothing]
  /\ fate = [m \in Msg |-> "unsent"]

(* count-- on a UInt32. *)
Decrement(n) == IF n = 0 THEN UIntMax ELSE n - 1

(* What taking the first item leaves of a pool.  With an empty list the    *)
(* list head itself is unlinked and returned as an item.                   *)
Without1st(p) == [p EXCEPT !.count = Decrement(@),
                           !.list  = IF @ = <<>> THEN @ ELSE Tail(@)]

-----------------------------------------------------------------------------
(* ras_user_high_priority_thread(): mc_multi_thread_init() and mc_start(). *)

(* msg_pool_init() of the cache: the items, then the type ... *)
BootCache ==
  /\ cpc = "bootCache"
  /\ \E list \in [1..CacheCount -> Item] :
       /\ \A k, l \in 1..CacheCount : list[k] = list[l] => k = l
       /\ cache' = [cache EXCEPT !.type = "CACHE", !.count = CacheCount, !.list = list]
       /\ heap' = {list[k] : k \in 1..CacheCount}
  /\ cpc' = "bootCacheCount"
  /\ UNCHANGED <<queue, content, evVars, cItem, workVars, fate>>

(* ... then count and limit. *)
BootCacheCount ==
  /\ cpc = "bootCacheCount"
  /\ cache' = [cache EXCEPT !.count = CacheCount, !.limit = CacheCount]
  /\ cpc' = "bootQueue"
  /\ UNCHANGED <<queue, heap, content, evVars, cItem, workVars, fate>>

BootQueue ==
  /\ cpc = "bootQueue"
  /\ queue' = [queue EXCEPT !.type = "CONSUMER_PRODUCER", !.list = <<>>]
  /\ cpc' = "bootQueueCount"
  /\ UNCHANGED <<cache, heap, content, evVars, cItem, workVars, fate>>

BootQueueCount ==
  /\ cpc = "bootQueueCount"
  /\ queue' = [queue EXCEPT !.count = 0, !.limit = 0]
  /\ cpc' = "take"
  /\ UNCHANGED <<cache, heap, content, evVars, cItem, workVars, fate>>

-----------------------------------------------------------------------------
(* The event loop: ras_user_msg_recv() after lib_recv_msg(). *)

MayArrive(m) == evpc = "poll" /\ fate[m] = "unsent" /\ (EarlyClients \/ cpc \notin BootPc)

Hold(m, i) ==
  /\ content' = [content EXCEPT ![i] = m]
  /\ evItem'  = i
  /\ evpc'    = "put"
  /\ fate'    = [fate EXCEPT ![m] = "held"]

(* msg_pool_get(): the first item of the cache. *)
GetCached(m) ==
  /\ MayArrive(m)
  /\ cache.type = "CACHE" /\ cache.count > 0
  /\ cache' = Without1st(cache)
  /\ IF cache.list = <<>>
     THEN evpc' = "corrupt" /\ UNCHANGED <<content, evItem, fate>>
     ELSE Hold(m, Head(cache.list))
  /\ UNCHANGED <<queue, heap, conVars, workVars>>

(* Seeded fault: the limit is tested after the item was counted. *)
GetNewUnlimited(m) ==
  /\ MayArrive(m)
  /\ cache.type = "CACHE" /\ cache.count = 0
  /\ \E i \in Item \ heap : heap' = heap \cup {i} /\ Hold(m, i)
  /\ UNCHANGED <<cache, queue, conVars, workVars>>

(* msg_pool_get() with an empty cache: malloc, below the limit. *)
GetNew(m) ==
  /\ MayArrive(m)
  /\ cache.type = "CACHE" /\ cache.count = 0 /\ cache.limit < MaxCount
  /\ \E i \in Item \ heap : heap' = heap \cup {i} /\ Hold(m, i)
  /\ cache' = [cache EXCEPT !.limit = @ + 1]
  /\ UNCHANGED <<queue, conVars, workVars>>

(* No item: the pool is not set up, at its limit, or malloc failed.  The   *)
(* message is discarded and the socket kept.                               *)
Discard(m) ==
  /\ MayArrive(m)
  /\ cache.type # "CACHE" \/ cache.count = 0
  /\ fate' = [fate EXCEPT ![m] = "discarded"]
  /\ UNCHANGED <<cache, queue, heap, content, evVars, conVars, workVars>>

(* The consumer pool with item i behind the others. *)
Appended(i) == [queue EXCEPT !.list = Append(@, i), !.count = @ + 1]

(* Seeded fault: only an item that finds others is announced. *)
ProducerRunSilent ==
  /\ evpc = "put" /\ queue.type = "CONSUMER_PRODUCER"
  /\ queue' = Appended(evItem)
  /\ fate'  = [fate EXCEPT ![content[evItem]] = "accepted"]
  /\ cpc'   = IF queue.count > 0 /\ cpc = "wait" THEN "signalled" ELSE cpc
  /\ evpc' = "poll" /\ evItem' = Nothing
  /\ UNCHANGED <<cache, heap, content, cItem, workVars>>

(* Seeded fault: the item is put to the head, as into the cache. *)
ProducerRunAtHead ==
  /\ evpc = "put" /\ queue.type = "CONSUMER_PRODUCER"
  /\ queue' = [queue EXCEPT !.list = <<evItem>> \o @, !.count = @ + 1]
  /\ fate'  = [fate EXCEPT ![content[evItem]] = "accepted"]
  /\ cpc'   = IF queue.count = 0 /\ cpc = "wait" THEN "signalled" ELSE cpc
  /\ evpc' = "poll" /\ evItem' = Nothing
  /\ UNCHANGED <<cache, heap, content, cItem, workVars>>

(* mc_producer_run(): msg_pool_producer() appends the item and signals the *)
(* consumer when it is the only one.  A pool that is not set up yet takes  *)
(* nothing, and nobody frees the item.                                     *)
ProducerRun ==
  /\ evpc = "put"
  /\ IF queue.type = "CONSUMER_PRODUCER"
     THEN /\ queue' = Appended(evItem)
          /\ fate'  = [fate EXCEPT ![content[evItem]] = "accepted"]
          /\ cpc'   = IF queue.count + 1 = 1 /\ cpc = "wait" THEN "signalled" ELSE cpc
     ELSE /\ fate' = [fate EXCEPT ![content[evItem]] = "leaked"]
          /\ UNCHANGED <<queue, cpc>>
  /\ evpc' = "poll" /\ evItem' = Nothing
  /\ UNCHANGED <<cache, heap, content, cItem, workVars>>

-----------------------------------------------------------------------------
(* The high priority thread: mc_consumer_run_with_tp(). *)

(* msg_pool_consumer(): nothing there, wait on the condition. *)
ConsumerWait ==
  /\ cpc = "take" /\ queue.count = 0
  /\ cpc' = "wait"
  /\ UNCHANGED <<cache, queue, heap, content, evVars, cItem, workVars, fate>>

(* Seeded fault: the item taken is not counted off. *)
ConsumerTakeUncounted ==
  /\ (cpc = "take" /\ queue.count # 0) \/ cpc = "signalled"
  /\ IF queue.list = <<>> THEN cpc' = "corrupt" /\ UNCHANGED <<cItem, queue>>
     ELSE /\ cItem' = Head(queue.list) /\ cpc' = "dispatch"
          /\ queue' = [queue EXCEPT !.list = Tail(@)]
  /\ UNCHANGED <<cache, heap, content, evVars, workVars, fate>>

(* The first item is taken.  count is tested before the wait and not after *)
(* it: who returns from the wait takes what the list begins with.          *)
ConsumerTake ==
  /\ \/ cpc = "take" /\ queue.count # 0
     \/ cpc \in {"signalled"} \cup (IF SpuriousWakeup THEN {"wait"} ELSE {})
  /\ queue' = Without1st(queue)
  /\ IF queue.list = <<>>
     THEN cpc' = "corrupt" /\ UNCHANGED cItem
     ELSE cpc' = "dispatch" /\ cItem' = Head(queue.list)
  /\ UNCHANGED <<cache, heap, content, evVars, workVars, fate>>

(* Seeded fault: the item goes back to the cache as soon as it is handed   *)
(* over.                                                                   *)
DispatchAndPut ==
  LET m == content[cItem] IN
  /\ cpc = "dispatch"
  /\ WP!Start(m)
  /\ workItem' = [workItem EXCEPT ![m] = cItem]
  /\ cache' = [cache EXCEPT !.list = <<cItem>> \o @, !.count = @ + 1]
  /\ cpc' = "take" /\ cItem' = Nothing
  /\ UNCHANGED <<queue, heap, content, evVars, served, fate>>

(* thread_dispatch_with_tp(): blocks while the pool has no free slot. *)
Dispatch ==
  LET m == content[cItem] IN
  /\ cpc = "dispatch"
  /\ WP!Start(m)
  /\ workItem' = [workItem EXCEPT ![m] = cItem]
  /\ cpc' = "take" /\ cItem' = Nothing
  /\ UNCHANGED <<cache, queue, heap, content, evVars, served, fate>>

(* The pool needed a new thread and could not create it.  The value        *)
(* returned is ignored: message and item are gone.                         *)
DispatchFails ==
  /\ cpc = "dispatch"
  /\ Cardinality(running) < MaxThreads
  /\ fate' = [fate EXCEPT ![content[cItem]] = "dropped"]
  /\ cpc' = "take" /\ cItem' = Nothing
  /\ UNCHANGED <<cache, queue, heap, content, evVars, workVars>>

-----------------------------------------------------------------------------
(* A thread of the pool: mc_consumer_thread_wrapper(). *)

(* consumer_fun(): ras_user_msg_handle() answers what the item holds now. *)
Handle(m) ==
  LET x == content[workItem[m]] IN
  /\ m \in running \ served
  /\ served' = served \cup {m}
  /\ fate' = [fate EXCEPT ![x] = "handled"]
  /\ UNCHANGED <<cache, queue, heap, content, evVars, conVars, running, returned, workItem>>

(* Seeded fault: the item is not given back. *)
PutToCacheForgotten(m) ==
  /\ m \in served
  /\ WP!Returns(m)
  /\ UNCHANGED <<cache, queue, heap, content, evVars, conVars, served, workItem, fate>>

(* Seeded fault: limit is counted up instead of count. *)
PutToCacheLimit(m) ==
  /\ m \in served
  /\ WP!Returns(m)
  /\ cache' = [cache EXCEPT !.list = <<workItem[m]>> \o @, !.limit = @ + 1]
  /\ UNCHANGED <<queue, heap, content, evVars, conVars, served, workItem, fate>>

(* mc_put_msg_to_cache(): msg_pool_put() puts the item first. *)
PutToCache(m) ==
  /\ m \in served
  /\ WP!Returns(m)
  /\ cache' = [cache EXCEPT !.list = <<workItem[m]>> \o @, !.count = @ + 1]
  /\ UNCHANGED <<queue, heap, content, evVars, conVars, served, workItem, fate>>

(* The thread is reclaimed by its pool. *)
Reclaimed(m) ==
  /\ WP!Finish(m)
  /\ served' = served \ {m}
  /\ UNCHANGED <<cache, queue, heap, content, evVars, conVars, workItem, fate>>

-----------------------------------------------------------------------------
Boot     == BootCache \/ BootCacheCount \/ BootQueue \/ BootQueueCount
Consumer == Boot \/ ConsumerWait \/ ConsumerTake \/ Dispatch \/ DispatchFails
Worker(m) == Handle(m) \/ PutToCache(m) \/ Reclaimed(m)

Next ==
  \/ \E m \in Msg : GetCached(m) \/ GetNew(m) \/ Discard(m)
  \/ ProducerRun
  \/ Consumer
  \/ \E m \in Msg : Worker(m)

(* The three threads run on; clients need not send.  A handler returns: it *)
(* makes a bounded number of database calls and sends one reply.           *)
Fairness ==
  /\ WF_vars(ProducerRun)
  /\ WF_vars(Consumer)
  /\ \A m \in Msg : WF_vars(Worker(m))

Spec     == Init /\ [][Next]_vars
FairSpec == Spec /\ Fairness
-----------------------------------------------------------------------------
(* Where an item is: once in a list for each position it has there, or in  *)
(* the hands of the event loop, of the consumer or of a job.               *)
Places(i) ==
  {<<"cache", k>> : k \in {k \in DOMAIN cache.list : cache.list[k] = i}}
  \cup {<<"queue", k>> : k \in {k \in DOMAIN queue.list : queue.list[k] = i}}
  \cup {<<"job", m>> : m \in {m \in running \ returned : workItem[m] = i}}
  \cup (IF evItem = i THEN {<<"event loop", 0>>} ELSE {})
  \cup (IF cItem = i THEN {<<"consumer", 0>>} ELSE {})

(* The messages the consumer pool was given. *)
Accepted == {m \in Msg : fate[m] \in {"accepted", "dropped", "handled"}}

FB == INSTANCE FifoBuffer WITH
        buf  <- [k \in DOMAIN queue.list |-> content[queue.list[k]]],
        seen <- Accepted

(* The types of the variables. *)
TypeOK ==
  /\ \A p \in {cache, queue} :
       /\ p.type \in {"NONE", "CACHE", "CONSUMER_PRODUCER"}
       /\ p.count \in 0..UIntMax /\ p.limit \in 0..MaxCount
       /\ p.list \in Seq(Item)
  /\ heap \subseteq Item
  /\ content \in [Item -> Msg \cup {Nothing}]
  /\ evpc \in {"poll", "put", "corrupt"} /\ evItem \in Item \cup {Nothing}
  /\ cpc \in ConPc /\ cItem \in Item \cup {Nothing}
  /\ returned \subseteq running /\ running \subseteq Msg /\ served \subseteq running
  /\ workItem \in [Msg -> Item \cup {Nothing}]
  /\ fate \in [Msg -> Fate]

(* count is the number of items in the list: "pool current items", as      *)
(* lib-msgpool.h says.  The guards on count, not on the list, decide       *)
(* whether a first item is taken at all.                                   *)
CountsExact ==
  cpc \notin BootPc =>
    cache.count = Len(cache.list) /\ queue.count = Len(queue.list)

(* No item is in two lists or hands at once, limit counts the items, and   *)
(* the items in no place are those whose message could not be dispatched.  *)
ItemsConserved ==
  cpc \notin BootPc =>
    /\ cache.limit = Cardinality(heap) /\ Cardinality(heap) <= MaxCount
    /\ \A i \in heap : Cardinality(Places(i)) <= 1
    /\ Cardinality({i \in heap : Places(i) = {}})
         = Cardinality({m \in Msg : fate[m] = "dropped"})

(* Nobody ever takes the head of an empty list for an item (the lists'     *)
(* NULL checks cannot tell: the head is linked to itself).                 *)
NeverTakesListHead == cpc # "corrupt" /\ evpc # "corrupt"

(* The consumer does not sleep over a message: a producer only signals     *)
(* when the count becomes 1, so nothing may be left when it goes to wait.  *)
NoLostWakeup == cpc = "wait" => queue.list = <<>>

(* A job's item still holds the job's message: the event loop does not     *)
(* get the item back and copy another message into it before the handler   *)
(* has answered.                                                           *)
JobKeepsItsMessage == \A m \in running \ returned : content[workItem[m]] = m

(* A message that was put into the consumer pool is handled, or dropped    *)
(* because the thread pool could not create a thread for it.               *)
AcceptedIsHandled ==
  \A m \in Msg : (fate[m] = "accepted") ~> (fate[m] \in {"dropped", "handled"})

(* The consumer gets the messages in the order the event loop put them,    *)
(* each once.                                                              *)
ImplementsFifo == FB!FifoSpec
=============================================================================
