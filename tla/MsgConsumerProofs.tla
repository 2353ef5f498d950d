------------------------- MODULE MsgConsumerProofs --------------------------
(***************************************************************************)
(* Proofs about MsgConsumer, for any messages and items, any size of the   *)
(* pools and any number of threads, when no client comes before mc_start() *)
(* and pthread_cond_wait returns to a signal only.  Without the first a    *)
(* count is wrong for good, as the run msg_startup shows; without the      *)
(* second the consumer takes from an empty list.                           *)
(***************************************************************************)
EXTENDS MsgConsumer, FiniteSetTheorems, SequenceTheorems, TLAPS

Pool == [type : {"NONE", "CACHE", "CONSUMER_PRODUCER"}, count : Nat, limit : 0..MaxCount,
         list : Seq(Item)]

Types ==
  /\ cache \in Pool /\ queue \in Pool
  /\ heap \subseteq Item
  /\ content \in [Item -> Msg \cup {Nothing}]
  /\ evpc \in {"poll", "put"} /\ evItem \in Item \cup {Nothing}
  /\ cpc \in ConPc \ {"corrupt"} /\ cItem \in Item \cup {Nothing}
  /\ returned \subseteq running /\ running \subseteq Msg /\ served \subseteq running
  /\ workItem \in [Msg -> Item \cup {Nothing}]
  /\ fate \in [Msg -> Fate]

(* No message is under way until the pools are set up. *)
Booting ==
  /\ cpc \in BootPc => /\ evpc = "poll" /\ running = {} /\ queue.list = <<>>
                       /\ \A m \in Msg : fate[m] = "unsent"
  /\ cpc = "bootCache" => cache.list = <<>> /\ heap = {}
  /\ cpc = "bootCacheCount" => cache.count = CacheCount
  /\ cpc \notin BootPc \ {"bootQueueCount"} => queue.type = "CONSUMER_PRODUCER"

(* count is the length of the list, and limit bounds the items. *)
Counts ==
  /\ cache.count = Len(cache.list) /\ queue.count = Len(queue.list)
  /\ IsFiniteSet(heap)
  /\ Cardinality(heap) <= IF cpc = "bootCacheCount" THEN CacheCount ELSE cache.limit

(* A list has an item once, and none of another list or in somebody's      *)
(* hands.                                                                  *)
Apart ==
  /\ \A j, k \in 1..Len(cache.list) : cache.list[j] = cache.list[k] => j = k
  /\ \A j, k \in 1..Len(queue.list) : queue.list[j] = queue.list[k] => j = k
  /\ \A j \in 1..Len(cache.list), k \in 1..Len(queue.list) : cache.list[j] # queue.list[k]
  /\ \A k \in 1..Len(cache.list) : cache.list[k] \in heap \ {evItem, cItem}
  /\ \A k \in 1..Len(queue.list) : queue.list[k] \in heap \ {evItem, cItem}

Held ==
  /\ evItem # Nothing => evItem \in heap /\ evItem # cItem
  /\ cItem # Nothing => cItem \in heap
  /\ \A m \in running \ returned :
       /\ workItem[m] \in heap \ {evItem, cItem}
       /\ \A k \in 1..Len(cache.list) : cache.list[k] # workItem[m]
       /\ \A k \in 1..Len(queue.list) : queue.list[k] # workItem[m]

(* Which message each hand holds, and what became of it so far. *)
Messages ==
  /\ evpc = "put" <=> evItem # Nothing
  /\ evItem # Nothing => content[evItem] \in Msg /\ fate[content[evItem]] = "held"
  /\ cpc = "dispatch" <=> cItem # Nothing
  /\ cItem # Nothing => /\ content[cItem] \in Msg \ running
                        /\ fate[content[cItem]] = "accepted"
  /\ returned \subseteq served
  /\ \A m \in running : fate[m] \in {"accepted", "handled"}

(* The messages of the consumer pool are all different. *)
Queued ==
  /\ \A k \in 1..Len(queue.list) :
       /\ content[queue.list[k]] \in Msg \ running
       /\ fate[content[queue.list[k]]] = "accepted"
       /\ cItem # Nothing => content[queue.list[k]] # content[cItem]
  /\ \A j, k \in 1..Len(queue.list) :
       content[queue.list[j]] = content[queue.list[k]] => j = k

(* A producer signals when the list has become non-empty. *)
Wakeup ==
  /\ cpc = "wait" => queue.list = <<>>
  /\ cpc = "signalled" => queue.list # <<>>

Inv ==
  /\ Types /\ Booting /\ Counts /\ Apart /\ Held /\ Messages /\ Queued /\ Wakeup
  /\ JobKeepsItsMessage

-----------------------------------------------------------------------------
(* What the operators on lists return. *)

LEMMA TailIs ==
  ASSUME NEW S, NEW s \in Seq(S), s # <<>>
  PROVE  /\ Head(s) = s[1] /\ 1 \in 1..Len(s) /\ Head(s) \in S
         /\ Tail(s) \in Seq(S) /\ Len(Tail(s)) \in Nat /\ Len(s) = Len(Tail(s)) + 1
         /\ \A k \in 1..Len(Tail(s)) : k + 1 \in 1..Len(s) /\ Tail(s)[k] = s[k + 1]
OBVIOUS

LEMMA AppendIs ==
  ASSUME NEW S, NEW s \in Seq(S), NEW x \in S
  PROVE  /\ Append(s, x) \in Seq(S) /\ Len(s) \in Nat /\ Len(Append(s, x)) = Len(s) + 1
         /\ Append(s, x) # <<>>
         /\ \A k \in 1..Len(Append(s, x)) :
              \/ Append(s, x)[k] = x /\ k = Len(s) + 1
              \/ k \in 1..Len(s) /\ Append(s, x)[k] = s[k]
<1>1. /\ Append(s, x) \in Seq(S) /\ Len(s) \in Nat /\ Len(Append(s, x)) = Len(s) + 1
      /\ Append(s, x)[Len(s) + 1] = x
      /\ \A k \in 1..Len(s) : Append(s, x)[k] = s[k]
  OBVIOUS
<1>2. \A k \in 1..Len(Append(s, x)) : k = Len(s) + 1 \/ k \in 1..Len(s)
  BY <1>1
<1>3. Append(s, x) # <<>>
  BY <1>1, EmptySeq
<1> QED
  BY <1>1, <1>2, <1>3

LEMMA ConsIs ==
  ASSUME NEW S, NEW s \in Seq(S), NEW x \in S
  PROVE  /\ <<x>> \o s \in Seq(S) /\ Len(s) \in Nat /\ Len(<<x>> \o s) = Len(s) + 1
         /\ \A k \in 1..Len(<<x>> \o s) :
              \/ (<<x>> \o s)[k] = x /\ k = 1
              \/ k - 1 \in 1..Len(s) /\ (<<x>> \o s)[k] = s[k - 1]
OBVIOUS

LEMMA EmptyIs ==
  ASSUME NEW S, NEW s \in Seq(S)
  PROVE  Len(s) \in Nat /\ (Len(s) = 0 <=> s = <<>>)
BY EmptySeq

(* A list without repetitions is no longer than what it is made of. *)
LEMMA NotLonger ==
  ASSUME NEW S, NEW s \in Seq(S), NEW T, IsFiniteSet(T),
         \A k \in 1..Len(s) : s[k] \in T, \A j, k \in 1..Len(s) : s[j] = s[k] => j = k
  PROVE  Len(s) <= Cardinality(T)
<1>1. Len(s) \in Nat /\ s \in [1..Len(s) -> T]
  OBVIOUS
<1>2. s \in Injection(1..Len(s), T)
  BY <1>1 DEF Injection, IsInjective
<1>3. Cardinality(1..Len(s)) = Len(s)
  <2>1. 1 \in Int /\ Len(s) \in Int /\ Len(s) >= 0
    BY <1>1
  <2>2. Cardinality(1..Len(s)) = IF 1 > Len(s) THEN 0 ELSE Len(s) - 1 + 1
    BY <2>1, FS_Interval
  <2> QED
    BY <2>1, <2>2
<1>4. Cardinality(1..Len(s)) <= Cardinality(T)
  BY <1>2, FS_Injection
<1> QED
  BY <1>3, <1>4

-----------------------------------------------------------------------------
LEMMA InitInv == Init => Inv
<1> SUFFICES ASSUME Init PROVE Inv
  OBVIOUS
<1> USE DEF Init, NoPool, WP!PoolInit
<1>1. Types
  BY ConsumerAssumption DEF ConsumerAssumption, Types, Pool, ConPc, BootPc, Fate
<1>2. Booting /\ Wakeup
  BY DEF Booting, BootPc, Wakeup
<1>3. Counts
  BY FS_EmptySet DEF Counts
<1>4. Apart /\ Held /\ Messages /\ Queued /\ JobKeepsItsMessage
  BY DEF Apart, Held, Messages, Queued, JobKeepsItsMessage
<1> QED
  BY <1>1, <1>2, <1>3, <1>4 DEF Inv

LEMMA BootStep ==
  ASSUME Inv, Boot
  PROVE  Inv'
<1> USE DEF Inv, evVars, workVars
<1>0. /\ evpc = "poll" /\ evItem = Nothing /\ running = {} /\ returned = {} /\ queue.list = <<>>
      /\ \A m \in Msg : fate[m] = "unsent"
      /\ cItem = Nothing
      /\ UNCHANGED <<content, evVars, cItem, workVars, fate>>
  BY DEF Boot, BootCache, BootCacheCount, BootQueue, BootQueueCount, Booting, BootPc, Messages, Types
<1>1. CASE BootCache
  <2>1. PICK list \in [1..CacheCount -> Item] :
          /\ \A k, l \in 1..CacheCount : list[k] = list[l] => k = l
          /\ cache' = [cache EXCEPT !.type = "CACHE", !.count = CacheCount, !.list = list]
          /\ heap' = {list[k] : k \in 1..CacheCount}
    BY <1>1 DEF BootCache
  <2>2. CacheCount \in Nat /\ list \in Seq(Item) /\ Len(list) = CacheCount
    BY ConsumerAssumption DEF ConsumerAssumption
  <2>3. /\ cache' \in Pool /\ cache'.list = list /\ cache'.count = CacheCount
        /\ cpc' = "bootCacheCount" /\ queue' = queue
    BY <1>1, <2>1, <2>2 DEF BootCache, Types, Pool
  <2>4. Types'
    BY <1>0, <2>1, <2>3 DEF Types, ConPc, BootPc
  <2>5. Booting' /\ Wakeup'
    BY <1>0, <2>3 DEF Booting, BootPc, Wakeup
  <2>6. Counts'
    <3>1. IsFiniteSet(1..CacheCount) /\ Cardinality(1..CacheCount) = CacheCount
      BY <2>2, FS_Interval
    <3>2. list \in Surjection(1..CacheCount, heap')
      BY <2>1 DEF Surjection
    <3>3. IsFiniteSet(heap') /\ Cardinality(heap') <= CacheCount
      BY <3>1, <3>2, FS_Surjection
    <3> QED
      BY <2>2, <2>3, <3>3 DEF Counts
  <2>7. Apart'
    <3>1. \A k \in 1..CacheCount : list[k] \in heap' /\ list[k] # Nothing
      BY <2>1, ConsumerAssumption DEF ConsumerAssumption
    <3> QED
      BY <1>0, <2>1, <2>2, <2>3, <3>1 DEF Apart
  <2>8. Held' /\ Messages' /\ Queued' /\ JobKeepsItsMessage'
    BY <1>0, <2>3 DEF Held, Messages, Queued, JobKeepsItsMessage
  <2> QED
    BY <2>4, <2>5, <2>6, <2>7, <2>8
<1>2. CASE BootCacheCount \/ BootQueue \/ BootQueueCount
  <2>1. /\ heap' = heap /\ cache'.list = cache.list /\ cache' \in Pool
        /\ queue'.list = <<>> /\ queue' \in Pool /\ queue'.count = 0
        /\ cache'.count = cache.count
        /\ cache'.limit = (IF cpc = "bootCacheCount" THEN CacheCount ELSE cache.limit)
    <3>1. /\ heap' = heap
          /\ CacheCount \in Nat /\ CacheCount \in 0..MaxCount /\ 0 \in 0..MaxCount
      BY <1>2, ConsumerAssumption
      DEF ConsumerAssumption, BootCacheCount, BootQueue, BootQueueCount
    <3>2. CASE BootCacheCount
      BY <1>0, <3>1, <3>2 DEF BootCacheCount, Booting, Types, Pool, Counts
    <3>3. CASE BootQueue
      BY <1>0, <3>1, <3>3 DEF BootQueue, Types, Pool, Counts
    <3>4. CASE BootQueueCount
      BY <1>0, <3>1, <3>4 DEF BootQueueCount, Types, Pool, Counts
    <3> QED
      BY <1>2, <3>2, <3>3, <3>4
  <2>2. cpc' \in ConPc \ {"corrupt", "wait", "signalled", "dispatch", "bootCache", "bootCacheCount"}
    BY <1>2 DEF BootCacheCount, BootQueue, BootQueueCount, ConPc, BootPc
  <2>3. /\ cpc' \notin BootPc \ {"bootQueueCount"} => queue'.type = "CONSUMER_PRODUCER"
        /\ cpc # "bootCache"
    BY <1>2 DEF BootCacheCount, BootQueue, BootQueueCount, BootPc, Booting, Types, Pool
  <2>4. Types'
    BY <1>0, <2>1, <2>2 DEF Types
  <2>5. Booting' /\ Wakeup'
    BY <1>0, <2>1, <2>2, <2>3 DEF Booting, Wakeup
  <2>6. Counts'
    BY <1>0, <2>1, <2>2, <2>3 DEF Counts
  <2>7. Apart' /\ Held' /\ Messages' /\ Queued' /\ JobKeepsItsMessage'
    BY <1>0, <2>1, <2>2 DEF Apart, Held, Messages, Queued, JobKeepsItsMessage
  <2> QED
    BY <2>4, <2>5, <2>6, <2>7
<1> QED
  BY <1>1, <1>2 DEF Boot

-----------------------------------------------------------------------------
(* The event loop takes item i for message m, from the cache or from       *)
(* malloc.                                                                 *)
LEMMA HoldStep ==
  ASSUME Inv, ~EarlyClients, NEW m \in Msg, NEW i \in Item, MayArrive(m), Hold(m, i),
         UNCHANGED <<queue, conVars, workVars>>,
         i \in heap', heap \subseteq heap', i # cItem,
         \A k \in 1..Len(queue.list) : queue.list[k] # i,
         \A n \in running \ returned : workItem[n] # i,
         cache'.list \in Seq(Item),
         \A j, k \in 1..Len(cache'.list) : cache'.list[j] = cache'.list[k] => j = k,
         \A k \in 1..Len(cache'.list) : /\ cache'.list[k] # i
                                        /\ \E l \in 1..Len(cache.list) : cache'.list[k] = cache.list[l]
  PROVE  Booting' /\ Apart' /\ Held' /\ Messages' /\ Queued' /\ Wakeup' /\ JobKeepsItsMessage'
<1> USE DEF Inv, conVars, workVars
<1>0. /\ evpc = "poll" /\ evItem = Nothing /\ fate[m] = "unsent" /\ cpc \notin BootPc
      /\ content' = [content EXCEPT ![i] = m] /\ evItem' = i /\ evpc' = "put"
      /\ fate' = [fate EXCEPT ![m] = "held"] /\ i # Nothing
  BY ConsumerAssumption DEF ConsumerAssumption, MayArrive, Hold, Messages
<1>1. Booting'
  BY <1>0 DEF Booting, BootPc
<1>2. Apart'
  <2>1. \A k \in 1..Len(cache'.list) : cache'.list[k] \in heap' \ {evItem', cItem'}
    BY <1>0 DEF Apart
  <2>2. \A k \in 1..Len(queue'.list) : queue'.list[k] \in heap' \ {evItem', cItem'}
    BY <1>0 DEF Apart
  <2>3. \A j \in 1..Len(cache'.list), k \in 1..Len(queue'.list) : cache'.list[j] # queue'.list[k]
    BY DEF Apart
  <2> QED
    BY <2>1, <2>2, <2>3 DEF Apart
<1>3. Held'
  BY <1>0 DEF Held
<1>4. Messages'
  BY <1>0 DEF Messages, Types
<1>5. Queued'
  <2>1. \A k \in 1..Len(queue.list) :
          /\ queue.list[k] \in Item /\ content'[queue.list[k]] = content[queue.list[k]]
          /\ content[queue.list[k]] # m
    BY <1>0 DEF Types, Pool, Queued
  <2>2. cItem # Nothing => content'[cItem] = content[cItem]
    BY <1>0 DEF Types
  <2> QED
    BY <1>0, <2>1, <2>2 DEF Queued, Types
<1>6. Wakeup'
  BY DEF Wakeup
<1>7. JobKeepsItsMessage'
  BY <1>0 DEF JobKeepsItsMessage, Types, Held
<1> QED
  BY <1>1, <1>2, <1>3, <1>4, <1>5, <1>6, <1>7

LEMMA GetCachedStep ==
  ASSUME Inv, ~EarlyClients, NEW m \in Msg, GetCached(m)
  PROVE  Inv'
<1> USE DEF Inv, conVars, workVars
<1> DEFINE i == Head(cache.list)
<1>1. cache.list \in Seq(Item) /\ cache.list # <<>>
  BY EmptyIs DEF GetCached, Types, Pool, Counts
<1>2. /\ i = cache.list[1] /\ 1 \in 1..Len(cache.list) /\ i \in Item
      /\ Tail(cache.list) \in Seq(Item) /\ Len(Tail(cache.list)) \in Nat
      /\ Len(cache.list) = Len(Tail(cache.list)) + 1
      /\ \A k \in 1..Len(Tail(cache.list)) :
           k + 1 \in 1..Len(cache.list) /\ Tail(cache.list)[k] = cache.list[k + 1]
  BY <1>1, TailIs
<1>3. /\ cache' \in Pool /\ cache'.list = Tail(cache.list) /\ cache'.count = cache.count - 1
      /\ cache'.limit = cache.limit
  <2> DEFINE l == Tail(cache.list)
             n == cache.count - 1
  <2>1. cache \in Pool /\ cache.count # 0 /\ n \in Nat /\ l \in Seq(Item)
    BY <1>2 DEF GetCached, Types, Pool
  <2>2. cache' = [cache EXCEPT !.count = n, !.list = l]
    BY <1>1, <2>1 DEF GetCached, Without1st, Decrement
  <2> HIDE DEF l, n
  <2>3. cache' \in Pool /\ cache'.list = l /\ cache'.count = n /\ cache'.limit = cache.limit
    BY <2>1, <2>2 DEF Pool
  <2> QED
    BY <2>3 DEF l, n
<1>4. MayArrive(m) /\ Hold(m, i) /\ UNCHANGED <<queue, heap, conVars, workVars>>
  BY <1>1 DEF GetCached
<1> HIDE DEF i
<1>5. /\ i \in heap /\ i # cItem
      /\ \A k \in 1..Len(queue.list) : queue.list[k] # i
      /\ \A n \in running \ returned : workItem[n] # i
  BY <1>2 DEF Apart, Held
<1>6. /\ \A j, k \in 1..Len(cache'.list) : cache'.list[j] = cache'.list[k] => j = k
      /\ \A k \in 1..Len(cache'.list) :
           /\ cache'.list[k] # i
           /\ \E l \in 1..Len(cache.list) : cache'.list[k] = cache.list[l]
  BY <1>2, <1>3 DEF Apart
<1>7. Types'
  BY <1>2, <1>3, <1>4 DEF Types, Hold, Fate
<1>8. Counts'
  BY <1>2, <1>3, <1>4 DEF Counts
<1> QED
  BY <1>2, <1>3, <1>4, <1>5, <1>6, <1>7, <1>8, HoldStep

LEMMA GetNewStep ==
  ASSUME Inv, ~EarlyClients, NEW m \in Msg, GetNew(m)
  PROVE  Inv'
<1> USE DEF Inv, conVars, workVars
<1>1. PICK i \in Item \ heap : heap' = heap \cup {i} /\ Hold(m, i)
  BY DEF GetNew
<1>2. /\ MayArrive(m) /\ cache.limit < MaxCount /\ UNCHANGED <<queue, conVars, workVars>>
      /\ cache' = [cache EXCEPT !.limit = @ + 1] /\ cpc \notin BootPc
  BY DEF GetNew, MayArrive
<1>3. /\ cache' \in Pool /\ cache'.list = cache.list /\ cache'.count = cache.count
      /\ cache'.limit = cache.limit + 1 /\ cache.limit \in Nat
  BY <1>2, ConsumerAssumption DEF ConsumerAssumption, Types, Pool
<1>4. /\ i \in heap' /\ i # cItem
      /\ \A k \in 1..Len(queue.list) : queue.list[k] # i
      /\ \A k \in 1..Len(cache.list) : cache.list[k] # i
      /\ \A n \in running \ returned : workItem[n] # i
  BY <1>1, ConsumerAssumption DEF ConsumerAssumption, Apart, Held
<1>5. Types'
  BY <1>1, <1>2, <1>3 DEF Types, Hold, Fate
<1>6. Counts'
  <2>1. /\ IsFiniteSet(heap') /\ Cardinality(heap') = Cardinality(heap) + 1
        /\ Cardinality(heap) \in Nat
    BY <1>1, FS_AddElement, FS_CardinalityType DEF Counts
  <2> QED
    BY <1>2, <1>3, <2>1 DEF Counts, BootPc
<1>7. cache'.list \in Seq(Item)
  BY <1>3 DEF Pool
<1> QED
  BY <1>1, <1>2, <1>3, <1>4, <1>5, <1>6, <1>7, HoldStep DEF Apart

LEMMA DiscardStep ==
  ASSUME Inv, ~EarlyClients, NEW m \in Msg, Discard(m)
  PROVE  Inv'
<1> USE DEF Inv, conVars, workVars, evVars
<1>0. /\ fate[m] = "unsent" /\ cpc \notin BootPc /\ fate' = [fate EXCEPT ![m] = "discarded"]
      /\ UNCHANGED <<cache, queue, heap, content, evVars, conVars, workVars>>
  BY DEF Discard, MayArrive
<1>1. Types'
  BY <1>0 DEF Types, Fate
<1>2. Booting' /\ Counts' /\ Apart' /\ Held' /\ Wakeup' /\ JobKeepsItsMessage'
  BY <1>0 DEF Booting, Counts, Apart, Held, Wakeup, JobKeepsItsMessage
<1>3. Messages' /\ Queued'
  BY <1>0 DEF Types, Messages, Queued
<1> QED
  BY <1>1, <1>2, <1>3

LEMMA ProducerStep ==
  ASSUME Inv, ProducerRun
  PROVE  Inv'
<1> USE DEF Inv, workVars
<1> DEFINE x == content[evItem]
<1>1. evItem \in Item /\ evItem # Nothing /\ x \in Msg /\ fate[x] = "held" /\ cpc \notin BootPc
  BY DEF ProducerRun, Messages, Types, Booting
<1>2. queue.list \in Seq(Item) /\ queue.type = "CONSUMER_PRODUCER" /\ cpc # "bootCacheCount"
  BY <1>1 DEF Types, Pool, Booting, BootPc
<1>3. /\ queue' = Appended(evItem) /\ fate' = [fate EXCEPT ![x] = "accepted"]
      /\ cpc' = (IF queue.count + 1 = 1 /\ cpc = "wait" THEN "signalled" ELSE cpc)
      /\ evpc' = "poll" /\ evItem' = Nothing
      /\ UNCHANGED <<cache, heap, content, cItem, workVars>>
  BY <1>2 DEF ProducerRun
<1> HIDE DEF x
<1>4. /\ queue' \in Pool /\ queue'.type = queue.type /\ queue'.count = queue.count + 1
      /\ queue'.list = Append(queue.list, evItem)
  <2> DEFINE l == Append(queue.list, evItem)
             n == queue.count + 1
  <2>1. queue \in Pool /\ n \in Nat /\ l \in Seq(Item)
    BY <1>1, <1>2, AppendIs DEF Types, Pool
  <2>2. queue' = [queue EXCEPT !.count = n, !.list = l]
    BY <1>3 DEF Appended
  <2> HIDE DEF l, n
  <2>3. queue' \in Pool /\ queue'.list = l /\ queue'.count = n /\ queue'.type = queue.type
    BY <2>1, <2>2 DEF Pool
  <2> QED
    BY <2>3 DEF l, n
<1>5. /\ Len(queue.list) \in Nat /\ Len(queue'.list) = Len(queue.list) + 1 /\ queue'.list # <<>>
      /\ \A k \in 1..Len(queue'.list) :
           \/ queue'.list[k] = evItem /\ k = Len(queue.list) + 1
           \/ k \in 1..Len(queue.list) /\ queue'.list[k] = queue.list[k]
  BY <1>1, <1>2, <1>4, AppendIs
<1>6. cpc' \in ConPc \ (BootPc \cup {"corrupt"}) /\ (cpc' = "dispatch" <=> cpc = "dispatch")
  BY <1>1, <1>3 DEF Types, ConPc, BootPc
<1>7. Types'
  BY <1>3, <1>4, <1>6 DEF Types, Fate
<1>8. Booting' /\ Counts'
  BY <1>2, <1>3, <1>4, <1>5, <1>6 DEF Booting, Counts, BootPc
<1>9. Wakeup'
  BY <1>3, <1>5 DEF Wakeup, Counts
<1>10. Apart'
  <2>1. \A k \in 1..Len(queue'.list) : queue'.list[k] \in heap' \ {evItem', cItem'}
    BY <1>1, <1>3, <1>5, ConsumerAssumption DEF ConsumerAssumption, Apart, Held, Types
  <2>2. \A j, k \in 1..Len(queue'.list) : queue'.list[j] = queue'.list[k] => j = k
    BY <1>5 DEF Apart
  <2>3. \A j \in 1..Len(cache.list), k \in 1..Len(queue'.list) : cache.list[j] # queue'.list[k]
    BY <1>5 DEF Apart
  <2>4. \A k \in 1..Len(cache.list) : cache.list[k] \in heap \ {Nothing, cItem}
    BY ConsumerAssumption DEF ConsumerAssumption, Apart, Types
  <2> QED
    BY <1>3, <2>1, <2>2, <2>3, <2>4 DEF Apart
<1>11. Held'
  <2>1. \A m \in running \ returned :
          /\ workItem[m] \in heap \ {Nothing, cItem}
          /\ \A k \in 1..Len(queue'.list) : queue'.list[k] # workItem[m]
    BY <1>5, ConsumerAssumption DEF ConsumerAssumption, Held, Types
  <2> QED
    BY <1>3, <2>1 DEF Held
<1>12. Messages'
  BY <1>1, <1>3, <1>6 DEF Messages, Types
<1>13. Queued'
  <2>1. x \notin running /\ (cItem # Nothing => x # content[cItem])
        /\ \A k \in 1..Len(queue.list) : x # content[queue.list[k]]
    BY <1>1 DEF Messages, Queued
  <2>2. \A k \in 1..Len(queue'.list) :
          \/ content[queue'.list[k]] = x /\ k = Len(queue.list) + 1
          \/ k \in 1..Len(queue.list) /\ content[queue'.list[k]] = content[queue.list[k]]
    BY <1>5 DEF x
  <2>3. \A k \in 1..Len(queue'.list) :
          /\ content[queue'.list[k]] \in Msg \ running
          /\ fate'[content[queue'.list[k]]] = "accepted"
          /\ cItem # Nothing => content[queue'.list[k]] # content[cItem]
    BY <1>1, <1>3, <2>1, <2>2 DEF Queued, Types
  <2>4. \A j, k \in 1..Len(queue'.list) :
          content[queue'.list[j]] = content[queue'.list[k]] => j = k
    BY <2>1, <2>2 DEF Queued
  <2> QED
    BY <1>3, <2>3, <2>4 DEF Queued
<1>14. JobKeepsItsMessage'
  BY <1>3 DEF JobKeepsItsMessage
<1> QED
  BY <1>7, <1>8, <1>9, <1>10, <1>11, <1>12, <1>13, <1>14

-----------------------------------------------------------------------------
(* The high priority thread. *)

LEMMA ConsumerWaitStep ==
  ASSUME Inv, ConsumerWait
  PROVE  Inv'
<1> USE DEF Inv, evVars, workVars
<1>1. /\ queue.list = <<>> /\ cpc = "take" /\ cpc' = "wait"
      /\ UNCHANGED <<cache, queue, heap, content, evVars, cItem, workVars, fate>>
  BY EmptyIs DEF ConsumerWait, Types, Pool, Counts
<1>2. Types' /\ Booting' /\ Counts' /\ Wakeup'
  BY <1>1 DEF Types, ConPc, BootPc, Booting, Counts, Wakeup
<1>3. Apart' /\ Held' /\ Messages' /\ Queued' /\ JobKeepsItsMessage'
  BY <1>1 DEF Apart, Held, Messages, Queued, JobKeepsItsMessage
<1> QED
  BY <1>2, <1>3

(* What ConsumerTake takes is an item, and the first. *)
LEMMA TakesFirst ==
  ASSUME Inv, ~SpuriousWakeup, ConsumerTake
  PROVE  /\ queue.list \in Seq(Item) /\ queue.list # <<>> /\ queue.count \in Nat \ {0}
         /\ cpc \in {"take", "signalled"} /\ cpc' = "dispatch" /\ cItem' = Head(queue.list)
         /\ queue' = [queue EXCEPT !.count = queue.count - 1, !.list = Tail(queue.list)]
         /\ UNCHANGED <<cache, heap, content, evVars, workVars, fate>>
<1>1. queue.list \in Seq(Item) /\ queue.count \in Nat
  BY DEF Inv, Types, Pool
<1>2. cpc \in {"take", "signalled"} /\ queue.list # <<>> /\ queue.count # 0
  BY <1>1, EmptyIs DEF Inv, ConsumerTake, Wakeup, Counts
<1> QED
  BY <1>1, <1>2 DEF ConsumerTake, Without1st, Decrement

LEMMA ConsumerTakeStep ==
  ASSUME Inv, ~SpuriousWakeup, ConsumerTake
  PROVE  Inv'
<1> USE DEF Inv, evVars, workVars
<1> DEFINE l == Tail(queue.list)
           n == queue.count - 1
<1>1. /\ cItem' = queue.list[1] /\ 1 \in 1..Len(queue.list) /\ cItem' \in Item
      /\ l \in Seq(Item) /\ Len(l) \in Nat /\ Len(queue.list) = Len(l) + 1
      /\ \A k \in 1..Len(l) : k + 1 \in 1..Len(queue.list) /\ l[k] = queue.list[k + 1]
  BY TakesFirst, TailIs
<1>2. /\ cpc \in {"take", "signalled"} /\ cpc' = "dispatch" /\ cItem = Nothing
      /\ UNCHANGED <<cache, heap, content, evVars, workVars, fate>>
  BY TakesFirst DEF Messages
<1>3. n \in Nat /\ queue' = [queue EXCEPT !.count = n, !.list = l] /\ n = queue.count - 1
  BY TakesFirst
<1> HIDE DEF l, n
<1>4. queue' \in Pool /\ queue'.list = l /\ queue'.count = n /\ queue'.type = queue.type
  BY <1>1, <1>3 DEF Types, Pool
<1>5. cItem' # Nothing /\ cItem' \in heap
  BY <1>1, ConsumerAssumption DEF ConsumerAssumption, Apart
<1>6. Types' /\ Booting' /\ Counts' /\ Wakeup'
  <2>1. Types'
    BY <1>1, <1>2, <1>4 DEF Types, ConPc, BootPc
  <2>2. Counts'
    BY <1>1, <1>2, <1>3, <1>4 DEF Counts
  <2> QED
    BY <1>2, <1>4, <2>1, <2>2 DEF Booting, BootPc, Wakeup
<1>7. Apart'
  <2>1. \A k \in 1..Len(l) : l[k] \in heap \ {evItem, cItem'}
    BY <1>1 DEF Apart
  <2>2. \A k \in 1..Len(cache.list) : cache.list[k] \in heap \ {evItem, cItem'}
    BY <1>1 DEF Apart
  <2>3. ASSUME NEW j \in 1..Len(l), NEW k \in 1..Len(l), l[j] = l[k]
        PROVE  j = k
    <3>1. j + 1 \in 1..Len(queue.list) /\ k + 1 \in 1..Len(queue.list)
          /\ queue.list[j + 1] = queue.list[k + 1]
      BY <1>1, <2>3
    <3>2. j + 1 = k + 1
      BY <3>1 DEF Apart
    <3> QED
      BY <1>1, <3>2
  <2>4. \A j \in 1..Len(cache.list), k \in 1..Len(l) : cache.list[j] # l[k]
    BY <1>1 DEF Apart
  <2> QED
    BY <1>2, <1>4, <2>1, <2>2, <2>3, <2>4 DEF Apart
<1>8. Held'
  <2>1. evItem # Nothing => evItem # cItem'
    BY <1>1 DEF Apart
  <2>2. \A m \in running \ returned :
          workItem[m] # cItem' /\ \A k \in 1..Len(l) : l[k] # workItem[m]
    BY <1>1 DEF Held
  <2> QED
    BY <1>2, <1>4, <1>5, <2>1, <2>2 DEF Held
<1>9. Messages' /\ Queued'
  <2>1. Messages'
    BY <1>1, <1>2, <1>5 DEF Messages, Queued
  <2>2. ASSUME NEW k \in 1..Len(l)
        PROVE  /\ content[l[k]] # content[cItem'] /\ content[l[k]] \in Msg \ running
               /\ fate[content[l[k]]] = "accepted"
    <3>1. k + 1 \in 1..Len(queue.list) /\ k + 1 # 1 /\ l[k] = queue.list[k + 1]
      BY <1>1
    <3> QED
      BY <1>1, <3>1 DEF Queued
  <2>3. ASSUME NEW j \in 1..Len(l), NEW k \in 1..Len(l), content[l[j]] = content[l[k]]
        PROVE  j = k
    <3>1. /\ j + 1 \in 1..Len(queue.list) /\ k + 1 \in 1..Len(queue.list)
          /\ content[queue.list[j + 1]] = content[queue.list[k + 1]]
      BY <1>1, <2>3
    <3>2. j + 1 = k + 1
      BY <3>1 DEF Queued
    <3> QED
      BY <1>1, <3>2
  <2> QED
    BY <1>2, <1>4, <2>1, <2>2, <2>3 DEF Queued
<1>10. JobKeepsItsMessage'
  BY <1>2 DEF JobKeepsItsMessage
<1> QED
  BY <1>6, <1>7, <1>8, <1>9, <1>10

LEMMA DispatchStep ==
  ASSUME Inv, Dispatch
  PROVE  Inv'
<1> USE DEF Inv, evVars
<1> DEFINE x == content[cItem]
<1>1. /\ cpc = "dispatch" /\ cItem \in Item /\ cItem # Nothing /\ cItem \in heap
      /\ x \in Msg \ running /\ fate[x] = "accepted"
  BY DEF Dispatch, Messages, Held, Types
<1>2. /\ running' = running \cup {x} /\ UNCHANGED <<returned, served>>
      /\ workItem' = [workItem EXCEPT ![x] = cItem]
      /\ cpc' = "take" /\ cItem' = Nothing
      /\ UNCHANGED <<cache, queue, heap, content, evVars, served, fate>>
  BY DEF Dispatch, WP!Start
<1>3. \A k \in 1..Len(queue.list) : content[queue.list[k]] # x /\ queue.list[k] # cItem
  BY <1>1 DEF Queued
<1>a. workItem'[x] = cItem /\ \A m \in running : m # x /\ workItem'[m] = workItem[m]
  BY <1>1, <1>2 DEF Types
<1>b. running' \ returned' = (running \ returned) \cup {x}
  BY <1>1, <1>2 DEF Types
<1>c. content[cItem] = x
  OBVIOUS
<1> HIDE DEF x
<1>4. Types' /\ Booting' /\ Counts' /\ Wakeup'
  BY <1>1, <1>2 DEF Types, ConPc, BootPc, Booting, Counts, Wakeup
<1>5. Apart'
  <2>1. \A i \in heap : i # Nothing
    BY ConsumerAssumption DEF ConsumerAssumption, Types
  <2> QED
    BY <1>2, <2>1 DEF Apart
<1>6. Held'
  <2>1. \A k \in 1..Len(cache.list) : cache.list[k] # cItem
    BY DEF Apart
  <2>2. \A m \in running' \ returned' :
          workItem'[m] \in heap \ {evItem, Nothing}
    <3>1. \A i \in heap : i # Nothing
      BY ConsumerAssumption DEF ConsumerAssumption, Types
    <3>2. evItem # cItem
      BY <1>1 DEF Held
    <3> QED
      BY <1>1, <1>a, <1>b, <3>1, <3>2 DEF Held
  <2>3. \A m \in running' \ returned' :
          /\ \A k \in 1..Len(cache.list) : cache.list[k] # workItem'[m]
          /\ \A k \in 1..Len(queue.list) : queue.list[k] # workItem'[m]
    BY <1>3, <1>a, <1>b, <2>1 DEF Held
  <2>4. evItem # Nothing => evItem \in heap
    BY DEF Held
  <2> QED
    BY <1>2, <2>2, <2>3, <2>4 DEF Held
<1>7. Messages'
  BY <1>1, <1>2 DEF Messages
<1>8. Queued'
  BY <1>2, <1>3 DEF Queued
<1>9. JobKeepsItsMessage'
  BY <1>2, <1>a, <1>b, <1>c DEF JobKeepsItsMessage
<1> QED
  BY <1>4, <1>5, <1>6, <1>7, <1>8, <1>9

LEMMA DispatchFailsStep ==
  ASSUME Inv, DispatchFails
  PROVE  Inv'
<1> USE DEF Inv, evVars, workVars
<1> DEFINE x == content[cItem]
<1>1. cpc = "dispatch" /\ cItem # Nothing /\ x \in Msg \ running /\ fate[x] = "accepted"
  BY DEF DispatchFails, Messages
<1>2. /\ fate' = [fate EXCEPT ![x] = "dropped"] /\ cpc' = "take" /\ cItem' = Nothing
      /\ UNCHANGED <<cache, queue, heap, content, evVars, workVars>>
  BY DEF DispatchFails
<1>3. \A k \in 1..Len(queue.list) : content[queue.list[k]] # x
  BY <1>1 DEF Queued
<1> HIDE DEF x
<1>4. \A i \in heap : i # Nothing
  BY ConsumerAssumption DEF ConsumerAssumption, Types
<1>5. Types' /\ Booting' /\ Counts' /\ Wakeup'
  BY <1>1, <1>2 DEF Types, Fate, ConPc, BootPc, Booting, Counts, Wakeup
<1>6. Apart' /\ Held'
  BY <1>2, <1>4 DEF Apart, Held
<1>7. Messages'
  BY <1>1, <1>2 DEF Messages, Types
<1>8. Queued'
  BY <1>1, <1>2, <1>3 DEF Queued, Types
<1>9. JobKeepsItsMessage'
  BY <1>2 DEF JobKeepsItsMessage
<1> QED
  BY <1>5, <1>6, <1>7, <1>8, <1>9

-----------------------------------------------------------------------------
(* The threads of the pool. *)

LEMMA HandleStep ==
  ASSUME Inv, NEW m \in Msg, Handle(m)
  PROVE  Inv' /\ fate[m] \in {"accepted", "handled"} /\ fate' = [fate EXCEPT ![m] = "handled"]
<1> USE DEF Inv, evVars, conVars
<1>1. /\ m \in running \ returned /\ content[workItem[m]] = m
      /\ fate[m] \in {"accepted", "handled"}
  BY DEF Handle, Messages, JobKeepsItsMessage
<1>2. /\ fate' = [fate EXCEPT ![m] = "handled"] /\ served' = served \cup {m}
      /\ UNCHANGED <<cache, queue, heap, content, evVars, conVars, running, returned, workItem>>
  BY <1>1 DEF Handle
<1>3. Types'
  BY <1>1, <1>2 DEF Types, Fate
<1>4. Booting' /\ Counts' /\ Wakeup' /\ Apart' /\ Held' /\ JobKeepsItsMessage'
  BY <1>1, <1>2 DEF Booting, Counts, Wakeup, Apart, Held, JobKeepsItsMessage
<1>5. Messages'
  BY <1>1, <1>2 DEF Messages, Types
<1>6. Queued'
  BY <1>1, <1>2 DEF Queued, Types
<1> QED
  BY <1>1, <1>2, <1>3, <1>4, <1>5, <1>6

LEMMA PutToCacheStep ==
  ASSUME Inv, NEW m \in Msg, PutToCache(m)
  PROVE  Inv'
<1> USE DEF Inv, evVars, conVars
<1> DEFINE i == workItem[m]
           l == <<i>> \o cache.list
           n == cache.count + 1
<1>1. /\ m \in running \ returned /\ m \in served /\ returned' = returned \cup {m}
      /\ UNCHANGED <<running, queue, heap, content, evVars, conVars, served, workItem, fate>>
  BY DEF PutToCache, WP!Returns
<1>2. i \in heap /\ i \in Item /\ cache \in Pool /\ cache.list \in Seq(Item) /\ n \in Nat
  BY <1>1 DEF Held, Types, Pool
<1>3. cache' = [cache EXCEPT !.count = n, !.list = l]
  BY DEF PutToCache
<1>4. /\ l \in Seq(Item) /\ Len(cache.list) \in Nat /\ Len(l) = Len(cache.list) + 1
      /\ \A k \in 1..Len(l) :
           \/ l[k] = i /\ k = 1
           \/ k - 1 \in 1..Len(cache.list) /\ l[k] = cache.list[k - 1]
  BY <1>2, ConsIs
<1>5. n = cache.count + 1
  OBVIOUS
<1> HIDE DEF l, n
<1>6. cache' \in Pool /\ cache'.list = l /\ cache'.count = n /\ cache'.limit = cache.limit
  BY <1>2, <1>3, <1>4 DEF Pool
<1>7. /\ i \notin {evItem, cItem} /\ i = workItem[m]
      /\ \A k \in 1..Len(cache.list) : cache.list[k] # i
      /\ \A k \in 1..Len(queue.list) : queue.list[k] # i
      /\ \A o \in running' \ returned' : o \in running \ returned /\ workItem[o] # i
  BY <1>1 DEF Held, JobKeepsItsMessage
<1> HIDE DEF i
<1>8. Types'
  BY <1>1, <1>6 DEF Types
<1>9. Booting' /\ Counts' /\ Wakeup'
  BY <1>1, <1>4, <1>5, <1>6 DEF Booting, Counts, Wakeup, BootPc
<1>10. Apart'
  <2>1. \A k \in 1..Len(l) : l[k] \in heap \ {evItem, cItem}
    BY <1>2, <1>4, <1>7 DEF Apart
  <2>2. ASSUME NEW j \in 1..Len(l), NEW k \in 1..Len(l), l[j] = l[k]
        PROVE  j = k
    <3>1. CASE j = 1 \/ k = 1
      BY <1>4, <1>7, <2>2, <3>1
    <3>2. CASE j # 1 /\ k # 1
      <4>1. /\ j - 1 \in 1..Len(cache.list) /\ k - 1 \in 1..Len(cache.list)
            /\ cache.list[j - 1] = cache.list[k - 1]
        BY <1>4, <2>2, <3>2
      <4>2. j - 1 = k - 1
        BY <4>1 DEF Apart
      <4> QED
        BY <1>4, <4>2
    <3> QED
      BY <3>1, <3>2
  <2>3. \A j \in 1..Len(l), k \in 1..Len(queue.list) : l[j] # queue.list[k]
    BY <1>4, <1>7 DEF Apart
  <2> QED
    BY <1>1, <1>6, <2>1, <2>2, <2>3 DEF Apart
<1>11. Held'
  <2>1. \A o \in running' \ returned' : \A k \in 1..Len(l) : l[k] # workItem[o]
    BY <1>4, <1>7 DEF Held
  <2> QED
    BY <1>1, <1>6, <1>7, <2>1 DEF Held
<1>12. Messages' /\ Queued' /\ JobKeepsItsMessage'
  BY <1>1, <1>7 DEF Messages, Queued, JobKeepsItsMessage
<1> QED
  BY <1>8, <1>9, <1>10, <1>11, <1>12

LEMMA ReclaimedStep ==
  ASSUME Inv, NEW m \in Msg, Reclaimed(m)
  PROVE  Inv'
<1> USE DEF Inv, evVars, conVars
<1>1. /\ m \in returned /\ running' = running \ {m} /\ returned' = returned \ {m}
      /\ served' = served \ {m} /\ running' \ returned' = running \ returned
      /\ UNCHANGED <<cache, queue, heap, content, evVars, conVars, workItem, fate>>
  BY DEF Reclaimed, WP!Finish
<1>2. Types'
  BY <1>1 DEF Types
<1>3. Booting' /\ Counts' /\ Wakeup' /\ Apart' /\ Held' /\ JobKeepsItsMessage'
  BY <1>1 DEF Booting, Counts, Wakeup, Apart, Held, JobKeepsItsMessage
<1>4. Messages' /\ Queued'
  BY <1>1 DEF Messages, Queued
<1> QED
  BY <1>2, <1>3, <1>4

LEMMA InvStep ==
  ASSUME ~EarlyClients, ~SpuriousWakeup
  PROVE  Inv /\ [Next]_vars => Inv'
<1> SUFFICES ASSUME Inv, [Next]_vars PROVE Inv'
  OBVIOUS
<1>1. CASE Next
  BY <1>1, GetCachedStep, GetNewStep, DiscardStep, ProducerStep, BootStep, ConsumerWaitStep,
     ConsumerTakeStep, DispatchStep, DispatchFailsStep, HandleStep, PutToCacheStep, ReclaimedStep
  DEF Next, Consumer, Worker
<1>2. CASE UNCHANGED vars
  BY <1>2 DEF vars, evVars, conVars, workVars, Inv, Types, Booting, Counts, Apart, Held,
              Messages, Queued, Wakeup, JobKeepsItsMessage
<1> QED
  BY <1>1, <1>2

-----------------------------------------------------------------------------
(* What the invariant shows. *)

(* No count exceeds the number of items, and so none wraps. *)
LEMMA InvTypeOK == Inv => TypeOK
<1> SUFFICES ASSUME Inv PROVE TypeOK
  OBVIOUS
<1> USE DEF Inv
<1>1. Cardinality(heap) \in Nat /\ Cardinality(heap) <= MaxCount /\ MaxCount \in Nat
  BY ConsumerAssumption, FS_CardinalityType DEF ConsumerAssumption, Counts, Types, Pool
<1>2. Len(cache.list) <= Cardinality(heap)
  BY NotLonger DEF Types, Pool, Counts, Apart
<1>3. Len(queue.list) <= Cardinality(heap)
  BY NotLonger DEF Types, Pool, Counts, Apart
<1>4. cache.count \in 0..UIntMax /\ queue.count \in 0..UIntMax
  BY <1>1, <1>2, <1>3, ConsumerAssumption DEF ConsumerAssumption, Types, Pool, Counts
<1> QED
  BY <1>4 DEF Types, Pool, TypeOK

(* The types, among them that no count of items ever falls below zero, to  *)
(* come out as the largest UInt32.                                         *)
THEOREM ConsumerTypeOK ==
  ASSUME ~EarlyClients, ~SpuriousWakeup
  PROVE  Spec => []TypeOK
BY InitInv, InvStep, InvTypeOK, PTL DEF Spec

(* "pool current items" (lib-msgpool.h): once the pools are set up, count  *)
(* is the number of items in the list.                                     *)
THEOREM ConsumerCountsExact ==
  ASSUME ~EarlyClients, ~SpuriousWakeup
  PROVE  Spec => []CountsExact
<1>1. Inv => CountsExact
  BY DEF Inv, Counts, CountsExact
<1> QED
  BY <1>1, InitInv, InvStep, PTL DEF Spec

(* The head of an empty list is never taken for an item. *)
THEOREM ConsumerNeverTakesListHead ==
  ASSUME ~EarlyClients, ~SpuriousWakeup
  PROVE  Spec => []NeverTakesListHead
<1>1. Inv => NeverTakesListHead
  BY DEF Inv, Types, NeverTakesListHead
<1> QED
  BY <1>1, InitInv, InvStep, PTL DEF Spec

(* The consumer does not sleep over a message, although a producer signals *)
(* the first one only.                                                     *)
THEOREM ConsumerNoLostWakeup ==
  ASSUME ~EarlyClients, ~SpuriousWakeup
  PROVE  Spec => []NoLostWakeup
<1>1. Inv => NoLostWakeup
  BY DEF Inv, Wakeup, NoLostWakeup
<1> QED
  BY <1>1, InitInv, InvStep, PTL DEF Spec

(* No item is used for another message before its handler has returned. *)
THEOREM ConsumerJobKeepsItsMessage ==
  ASSUME ~EarlyClients, ~SpuriousWakeup
  PROVE  Spec => []JobKeepsItsMessage
<1>1. Inv => JobKeepsItsMessage
  BY DEF Inv
<1> QED
  BY <1>1, InitInv, InvStep, PTL DEF Spec

-----------------------------------------------------------------------------
(* The consumer pool is, to the event loop and the high priority thread, a *)
(* FifoBuffer of the messages that its items hold.                         *)

Waiting == [k \in DOMAIN queue.list |-> content[queue.list[k]]]

Kept == UNCHANGED <<Waiting, Accepted>>

LEMMA WaitingIs ==
  ASSUME Inv
  PROVE  /\ Waiting \in Seq(Msg) /\ Len(Waiting) = Len(queue.list) /\ Len(Waiting) \in Nat
         /\ \A k \in 1..Len(queue.list) : Waiting[k] = content[queue.list[k]]
<1>1. queue.list \in Seq(Item) /\ DOMAIN queue.list = 1..Len(queue.list) /\ Len(queue.list) \in Nat
  BY DEF Inv, Types, Pool
<1>2. \A k \in 1..Len(queue.list) : content[queue.list[k]] \in Msg
  BY DEF Inv, Queued
<1>3. Waiting \in [1..Len(queue.list) -> Msg]
  BY <1>1, <1>2 DEF Waiting
<1> QED
  BY <1>1, <1>3 DEF Waiting

LEMMA GetKeeps ==
  ASSUME Inv, ~EarlyClients, NEW m \in Msg, GetCached(m) \/ GetNew(m) \/ Discard(m)
  PROVE  Kept
<1> USE DEF Inv
<1>1. /\ fate[m] = "unsent" /\ queue' = queue
      /\ \E f \in {"held", "discarded"} : fate' = [fate EXCEPT ![m] = f]
  BY EmptyIs DEF GetCached, GetNew, Discard, MayArrive, Hold, Types, Pool, Counts
<1>2. Accepted' = Accepted
  BY <1>1 DEF Accepted, Types
<1>3. \A k \in 1..Len(queue.list) : content'[queue.list[k]] = content[queue.list[k]]
  <2>1. CASE GetCached(m)
    <3>1. cache.list \in Seq(Item) /\ cache.list # <<>>
      BY <2>1, EmptyIs DEF GetCached, Types, Pool, Counts
    <3>2. Head(cache.list) = cache.list[1] /\ 1 \in 1..Len(cache.list)
      BY <3>1, TailIs
    <3>3. content' = [content EXCEPT ![Head(cache.list)] = m]
      BY <2>1, <3>1 DEF GetCached, Hold
    <3>4. \A k \in 1..Len(queue.list) : queue.list[k] \in Item /\ queue.list[k] # Head(cache.list)
      BY <3>2 DEF Apart, Types, Pool
    <3> QED
      BY <3>3, <3>4 DEF Types
  <2>2. CASE GetNew(m)
    <3>1. PICK i \in Item \ heap : content' = [content EXCEPT ![i] = m]
      BY <2>2 DEF GetNew, Hold
    <3>2. \A k \in 1..Len(queue.list) : queue.list[k] \in Item /\ queue.list[k] # i
      BY <3>1 DEF Apart, Types, Pool
    <3> QED
      BY <3>1, <3>2 DEF Types
  <2>3. CASE Discard(m)
    BY <2>3 DEF Discard
  <2> QED
    BY <2>1, <2>2, <2>3
<1>4. DOMAIN queue.list = 1..Len(queue.list)
  BY DEF Types, Pool
<1> QED
  BY <1>1, <1>2, <1>3, <1>4 DEF Kept, Waiting

(* The producer puts its message behind the others. *)
LEMMA ProducerPuts ==
  ASSUME Inv, ProducerRun
  PROVE  \E m \in Msg : /\ m \notin Accepted
                        /\ Waiting' = Append(Waiting, m)
                        /\ Accepted' = Accepted \cup {m}
<1> USE DEF Inv
<1> DEFINE x == content[evItem]
<1>1. evItem \in Item /\ x \in Msg /\ fate[x] = "held" /\ cpc \notin BootPc
  BY DEF ProducerRun, Messages, Types, Booting
<1>2. queue.list \in Seq(Item) /\ queue \in Pool /\ queue.type = "CONSUMER_PRODUCER"
  BY <1>1 DEF Types, Pool, Booting
<1>3. /\ queue'.list = Append(queue.list, evItem) /\ content' = content
      /\ fate' = [fate EXCEPT ![x] = "accepted"]
  BY <1>2 DEF ProducerRun, Appended, Pool
<1>4. Accepted' = Accepted \cup {x} /\ x \notin Accepted
  BY <1>1, <1>3 DEF Accepted, Types
<1>5. /\ Len(queue'.list) = Len(queue.list) + 1
      /\ \A k \in 1..Len(queue'.list) :
           \/ queue'.list[k] = evItem /\ k = Len(queue.list) + 1
           \/ k \in 1..Len(queue.list) /\ queue'.list[k] = queue.list[k]
  BY <1>1, <1>2, <1>3, AppendIs
<1>6. /\ Waiting' \in Seq(Msg) /\ Len(Waiting') = Len(queue'.list)
      /\ \A k \in 1..Len(queue'.list) : Waiting'[k] = content[queue'.list[k]]
  <2>1. Inv'
    BY ProducerStep
  <2>2. queue'.list \in Seq(Item) /\ DOMAIN queue'.list = 1..Len(queue'.list)
        /\ Len(queue'.list) \in Nat
    BY <2>1 DEF Types, Pool
  <2>3. \A k \in 1..Len(queue'.list) : content[queue'.list[k]] \in Msg
    BY <1>3, <2>1 DEF Queued
  <2>4. Waiting' \in [1..Len(queue'.list) -> Msg]
    BY <1>3, <2>2, <2>3 DEF Waiting
  <2> QED
    BY <1>3, <2>2, <2>4 DEF Waiting
<1> HIDE DEF x
<1>7. /\ Append(Waiting, x) \in Seq(Msg) /\ Len(Append(Waiting, x)) = Len(queue.list) + 1
      /\ Len(queue.list) \in Nat
      /\ \A k \in 1..Len(queue.list) + 1 :
           \/ Append(Waiting, x)[k] = x /\ k = Len(queue.list) + 1
           \/ k \in 1..Len(queue.list) /\ Append(Waiting, x)[k] = Waiting[k]
  BY <1>1, WaitingIs, AppendIs
<1>8. \A k \in 1..Len(Waiting') : Waiting'[k] = Append(Waiting, x)[k]
  BY <1>5, <1>6, <1>7, WaitingIs DEF x
<1>9. Waiting' = Append(Waiting, x)
  BY <1>5, <1>6, <1>7, <1>8, SeqEqual
<1> QED
  BY <1>1, <1>4, <1>9

(* The consumer takes the first. *)
LEMMA ConsumerTakes ==
  ASSUME Inv, ~SpuriousWakeup, ConsumerTake
  PROVE  Waiting # <<>> /\ Waiting' = Tail(Waiting) /\ UNCHANGED Accepted
<1>1. /\ queue.list \in Seq(Item) /\ queue.list # <<>> /\ queue \in Pool
      /\ queue'.list = Tail(queue.list) /\ UNCHANGED <<content, fate>>
  BY TakesFirst DEF Inv, Types, Pool
<1>2. /\ Tail(queue.list) \in Seq(Item) /\ Len(Tail(queue.list)) \in Nat
      /\ Len(queue.list) = Len(Tail(queue.list)) + 1
      /\ \A k \in 1..Len(Tail(queue.list)) :
           k + 1 \in 1..Len(queue.list) /\ Tail(queue.list)[k] = queue.list[k + 1]
  BY <1>1, TailIs
<1>3. /\ Waiting' \in Seq(Msg) /\ Len(Waiting') = Len(Tail(queue.list))
      /\ \A k \in 1..Len(Tail(queue.list)) : Waiting'[k] = content[queue.list[k + 1]]
  <2>1. \A k \in 1..Len(Tail(queue.list)) : content[queue.list[k + 1]] \in Msg
    BY <1>2 DEF Inv, Queued
  <2>2. DOMAIN Tail(queue.list) = 1..Len(Tail(queue.list))
    BY <1>2
  <2>3. Waiting' = [k \in 1..Len(Tail(queue.list)) |-> content[queue.list[k + 1]]]
    BY <1>1, <1>2, <2>2 DEF Waiting
  <2> QED
    BY <1>2, <2>1, <2>3
<1>4. Waiting # <<>>
  BY <1>2, WaitingIs, EmptySeq
<1>5. /\ Tail(Waiting) \in Seq(Msg) /\ Len(Tail(Waiting)) = Len(Tail(queue.list))
      /\ \A k \in 1..Len(Tail(Waiting)) : Tail(Waiting)[k] = content[queue.list[k + 1]]
  <2>1. /\ Tail(Waiting) \in Seq(Msg) /\ Len(Tail(Waiting)) \in Nat
        /\ Len(Waiting) = Len(Tail(Waiting)) + 1
        /\ \A k \in 1..Len(Tail(Waiting)) :
             k + 1 \in 1..Len(Waiting) /\ Tail(Waiting)[k] = Waiting[k + 1]
    BY <1>4, WaitingIs, TailIs
  <2> QED
    BY <1>2, <2>1, WaitingIs
<1>6. Waiting' = Tail(Waiting)
  BY <1>3, <1>5, SeqEqual
<1> QED
  BY <1>1, <1>4, <1>6 DEF Accepted

(* Nobody else touches the messages of the consumer pool. *)
LEMMA OthersKeep ==
  ASSUME Inv, Boot \/ ConsumerWait \/ Dispatch \/ DispatchFails \/ \E m \in Msg : Worker(m)
  PROVE  Kept
<1> USE DEF Inv
<1>1. content' = content /\ queue'.list = queue.list
  <2>1. CASE Boot
    <3>1. content' = content /\ queue.list = <<>>
      BY <2>1 DEF Boot, BootCache, BootCacheCount, BootQueue, BootQueueCount, Booting, BootPc
    <3>2. queue'.list = <<>>
      BY <2>1, <3>1 DEF Boot, BootCache, BootCacheCount, BootQueue, BootQueueCount, Types, Pool
    <3> QED
      BY <3>1, <3>2
  <2> QED
    BY <2>1 DEF ConsumerWait, Dispatch, DispatchFails, Worker, Handle, PutToCache, Reclaimed
<1>2. Accepted' = Accepted
  <2>1. CASE DispatchFails
    BY <2>1 DEF DispatchFails, Messages, Accepted, Types
  <2>2. CASE \E m \in Msg : Handle(m)
    <3>1. PICK m \in Msg : Handle(m)
      BY <2>2
    <3> QED
      BY <3>1, HandleStep DEF Accepted, Types
  <2>3. CASE ~DispatchFails /\ ~\E m \in Msg : Handle(m)
    BY <2>3 DEF Boot, BootCache, BootCacheCount, BootQueue, BootQueueCount, ConsumerWait,
                Dispatch, Worker, PutToCache, Reclaimed, Accepted
  <2> QED
    BY <2>1, <2>2, <2>3
<1> QED
  BY <1>1, <1>2 DEF Kept, Waiting

LEMMA FifoStep ==
  ASSUME ~EarlyClients, ~SpuriousWakeup, Inv, [Next]_vars
  PROVE  [FB!Take \/ \E m \in Msg : FB!Put(m)]_<<Waiting, Accepted>>
<1>1. CASE UNCHANGED vars
  BY <1>1 DEF vars, Waiting, Accepted
<1>2. ASSUME NEW m \in Msg, GetCached(m) \/ GetNew(m) \/ Discard(m) PROVE Kept
  BY <1>2, GetKeeps
<1>3. CASE ProducerRun
  BY <1>3, ProducerPuts DEF FB!Put, Waiting
<1>4. CASE ConsumerTake
  BY <1>4, ConsumerTakes DEF FB!Take, Waiting
<1>5. CASE Boot \/ ConsumerWait \/ Dispatch \/ DispatchFails
  BY <1>5, OthersKeep DEF Kept
<1>6. ASSUME NEW m \in Msg, Worker(m) PROVE Kept
  BY <1>6, OthersKeep
<1> QED
  BY <1>1, <1>2, <1>3, <1>4, <1>5, <1>6 DEF Next, Consumer, Kept

(* The consumer pool, a list of items with a mutex and a condition, never  *)
(* invents, repeats or reorders a message.                                 *)
THEOREM ConsumerImplementsFifo ==
  ASSUME ~EarlyClients, ~SpuriousWakeup
  PROVE  Spec => ImplementsFifo
<1>1. Init => FB!FifoInit
  BY DEF Init, NoPool, FB!FifoInit, Accepted
<1>2. Inv /\ [Next]_vars
        => [FB!Take \/ \E m \in Msg : FB!Put(m)]_<<[k \in DOMAIN queue.list |-> content[queue.list[k]]],
                                                  Accepted>>
  BY FifoStep DEF Waiting
<1> QED
  BY <1>1, <1>2, InitInv, InvStep, PTL DEF Spec, ImplementsFifo, FB!FifoSpec
(* The thread pool, of which MsgConsumer uses what WorkerPool states, is   *)
(* called as WorkerPool permits, and its guard against a job that runs     *)
(* already never holds the consumer back: thread_dispatch_with_tp() does   *)
(* not look for one.                                                       *)
NewJob == cItem # Nothing => content[cItem] \in Msg \ running

THEOREM ConsumerUsesWorkerPool ==
  ASSUME ~EarlyClients, ~SpuriousWakeup
  PROVE  Spec => []NewJob /\ WP!PoolSpec
<1>1. Inv => NewJob
  BY DEF Inv, Messages, NewJob
<1>2. Init => WP!PoolInit
  BY DEF Init
<1>3. Inv /\ [Next]_vars => [WP!PoolNext]_<<running, returned>>
  <2> SUFFICES ASSUME Inv, [Next]_vars, ~UNCHANGED <<running, returned>>
               PROVE  \E m \in Msg : WP!Start(m) \/ WP!Returns(m) \/ WP!Finish(m)
    BY DEF WP!PoolNext
  <2>1. Dispatch \/ \E m \in Msg : PutToCache(m) \/ Reclaimed(m)
    BY DEF Next, vars, workVars, GetCached, GetNew, Discard, ProducerRun, Consumer, Boot, BootCache,
           BootCacheCount, BootQueue, BootQueueCount, ConsumerWait, ConsumerTake, DispatchFails,
           Worker, Handle
  <2>2. CASE Dispatch
    <3>1. content[cItem] \in Msg
      BY <2>2 DEF Dispatch, Inv, Messages
    <3> QED
      BY <2>2, <3>1 DEF Dispatch
  <2> QED
    BY <2>1, <2>2 DEF PutToCache, Reclaimed
<1> QED
  BY <1>1, <1>2, <1>3, InitInv, InvStep, PTL DEF Spec, WP!PoolSpec

-----------------------------------------------------------------------------
(* Where the messages are. *)

(* A message the event loop has copied is in its item; one that was put    *)
(* into the consumer pool waits there, is in the consumer's item, or has a *)
(* job that is not through.                                                *)
Attended(m) == \/ \E k \in 1..Len(Waiting) : Waiting[k] = m
               \/ cItem # Nothing /\ content[cItem] = m
               \/ m \in running \ served

NoMessageLost ==
  \A m \in Msg : /\ fate[m] = "held" => evItem # Nothing /\ content[evItem] = m
                 /\ fate[m] = "accepted" => Attended(m)

(* The event loop copies a message into an item that nobody has.           *)
LEMMA GetAttends ==
  ASSUME Inv, NoMessageLost, ~EarlyClients, NEW x \in Msg, GetCached(x) \/ GetNew(x) \/ Discard(x)
  PROVE  NoMessageLost'
<1> USE DEF Inv
<1>1. evItem = Nothing /\ fate[x] = "unsent" /\ \A m \in Msg : fate[m] # "held"
  BY DEF GetCached, GetNew, Discard, MayArrive, Messages, NoMessageLost
<1>2. cItem' = cItem /\ running' = running /\ served' = served /\ Waiting' = Waiting
  BY GetKeeps DEF GetCached, GetNew, Discard, Kept, conVars, workVars
<1>3. \/ fate' = [fate EXCEPT ![x] = "discarded"] /\ content' = content
      \/ /\ fate' = [fate EXCEPT ![x] = "held"]
         /\ evItem' \in Item \ {cItem} /\ content' = [content EXCEPT ![evItem'] = x]
  <2>1. CASE GetCached(x)
    <3>1. cache.list \in Seq(Item) /\ cache.list # <<>>
      BY <2>1, EmptyIs DEF GetCached, Types, Pool, Counts
    <3>2. Head(cache.list) = cache.list[1] /\ 1 \in 1..Len(cache.list) /\ Head(cache.list) \in Item
      BY <3>1, TailIs
    <3>3. Head(cache.list) # cItem
      BY <3>2 DEF Apart
    <3>4. Hold(x, Head(cache.list))
      BY <2>1, <3>1 DEF GetCached
    <3> QED
      BY <3>2, <3>3, <3>4 DEF Hold
  <2>2. CASE GetNew(x)
    <3>1. PICK i \in Item \ heap : Hold(x, i)
      BY <2>2 DEF GetNew
    <3>2. i # cItem
      BY <3>1, ConsumerAssumption DEF ConsumerAssumption, Held
    <3> QED
      BY <3>1, <3>2 DEF Hold
  <2>3. CASE Discard(x)
    BY <2>3 DEF Discard
  <2> QED
    BY <2>1, <2>2, <2>3
<1>4. ASSUME NEW m \in Msg, fate'[m] = "held" PROVE evItem' # Nothing /\ content'[evItem'] = m
  BY <1>1, <1>3, <1>4, ConsumerAssumption DEF ConsumerAssumption, Types
<1>5. ASSUME NEW m \in Msg, fate'[m] = "accepted" PROVE Attended(m)'
  <2>1. fate[m] = "accepted"
    BY <1>3, <1>5 DEF Types
  <2>2. Attended(m)
    BY <2>1 DEF NoMessageLost
  <2>3. cItem # Nothing => content'[cItem] = content[cItem]
    BY <1>3 DEF Types
  <2> QED
    BY <1>2, <2>2, <2>3 DEF Attended
<1> QED
  BY <1>4, <1>5 DEF NoMessageLost

LEMMA ProducerAttends ==
  ASSUME Inv, NoMessageLost, ProducerRun
  PROVE  NoMessageLost'
<1> USE DEF Inv
<1> DEFINE x == content[evItem]
<1>1. evItem \in Item /\ x \in Msg /\ fate[x] = "held" /\ cpc \notin BootPc
      /\ queue.type = "CONSUMER_PRODUCER"
  BY DEF ProducerRun, Messages, Types, Booting
<1>2. /\ fate' = [fate EXCEPT ![x] = "accepted"] /\ content' = content
      /\ cItem' = cItem /\ running' = running /\ served' = served
  BY <1>1 DEF ProducerRun, workVars
<1>3. \A m \in Msg : fate[m] = "held" => m = x
  BY DEF NoMessageLost
<1>4. PICK n \in Msg : /\ n \notin Accepted /\ Waiting' = Append(Waiting, n)
                       /\ Accepted' = Accepted \cup {n}
  BY ProducerPuts
<1>5. n = x
  BY <1>1, <1>2, <1>4 DEF Accepted, Types
<1>6. /\ Len(Waiting') = Len(Waiting) + 1 /\ Len(Waiting) \in Nat
      /\ Waiting'[Len(Waiting) + 1] = n
      /\ \A k \in 1..Len(Waiting) : Waiting'[k] = Waiting[k]
  <2>1. PICK w \in Seq(Msg) : w = Waiting
    BY WaitingIs
  <2>2. /\ Len(Append(w, n)) = Len(w) + 1 /\ Len(w) \in Nat /\ Append(w, n)[Len(w) + 1] = n
        /\ \A k \in 1..Len(w) : Append(w, n)[k] = w[k]
    OBVIOUS
  <2> QED
    BY <1>4, <2>1, <2>2
<1>7. ASSUME NEW m \in Msg, fate'[m] = "held" PROVE FALSE
  BY <1>1, <1>2, <1>3, <1>7 DEF Types
<1>8. ASSUME NEW m \in Msg, fate'[m] = "accepted" PROVE Attended(m)'
  <2>1. CASE m = x
    <3>1. Len(Waiting) + 1 \in 1..Len(Waiting')
      BY <1>6
    <3> QED
      BY <1>5, <1>6, <2>1, <3>1 DEF Attended
  <2>2. CASE m # x
    <3>1. Attended(m)
      BY <1>2, <1>8, <2>2 DEF NoMessageLost, Types
    <3>2. 1..Len(Waiting) \subseteq 1..Len(Waiting')
      BY <1>6
    <3> QED
      BY <1>2, <1>6, <3>1, <3>2 DEF Attended
  <2> QED
    BY <2>1, <2>2
<1> QED
  BY <1>7, <1>8 DEF NoMessageLost

(* The first of the pool is now in the consumer's item. *)
LEMMA ConsumerAttends ==
  ASSUME Inv, NoMessageLost, ~SpuriousWakeup, ConsumerTake
  PROVE  NoMessageLost'
<1> USE DEF Inv
<1>1. /\ queue.list \in Seq(Item) /\ queue.list # <<>> /\ cItem' = Head(queue.list)
      /\ UNCHANGED <<content, evVars, workVars, fate>> /\ cpc \in {"take", "signalled"}
  BY TakesFirst
<1>2. /\ Waiting' = Tail(Waiting) /\ Waiting \in Seq(Msg) /\ Waiting # <<>>
      /\ 1 \in 1..Len(queue.list) /\ Waiting[1] = content[queue.list[1]]
  BY <1>1, WaitingIs, ConsumerTakes, TailIs
<1>3. /\ Len(Waiting) = Len(Waiting') + 1 /\ Len(Waiting') \in Nat
      /\ \A k \in 1..Len(Waiting') : Waiting'[k] = Waiting[k + 1]
  BY <1>2, TailIs
<1>4. cItem = Nothing /\ cItem' \in Item /\ cItem' # Nothing /\ content'[cItem'] = Waiting[1]
  BY <1>1, <1>2, TailIs, ConsumerAssumption DEF ConsumerAssumption, Messages
<1>5. ASSUME NEW m \in Msg, fate[m] = "accepted" PROVE Attended(m)'
  <2>1. CASE m \in running \ served
    BY <1>1, <2>1 DEF Attended, workVars
  <2>2. ASSUME NEW k \in 1..Len(Waiting), Waiting[k] = m PROVE Attended(m)'
    <3>1. CASE k = 1
      BY <1>4, <2>2, <3>1 DEF Attended
    <3>2. CASE k # 1
      <4>1. k - 1 \in 1..Len(Waiting') /\ Waiting'[k - 1] = m
        BY <1>3, <2>2, <3>2
      <4> QED
        BY <4>1 DEF Attended
    <3> QED
      BY <3>1, <3>2
  <2> QED
    BY <1>4, <1>5, <2>1, <2>2 DEF NoMessageLost, Attended
<1> QED
  BY <1>1, <1>5 DEF NoMessageLost, evVars

LEMMA OthersAttend ==
  ASSUME Inv, NoMessageLost,
         Boot \/ ConsumerWait \/ Dispatch \/ DispatchFails \/ \E m \in Msg : Worker(m)
  PROVE  NoMessageLost'
<1> USE DEF Inv
<1>1. Waiting' = Waiting
  BY OthersKeep DEF Kept
<1>2. evItem' = evItem /\ content' = content
  BY DEF Boot, BootCache, BootCacheCount, BootQueue, BootQueueCount, ConsumerWait, Dispatch,
         DispatchFails, Worker, Handle, PutToCache, Reclaimed, evVars
<1>3. \A m \in Msg : fate'[m] \in {"held", "accepted"} => fate'[m] = fate[m]
  BY DEF Boot, BootCache, BootCacheCount, BootQueue, BootQueueCount, ConsumerWait, Dispatch,
         DispatchFails, Worker, Handle, PutToCache, Reclaimed, Types
<1>4. ASSUME NEW m \in Msg, fate'[m] = "accepted", cItem # Nothing /\ content[cItem] = m
      PROVE  Attended(m)'
  <2>1. CASE Dispatch
    BY <1>4, <2>1 DEF Dispatch, WP!Start, Attended, Messages, Types
  <2>2. CASE DispatchFails
    BY <1>4, <2>2 DEF DispatchFails, Types
  <2>3. CASE Boot \/ ConsumerWait \/ \E n \in Msg : Worker(n)
    <3>1. cItem' = cItem
      BY <2>3 DEF Boot, BootCache, BootCacheCount, BootQueue, BootQueueCount, ConsumerWait, Worker,
                  Handle, PutToCache, Reclaimed, conVars
    <3> QED
      BY <1>2, <1>4, <3>1 DEF Attended
  <2> QED
    BY <2>1, <2>2, <2>3
<1>5. ASSUME NEW m \in Msg, fate'[m] = "accepted", m \in running \ served
      PROVE  Attended(m)'
  <2>1. ASSUME NEW n \in Msg, Handle(n) PROVE m # n
    <3>1. n \in running \ returned
      BY <2>1 DEF Handle, Messages
    <3>2. content[workItem[n]] = n
      BY <3>1 DEF JobKeepsItsMessage
    <3> QED
      BY <1>5, <2>1, <3>2 DEF Handle, Types
  <2>2. m \in running' \ served'
    BY <1>5, <2>1 DEF Boot, BootCache, BootCacheCount, BootQueue, BootQueueCount, ConsumerWait,
         Dispatch, DispatchFails, Worker, Handle, PutToCache, Reclaimed, workVars, Messages,
         WP!Start, WP!Returns, WP!Finish
  <2> QED
    BY <2>2 DEF Attended
<1>6. ASSUME NEW m \in Msg, fate'[m] = "accepted" PROVE Attended(m)'
  <2>1. Attended(m)
    BY <1>3, <1>6 DEF NoMessageLost
  <2> QED
    BY <1>1, <1>4, <1>5, <1>6, <2>1 DEF Attended
<1> QED
  BY <1>2, <1>3, <1>6 DEF NoMessageLost

(* No message is forgotten on the way from the event loop to its handler,  *)
(* whatever the three threads do in which order: one that was accepted and *)
(* neither handled nor dropped is always in a place where the consumer or  *)
(* a pool thread goes on with it.                                          *)
THEOREM ConsumerNoMessageLost ==
  ASSUME ~EarlyClients, ~SpuriousWakeup
  PROVE  Spec => []NoMessageLost
<1>1. Init => NoMessageLost
  BY DEF Init, NoMessageLost
<1>2. Inv /\ NoMessageLost /\ [Next]_vars => NoMessageLost'
  <2> SUFFICES ASSUME Inv, NoMessageLost, [Next]_vars PROVE NoMessageLost'
    OBVIOUS
  <2>1. CASE UNCHANGED vars
    BY <2>1 DEF vars, evVars, conVars, workVars, NoMessageLost, Attended, Waiting
  <2> QED
    BY <2>1, GetAttends, ProducerAttends, ConsumerAttends, OthersAttend DEF Next, Consumer
<1> QED
  BY <1>1, <1>2, InitInv, InvStep, PTL DEF Spec

-----------------------------------------------------------------------------
(* Where the items are. *)

(* The items that are in a list or in somebody's hands, and the others. *)
Jobs    == {workItem[m] : m \in running \ returned}
Placed  == Range(cache.list) \cup Range(queue.list) \cup Jobs \cup {evItem, cItem}
Lost    == heap \ Placed
Dropped == {m \in Msg : fate[m] = "dropped"}

(* An item is lost when its message is dropped, and never otherwise. *)
Conserved ==
  /\ Cardinality(heap) = IF cpc = "bootCacheCount" THEN CacheCount ELSE cache.limit
  /\ IsFiniteSet(Dropped) /\ Cardinality(Lost) = Cardinality(Dropped)

LEMMA RangeTail ==
  ASSUME NEW S, NEW s \in Seq(S), s # <<>>
  PROVE  Range(s) = Range(Tail(s)) \cup {Head(s)}
<1>1. Range(s) = {s[k] : k \in 1..Len(s)} /\ Range(Tail(s)) = {Tail(s)[k] : k \in 1..Len(Tail(s))}
  <2>1. Tail(s) \in Seq(S)
    BY TailIs
  <2>2. Range(s) = {s[k] : k \in 1..Len(s)}
    BY RangeEquality
  <2> DEFINE t == Tail(s)
  <2> HIDE DEF t
  <2>3. t \in Seq(S)
    BY <2>1 DEF t
  <2>4. Range(t) = {t[k] : k \in 1..Len(t)}
    BY <2>3, RangeEquality
  <2> QED
    BY <2>2, <2>4 DEF t
<1>2. Range(Tail(s)) \cup {Head(s)} \subseteq Range(s)
  BY <1>1, TailIs
<1>3. ASSUME NEW k \in 1..Len(s) PROVE s[k] \in Range(Tail(s)) \cup {Head(s)}
  <2>1. CASE k = 1
    BY <2>1, TailIs
  <2>2. CASE k # 1
    <3>1. k - 1 \in 1..Len(Tail(s))
      BY <2>2, TailIs
    <3>2. Tail(s)[k - 1] = s[k]
      BY <3>1, TailIs
    <3> QED
      BY <1>1, <3>1, <3>2
  <2> QED
    BY <2>1, <2>2
<1> QED
  BY <1>1, <1>2, <1>3

LEMMA RangeAppend ==
  ASSUME NEW S, NEW s \in Seq(S), NEW x \in S
  PROVE  /\ Range(s \o <<x>>) = Range(s) \cup {x}
         /\ Range(<<x>> \o s) = Range(s) \cup {x}
<1>1. <<x>> \in Seq(S) /\ Range(<<x>>) = {x} /\ Append(s, x) = s \o <<x>>
  <2>1. <<x>> \in Seq(S) /\ Len(<<x>>) = 1 /\ <<x>>[1] = x /\ Append(s, x) = s \o <<x>>
    OBVIOUS
  <2>2. Range(<<x>>) = {<<x>>[k] : k \in 1..1}
    BY <2>1, RangeEquality
  <2> QED
    BY <2>1, <2>2
<1> DEFINE o == <<x>>
<1> HIDE DEF o
<1>2. o \in Seq(S) /\ Range(o) = {x}
  BY <1>1 DEF o
<1>3. Range(s \o o) = Range(s) \cup Range(o) /\ Range(o \o s) = Range(o) \cup Range(s)
  BY <1>2, RangeConcatenation
<1> QED
  BY <1>1, <1>2, <1>3 DEF o

LEMMA InitConserved == Init => Conserved
<1> SUFFICES ASSUME Init PROVE Conserved
  OBVIOUS
<1>1. heap = {} /\ Lost = {} /\ Dropped = {} /\ cache.limit = 0 /\ cpc = "bootCache"
  BY DEF Init, NoPool, Lost, Dropped
<1> QED
  BY <1>1, FS_EmptySet DEF Conserved

(* The lists, hands and jobs hold items that exist. *)
LEMMA PlacedIn ==
  ASSUME Inv
  PROVE  /\ Nothing \notin Item /\ IsFiniteSet(heap) /\ heap \subseteq Item
         /\ Range(cache.list) \subseteq heap \ {evItem, cItem}
         /\ Range(queue.list) \subseteq heap \ {evItem, cItem}
         /\ Range(cache.list) \cap Range(queue.list) = {}
         /\ Jobs \subseteq heap \ {evItem, cItem}
         /\ Jobs \cap (Range(cache.list) \cup Range(queue.list)) = {}
         /\ {evItem, cItem} \subseteq heap \cup {Nothing}
<1>1. /\ Range(cache.list) = {cache.list[k] : k \in 1..Len(cache.list)}
      /\ Range(queue.list) = {queue.list[k] : k \in 1..Len(queue.list)}
  BY RangeEquality DEF Inv, Types, Pool
<1>2. Nothing \notin Item /\ IsFiniteSet(heap) /\ heap \subseteq Item
  BY ConsumerAssumption DEF ConsumerAssumption, Inv, Types, Counts
<1>3. /\ Range(cache.list) \subseteq heap \ {evItem, cItem}
      /\ Range(queue.list) \subseteq heap \ {evItem, cItem}
      /\ Range(cache.list) \cap Range(queue.list) = {}
  BY <1>1 DEF Inv, Apart
<1>4. /\ Jobs \subseteq heap \ {evItem, cItem}
      /\ Jobs \cap (Range(cache.list) \cup Range(queue.list)) = {}
  BY <1>1 DEF Inv, Held, Jobs
<1>5. {evItem, cItem} \subseteq heap \cup {Nothing}
  BY DEF Inv, Held
<1> QED
  BY <1>2, <1>3, <1>4, <1>5

(* A step that passes an item on, or none. *)
LEMMA PassOn ==
  ASSUME Conserved, UNCHANGED heap, cpc # "bootCacheCount", cpc' # "bootCacheCount",
         cache'.limit = cache.limit,
         Placed' \cup {Nothing} = Placed \cup {Nothing}, Nothing \notin heap,
         Dropped' = Dropped
  PROVE  Conserved'
<1>1. Lost' = Lost
  BY DEF Lost
<1> QED
  BY <1>1 DEF Conserved

LEMMA BootConserves ==
  ASSUME Inv, Conserved, Boot
  PROVE  Conserved'
<1> USE DEF evVars, workVars
<1>0. /\ evpc = "poll" /\ evItem = Nothing /\ running = {} /\ queue.list = <<>>
      /\ \A m \in Msg : fate[m] = "unsent"
      /\ cItem = Nothing
      /\ UNCHANGED <<content, evVars, cItem, workVars, fate>>
  BY DEF Inv, Boot, BootCache, BootCacheCount, BootQueue, BootQueueCount, Booting, BootPc, Messages
<1>1. Dropped = {} /\ Dropped' = {} /\ Jobs = {} /\ Jobs' = {}
  BY <1>0 DEF Dropped, Jobs
<1>2. CASE BootCache
  <2>1. PICK list \in [1..CacheCount -> Item] :
          /\ \A k, l \in 1..CacheCount : list[k] = list[l] => k = l
          /\ cache' = [cache EXCEPT !.type = "CACHE", !.count = CacheCount, !.list = list]
          /\ heap' = {list[k] : k \in 1..CacheCount}
    BY <1>2 DEF BootCache
  <2>2. CacheCount \in Nat /\ list \in Seq(Item) /\ Len(list) = CacheCount
    BY ConsumerAssumption DEF ConsumerAssumption
  <2>3. cache'.list = list /\ cpc' = "bootCacheCount"
    BY <1>2, <2>1 DEF BootCache, Inv, Types, Pool
  <2>4. Range(cache'.list) = heap'
    BY <2>1, <2>2, <2>3, RangeEquality
  <2>5. Lost' = {}
    BY <2>4 DEF Lost, Placed
  <2>6. Cardinality(heap') = CacheCount
    <3>1. IsFiniteSet(1..CacheCount) /\ Cardinality(1..CacheCount) = CacheCount
      <4>1. 1 \in Int /\ CacheCount \in Int /\ CacheCount >= 0
        BY <2>2
      <4> QED
        BY <4>1, FS_Interval
    <3>2. list \in Surjection(1..CacheCount, heap') /\ list \in Injection(1..CacheCount, heap')
      BY <2>1 DEF Surjection, Injection, IsInjective
    <3> QED
      BY <3>1, <3>2, FS_Surjection
  <2> QED
    BY <1>1, <2>3, <2>5, <2>6, FS_EmptySet DEF Conserved
<1>3. CASE BootCacheCount
  <2>1. /\ cpc = "bootCacheCount" /\ cpc' = "bootQueue" /\ cache'.limit = CacheCount
        /\ cache'.list = cache.list /\ queue' = queue /\ heap' = heap
    BY <1>3 DEF BootCacheCount, Inv, Types, Pool
  <2>2. Lost' = Lost
    BY <1>0, <1>1, <2>1 DEF Lost, Placed
  <2> QED
    BY <1>1, <2>1, <2>2 DEF Conserved
<1>4. CASE BootQueue \/ BootQueueCount
  <2>1. cpc # "bootCacheCount" /\ cpc' # "bootCacheCount" /\ UNCHANGED <<cache, heap>>
    BY <1>4 DEF BootQueue, BootQueueCount
  <2>2. queue'.list = queue.list
    BY <1>0, <1>4 DEF BootQueue, BootQueueCount, Inv, Types, Pool
  <2>3. Lost' = Lost
    BY <1>0, <1>1, <2>1, <2>2 DEF Lost, Placed
  <2> QED
    BY <1>1, <2>1, <2>3 DEF Conserved
<1> QED
  BY <1>2, <1>3, <1>4 DEF Boot

LEMMA ArriveConserves ==
  ASSUME Inv, Conserved, ~EarlyClients, NEW m \in Msg, GetCached(m) \/ GetNew(m) \/ Discard(m)
  PROVE  Conserved'
<1> USE DEF conVars, workVars
<1>0. /\ evItem = Nothing /\ fate[m] = "unsent" /\ cpc \notin BootPc /\ cpc' = cpc
      /\ UNCHANGED <<queue, conVars, workVars>>
      /\ cache \in Pool /\ cache.list \in Seq(Item) /\ fate \in [Msg -> Fate]
  BY DEF Inv, Types, Pool, Messages, GetCached, GetNew, Discard, MayArrive
<1>1. Jobs' = Jobs
  BY <1>0 DEF Jobs
<1>2. ASSUME NEW f \in {"held", "discarded"}, fate' = [fate EXCEPT ![m] = f]
      PROVE  Dropped' = Dropped
  BY <1>0, <1>2 DEF Dropped
<1>3. CASE GetCached(m)
  <2>1. cache.list # <<>>
    BY <1>0, <1>3, EmptyIs DEF GetCached, Inv, Counts
  <2>2. /\ evItem' = Head(cache.list) /\ fate' = [fate EXCEPT ![m] = "held"] /\ heap' = heap
        /\ cache' = Without1st(cache)
    BY <1>3, <2>1 DEF GetCached, Hold
  <2>3. cache'.list = Tail(cache.list) /\ cache'.limit = cache.limit
    BY <1>0, <2>1, <2>2 DEF Without1st, Pool
  <2>4. Range(cache.list) = Range(cache'.list) \cup {evItem'}
    BY <1>0, <2>1, <2>2, <2>3, RangeTail
  <2>5. Placed' \cup {Nothing} = Placed \cup {Nothing}
    BY <1>0, <1>1, <2>4 DEF Placed
  <2> QED
    BY <1>0, <1>2, <2>2, <2>3, <2>5, PlacedIn, PassOn DEF BootPc
<1>4. CASE GetNew(m)
  <2>1. PICK i \in Item \ heap : heap' = heap \cup {i} /\ Hold(m, i)
    BY <1>4 DEF GetNew
  <2>2. cache'.list = cache.list /\ cache'.limit = cache.limit + 1
    BY <1>0, <1>4 DEF GetNew, Pool
  <2>3. Placed' \cup {Nothing} = Placed \cup {Nothing, i}
    BY <1>0, <1>1, <2>1, <2>2 DEF Placed, Hold
  <2>4. Lost' = Lost
    BY <2>1, <2>3, PlacedIn DEF Lost
  <2>5. Cardinality(heap') = Cardinality(heap) + 1
    BY <2>1, PlacedIn, FS_AddElement
  <2>6. Dropped' = Dropped
    BY <1>2, <2>1 DEF Hold
  <2> QED
    BY <1>0, <2>2, <2>4, <2>5, <2>6 DEF Conserved, BootPc
<1>5. CASE Discard(m)
  <2>1. Placed' = Placed /\ UNCHANGED <<heap, cache>> /\ fate' = [fate EXCEPT ![m] = "discarded"]
    BY <1>1, <1>5 DEF Discard, Placed, evVars
  <2> QED
    BY <1>0, <1>2, <2>1, PlacedIn, PassOn DEF BootPc
<1> QED
  BY <1>3, <1>4, <1>5

LEMMA ProducerConserves ==
  ASSUME Inv, Conserved, ProducerRun
  PROVE  Conserved'
<1> DEFINE x == content[evItem]
<1>0. /\ evItem \in Item /\ x \in Msg /\ fate[x] = "held" /\ queue.type = "CONSUMER_PRODUCER"
      /\ queue \in Pool /\ queue.list \in Seq(Item) /\ queue.count \in Nat
      /\ fate \in [Msg -> Fate] /\ cpc \notin BootPc
  BY DEF ProducerRun, Inv, Types, Pool, Messages, Booting
<1>1. /\ queue' = Appended(evItem) /\ fate' = [fate EXCEPT ![x] = "accepted"]
      /\ evItem' = Nothing /\ UNCHANGED <<cache, heap, cItem, workVars>>
      /\ cpc' \in {cpc, "signalled"}
  BY <1>0 DEF ProducerRun
<1>2. queue'.list = Append(queue.list, evItem)
  <2> DEFINE l == Append(queue.list, evItem)
             n == queue.count + 1
  <2>1. queue' = [queue EXCEPT !.list = l, !.count = n]
    BY <1>1 DEF Appended
  <2> HIDE DEF l, n
  <2> QED
    BY <1>0, <2>1 DEF Pool, l
<1>3. Range(queue'.list) = Range(queue.list) \cup {evItem}
  <2>1. PICK s \in Seq(Item), e \in Item : s = queue.list /\ e = evItem
    BY <1>0
  <2>2. Range(s \o <<e>>) = Range(s) \cup {e}
    BY RangeAppend
  <2>3. queue'.list = s \o <<e>>
    BY <1>2, <2>1
  <2> QED
    BY <2>1, <2>2, <2>3
<1>4. Placed' \cup {Nothing} = Placed \cup {Nothing}
  BY <1>1, <1>3 DEF Placed, Jobs, workVars
<1>5. Dropped' = Dropped
  BY <1>0, <1>1 DEF Dropped
<1> QED
  BY <1>0, <1>1, <1>4, <1>5, PlacedIn, PassOn DEF BootPc

LEMMA ConsumerConserves ==
  ASSUME Inv, Conserved, ~SpuriousWakeup, ConsumerWait \/ ConsumerTake \/ Dispatch
  PROVE  Conserved'
<1> USE DEF evVars, workVars
<1>0. fate' = fate /\ cache' = cache /\ heap' = heap /\ evItem' = evItem
      /\ cpc # "bootCacheCount" /\ cpc' # "bootCacheCount" /\ Dropped' = Dropped
  BY TakesFirst DEF ConsumerWait, ConsumerTake, Dispatch, Dropped
<1>1. CASE ConsumerWait
  <2>1. Placed' = Placed
    BY <1>0, <1>1 DEF ConsumerWait, Placed, Jobs
  <2> QED
    BY <1>0, <2>1, PlacedIn, PassOn
<1>2. CASE ConsumerTake
  <2>1. /\ queue.list \in Seq(Item) /\ queue.list # <<>> /\ cItem' = Head(queue.list)
        /\ queue'.list = Tail(queue.list)
        /\ UNCHANGED <<evItem, running, returned, workItem>>
    BY <1>2, TakesFirst DEF Inv, Types, Pool
  <2>2. cItem = Nothing
    BY <1>2, TakesFirst DEF Inv, Messages
  <2>3. Range(queue.list) = Range(queue'.list) \cup {cItem'}
    BY <2>1, RangeTail
  <2>4. Placed' \cup {Nothing} = Placed \cup {Nothing}
    BY <1>0, <2>1, <2>2, <2>3 DEF Placed, Jobs
  <2> QED
    BY <1>0, <2>4, PlacedIn, PassOn
<1>3. CASE Dispatch
  <2> DEFINE x == content[cItem]
  <2>1. /\ x \in Msg \ running /\ running' = running \cup {x} /\ UNCHANGED <<queue, returned>>
        /\ workItem' = [workItem EXCEPT ![x] = cItem] /\ cItem' = Nothing
        /\ workItem \in [Msg -> Item \cup {Nothing}] /\ returned \subseteq running
        /\ running \subseteq Msg
    BY <1>3 DEF Dispatch, WP!Start, Inv, Messages, Types
  <2> HIDE DEF x
  <2>2. Jobs' = Jobs \cup {cItem}
    <3>1. running' \ returned' = (running \ returned) \cup {x}
      BY <2>1
    <3>2. \A m \in running \ returned : workItem'[m] = workItem[m]
      BY <2>1
    <3>3. workItem'[x] = cItem
      BY <2>1
    <3> QED
      BY <3>1, <3>2, <3>3 DEF Jobs
  <2>3. Placed' \cup {Nothing} = Placed \cup {Nothing}
    BY <1>0, <2>1, <2>2 DEF Placed
  <2> QED
    BY <1>0, <2>3, PlacedIn, PassOn
<1> QED
  BY <1>1, <1>2, <1>3

(* An item and a message are lost together. *)
LEMMA DispatchFailsConserves ==
  ASSUME Inv, Conserved, DispatchFails
  PROVE  Conserved'
<1> DEFINE x == content[cItem]
<1>1. /\ cpc = "dispatch" /\ cpc' = "take" /\ cItem \in heap /\ cItem # Nothing
      /\ x \in Msg /\ fate[x] = "accepted" /\ fate \in [Msg -> Fate]
      /\ fate' = [fate EXCEPT ![x] = "dropped"] /\ cItem' = Nothing
      /\ UNCHANGED <<cache, queue, heap, evVars, workVars>> /\ evItem # cItem
  BY DEF DispatchFails, Inv, Messages, Held, Types
<1>2. Dropped' = Dropped \cup {x} /\ x \notin Dropped
  BY <1>1 DEF Dropped
<1>3. Lost' = Lost \cup {cItem} /\ cItem \notin Lost
  <2>1. Placed' = Range(cache.list) \cup Range(queue.list) \cup Jobs \cup {evItem, Nothing}
    BY <1>1 DEF Placed, Jobs, evVars, workVars
  <2>2. cItem \notin Placed'
    BY <1>1, <2>1, PlacedIn
  <2>3. Placed = Range(cache.list) \cup Range(queue.list) \cup Jobs \cup {evItem, cItem}
    BY DEF Placed
  <2> QED
    BY <1>1, <2>1, <2>2, <2>3, PlacedIn DEF Lost
<1>4. IsFiniteSet(Lost)
  BY PlacedIn, FS_Subset DEF Lost
<1>5. Cardinality(Lost') = Cardinality(Lost) + 1
  BY <1>3, <1>4, FS_AddElement
<1>6. IsFiniteSet(Dropped') /\ Cardinality(Dropped') = Cardinality(Dropped) + 1
  BY <1>2, FS_AddElement DEF Conserved
<1> QED
  BY <1>1, <1>5, <1>6 DEF Conserved

LEMMA WorkerConserves ==
  ASSUME Inv, Conserved, NEW m \in Msg, Worker(m)
  PROVE  Conserved'
<1> USE DEF evVars, conVars
<1>0. /\ UNCHANGED <<queue, heap, evVars, conVars, workItem>>
      /\ m \in running /\ cpc \notin BootPc /\ running \subseteq Msg
      /\ cache \in Pool /\ cache.list \in Seq(Item) /\ cache.count \in Nat
      /\ fate \in [Msg -> Fate] /\ workItem \in [Msg -> Item \cup {Nothing}]
  BY DEF Worker, Handle, PutToCache, Reclaimed, WP!Returns, WP!Finish, Inv, Types, Pool, Booting
<1>1. CASE Handle(m)
  <2>1. /\ m \in running \ returned /\ content[workItem[m]] = m
        /\ fate[m] \in {"accepted", "handled"}
    BY <1>1 DEF Handle, Inv, Messages, JobKeepsItsMessage
  <2>2. fate' = [fate EXCEPT ![m] = "handled"] /\ UNCHANGED <<cache, running, returned>>
    BY <1>1, <2>1 DEF Handle
  <2>3. Dropped' = Dropped
    BY <1>0, <2>1, <2>2 DEF Dropped
  <2>4. Placed' = Placed
    BY <1>0, <2>2 DEF Placed, Jobs
  <2> QED
    BY <1>0, <2>2, <2>3, <2>4, PlacedIn, PassOn DEF BootPc
<1>2. CASE PutToCache(m)
  <2> DEFINE i == workItem[m]
             l == <<i>> \o cache.list
             n == cache.count + 1
  <2>1. /\ m \notin returned /\ returned' = returned \cup {m} /\ UNCHANGED <<running, fate>>
        /\ cache' = [cache EXCEPT !.list = l, !.count = n]
    BY <1>2 DEF PutToCache, WP!Returns
  <2>2. i \in Item
    BY <1>0, <2>1 DEF Inv, Held, Types
  <2>3. Range(l) = Range(cache.list) \cup {i}
    BY <1>0, <2>2, RangeAppend
  <2>4. cache'.list = l /\ cache'.limit = cache.limit
    <3> HIDE DEF l, n
    <3> QED
      BY <1>0, <2>1 DEF Pool
  <2> HIDE DEF l, n, i
  <2>5. Jobs = Jobs' \cup {i}
    <3>1. running \ returned = (running' \ returned') \cup {m}
      BY <1>0, <2>1
    <3> QED
      BY <1>0, <3>1 DEF Jobs, i
  <2>6. Placed' = Placed
    BY <1>0, <2>3, <2>4, <2>5 DEF Placed
  <2>7. Dropped' = Dropped
    BY <2>1 DEF Dropped
  <2> QED
    BY <1>0, <2>4, <2>6, <2>7, PlacedIn, PassOn DEF BootPc
<1>3. CASE Reclaimed(m)
  <2>1. running' \ returned' = running \ returned /\ UNCHANGED <<cache, fate>>
    BY <1>3 DEF Reclaimed, WP!Finish
  <2>2. Placed' = Placed /\ Dropped' = Dropped
    BY <1>0, <2>1 DEF Placed, Jobs, Dropped
  <2> QED
    BY <1>0, <2>1, <2>2, PlacedIn, PassOn DEF BootPc
<1> QED
  BY <1>1, <1>2, <1>3 DEF Worker

LEMMA ConservedStep ==
  ASSUME ~EarlyClients, ~SpuriousWakeup
  PROVE  Inv /\ Conserved /\ [Next]_vars => Conserved'
<1> SUFFICES ASSUME Inv, Conserved, [Next]_vars PROVE Conserved'
  OBVIOUS
<1>1. CASE UNCHANGED vars
  <2>1. Placed' = Placed /\ Dropped' = Dropped /\ UNCHANGED <<cache, heap, cpc>>
    BY <1>1 DEF vars, evVars, conVars, workVars, Placed, Jobs, Dropped
  <2>2. Lost' = Lost
    BY <2>1 DEF Lost
  <2> QED
    BY <2>1, <2>2 DEF Conserved
<1>2. CASE Next
  BY <1>2, ArriveConserves, ProducerConserves, BootConserves, ConsumerConserves,
     DispatchFailsConserves, WorkerConserves
  DEF Next, Consumer
<1> QED
  BY <1>1, <1>2

(* An item is in one place at most. *)
LEMMA OnePlace ==
  ASSUME Inv, NEW i \in heap, NEW p \in Places(i), NEW q \in Places(i)
  PROVE  p = q
<1> DEFINE InCache == {k \in DOMAIN cache.list : cache.list[k] = i}
           InQueue == {k \in DOMAIN queue.list : queue.list[k] = i}
           InJobs  == {m \in running \ returned : workItem[m] = i}
<1>0. /\ DOMAIN cache.list = 1..Len(cache.list) /\ DOMAIN queue.list = 1..Len(queue.list)
      /\ i # Nothing /\ Range(cache.list) = {cache.list[k] : k \in DOMAIN cache.list}
      /\ Range(queue.list) = {queue.list[k] : k \in DOMAIN queue.list}
  BY ConsumerAssumption DEF ConsumerAssumption, Inv, Types, Pool, Range
<1>1. \A j, k \in InCache : j = k
  BY <1>0 DEF Inv, Apart
<1>2. \A j, k \in InQueue : j = k
  BY <1>0 DEF Inv, Apart
<1>3. \A m, n \in InJobs : m = n
  BY DEF Inv, JobKeepsItsMessage
<1>4. /\ InCache # {} => i \in Range(cache.list)
      /\ InQueue # {} => i \in Range(queue.list)
      /\ InJobs # {} => i \in Jobs
  BY <1>0 DEF Jobs
<1>5. /\ InCache # {} => InQueue = {} /\ InJobs = {} /\ evItem # i /\ cItem # i
      /\ InQueue # {} => InJobs = {} /\ evItem # i /\ cItem # i
      /\ InJobs # {} => evItem # i /\ cItem # i
      /\ evItem = i => cItem # i
  <2>1. evItem = i => cItem # i
    BY <1>0 DEF Inv, Held
  <2> QED
    BY <1>4, <2>1, PlacedIn
<1>6. Places(i) = {<<"cache", k>> : k \in InCache} \cup {<<"queue", k>> : k \in InQueue}
                  \cup {<<"job", m>> : m \in InJobs}
                  \cup (IF evItem = i THEN {<<"event loop", 0>>} ELSE {})
                  \cup (IF cItem = i THEN {<<"consumer", 0>>} ELSE {})
  BY DEF Places
<1> HIDE DEF InCache, InQueue, InJobs
<1> QED
  BY <1>1, <1>2, <1>3, <1>5, <1>6

LEMMA PlacesEmpty ==
  ASSUME Inv, NEW i \in heap
  PROVE  Places(i) = {} <=> i \in Lost
<1>0. /\ i # Nothing /\ Range(cache.list) = {cache.list[k] : k \in DOMAIN cache.list}
      /\ Range(queue.list) = {queue.list[k] : k \in DOMAIN queue.list}
  BY ConsumerAssumption DEF ConsumerAssumption, Inv, Types, Range
<1> DEFINE InCache == {k \in DOMAIN cache.list : cache.list[k] = i}
           InQueue == {k \in DOMAIN queue.list : queue.list[k] = i}
           InJobs  == {m \in running \ returned : workItem[m] = i}
<1>1. i \in Range(cache.list) <=> InCache # {}
  BY <1>0
<1>2. i \in Range(queue.list) <=> InQueue # {}
  BY <1>0
<1>3. i \in Jobs <=> InJobs # {}
  BY DEF Jobs
<1>4. Places(i) = {<<"cache", k>> : k \in InCache} \cup {<<"queue", k>> : k \in InQueue}
                  \cup {<<"job", m>> : m \in InJobs}
                  \cup (IF evItem = i THEN {<<"event loop", 0>>} ELSE {})
                  \cup (IF cItem = i THEN {<<"consumer", 0>>} ELSE {})
  BY DEF Places
<1> HIDE DEF InCache, InQueue, InJobs
<1>5. Places(i) = {} <=> InCache = {} /\ InQueue = {} /\ InJobs = {} /\ evItem # i /\ cItem # i
  <2>1. ASSUME Places(i) = {}
        PROVE  InCache = {} /\ InQueue = {} /\ InJobs = {} /\ evItem # i /\ cItem # i
    BY <1>4, <2>1
  <2>2. ASSUME InCache = {}, InQueue = {}, InJobs = {}, evItem # i, cItem # i
        PROVE  Places(i) = {}
    BY <1>4, <2>2
  <2> QED
    BY <2>1, <2>2
<1> QED
  BY <1>1, <1>2, <1>3, <1>5 DEF Lost, Placed

(* limit counts the items, no item is in two lists or hands at once, and   *)
(* exactly as many items are nowhere as messages could not be dispatched.  *)
THEOREM ConsumerItemsConserved ==
  ASSUME ~EarlyClients, ~SpuriousWakeup
  PROVE  Spec => []ItemsConserved
<1>1. Inv /\ Conserved => ItemsConserved
  <2> SUFFICES ASSUME Inv, Conserved, cpc \notin BootPc
               PROVE  /\ cache.limit = Cardinality(heap) /\ Cardinality(heap) <= MaxCount
                      /\ \A i \in heap : Cardinality(Places(i)) <= 1
                      /\ Cardinality({i \in heap : Places(i) = {}})
                           = Cardinality({m \in Msg : fate[m] = "dropped"})
    BY DEF ItemsConserved
  <2>1. cache.limit = Cardinality(heap) /\ cache.limit \in 0..MaxCount
    BY DEF Conserved, BootPc, Inv, Types, Pool
  <2>2. ASSUME NEW i \in heap PROVE Cardinality(Places(i)) <= 1
    <3>1. CASE Places(i) = {}
      BY <3>1, FS_EmptySet
    <3>2. CASE Places(i) # {}
      <4>1. PICK p \in Places(i) : TRUE
        BY <3>2
      <4>2. Places(i) = {p}
        BY <4>1, OnePlace
      <4> QED
        BY <4>2, FS_Singleton
    <3> QED
      BY <3>1, <3>2
  <2>3. {i \in heap : Places(i) = {}} = Lost
    BY PlacesEmpty DEF Lost
  <2>4. Cardinality(heap) <= MaxCount
    BY <2>1, ConsumerAssumption DEF ConsumerAssumption
  <2>5. Cardinality({i \in heap : Places(i) = {}})
          = Cardinality({m \in Msg : fate[m] = "dropped"})
    BY ONLY Conserved, <2>3, Zenon DEF Conserved, Dropped
  <2> QED
    BY ONLY <2>1, <2>2, <2>4, <2>5
<1>2. Inv /\ Conserved /\ [Next]_vars => (Inv /\ Conserved)'
  BY InvStep, ConservedStep
<1> QED
  BY <1>1, <1>2, InitInv, InitConserved, PTL DEF Spec
=============================================================================
