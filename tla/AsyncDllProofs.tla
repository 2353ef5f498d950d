--------------------------- MODULE AsyncDllProofs ---------------------------
(***************************************************************************)
(* Proofs about AsyncDll, for any capacity and any number of threads that  *)
(* send and call back: no wakeup is lost but by the one race, and the      *)
(* shutdown spares the queues of a send thread that it finds waiting.      *)
(***************************************************************************)
EXTENDS AsyncDll, SequenceTheorems, TLAPS

SendBusy == {"pop", "take", "read", "handle", "count"}
Halting  == {"wait", "stopping", "stopped", "crashed"}
Emptying == {"pop", "take", "read", "emptied", "deleted"}

(* Where the threads are while the shutdown goes on. *)
Places ==
  /\ tpc["sendThd"] \in SendPc /\ tpc["executer"] \in ExecPc
  /\ QueueGone => draining
  /\ draining => stop /\ tpc["executer"] \in Emptying
  /\ stop /\ ~draining => tpc["executer"] = "finalize"
  /\ tpc["executer"] = "finalize" => stop
  /\ raced => stop
  /\ stop => shutdown
  /\ shutdown => \A t \in Sender : ppc[t] = "idle"
  /\ draining => \A t \in DllThread : ppc[t] = "idle"
  /\ stop /\ ~raced => tpc["sendThd"] \in Halting

(* m_SendEvent is set from the wakeup to ResetEvent(), and what is in the  *)
(* queue when it is reset is known to be there: a Send() has its SetEvent  *)
(* ahead, or had it too early.                                             *)
SendEventSet ==
  /\ tpc["sendThd"] \in SendBusy => event["send"]
  /\ tpc["sendThd"] = "reset" /\ Count("send") # 0
       => late \/ raced \/ \E t \in Sender : ppc[t] = "set"

(* Nobody else takes what the executer has seen in SendQ at the end. *)
DrainFinds == draining /\ ~raced /\ tpc["executer"] = "take" => Count("send") # 0

Inv == Types /\ Places /\ SendEventSet /\ DrainFinds /\ NoLostWakeup /\ StopSparesQueues

LEMMA IndexInRange ==
  ASSUME NEW b \in 0 .. Capacity - 1
  PROVE  /\ AddIndex(b, 1) \in 0 .. Capacity - 1
         /\ \A n \in Nat : (b + n) % Capacity \in 0 .. Capacity - 1
BY DllAssumption DEF DllAssumption, AddIndex

LEMMA InitInv == Init => Inv
<1> SUFFICES ASSUME Init PROVE Inv
  OBVIOUS
<1> USE DllAssumption DEF DllAssumption, Init
<1>1. Types
  <2>1. ring \in [Queue -> [base : 0 .. Capacity - 1, size : 0 .. ULongMax,
                          data : [0 .. Capacity - 1 -> Nat]]]
    BY DEF Null
  <2>2. /\ given \in [Queue -> Seq(Nat)] /\ taken \in [Queue -> Seq(Nat)]
        /\ \A q \in Queue : next[q] <= MaxMsg[q]
    BY DEF Queue
  <2> QED
    <3>1. event \in [Queue -> BOOLEAN] /\ overrun \in [Queue -> BOOLEAN]
      OBVIOUS
    <3>2. slot \in [Thread -> 0 .. Capacity - 1] /\ next \in [Queue -> Nat]
      OBVIOUS
    <3>3. ppc \in [Producer -> {"idle", "push", "set"}] /\ item \in [Producer -> Nat]
      BY DEF Null
    <3>4. tpc \in [Thread -> SendPc \cup ExecPc]
      BY DEF Thread, SendPc, ExecPc
    <3> QED
      BY <3>1, <3>2, <3>3, <3>4, <2>1, <2>2 DEF Types
<1>2. Places /\ SendEventSet /\ DrainFinds /\ NoLostWakeup /\ StopSparesQueues
  BY DEF Thread, Places, SendPc, ExecPc, SendBusy, Emptying, Halting, SendEventSet, DrainFinds,
         NoLostWakeup, StopSparesQueues, QueueGone, NoWhere, Count, Queue
<1> QED
  BY <1>1, <1>2 DEF Inv
-----------------------------------------------------------------------------
(* Types *)

Rows == [base : 0 .. Capacity - 1, size : 0 .. ULongMax, data : [0 .. Capacity - 1 -> Nat]]

LEMMA ProducerType ==
  ASSUME Types, NEW t \in Producer, ProducerNext(t)
  PROVE  Types'
<1> USE DllAssumption DEF DllAssumption, Types
<1>0. Into(t) \in Queue /\ next[Into(t)] \in Nat /\ MaxMsg[Into(t)] \in Nat
  BY DEF Into, Queue
<1>1. CASE PushTest(t)
  <2>1. next' = [next EXCEPT ![Into(t)] = @ + 1] /\ next[Into(t)] < MaxMsg[Into(t)]
    BY <1>1 DEF PushTest
  <2>3. next' \in [Queue -> Nat]
    BY <1>0, <2>1
  <2>m. MaxMsg \in [Queue -> 0 .. ULongMax]
    BY DEF Queue
  <2>4. ASSUME NEW q \in Queue PROVE next'[q] <= MaxMsg[q]
    <3>1. next[q] \in Nat /\ MaxMsg[q] \in Nat /\ next[q] <= MaxMsg[q]
      <4>1. MaxMsg[q] \in 0 .. ULongMax /\ ULongMax \in Nat
        BY <2>m
      <4>2. next[q] \in Nat /\ next[q] <= MaxMsg[q]
        OBVIOUS
      <4> QED
        BY ONLY <4>1, <4>2
    <3>2. CASE q = Into(t)
      BY <1>0, <2>1, <3>1, <3>2
    <3>3. CASE q # Into(t)
      BY <1>0, <2>1, <3>1, <3>3
    <3> QED
      BY <3>2, <3>3
  <2>5. item' \in [Producer -> Nat]
    BY <1>0, <1>1 DEF PushTest
  <2>6. ppc' = [ppc EXCEPT ![t] = IF Count(Into(t)) = Capacity THEN "set" ELSE "push"]
    BY <1>1 DEF PushTest
  <2>2. ppc' \in [Producer -> {"idle", "push", "set"}]
    BY <2>6
  <2> QED
    BY <1>1, <2>3, <2>4, <2>5, <2>2 DEF PushTest, threadVars, hisVars
<1>2. CASE Push(t)
  <2> DEFINE q == Into(t)  dest == AddIndex(ring[q].base, Count(q))
             data == [ring[q].data EXCEPT ![dest] = item[t]]
             row == [ring[q] EXCEPT !.data = data, !.size = CountUp(ring[q].size)]
  <2>1. ring' = [ring EXCEPT ![q] = row]
    BY <1>2 DEF Push
  <2>2. CountUp(ring[q].size) \in 0 .. ULongMax
    BY <1>0 DEF CountUp
  <2>3. data \in [0 .. Capacity - 1 -> Nat]
    BY <1>0
  <2>r. ring[q] \in Rows
    BY <1>0 DEF Rows
  <2>4. row \in Rows
    <3> HIDE DEF q, data
    <3> QED
      BY ONLY <2>r, <2>2, <2>3 DEF Rows
  <2>5. ring' \in [Queue -> [base : 0 .. Capacity - 1, size : 0 .. ULongMax,
                             data : [0 .. Capacity - 1 -> Nat]]]
    BY <1>0, <2>1, <2>4 DEF Rows
  <2>6. given' \in [Queue -> Seq(Nat)]
    <3>1. Append(given[q], item[t]) \in Seq(Nat)
      BY <1>0
    <3> QED
      BY <1>0, <1>2, <3>1 DEF Push
  <2>7. overrun' \in [Queue -> BOOLEAN]
    BY <1>0, <1>2 DEF Push
  <2>8. ppc' \in [Producer -> {"idle", "push", "set"}]
    BY <1>2 DEF Push
  <2> QED
    BY <1>2, <2>5, <2>6, <2>7, <2>8 DEF Push, threadVars
<1>3. CASE Signal(t)
  <2>1. event' \in [Queue -> BOOLEAN]
    BY <1>0, <1>3 DEF Signal
  <2>2. late' \in BOOLEAN
    BY <1>3 DEF Signal
  <2> QED
    BY <1>3, <2>1, <2>2 DEF Signal, threadVars, Null
<1> QED
  BY <1>1, <1>2, <1>3 DEF ProducerNext

LEMMA PopType ==
  ASSUME Types, NEW th \in Thread, PopNext(th)
  PROVE  Types'
<1> USE DllAssumption DEF DllAssumption, Types
<1>0. Popped(th) \in Queue
  BY DEF Popped, Queue
<1>1. CASE PopTest(th)
  BY <1>1 DEF PopTest, Goto, AfterNull, SendPc, ExecPc, makeVars, hisVars
<1>2. CASE PopTake(th)
  <2> DEFINE q == Popped(th)
             row == [ring[q] EXCEPT !.base = AddIndex(ring[q].base, 1),
                                    !.size = CountDown(ring[q].size)]
  <2>1. ring' = [ring EXCEPT ![q] = row]
    BY <1>2 DEF PopTake
  <2>2. CountDown(ring[q].size) \in 0 .. ULongMax
    BY <1>0 DEF CountDown
  <2>i. AddIndex(ring[q].base, 1) \in 0 .. Capacity - 1
    BY <1>0, IndexInRange
  <2>r. ring[q] \in Rows
    BY <1>0 DEF Rows
  <2>3. row \in Rows
    <3> HIDE DEF q
    <3> QED
      BY ONLY <2>r, <2>2, <2>i DEF Rows
  <2>4. ring' \in [Queue -> [base : 0 .. Capacity - 1, size : 0 .. ULongMax,
                             data : [0 .. Capacity - 1 -> Nat]]]
    BY <1>0, <2>1, <2>3 DEF Rows
  <2>5. slot' \in [Thread -> 0 .. Capacity - 1]
    BY <1>0, <1>2 DEF PopTake
  <2> QED
    BY <1>2, <2>4, <2>5 DEF PopTake, Goto, SendPc, makeVars, hisVars
<1>3. CASE PopRead(th)
  <2>1. taken' \in [Queue -> Seq(Nat)]
    <3>1. ring[Popped(th)].data[slot[th]] \in Nat
      BY <1>0
    <3>2. Append(taken[Popped(th)], ring[Popped(th)].data[slot[th]]) \in Seq(Nat)
      BY <1>0, <3>1
    <3> QED
      BY <1>0, <1>3, <3>2 DEF PopRead
  <2> QED
    BY <1>3, <2>1 DEF PopRead, Goto, AfterItem, SendPc, makeVars
<1> QED
  BY <1>1, <1>2, <1>3 DEF PopNext
LEMMA OtherType ==
  ASSUME Types, Places,
         \/ SendWake \/ SendStop \/ SendHandle \/ SendCount \/ SendReset \/ UseGone \/ DeleteObject
         \/ ExecWake \/ OnReceive \/ Receive \/ Shutdown \/ StopSendThread
         \/ UNCHANGED vars
  PROVE  Types'
<1> USE DEF Types, Goto, makeVars, hisVars
<1>1. CASE SendWake \/ SendStop \/ SendHandle \/ SendCount
  <2>1. tpc' \in [Thread -> SendPc \cup ExecPc]
    BY <1>1 DEF SendWake, SendStop, SendHandle, SendCount, SendPc
  <2>2. UNCHANGED <<ring, event, stop, shutdown, slot, draining, makeVars, hisVars>>
    BY <1>1 DEF SendWake, SendStop, SendHandle, SendCount
  <2> QED
    BY <2>1, <2>2
<1>2. CASE SendReset \/ OnReceive \/ Receive
  <2>1. event' \in [Queue -> BOOLEAN]
    BY <1>2 DEF SendReset, OnReceive, Receive, Queue
  <2>2. tpc' \in [Thread -> SendPc \cup ExecPc]
    BY <1>2 DEF SendReset, OnReceive, Receive, SendPc, ExecPc
  <2>3. UNCHANGED <<ring, stop, shutdown, slot, draining, makeVars, hisVars>>
    BY <1>2 DEF SendReset, OnReceive, Receive
  <2> QED
    BY <2>1, <2>2, <2>3
<1>3. CASE ExecWake \/ StopSendThread \/ DeleteObject
  BY <1>3 DEF ExecWake, StopSendThread, DeleteObject, ExecPc
<1>6. CASE UseGone
  <2>1. tpc["sendThd"] \in SendPc
    BY Places DEF Places
  <2> QED
    BY <1>6, <2>1 DEF UseGone, SendPc
<1>4. CASE Shutdown
  BY <1>4 DEF Shutdown, threadVars
<1>5. CASE UNCHANGED vars
  BY <1>5 DEF vars, threadVars
<1> QED
  BY <1>1, <1>2, <1>3, <1>4, <1>5, <1>6

LEMMA ContentType ==
  ASSUME Types, NEW q \in Queue
  PROVE  Content(q) \in Seq(Nat) /\ Len(Content(q)) = ring[q].size
<1>1. ring[q].size \in Nat /\ ring[q].base \in 0 .. Capacity - 1
  BY DllAssumption DEF DllAssumption, Types
<1>2. ASSUME NEW k \in 1 .. ring[q].size
      PROVE  ring[q].data[(ring[q].base + k - 1) % Capacity] \in Nat
  <2>1. k - 1 \in Nat /\ ring[q].base + k - 1 = ring[q].base + (k - 1)
    BY <1>1
  <2>2. (ring[q].base + k - 1) % Capacity \in 0 .. Capacity - 1
    BY <1>1, <2>1, IndexInRange
  <2>3. ring[q].data \in [0 .. Capacity - 1 -> Nat]
    BY DEF Types
  <2> QED
    BY <2>2, <2>3
<1> QED
  BY <1>1, <1>2 DEF Content

LEMMA FinalizeType == ASSUME Types, Finalize_ PROVE Types'
<1> DEFINE row == [ring["msg"] EXCEPT !.base = (ring["msg"].base + ring["msg"].size) % Capacity,
                                      !.size = 0]
<1>1. ring' = [ring EXCEPT !["msg"] = row]
  BY DEF Finalize_
<1>2. ring["msg"] \in Rows /\ "msg" \in Queue
  BY DEF Types, Rows, Queue
<1>3. row \in Rows
  <2>1. (ring["msg"].base + ring["msg"].size) % Capacity \in 0 .. Capacity - 1
    <3>1. ring["msg"].base \in 0 .. Capacity - 1 /\ ring["msg"].size \in Nat
      BY <1>2, DllAssumption DEF Rows, DllAssumption
    <3> QED
      BY <3>1, IndexInRange
  <2>2. 0 \in 0 .. ULongMax
    BY DllAssumption DEF DllAssumption
  <2> QED
    BY ONLY <1>2, <2>1, <2>2 DEF Rows
<1>4. ring' \in [Queue -> Rows]
  BY <1>1, <1>2, <1>3 DEF Types, Rows
<1>5. taken' \in [Queue -> Seq(Nat)]
  <2>1. taken["msg"] \o Content("msg") \in Seq(Nat)
    BY <1>2, ContentType DEF Types
  <2> QED
    BY <2>1 DEF Types, Finalize_
<1> QED
  BY <1>4, <1>5 DEF Rows, Types, Finalize_, Goto, SendPc, makeVars

LEMMA StepType == Types /\ Places /\ [Next]_vars => Types'
BY ProducerType, PopType, OtherType, FinalizeType
   DEF Next, SendThread, Executer, Thread
-----------------------------------------------------------------------------
(* The shutdown *)

LEMMA StepPlaces ==
  ASSUME Types, Types', Places, StopSparesQueues, [Next]_vars
  PROVE  Places' /\ StopSparesQueues'
<1>t. /\ tpc \in [Thread -> SendPc \cup ExecPc] /\ ppc \in [Producer -> {"idle", "push", "set"}]
      /\ Sender \subseteq Producer /\ DllThread \subseteq Producer
  BY DEF Types, SendPc, ExecPc, SendBusy, Emptying, Producer
<1> USE DllAssumption DEF DllAssumption, Places, StopSparesQueues, QueueGone,
        ObjectGone, Goto, Thread, SendPc, ExecPc, SendBusy, Emptying, Halting
<1>1. ASSUME NEW t \in Producer, ProducerNext(t) PROVE Places' /\ StopSparesQueues'
  <2>1. /\ UNCHANGED <<tpc, draining, stop, shutdown, raced, touched>>
        /\ ppc' \in [Producer -> {"idle", "push", "set"}]
        /\ \A x \in Producer : x # t => ppc'[x] = ppc[x]
    BY <1>1, <1>t DEF ProducerNext, PushTest, Push, Signal, threadVars, hisVars, Types
  <2>2. /\ t \in Sender => ~shutdown
        /\ t \in DllThread => ~draining
    <3>1. CASE PushTest(t)
      BY <3>1 DEF PushTest, MayCall
    <3>2. CASE Push(t) \/ Signal(t)
      BY <3>2, <1>t DEF Push, Signal
    <3> QED
      BY <1>1, <3>1, <3>2 DEF ProducerNext
  <2> QED
    BY <2>1, <2>2, <1>t
<1>2. ASSUME NEW th \in Thread, PopNext(th) PROVE Places' /\ StopSparesQueues'
  <2>1. CASE PopTest(th)
    BY <2>1, <1>t DEF PopTest, Alive, AfterNull, makeVars, hisVars
  <2>2. CASE PopTake(th)
    BY <2>2, <1>t DEF PopTake, Alive, makeVars, hisVars
  <2>3. CASE PopRead(th)
    BY <2>3, <1>t DEF PopRead, Alive, AfterItem, makeVars
  <2> QED
    BY <1>2, <2>1, <2>2, <2>3 DEF PopNext
<1>3. CASE SendWake
  BY <1>3, <1>t DEF SendWake, makeVars, hisVars
<1>4. CASE SendHandle \/ SendCount \/ SendReset
  BY <1>4, <1>t DEF SendHandle, SendCount, SendReset, makeVars, hisVars
<1>11. CASE SendStop
  BY <1>11, <1>t DEF SendStop, makeVars, hisVars
<1>12. CASE DeleteObject
  BY <1>12, <1>t DEF DeleteObject, makeVars, hisVars
<1>5. CASE UseGone
  BY <1>5, <1>t DEF UseGone, makeVars
<1>6. CASE ExecWake \/ OnReceive \/ Receive
  <2>1. UNCHANGED <<ppc, draining, stop, shutdown, raced, touched>>
    BY <1>6 DEF ExecWake, OnReceive, Receive, makeVars, hisVars
  <2>2. /\ tpc["executer"] \in {"wait", "onReceive", "receive"}
        /\ \/ tpc' = [tpc EXCEPT !["executer"] = "onReceive"]
           \/ tpc' = [tpc EXCEPT !["executer"] = "pop"]
           \/ tpc' = [tpc EXCEPT !["executer"] = "wait"]
    BY <1>6 DEF ExecWake, OnReceive, Receive
  <2> QED
    BY <2>1, <2>2, <1>t
<1>7. CASE StopSendThread
  BY <1>7, <1>t DEF StopSendThread, makeVars
<1>8. CASE Finalize_
  BY <1>8, <1>t DEF Finalize_, makeVars
<1>9. CASE Shutdown
  BY <1>9, <1>t DEF Shutdown, makeVars, hisVars, threadVars
<1>10. CASE UNCHANGED vars
  BY <1>10 DEF vars, makeVars, hisVars, threadVars
<1> QED
  BY <1>1, <1>2, <1>3, <1>4, <1>5, <1>6, <1>7, <1>8, <1>9, <1>10, <1>11, <1>12
     DEF Next, SendThread, Executer
-----------------------------------------------------------------------------
(* The wakeups *)

Wakeups == SendEventSet /\ DrainFinds /\ NoLostWakeup

LEMMA ProducerWakes ==
  ASSUME Types, Places, Wakeups, NEW t \in Producer, ProducerNext(t)
  PROVE  Wakeups'
<1>t. /\ Sender \subseteq Producer /\ DllThread \subseteq Producer
      /\ ppc \in [Producer -> {"idle", "push", "set"}] /\ event \in [Queue -> BOOLEAN]
      /\ "send" \in Queue /\ "msg" \in Queue
  BY DEF Types, Producer, Queue
<1>i. (t \in Sender => Into(t) = "send") /\ (t \in DllThread => Into(t) = "msg")
  BY DllAssumption DEF DllAssumption, Into
<1> USE DEF Places, Wakeups, SendEventSet, DrainFinds, NoLostWakeup
<1>1. CASE PushTest(t)
  <2>1. /\ UNCHANGED <<ring, event, tpc, draining, late, raced>>
        /\ \A x \in Producer : ppc[x] = "set" => ppc'[x] = "set"
    BY <1>1, <1>t DEF PushTest, threadVars, hisVars
  <2> QED
    BY <2>1, <1>t DEF Count
<1>2. CASE Push(t)
  <2>1. /\ UNCHANGED <<event, tpc, draining, late, raced>>
        /\ \A x \in Producer : ppc[x] = "set" => ppc'[x] = "set"
        /\ ppc'[t] = "set"
    BY <1>2, <1>t DEF Push, threadVars
  <2>2. CASE t \in Sender
    <3>1. Count("msg")' = Count("msg")
      BY <1>2, <1>i, <1>t, <2>2 DEF Push, Count, Types
    <3>2. ~draining
      BY <1>2, <1>t, <2>2 DEF Push
    <3> QED
      BY <2>1, <2>2, <3>1, <3>2, <1>t
  <2>3. CASE t \in DllThread
    <3>1. Count("send")' = Count("send")
      BY <1>2, <1>i, <1>t, <2>3 DEF Push, Count, Types
    <3> QED
      BY <2>1, <2>3, <3>1, <1>t
  <2> QED
    BY <2>2, <2>3 DEF Producer
<1>3. CASE Signal(t)
  <2>1. /\ UNCHANGED <<ring, tpc, draining, raced>>
        /\ event' = [event EXCEPT ![Into(t)] = TRUE]
        /\ late' = (late \/ (t \in Sender /\ tpc["sendThd"] = "reset"))
        /\ \A x \in Producer : x # t => ppc'[x] = ppc[x]
    BY <1>3, <1>t DEF Signal, threadVars
  <2>2. /\ UNCHANGED <<Count("send"), Count("msg")>>
        /\ event["send"] => event'["send"]
        /\ event["msg"] => event'["msg"]
    BY <2>1, <1>t DEF Count
  <2>3. CASE t \in Sender
    BY <1>t, <1>i, <2>1, <2>2, <2>3, DllAssumption DEF DllAssumption
  <2>4. CASE t \in DllThread
    BY <1>t, <1>i, <2>1, <2>2, <2>4, DllAssumption DEF DllAssumption
  <2> QED
    BY <2>3, <2>4 DEF Producer
<1> QED
  BY <1>1, <1>2, <1>3 DEF ProducerNext

LEMMA PopWakes ==
  ASSUME Types, Places, Wakeups, NEW th \in Thread, PopNext(th)
  PROVE  Wakeups'
<1>t. /\ tpc \in [Thread -> SendPc \cup ExecPc] /\ "sendThd" \in Thread /\ "executer" \in Thread
      /\ "send" \in Queue /\ "msg" \in Queue /\ (th = "sendThd" \/ th = "executer")
  BY DEF Types, SendPc, ExecPc, SendBusy, Emptying, Queue, Thread
<1> USE DEF Places, Wakeups, SendEventSet, DrainFinds, NoLostWakeup, Goto, SendPc, ExecPc, SendBusy,
            Emptying, Halting
<1>1. CASE PopTest(th)
  <2>1. /\ UNCHANGED <<ring, event, draining, ppc, late, raced>>
        /\ tpc' = [tpc EXCEPT ![th] = IF Count(Popped(th)) = 0 THEN AfterNull(th) ELSE "take"]
        /\ tpc[th] = "pop"
        /\ UNCHANGED <<Count("send"), Count("msg")>>
    BY <1>1 DEF PopTest, makeVars, hisVars, Count
  <2>2. CASE th = "sendThd"
    BY <2>1, <2>2, <1>t DEF AfterNull
  <2>3. CASE th = "executer"
    BY <2>1, <2>3, <1>t DEF AfterNull, Popped
  <2> QED
    BY <1>t, <2>2, <2>3
<1>2. CASE PopTake(th)
  <2>1. /\ UNCHANGED <<event, draining, ppc, late, raced>>
        /\ tpc' = [tpc EXCEPT ![th] = "read"] /\ tpc[th] = "take"
        /\ \A q \in Queue : q # Popped(th) => Count(q)' = Count(q)
    BY <1>2, <1>t DEF PopTake, makeVars, hisVars, Count, Types
  <2>2. CASE th = "sendThd"
    <3>1. Popped(th) = "send" /\ Count("msg")' = Count("msg")
      BY <2>1, <2>2, <1>t DEF Popped
    <3>2. ~draining \/ raced
      BY <2>1, <2>2
    <3> QED
      BY <2>1, <2>2, <3>1, <3>2, <1>t
  <2>3. CASE th = "executer" /\ ~draining
    <3>1. Popped(th) = "msg" /\ Count("send")' = Count("send")
      BY <2>1, <2>3, <1>t DEF Popped
    <3> QED
      BY <2>1, <2>3, <3>1, <1>t
  <2>4. CASE th = "executer" /\ draining
    <3>1. Count("msg")' = Count("msg")
      BY <2>1, <2>4, <1>t DEF Popped
    <3>2. ~raced => Count("send") # 0 /\ tpc["sendThd"] \in Halting
      BY <2>1, <2>4
    <3> QED
      BY <2>1, <2>4, <3>1, <3>2, <1>t
  <2> QED
    BY <1>t, <2>2, <2>3, <2>4
<1>3. CASE PopRead(th)
  <2>1. /\ UNCHANGED <<ring, event, draining, ppc, late, raced>>
        /\ tpc' = [tpc EXCEPT ![th] = AfterItem(th)] /\ tpc[th] = "read"
        /\ UNCHANGED <<Count("send"), Count("msg")>>
    BY <1>3 DEF PopRead, makeVars, Count
  <2> QED
    BY <2>1, <1>t DEF AfterItem
<1> QED
  BY <1>1, <1>2, <1>3 DEF PopNext
LEMMA OtherWakes ==
  ASSUME Types, Places, Places', Wakeups,
         \/ SendWake \/ SendStop \/ SendHandle \/ SendCount \/ SendReset \/ UseGone \/ DeleteObject
         \/ ExecWake \/ OnReceive \/ Receive \/ Shutdown \/ StopSendThread \/ Finalize_
         \/ UNCHANGED vars
  PROVE  Wakeups'
<1>t. /\ tpc \in [Thread -> SendPc \cup ExecPc] /\ "sendThd" \in Thread /\ "executer" \in Thread
      /\ event \in [Queue -> BOOLEAN] /\ "send" \in Queue /\ "msg" \in Queue
      /\ Count("msg") \in Nat
  BY DllAssumption DEF DllAssumption, Types, SendPc, ExecPc, SendBusy, Emptying, Queue, Thread, Count
<1> USE DEF Places, Wakeups, SendEventSet, DrainFinds, NoLostWakeup, Goto, SendPc, ExecPc, SendBusy,
            Emptying, makeVars, hisVars
<1>1. CASE SendWake
  BY <1>1, <1>t DEF SendWake, Count
<1>2. CASE SendHandle \/ SendCount \/ UseGone
  BY <1>2, <1>t DEF SendHandle, SendCount, UseGone, Count
<1>10. CASE SendStop \/ DeleteObject
  BY <1>10, <1>t DEF SendStop, DeleteObject, Count
<1>3. CASE SendReset
  BY <1>3, <1>t DEF SendReset, Count
<1>4. CASE ExecWake \/ OnReceive
  BY <1>4, <1>t DEF ExecWake, OnReceive, Count
<1>5. CASE Receive
  <2>1. /\ event' = [event EXCEPT !["msg"] = IF Count("msg") > 0 THEN TRUE ELSE @]
        /\ tpc' = [tpc EXCEPT !["executer"] = "wait"]
        /\ UNCHANGED <<Count("msg"), Count("send"), ppc, late, raced, draining>>
    BY <1>5 DEF Receive, Count
  <2>2. Count("msg") # 0 => event'["msg"]
    BY <2>1, <1>t
  <2>3. event'["send"] = event["send"]
    BY <2>1, <1>t
  <2> QED
    BY <2>1, <2>2, <2>3, <1>t
<1>6. CASE Shutdown
  BY <1>6, <1>t DEF Shutdown, threadVars, Count
<1>7. CASE StopSendThread
  BY <1>7, <1>t DEF StopSendThread, Count
<1>8. CASE Finalize_
  <2>1. Count("send")' = Count("send")
    BY <1>8, <1>t DEF Finalize_, Count, Types, Queue
  <2> QED
    BY <1>8, <2>1, <1>t DEF Finalize_
<1>9. CASE UNCHANGED vars
  BY <1>9 DEF vars, threadVars, Count
<1> QED
  BY <1>1, <1>2, <1>3, <1>4, <1>5, <1>6, <1>7, <1>8, <1>9, <1>10

LEMMA StepInv == Inv /\ [Next]_vars => Inv'
<1> SUFFICES ASSUME Inv, [Next]_vars PROVE Inv'
  OBVIOUS
<1>1. Types'
  BY StepType DEF Inv
<1>2. Places' /\ StopSparesQueues'
  BY <1>1, StepPlaces DEF Inv
<1>3. Wakeups'
  BY <1>2, ProducerWakes, PopWakes, OtherWakes
     DEF Inv, Wakeups, Next, SendThread, Executer, Thread
<1> QED
  BY <1>1, <1>2, <1>3 DEF Inv, Wakeups

-----------------------------------------------------------------------------
(* First in, first out *)

Sound(q) == ~overrun[q] /\ ~(q = "send" /\ raced)
Popping(th, q) == tpc[th] \in {"pop", "take", "read"} /\ Popped(th) = q

(* While a thread is between the critical section of Pop() and its read,   *)
(* its slot is the one before base, and is free: a Push() may take it only *)
(* as the last one.                                                        *)
Fifo(q) ==
  /\ Count(q) <= Capacity
  /\ \A th \in Thread : tpc[th] = "take" /\ Popped(th) = q => Count(q) # 0
  /\ \A th \in Thread : tpc[th] = "read" /\ Popped(th) = q
       => Count(q) < Capacity /\ ring[q].base = AddIndex(slot[th], 1)
  /\ given[q] = taken[q] \o InHand(q) \o Content(q)

FifoInv == \A q \in Queue : Sound(q) => Fifo(q)

LEMMA Wrapped ==
  ASSUME NEW b \in 0 .. Capacity - 1, NEW n \in 0 .. Capacity
  PROVE  (b + n) % Capacity = AddIndex(b, n)
<1>1. Capacity \in Nat \ {0}
  BY DllAssumption DEF DllAssumption
<1>2. CASE b + n < Capacity
  BY <1>1, <1>2 DEF AddIndex
<1>3. CASE b + n >= Capacity
  <2>1. b + n \in Capacity .. 2 * Capacity - 1
    BY <1>1, <1>3
  <2>2. (b + n) % Capacity = b + n - Capacity
    BY ONLY <1>1, <2>1
  <2> QED
    BY <1>1, <1>3, <2>2 DEF AddIndex
<1> QED
  BY <1>1, <1>2, <1>3

(* The places of different items in the array are different. *)
LEMMA Apart ==
  ASSUME NEW b \in 0 .. Capacity - 1, NEW m \in 0 .. Capacity - 1, NEW n \in 0 .. Capacity - 1,
         m # n
  PROVE  AddIndex(b, m) # AddIndex(b, n)
BY DllAssumption DEF DllAssumption, AddIndex

(* The next item is at the same place, counted from the next base. *)
LEMMA NextPlace ==
  ASSUME NEW b \in 0 .. Capacity - 1, NEW m \in 0 .. Capacity - 1
  PROVE  (AddIndex(b, 1) + m) % Capacity = (b + (m + 1)) % Capacity
<1>1. AddIndex(b, 1) \in 0 .. Capacity - 1 /\ m \in 0 .. Capacity /\ m + 1 \in 0 .. Capacity
  BY DllAssumption, IndexInRange DEF DllAssumption
<1>2. (AddIndex(b, 1) + m) % Capacity = AddIndex(AddIndex(b, 1), m)
  BY ONLY <1>1, Wrapped
<1>3. (b + (m + 1)) % Capacity = AddIndex(b, m + 1)
  BY ONLY <1>1, Wrapped, b \in 0 .. Capacity - 1
<1>4. AddIndex(AddIndex(b, 1), m) = AddIndex(b, m + 1)
  BY DllAssumption DEF DllAssumption, AddIndex
<1> QED
  BY <1>2, <1>3, <1>4

LEMMA OnePopper ==
  ASSUME Places, NEW q \in Queue, Sound(q), NEW x \in Thread, NEW y \in Thread,
         Popping(x, q), Popping(y, q)
  PROVE  x = y
BY DEF Places, Sound, Popping, Popped, Thread, Queue, Emptying, Halting

LEMMA HandOfReader ==
  ASSUME Places, NEW q \in Queue, Sound(q), NEW th \in Thread, Popping(th, q)
  PROVE  InHand(q) = IF tpc[th] = "read" THEN <<ring[q].data[slot[th]]>> ELSE <<>>
<1> DEFINE H == {x \in Thread : tpc[x] = "read" /\ Popped(x) = q}
<1>1. H = IF tpc[th] = "read" THEN {th} ELSE {}
  <2>1. \A x \in H : x = th
    BY OnePopper DEF Popping
  <2>2. tpc[th] = "read" => th \in H
    BY DEF Popping
  <2>3. tpc[th] # "read" => th \notin H
    OBVIOUS
  <2> QED
    BY <2>1, <2>2, <2>3
<1>2. CASE tpc[th] = "read"
  <2>1. H = {th} /\ (CHOOSE x \in H : TRUE) = th
    BY <1>1, <1>2
  <2> QED
    BY <1>2, <2>1 DEF InHand
<1>3. CASE tpc[th] # "read"
  BY <1>1, <1>3 DEF InHand
<1> QED
  BY <1>2, <1>3

LEMMA HandOfNobody ==
  ASSUME NEW q, \A th \in Thread : ~(tpc[th] = "read" /\ Popped(th) = q)
  PROVE  InHand(q) = <<>>
BY DEF InHand

(* A step that moves no thread in or out of the read of a queue. *)
LEMMA FifoFrame ==
  ASSUME NEW q \in Queue, Fifo(q), UNCHANGED <<ring[q], given[q], taken[q]>>,
         \A th \in Thread : tpc'[th] = "read" /\ Popped(th)' = q <=> tpc[th] = "read" /\ Popped(th) = q,
         \A th \in Thread : tpc[th] = "read" /\ Popped(th) = q => slot'[th] = slot[th],
         \A th \in Thread : tpc'[th] = "take" /\ Popped(th)' = q
                           => (tpc[th] = "take" /\ Popped(th) = q) \/ Count(q) # 0
  PROVE  Fifo(q)'
<1>1. InHand(q)' = InHand(q)
  <2> DEFINE H == {th \in Thread : tpc[th] = "read" /\ Popped(th) = q}
             G == {th \in Thread : tpc'[th] = "read" /\ Popped(th)' = q}
  <2>1. G = H
    OBVIOUS
  <2>2. InHand(q)' = IF G = {} THEN <<>> ELSE <<ring'[q].data[slot'[CHOOSE th \in G : TRUE]]>>
    BY DEF InHand
  <2>3. InHand(q) = IF H = {} THEN <<>> ELSE <<ring[q].data[slot[CHOOSE th \in H : TRUE]]>>
    BY DEF InHand
  <2>4. H # {} => (CHOOSE th \in H : TRUE) \in H
    OBVIOUS
  <2>5. \A th \in H : slot'[th] = slot[th]
    OBVIOUS
  <2> HIDE DEF G, H
  <2> QED
    BY <2>1, <2>2, <2>3, <2>4, <2>5
<1>2. Count(q)' = Count(q) /\ Content(q)' = Content(q)
  BY DEF Count, Content
<1> QED
  BY <1>1, <1>2 DEF Fifo

LEMMA TakeHasRow ==
  ASSUME Types, NEW q \in Queue
  PROVE  /\ ring[q].base \in 0 .. Capacity - 1 /\ Count(q) \in 0 .. ULongMax
         /\ ring[q].data \in [0 .. Capacity - 1 -> Nat]
         /\ Capacity \in Nat \ {0} /\ ULongMax \in Nat \ {0} /\ Capacity <= ULongMax
BY DllAssumption DEF DllAssumption, Types, Count

LEMMA HandType == ASSUME Types, NEW q \in Queue PROVE InHand(q) \in Seq(Nat)
<1> DEFINE H == {th \in Thread : tpc[th] = "read" /\ Popped(th) = q}
<1>1. ASSUME NEW th \in H PROVE ring[q].data[slot[th]] \in Nat
  BY TakeHasRow DEF Types
<1>2. H # {} => (CHOOSE th \in H : TRUE) \in H
  OBVIOUS
<1>3. InHand(q) = IF H = {} THEN <<>> ELSE <<ring[q].data[slot[CHOOSE th \in H : TRUE]]>>
  BY DEF InHand
<1> HIDE DEF H
<1> QED
  BY <1>1, <1>2, <1>3

LEMMA ConsIs ==
  ASSUME NEW d \in Nat, NEW s \in Seq(Nat), NEW k \in 1 .. Len(s) + 1
  PROVE  (<<d>> \o s)[k] = IF k = 1 THEN d ELSE s[k - 1]
<1>1. <<d>> \in Seq(Nat) /\ Len(<<d>>) = 1 /\ <<d>>[1] = d /\ Len(s) \in Nat
  OBVIOUS
<1>2. (<<d>> \o s)[k] = IF k <= 1 THEN <<d>>[k] ELSE s[k - 1]
  BY <1>1, ConcatProperties
<1> QED
  BY <1>1, <1>2

LEMMA AppendIs ==
  ASSUME NEW s \in Seq(Nat), NEW e \in Nat
  PROVE  Append(s, e) = [k \in 1 .. Len(s) + 1 |-> IF k = Len(s) + 1 THEN e ELSE s[k]]
<1> DEFINE a == Append(s, e)
<1>1. /\ a \in Seq(Nat) /\ Len(a) = Len(s) + 1 /\ a[Len(s) + 1] = e
      /\ \A k \in 1 .. Len(s) : a[k] = s[k]
  BY AppendProperties
<1> HIDE DEF a
<1>2. Len(s) \in Nat
  OBVIOUS
<1>3. ASSUME NEW k \in 1 .. Len(s) + 1
      PROVE  a[k] = IF k = Len(s) + 1 THEN e ELSE s[k]
  <2>1. CASE k = Len(s) + 1
    BY <1>1, <2>1
  <2>2. CASE k # Len(s) + 1
    <3>1. k \in 1 .. Len(s)
      BY <1>2, <2>2
    <3> QED
      BY <1>1, <2>2, <3>1
  <2> QED
    BY <2>1, <2>2
<1>4. a = [k \in 1 .. Len(s) + 1 |-> a[k]]
  BY <1>1, LenProperties
<1>5. [k \in 1 .. Len(s) + 1 |-> a[k]]
       = [k \in 1 .. Len(s) + 1 |-> IF k = Len(s) + 1 THEN e ELSE s[k]]
  BY ONLY <1>3
<1>6. a = [k \in 1 .. Len(s) + 1 |-> IF k = Len(s) + 1 THEN e ELSE s[k]]
  BY <1>4, <1>5, Zenon
<1> QED
  BY <1>6 DEF a

LEMMA ConcatThree ==
  ASSUME NEW s \in Seq(Nat), NEW h \in Seq(Nat), NEW c \in Seq(Nat)
  PROVE  s \o (h \o c) = s \o h \o c
BY ConcatAssociative, SMTT(30)

LEMMA AppendLast ==
  ASSUME NEW s \in Seq(Nat), NEW h \in Seq(Nat), NEW c \in Seq(Nat), NEW e \in Nat
  PROVE  Append(s \o h \o c, e) = s \o h \o Append(c, e)
<1> DEFINE p == s \o h
<1>1. p \in Seq(Nat) /\ p \o c \in Seq(Nat) /\ <<e>> \in Seq(Nat)
  BY ConcatProperties
<1> HIDE DEF p
<1>2. Append(p \o c, e) = (p \o c) \o <<e>> /\ Append(c, e) = c \o <<e>>
  BY <1>1, AppendIsConcat
<1>3. p \o (c \o <<e>>) = (p \o c) \o <<e>>
  BY <1>1, ConcatThree
<1>4. Append(p \o c, e) = p \o Append(c, e)
  BY <1>2, <1>3
<1> QED
  BY <1>4 DEF p

LEMMA PushFifo ==
  ASSUME Types, Places, FifoInv, NEW t \in Producer, Push(t), NEW q \in Queue, Sound(q)'
  PROVE  Fifo(q)'
<1> DEFINE dest == AddIndex(ring[q].base, Count(q))
<1>0. Into(t) \in Queue /\ UNCHANGED <<tpc, slot, draining, taken, raced>>
  BY DEF Into, Queue, Push, threadVars
<1>1. CASE q # Into(t)
  <2>1. UNCHANGED <<ring[q], given[q], overrun[q]>>
    BY <1>0, <1>1 DEF Push, Types
  <2>2. Fifo(q)
    BY <1>0, <2>1 DEF FifoInv, Sound
  <2>3. \A th : Popped(th)' = Popped(th)
    BY <1>0 DEF Popped
  <2> QED
    BY <1>0, <2>1, <2>2, <2>3, FifoFrame
<1>2. CASE q = Into(t)
  <2>1. /\ ring'[q].base = ring[q].base /\ ring'[q].size = CountUp(Count(q))
        /\ ring'[q].data = [ring[q].data EXCEPT ![dest] = item[t]]
        /\ given'[q] = Append(given[q], item[t])
    BY <1>2, <1>0 DEF Push, Types, Count
  <2>2. overrun'[q] = (overrun[q] \/ Count(q) >= Capacity \/ dest \in BeingRead(q))
    BY <1>2, <1>0 DEF Push, Types
  <2>3. Sound(q) /\ Fifo(q) /\ Count(q) < Capacity /\ dest \notin BeingRead(q)
    <3>1. ~overrun'[q] /\ ~(q = "send" /\ raced)
      BY <1>0 DEF Sound
    <3>2. ~overrun[q] /\ ~(Count(q) >= Capacity) /\ dest \notin BeingRead(q)
      BY <2>2, <3>1, Zenon
    <3> QED
      BY <3>1, <3>2, TakeHasRow DEF Sound, FifoInv
  <2>4. \A th \in Thread : tpc[th] = "read" /\ Popped(th) = q => slot[th] # dest
    BY <2>3 DEF BeingRead
  <2>5. CountUp(Count(q)) = Count(q) + 1
    BY <2>3, TakeHasRow DEF CountUp
  <2>6. \A th : Popped(th)' = Popped(th)
    BY <1>0 DEF Popped
  <2>7. Content(q)' = Append(Content(q), item[t])
    <3>1. Content(q) \in Seq(Nat) /\ Len(Content(q)) = Count(q)
      BY ContentType DEF Count
    <3>2. Content(q)' = [k \in 1 .. Count(q) + 1 |-> ring'[q].data[(ring[q].base + k - 1) % Capacity]]
      BY <2>1, <2>5 DEF Content
    <3>3. ASSUME NEW k \in 1 .. Count(q)
          PROVE  ring'[q].data[(ring[q].base + k - 1) % Capacity] = Content(q)[k]
      <4>1. k - 1 \in 0 .. Capacity - 1 /\ Count(q) \in 0 .. Capacity - 1 /\ k - 1 # Count(q)
        BY <2>3, TakeHasRow
      <4>2. ring[q].base + k - 1 = ring[q].base + (k - 1)
        BY TakeHasRow
      <4>3. (ring[q].base + k - 1) % Capacity = AddIndex(ring[q].base, k - 1)
        <5>1. ring[q].base \in 0 .. Capacity - 1 /\ k - 1 \in 0 .. Capacity
          BY <4>1, TakeHasRow
        <5>2. (ring[q].base + (k - 1)) % Capacity = AddIndex(ring[q].base, k - 1)
          BY ONLY <5>1, Wrapped
        <5> QED
          BY <4>2, <5>2
      <4>4. AddIndex(ring[q].base, k - 1) # dest
        BY <4>1, Apart, TakeHasRow
      <4>5. AddIndex(ring[q].base, k - 1) \in 0 .. Capacity - 1
        BY <4>1, TakeHasRow DEF AddIndex
      <4>6. Content(q)[k] = ring[q].data[(ring[q].base + k - 1) % Capacity]
        BY DEF Content, Count
      <4> HIDE DEF dest
      <4> QED
        BY <2>1, <4>3, <4>4, <4>5, <4>6, TakeHasRow
    <3>4. ring'[q].data[(ring[q].base + (Count(q) + 1) - 1) % Capacity] = item[t]
      <4>1. ring[q].base + (Count(q) + 1) - 1 = ring[q].base + Count(q) /\ Count(q) \in 0 .. Capacity
        BY <2>3, TakeHasRow
      <4>2. (ring[q].base + Count(q)) % Capacity = dest
        <5>1. ring[q].base \in 0 .. Capacity - 1 /\ Count(q) \in 0 .. Capacity
          BY <4>1, TakeHasRow
        <5> QED
          BY ONLY <5>1, Wrapped
      <4>3. dest \in 0 .. Capacity - 1
        BY <2>3, TakeHasRow DEF AddIndex
      <4> HIDE DEF dest
      <4> QED
        BY <2>1, <4>1, <4>2, <4>3, TakeHasRow
    <3>5. Count(q) \in Nat /\ item[t] \in Nat
      BY TakeHasRow DEF Types
    <3>6. Content(q)' = [k \in 1 .. Count(q) + 1 |->
                           IF k = Count(q) + 1 THEN item[t] ELSE Content(q)[k]]
      BY ONLY <3>2, <3>3, <3>4, <3>5
    <3>7. Append(Content(q), item[t])
            = [k \in 1 .. Count(q) + 1 |-> IF k = Count(q) + 1 THEN item[t] ELSE Content(q)[k]]
      BY ONLY <3>1, <3>5, AppendIs
    <3> QED
      BY <3>6, <3>7, Zenon
  <2>8. InHand(q)' = InHand(q)
    <3> DEFINE H == {th \in Thread : tpc[th] = "read" /\ Popped(th) = q}
    <3>1. InHand(q)' = IF H = {} THEN <<>> ELSE <<ring'[q].data[slot[CHOOSE th \in H : TRUE]]>>
      <4> DEFINE G == {th \in Thread : tpc'[th] = "read" /\ Popped(th)' = q}
      <4>1. InHand(q)' = IF G = {} THEN <<>> ELSE <<ring'[q].data[slot'[CHOOSE th \in G : TRUE]]>>
        BY DEF InHand
      <4>2. tpc' = tpc /\ slot' = slot /\ \A th \in Thread : Popped(th)' = Popped(th)
        BY <1>0, <2>6
      <4>3. G = H
        BY ONLY <4>2
      <4> HIDE DEF G, H
      <4> QED
        BY <4>1, <4>2, <4>3
    <3>2. InHand(q) = IF H = {} THEN <<>> ELSE <<ring[q].data[slot[CHOOSE th \in H : TRUE]]>>
      BY DEF InHand
    <3>3. ASSUME NEW th \in H PROVE ring'[q].data[slot[th]] = ring[q].data[slot[th]]
      BY <2>1, <2>4, TakeHasRow DEF Types
    <3>4. H # {} => (CHOOSE th \in H : TRUE) \in H
      OBVIOUS
    <3> HIDE DEF H
    <3> QED
      BY <3>1, <3>2, <3>3, <3>4
  <2>9. given'[q] = taken'[q] \o InHand(q)' \o Content(q)'
    <3>1. given[q] = taken[q] \o InHand(q) \o Content(q)
      BY <2>3 DEF Fifo
    <3>2. taken[q] \in Seq(Nat) /\ InHand(q) \in Seq(Nat) /\ Content(q) \in Seq(Nat) /\ item[t] \in Nat
      BY HandType, ContentType DEF Types
    <3>3. given'[q] = Append(taken[q] \o InHand(q) \o Content(q), item[t])
      BY <2>1, <3>1
    <3>4. given'[q] = taken[q] \o InHand(q) \o Append(Content(q), item[t])
      BY <3>2, <3>3, AppendLast
    <3> QED
      BY <1>0, <2>7, <2>8, <3>4
  <2>10. ASSUME NEW th \in Thread, tpc[th] = "read", Popped(th) = q PROVE Count(q) + 1 < Capacity
    <3>1. slot[th] # dest /\ slot[th] \in 0 .. Capacity - 1 /\ ring[q].base = AddIndex(slot[th], 1)
      BY <2>3, <2>4, <2>10 DEF Fifo, Types
    <3> QED
      BY <2>3, <3>1, TakeHasRow DEF AddIndex
  <2>11. Count(q)' = Count(q) + 1 /\ Count(q) \in Nat
    BY <2>1, <2>5, TakeHasRow DEF Count
  <2>12. /\ Count(q)' <= Capacity /\ Count(q)' # 0
         /\ \A th \in Thread : tpc[th] = "read" /\ Popped(th) = q => Count(q)' < Capacity
    BY <2>3, <2>10, <2>11, TakeHasRow
  <2> QED
    BY <1>0, <2>1, <2>3, <2>6, <2>9, <2>12 DEF Fifo
<1> QED
  BY <1>1, <1>2

LEMMA PopTestFifo ==
  ASSUME Types, Places, FifoInv, NEW th \in Thread, PopTest(th), NEW q \in Queue, Sound(q)'
  PROVE  Fifo(q)'
<1>1. /\ UNCHANGED <<ring, given, taken, overrun, raced, slot, draining>>
      /\ tpc[th] = "pop" /\ \A x \in Thread : x # th => tpc'[x] = tpc[x]
      /\ tpc'[th] = IF Count(Popped(th)) = 0 THEN AfterNull(th) ELSE "take"
  BY DEF PopTest, Goto, makeVars, hisVars, Types
<1>2. Fifo(q)
  BY <1>1 DEF Sound, FifoInv
<1>3. \A x : Popped(x)' = Popped(x)
  BY <1>1 DEF Popped
<1>4. AfterNull(th) \notin {"read", "take"}
  BY DEF AfterNull, Thread
<1> QED
  BY <1>1, <1>2, <1>3, <1>4, FifoFrame

LEMMA PopTakeFifo ==
  ASSUME Types, Places, FifoInv, NEW th \in Thread, PopTake(th), NEW q \in Queue, Sound(q)'
  PROVE  Fifo(q)'
<1>1. /\ UNCHANGED <<given, taken, overrun, raced, draining>>
      /\ tpc[th] = "take" /\ tpc'[th] = "read" /\ slot'[th] = ring[Popped(th)].base
      /\ \A x \in Thread : x # th => tpc'[x] = tpc[x] /\ slot'[x] = slot[x]
      /\ Popped(th) \in Queue
  BY DEF PopTake, Goto, makeVars, hisVars, Types, Popped, Queue
<1>2. Sound(q) /\ Fifo(q)
  BY <1>1 DEF Sound, FifoInv
<1>3. \A x : Popped(x)' = Popped(x)
  BY <1>1 DEF Popped
<1>4. CASE Popped(th) # q
  <2>1. ring'[q] = ring[q]
    BY <1>1, <1>4 DEF PopTake, Types
  <2> QED
    BY <1>1, <1>2, <1>3, <1>4, <2>1, FifoFrame
<1>5. CASE Popped(th) = q
  <2> DEFINE b == ring[q].base  d == ring[q].data[b]
  <2>1. /\ ring'[q].base = AddIndex(b, 1) /\ ring'[q].size = CountDown(Count(q))
        /\ ring'[q].data = ring[q].data
    BY <1>1, <1>5 DEF PopTake, Types, Count
  <2>2. Count(q) \in 1 .. Capacity /\ CountDown(Count(q)) = Count(q) - 1
    BY <1>1, <1>2, <1>5, TakeHasRow DEF Fifo, CountDown
  <2>3. \A x \in Thread : Popping(x, q) => x = th
    BY <1>1, <1>2, <1>5, OnePopper DEF Popping
  <2>4. InHand(q) = <<>>
    BY <1>1, <2>3, HandOfNobody DEF Popping
  <2>5. InHand(q)' = <<d>>
    <3> DEFINE G == {x \in Thread : tpc'[x] = "read" /\ Popped(x)' = q}
    <3>1. InHand(q)' = IF G = {} THEN <<>> ELSE <<ring'[q].data[slot'[CHOOSE x \in G : TRUE]]>>
      BY DEF InHand
    <3>2. G = {th}
      BY <1>1, <1>3, <1>5, <2>3 DEF Popping
    <3>3. (CHOOSE x \in {th} : TRUE) = th
      OBVIOUS
    <3> HIDE DEF G
    <3> QED
      BY <1>1, <1>5, <2>1, <3>1, <3>2, <3>3
  <2> DEFINE n == Count(q)  rest == Content(q)'
  <2>6. rest = [k \in 1 .. n - 1 |-> ring[q].data[(AddIndex(b, 1) + k - 1) % Capacity]]
    BY <2>1, <2>2 DEF Content
  <2>7. b \in 0 .. Capacity - 1 /\ n \in 1 .. Capacity /\ d \in Nat /\ Capacity \in Nat
    BY <2>2, TakeHasRow
  <2>8. rest \in Seq(Nat) /\ Len(rest) = n - 1 /\ Content(q) \in Seq(Nat) /\ Len(Content(q)) = n
    <3>1. AddIndex(b, 1) \in 0 .. Capacity - 1
      BY <2>7, IndexInRange
    <3>2. ASSUME NEW k \in 1 .. n - 1
          PROVE  ring[q].data[(AddIndex(b, 1) + k - 1) % Capacity] \in Nat
      <4>1. k - 1 \in Nat /\ AddIndex(b, 1) + k - 1 = AddIndex(b, 1) + (k - 1)
        BY <2>7, <3>1
      <4>2. (AddIndex(b, 1) + k - 1) % Capacity \in 0 .. Capacity - 1
        BY <3>1, <4>1, IndexInRange
      <4> QED
        BY <4>2, TakeHasRow
    <3>3. Content(q) \in Seq(Nat) /\ Len(Content(q)) = n
      BY ContentType DEF Count
    <3>4. n - 1 \in Nat
      BY <2>7
    <3> HIDE DEF n
    <3>5. rest \in Seq(Nat) /\ Len(rest) = n - 1
      <4> HIDE DEF rest, b
      <4> QED
        BY <2>6, <3>2, <3>4
    <3> QED
      BY <3>3, <3>5
  <2>9. ASSUME NEW k \in 1 .. n PROVE Content(q)[k] = (<<d>> \o rest)[k]
    <3>1. Content(q)[k] = ring[q].data[(b + k - 1) % Capacity]
      BY DEF Content, Count
    <3>2. (<<d>> \o rest)[k] = IF k = 1 THEN d ELSE rest[k - 1]
      <4> HIDE DEF b, d, n, rest
      <4>1. d \in Nat /\ rest \in Seq(Nat) /\ k \in 1 .. Len(rest) + 1
        BY <2>7, <2>8
      <4> QED
        BY ONLY <4>1, ConsIs
    <3>3. CASE k = 1
      <4>1. (b + k - 1) % Capacity = b
        <5> HIDE DEF b, n, d, rest
        <5>1. b + k - 1 = b
          BY ONLY <2>7, <3>3
        <5> QED
          BY ONLY <2>7, <5>1
      <4> QED
        BY <3>1, <3>2, <3>3, <4>1
    <3>4. CASE k # 1
      <4>1. k - 2 \in 0 .. Capacity - 1 /\ k - 1 \in 1 .. n - 1
        BY <2>7, <3>4
      <4>2. (AddIndex(b, 1) + (k - 2)) % Capacity = (b + ((k - 2) + 1)) % Capacity
        BY ONLY <2>7, <4>1, NextPlace
      <4>3. /\ AddIndex(b, 1) + (k - 1) - 1 = AddIndex(b, 1) + (k - 2)
            /\ b + ((k - 2) + 1) = b + k - 1
        BY <2>7 DEF AddIndex
      <4>4. rest[k - 1] = ring[q].data[(AddIndex(b, 1) + (k - 1) - 1) % Capacity]
        BY <2>6, <4>1
      <4> QED
        BY <3>1, <3>2, <3>4, <4>2, <4>3, <4>4
    <3> QED
      BY <3>3, <3>4
  <2>10. Content(q) = <<d>> \o rest
    <3>1. <<d>> \o rest \in Seq(Nat) /\ Len(<<d>> \o rest) = n
      BY <2>7, <2>8, ConcatProperties
    <3> HIDE DEF rest, d
    <3>2. \A k \in 1 .. Len(Content(q)) : Content(q)[k] = (<<d>> \o rest)[k]
      BY <2>8, <2>9
    <3> QED
      BY <2>8, <3>1, <3>2, SeqEqual
  <2>11. given'[q] = taken'[q] \o InHand(q)' \o Content(q)'
    <3>1. given[q] = taken[q] \o <<>> \o Content(q)
      BY <1>2, <2>4 DEF Fifo
    <3>2. taken[q] \in Seq(Nat) /\ <<d>> \in Seq(Nat) /\ rest \in Seq(Nat)
      BY <2>7, <2>8 DEF Types
    <3>3. taken[q] \o <<>> = taken[q]
      BY <3>2, ConcatEmptySeq
    <3>4. taken[q] \o (<<d>> \o rest) = taken[q] \o <<d>> \o rest
      <4> HIDE DEF d, rest
      <4> QED
        BY ONLY <3>2, ConcatThree
    <3>5. given[q] = taken[q] \o Content(q)
      BY <3>1, <3>3
    <3>6. given[q] = taken[q] \o <<d>> \o rest
      <4> HIDE DEF d, rest
      <4> QED
        BY <2>10, <3>4, <3>5
    <3>7. given'[q] = given[q] /\ taken'[q] = taken[q]
      BY <1>1
    <3> HIDE DEF d
    <3> QED
      BY <2>5, <3>6, <3>7
  <2>12. Count(q)' = n - 1
    BY <2>1, <2>2 DEF Count
  <2>13. \A x \in Thread : ~(tpc'[x] = "take" /\ Popped(x)' = q)
    BY <1>1, <1>3, <2>3 DEF Popping
  <2>14. ASSUME NEW x \in Thread, tpc'[x] = "read", Popped(x)' = q
         PROVE  Count(q)' < Capacity /\ ring'[q].base = AddIndex(slot'[x], 1)
    <3>1. x = th
      BY <1>1, <1>3, <2>3, <2>14 DEF Popping
    <3> QED
      BY <1>1, <1>5, <2>1, <2>7, <2>12, <3>1
  <2>15. Count(q)' <= Capacity
    BY <2>7, <2>12
  <2> QED
    BY <2>11, <2>13, <2>14, <2>15 DEF Fifo
<1> QED
  BY <1>4, <1>5

LEMMA PopReadFifo ==
  ASSUME Types, Places, FifoInv, NEW th \in Thread, PopRead(th), NEW q \in Queue, Sound(q)'
  PROVE  Fifo(q)'
<1>1. /\ UNCHANGED <<ring, given, overrun, raced, slot, draining>>
      /\ tpc[th] = "read" /\ tpc'[th] = AfterItem(th)
      /\ \A x \in Thread : x # th => tpc'[x] = tpc[x]
      /\ taken' = [taken EXCEPT ![Popped(th)] = Append(@, ring[Popped(th)].data[slot[th]])]
  BY DEF PopRead, Goto, makeVars, Types
<1>2. Sound(q) /\ Fifo(q)
  BY <1>1 DEF Sound, FifoInv
<1>3. \A x : Popped(x)' = Popped(x)
  BY <1>1 DEF Popped
<1>4. AfterItem(th) \notin {"read", "take"}
  BY DEF AfterItem
<1>5. CASE Popped(th) # q
  <2>1. taken'[q] = taken[q]
    BY <1>1, <1>5 DEF Types
  <2> QED
    BY <1>1, <1>2, <1>3, <1>4, <1>5, <2>1, FifoFrame
<1>6. CASE Popped(th) = q
  <2> DEFINE d == ring[q].data[slot[th]]
  <2>1. taken'[q] = Append(taken[q], d) /\ taken[q] \in Seq(Nat) /\ d \in Nat
    BY <1>1, <1>6, TakeHasRow DEF Types
  <2>2. \A x \in Thread : Popping(x, q) => x = th
    BY <1>1, <1>2, <1>6, OnePopper DEF Popping
  <2>3. InHand(q) = <<d>>
    BY <1>1, <1>2, <1>6, HandOfReader DEF Popping
  <2>4. \A x \in Thread : ~(tpc'[x] = "read" /\ Popped(x)' = q)
    BY <1>1, <1>3, <1>4, <2>2 DEF Popping
  <2>5. InHand(q)' = <<>>
    BY <2>4 DEF InHand
  <2>6. Content(q)' = Content(q) /\ Count(q)' = Count(q)
    BY <1>1 DEF Content, Count
  <2>7. given'[q] = taken'[q] \o InHand(q)' \o Content(q)'
    <3> HIDE DEF d
    <3>1. given'[q] = taken[q] \o <<d>> \o Content(q)
      BY <1>1, <1>2, <2>3 DEF Fifo
    <3>2. Append(taken[q], d) = taken[q] \o <<d>> /\ Append(taken[q], d) \in Seq(Nat)
      BY <2>1, AppendIsConcat
    <3>3. Append(taken[q], d) \o <<>> = Append(taken[q], d)
      BY <3>2, ConcatEmptySeq
    <3> QED
      BY <2>1, <2>5, <2>6, <3>1, <3>2, <3>3
  <2>8. \A x \in Thread : ~(tpc'[x] = "take" /\ Popped(x)' = q)
    BY <1>1, <1>3, <1>4, <2>2 DEF Popping
  <2> QED
    BY <1>2, <2>4, <2>6, <2>7, <2>8 DEF Fifo
<1> QED
  BY <1>5, <1>6

LEMMA FinalizeFifo ==
  ASSUME Types, Places, FifoInv, Finalize_, NEW q \in Queue, Sound(q)'
  PROVE  Fifo(q)'
<1>1. /\ UNCHANGED <<given, overrun, raced, slot>> /\ draining' = TRUE
      /\ tpc["executer"] = "finalize" /\ tpc'["executer"] = "pop" /\ tpc'["sendThd"] = tpc["sendThd"]
      /\ "send" \in Queue /\ "msg" \in Queue /\ ~draining
  BY DEF Finalize_, Goto, makeVars, Types, Places, Thread, Queue, Emptying
<1>2. Sound(q) /\ Fifo(q)
  BY <1>1 DEF Sound, FifoInv
<1>3. CASE q = "send"
  <2>1. UNCHANGED <<ring[q], taken[q]>>
    BY <1>3 DEF Finalize_, Types, Queue
  <2> QED
    BY <1>1, <1>2, <1>3, <2>1, FifoFrame DEF Popped, Thread
<1>4. CASE q = "msg"
  <2>1. /\ taken'[q] = taken[q] \o Content(q) /\ ring'[q].size = 0
    BY <1>4 DEF Finalize_, Types, Queue
  <2>2. InHand(q) = <<>>
    BY <1>1, <1>4, HandOfNobody DEF Popped, Thread
  <2>3. \A x \in Thread : Popped(x)' # q
    BY <1>1, <1>4 DEF Popped, Thread
  <2>4. InHand(q)' = <<>>
    BY <2>3 DEF InHand
  <2>5. Content(q)' = <<>>
    <3>1. Content(q)' = [k \in 1 .. 0 |-> ring'[q].data[(ring'[q].base + k - 1) % Capacity]]
      BY <2>1 DEF Content
    <3> QED
      BY <3>1
  <2>6. Count(q)' = 0 /\ Capacity \in Nat
    BY <2>1, DllAssumption DEF Count, DllAssumption
  <2>7. given'[q] = taken'[q] \o InHand(q)' \o Content(q)'
    <3>1. given'[q] = taken[q] \o <<>> \o Content(q)
      BY <1>1, <1>2, <2>2 DEF Fifo
    <3>2. taken[q] \in Seq(Nat) /\ Content(q) \in Seq(Nat)
      BY ContentType DEF Types
    <3>3. taken[q] \o <<>> = taken[q] /\ taken[q] \o Content(q) \in Seq(Nat)
      BY <3>2, ConcatEmptySeq, ConcatProperties
    <3>4. (taken[q] \o Content(q)) \o <<>> = taken[q] \o Content(q)
      BY <3>3, ConcatEmptySeq
    <3> QED
      BY <2>1, <2>4, <2>5, <3>1, <3>3, <3>4
  <2> QED
    BY <2>3, <2>6, <2>7 DEF Fifo
<1> QED
  BY <1>3, <1>4 DEF Queue

LEMMA OtherFifo ==
  ASSUME Types, Places, FifoInv,
         \/ \E t \in Producer : PushTest(t) \/ Signal(t)
         \/ SendWake \/ SendStop \/ SendHandle \/ SendCount \/ SendReset \/ UseGone \/ DeleteObject
         \/ ExecWake \/ OnReceive \/ Receive \/ Shutdown \/ StopSendThread
         \/ UNCHANGED vars,
         NEW q \in Queue, Sound(q)'
  PROVE  Fifo(q)'
<1>1. /\ UNCHANGED <<ring, given, taken, overrun, slot, draining>> /\ (raced => raced')
      /\ \A x \in Thread : tpc'[x] # tpc[x] => tpc[x] # "read" /\ tpc'[x] \notin {"read", "take"}
      \/ UseGone
  BY DEF PushTest, Signal, SendWake, SendStop, SendHandle, SendCount, SendReset, ExecWake, OnReceive,
         Receive, Shutdown, StopSendThread, vars, threadVars, makeVars, hisVars, Goto, Types, Places,
         DeleteObject, Emptying, Thread
<1>2. CASE ~UseGone
  <2>1. Sound(q) /\ Fifo(q)
    BY <1>1, <1>2 DEF Sound, FifoInv
  <2>2. \A x : Popped(x)' = Popped(x)
    BY <1>1, <1>2 DEF Popped
  <2> QED
    BY <1>1, <1>2, <2>1, <2>2, FifoFrame
<1>3. CASE UseGone
  <2>1. /\ UNCHANGED <<ring, given, taken, overrun, raced, slot, draining>>
        /\ tpc'["executer"] = tpc["executer"] /\ tpc'["sendThd"] = "crashed"
    BY <1>3 DEF UseGone, makeVars, Goto, Types, Thread
  <2>2. q = "msg" \/ tpc["sendThd"] \in Halting
    BY <1>3, <2>1 DEF UseGone, Places, Sound, Queue, QueueGone, ObjectGone
  <2>3. Sound(q) /\ Fifo(q)
    BY <2>1 DEF Sound, FifoInv
  <2>4. Popped("sendThd") = "send" /\ \A x : Popped(x)' = Popped(x)
    BY <2>1 DEF Popped
  <2> QED
    BY <2>1, <2>2, <2>3, <2>4, FifoFrame DEF Thread, Halting
<1> QED
  BY <1>2, <1>3

LEMMA InitFifo == Init => FifoInv
<1> SUFFICES ASSUME Init, NEW q \in Queue PROVE Fifo(q)
  BY DEF FifoInv
<1>1. Count(q) = 0 /\ Capacity \in Nat
  BY DllAssumption DEF Init, Count, DllAssumption
<1>2. \A th \in Thread : tpc[th] \notin {"take", "read"}
  BY DEF Init
<1>3. InHand(q) = <<>>
  BY <1>2, HandOfNobody
<1>4. Content(q) = <<>>
  <2>1. Content(q) = [k \in 1 .. 0 |-> ring[q].data[(ring[q].base + k - 1) % Capacity]]
    BY <1>1 DEF Content, Count
  <2> QED
    BY <2>1
<1>5. given[q] = <<>> /\ taken[q] = <<>>
  BY DEF Init
<1> QED
  BY <1>1, <1>2, <1>3, <1>4, <1>5 DEF Fifo

LEMMA StepFifo == ASSUME Inv, FifoInv, [Next]_vars PROVE FifoInv'
<1> SUFFICES ASSUME NEW q \in Queue, Sound(q)' PROVE Fifo(q)'
  BY DEF FifoInv
<1> QED
  BY PushFifo, PopTestFifo, PopTakeFifo, PopReadFifo, FinalizeFifo, OtherFifo
     DEF Inv, Next, ProducerNext, PopNext, SendThread, Executer, Thread

LEMMA InvAlways == Spec => []Inv
BY InitInv, StepInv, PTL DEF Spec

LEMMA FifoAlways == Spec => []FifoInv
<1>1. Inv /\ FifoInv /\ [Next]_vars => FifoInv'
  BY StepFifo
<1> QED
  BY <1>1, InitFifo, InvAlways, PTL DEF Spec

-----------------------------------------------------------------------------
(* For any capacity and any number of threads, the types of the queues,    *)
(* events and threads, base an index of the array; and size, which is      *)
(* tested outside the critical section, never wraps below zero and never   *)
(* exceeds the capacity before a race that overrun or raced records.       *)
THEOREM DllTypeOK == Spec => []TypeOK
<1>1. FifoInv => SizesInRange
  BY DEF FifoInv, SizesInRange, Sound, Fifo
<1> QED
  BY <1>1, InvAlways, FifoAlways, PTL DEF Inv, TypeOK

(* Whatever the capacity and the threads, every message pushed is popped   *)
(* once and in order, but for the three races that overrun and raced name. *)
THEOREM DllFifoUnlessOverrun == Spec => []FifoUnlessOverrun
<1>1. FifoInv => FifoUnlessOverrun
  BY DEF FifoInv, FifoUnlessOverrun, Sound, Fifo
<1> QED
  BY <1>1, FifoAlways, PTL

(* No message waits for a thread that nobody will wake, but one whose      *)
(* Send() fell between the send thread's test and its ResetEvent().        *)
THEOREM DllNoLostWakeup == Spec => []NoLostWakeup
BY InvAlways, PTL DEF Inv

(* The shutdown unloads no library and deletes no queue under a send       *)
(* thread that was waiting when m_StopEvent was set; but the object, which *)
(* that thread still uses, it may delete.                                  *)
THEOREM DllStopSparesQueues == Spec => []StopSparesQueues
BY InvAlways, PTL DEF Inv
=============================================================================
