------------------------------ MODULE AsyncDll ------------------------------
(***************************************************************************)
(* The client's interface to a module loaded as a DLL (RopAsyncDll.cpp):   *)
(* two ring buffers (RopQueue.cpp) between three kinds of threads.         *)
(*                                                                         *)
(*   any thread of the client --Send()--> SendQ --> the send thread, which *)
(*                                       calls the DLL's MsgHandler()      *)
(*   the DLL's threads --NotifyMsg()--> MsgQ --> the executer's loop       *)
(*                            (RopExecuter.cpp), which calls OnEvent()     *)
(*                                                                         *)
(* The DLL is external.  Its Finalize() is taken to end its threads, and   *)
(* the client to send nothing once it has asked for the shutdown (MayCall).*)
(***************************************************************************)
EXTENDS Integers, Sequences, SequencesExt

CONSTANTS Sender,       \* the client's threads that call Send()
          DllThread,    \* the DLL's threads that call back
          Capacity,     \* MAX_QUEUE_ITEM
          ULongMax,     \* the largest unsigned long; size wraps there
          MaxMsg        \* bound: [queue -> the messages made for it]

ASSUME DllAssumption ==
  /\ Sender \cap DllThread = {}
  /\ ULongMax \in Nat /\ Capacity \in 1 .. ULongMax - 1
  /\ MaxMsg \in [{"send", "msg"} -> 0 .. ULongMax]

VARIABLES
  ring,      \* SendQ and MsgQ: base, size and the array
  event,     \* m_SendEvent, and m_OlRead.hEvent of the executer
  stop,      \* m_StopEvent
  shutdown,  \* m_ShutdownIndicated
  ppc, item, \* where each Send() and NotifyMsg() is, and its message
  tpc,       \* where the send thread and the executer are
  slot,      \* oldbase of the two Pop()s
  draining,  \* Finalize() has returned, and the library is unloaded
  next,      \* the messages made so far, which are numbered
  given,     \* history: the messages pushed, in order
  taken,     \* history: the messages Pop() returned, in order
  overrun,   \* history: a Push() wrote where it must not
  late,      \* history: a SetEvent(m_SendEvent) fell before a ResetEvent
  raced,     \* history: the shutdown began while the send thread was busy
  touched    \* history: where the send thread first used what was no more

threadVars == <<tpc, slot, draining>>
makeVars   == <<ppc, item, next>>
hisVars    == <<given, taken, overrun, late, raced, touched>>
vars == <<ring, event, stop, shutdown, threadVars, makeVars, hisVars>>

Queue    == {"send", "msg"}
Producer == Sender \cup DllThread
Thread   == {"sendThd", "executer"}
SendPc   == {"wait", "stopping", "stopped", "pop", "take", "read", "handle", "count", "reset",
             "crashed"}
ExecPc   == {"receive", "wait", "onReceive", "pop", "take", "read", "finalize", "emptied",
             "deleted"}
Into(t)  == IF t \in Sender THEN "send" ELSE "msg"

\* No message: the content of a slot never written.
Null == 0

\* The send thread has used nothing that was no more.
NoWhere == "nowhere"

(* Open(): two empty queues and a thread.  The executer's EventLoop()      *)
(* calls Receive() of every device before it waits (BatchAsyncReceive).    *)
Init ==
  /\ ring = [q \in Queue |-> [base |-> 0, size |-> 0,
                              data |-> [k \in 0 .. Capacity - 1 |-> Null]]]
  /\ event = [q \in Queue |-> FALSE] /\ stop = FALSE /\ shutdown = FALSE
  /\ ppc = [t \in Producer |-> "idle"] /\ item = [t \in Producer |-> Null]
  /\ tpc = [th \in Thread |-> IF th = "sendThd" THEN "wait" ELSE "receive"]
  /\ slot = [th \in Thread |-> 0] /\ draining = FALSE
  /\ next = [q \in Queue |-> 0]
  /\ given = [q \in Queue |-> <<>>] /\ taken = [q \in Queue |-> <<>>]
  /\ overrun = [q \in Queue |-> FALSE]
  /\ late = FALSE /\ raced = FALSE /\ touched = NoWhere

Count(q)    == ring[q].size
Goto(th, p) == tpc' = [tpc EXCEPT ![th] = p]

\* SendQ is deleted, and then the RopAsyncDll itself.
QueueGone   == tpc["executer"] \in {"emptied", "deleted"}
ObjectGone  == tpc["executer"] = "deleted"

\* QUEUE_ADD_INDEX: one subtraction, not a remainder.
AddIndex(var, inc) == IF var + inc >= Capacity THEN var + inc - Capacity ELSE var + inc

\* ++size and --size of an unsigned long.
CountUp(n)   == IF n = ULongMax THEN 0 ELSE n + 1
CountDown(n) == IF n = 0 THEN ULongMax ELSE n - 1

-----------------------------------------------------------------------------
(* Push(), as called by Send() and NotifyMsg(). *)

(* The queue popped by a thread: the executer empties SendQ at the end. *)
Popped(th) == IF th = "executer" /\ ~draining THEN "msg" ELSE "send"
BeingRead(q) == {slot[th] : th \in {x \in Thread : tpc[x] = "read" /\ Popped(x) = q}}

(* Assumed of the client and of the DLL: RopExecuter::Shutdown() and Send()*)
(* have no such test.                                                      *)
MayCall(t) == IF t \in Sender THEN ~shutdown ELSE ~draining

(* A message is allocated, and size tested outside the critical section.   *)
(* A message that finds the queue full is freed.                           *)
PushTest(t) ==
  LET q == Into(t) IN
  /\ ppc[t] = "idle" /\ MayCall(t) /\ next[q] < MaxMsg[q]
  /\ next' = [next EXCEPT ![q] = @ + 1]
  /\ item' = [item EXCEPT ![t] = next[q] + 1]
  /\ ppc'  = [ppc EXCEPT ![t] = IF Count(q) = Capacity THEN "set" ELSE "push"]
  /\ UNCHANGED <<ring, event, stop, shutdown, threadVars, hisVars>>

(* Seeded fault: size is counted up before the place is computed. *)
PushSizeFirst(t) ==
  LET q == Into(t)  dest == AddIndex(ring[q].base, Count(q) + 1) IN
  /\ ppc[t] = "push"
  /\ ring' = [ring EXCEPT ![q].data[dest] = item[t], ![q].size = CountUp(@)]
  /\ ppc' = [ppc EXCEPT ![t] = "set"]
  /\ given' = [given EXCEPT ![q] = Append(@, item[t])]
  /\ overrun' = [overrun EXCEPT ![q] = @ \/ Count(q) >= Capacity \/ dest \in BeingRead(q)]
  /\ UNCHANGED <<event, stop, shutdown, threadVars, item, next, taken, late, raced, touched>>

(* The critical section of Push(). *)
Push(t) ==
  LET q == Into(t)  dest == AddIndex(ring[q].base, Count(q)) IN
  /\ ppc[t] = "push"
  /\ ring' = [ring EXCEPT ![q].data[dest] = item[t], ![q].size = CountUp(@)]
  /\ ppc' = [ppc EXCEPT ![t] = "set"]
  /\ given' = [given EXCEPT ![q] = Append(@, item[t])]
  /\ overrun' = [overrun EXCEPT ![q] = @ \/ Count(q) >= Capacity \/ dest \in BeingRead(q)]
  /\ UNCHANGED <<event, stop, shutdown, threadVars, item, next, taken, late, raced, touched>>

(* SetEvent(), also when the message was not pushed. *)
Signal(t) ==
  /\ ppc[t] = "set"
  /\ event' = [event EXCEPT ![Into(t)] = TRUE]
  /\ ppc'  = [ppc EXCEPT ![t] = "idle"]
  /\ item' = [item EXCEPT ![t] = Null]
  /\ late' = (late \/ (t \in Sender /\ tpc["sendThd"] = "reset"))
  /\ UNCHANGED <<ring, stop, shutdown, threadVars, next, given, taken, overrun, raced, touched>>

-----------------------------------------------------------------------------
(* Pop(), as called by the send thread (OnSend) and by the executer        *)
(* (OnReceive, CheckAndDoShutdown).                                        *)

Alive(th) == th = "sendThd" => ~QueueGone

AfterNull(th) == CASE th = "sendThd" -> "count"
                   [] th = "executer" /\ draining -> "emptied"
                   [] OTHER -> "receive"

(* Seeded fault: OnReceive() takes one message for each event, and         *)
(* Receive() is not called after it.                                       *)
AfterItemOne(th) == IF th = "sendThd" THEN "handle" ELSE IF draining THEN "pop" ELSE "wait"

AfterItem(th) == IF th = "sendThd" THEN "handle" ELSE "pop"

(* The test outside the critical section. *)
PopTest(th) ==
  /\ tpc[th] = "pop" /\ Alive(th)
  /\ Goto(th, IF Count(Popped(th)) = 0 THEN AfterNull(th) ELSE "take")
  /\ UNCHANGED <<ring, event, stop, shutdown, slot, draining, makeVars, hisVars>>

(* Seeded fault: the index is not wrapped. *)
PopTakeNoWrap(th) ==
  LET q == Popped(th) IN
  /\ tpc[th] = "take" /\ Alive(th)
  /\ slot' = [slot EXCEPT ![th] = ring[q].base]
  /\ ring' = [ring EXCEPT ![q].base = @ + 1,
                          ![q].size = CountDown(@)]
  /\ Goto(th, "read")
  /\ UNCHANGED <<event, stop, shutdown, draining, makeVars, hisVars>>

(* The critical section of Pop() ... *)
PopTake(th) ==
  LET q == Popped(th) IN
  /\ tpc[th] = "take" /\ Alive(th)
  /\ slot' = [slot EXCEPT ![th] = ring[q].base]
  /\ ring' = [ring EXCEPT ![q].base = AddIndex(@, 1),
                          ![q].size = CountDown(@)]
  /\ Goto(th, "read")
  /\ UNCHANGED <<event, stop, shutdown, draining, makeVars, hisVars>>

(* ... and the read of the slot, after it was left.  The executer calls    *)
(* OnEvent() or just frees the message, and pops again.                    *)
PopRead(th) ==
  LET q == Popped(th) IN
  /\ tpc[th] = "read" /\ Alive(th)
  /\ taken' = [taken EXCEPT ![q] = Append(@, ring[q].data[slot[th]])]
  /\ Goto(th, AfterItem(th))
  /\ UNCHANGED <<ring, event, stop, shutdown, slot, draining, makeVars,
                 given, overrun, late, raced, touched>>

-----------------------------------------------------------------------------
(* DllSendThdProc(): between any two steps it uses *pDll: m_bStopped,      *)
(* OldTickCount after each wakeup, the members OnSend() names, GetName().  *)

(* Seeded fault: the events change places in hTable. *)
SendWakeDataFirst ==
  /\ tpc["sendThd"] = "wait" /\ (stop \/ event["send"]) /\ ~ObjectGone
  /\ Goto("sendThd", IF event["send"] THEN "pop" ELSE "stopping")
  /\ UNCHANGED <<ring, event, stop, shutdown, slot, draining, makeVars, hisVars>>

(* WaitForMultipleObjects() reports the first of the events that are set.  *)
(* After its timeout the thread comes back here, where it has used *pDll.  *)
SendWake ==
  /\ tpc["sendThd"] = "wait" /\ (stop \/ event["send"]) /\ ~ObjectGone
  /\ Goto("sendThd", IF stop THEN "stopping" ELSE "pop")
  /\ UNCHANGED <<ring, event, stop, shutdown, slot, draining, makeVars, hisVars>>

(* The thread that met m_StopEvent logs the name of the module and ends.   *)
SendStop ==
  /\ tpc["sendThd"] = "stopping" /\ ~ObjectGone
  /\ Goto("sendThd", "stopped")
  /\ UNCHANGED <<ring, event, stop, shutdown, slot, draining, makeVars, hisVars>>

(* OnSend() has a message: MsgHandler(), and the message is freed. *)
SendHandle ==
  /\ tpc["sendThd"] = "handle" /\ ~draining
  /\ Goto("sendThd", "count")
  /\ UNCHANGED <<ring, event, stop, shutdown, slot, draining, makeVars, hisVars>>

(* Seeded fault: one message for each event. *)
SendCountOnce ==
  /\ tpc["sendThd"] = "count" /\ ~QueueGone
  /\ Goto("sendThd", "reset")
  /\ UNCHANGED <<ring, event, stop, shutdown, slot, draining, makeVars, hisVars>>

(* The test of Count() ... *)
SendCount ==
  /\ tpc["sendThd"] = "count" /\ ~QueueGone
  /\ Goto("sendThd", IF Count("send") = 0 THEN "reset" ELSE "wait")
  /\ UNCHANGED <<ring, event, stop, shutdown, slot, draining, makeVars, hisVars>>

(* ... and ResetEvent(). *)
SendReset ==
  /\ tpc["sendThd"] = "reset" /\ ~ObjectGone
  /\ event' = [event EXCEPT !["send"] = FALSE]
  /\ Goto("sendThd", "wait")
  /\ UNCHANGED <<ring, stop, shutdown, slot, draining, makeVars, hisVars>>

(* The send thread uses the library, the queue, or the object itself with  *)
(* its two events, after it is no more: what follows is undefined.  Only a *)
(* thread that has returned uses nothing.                                  *)
UseGone ==
  /\ \/ draining /\ tpc["sendThd"] = "handle"
     \/ QueueGone /\ tpc["sendThd"] \in {"pop", "take", "read", "count"}
     \/ ObjectGone /\ tpc["sendThd"] \notin {"stopped", "crashed"}
  /\ Goto("sendThd", "crashed")
  /\ touched' = tpc["sendThd"]
  /\ UNCHANGED <<ring, event, stop, shutdown, slot, draining, makeVars,
                 given, taken, overrun, late, raced>>

-----------------------------------------------------------------------------
(* The executer: EventLoop() calls OnReceive() and then Receive() when the *)
(* event of the device is set.                                             *)

ExecWake ==
  /\ tpc["executer"] = "wait" /\ ~shutdown /\ event["msg"]
  /\ Goto("executer", "onReceive")
  /\ UNCHANGED <<ring, event, stop, shutdown, slot, draining, makeVars, hisVars>>

(* OnReceive(): EventReset(), then Pop() until there is no more. *)
OnReceive ==
  /\ tpc["executer"] = "onReceive"
  /\ event' = [event EXCEPT !["msg"] = FALSE]
  /\ Goto("executer", "pop")
  /\ UNCHANGED <<ring, stop, shutdown, slot, draining, makeVars, hisVars>>

(* Receive() *)
Receive ==
  /\ tpc["executer"] = "receive" /\ ~shutdown
  /\ event' = [event EXCEPT !["msg"] = IF Count("msg") > 0 THEN TRUE ELSE @]
  /\ Goto("executer", "wait")
  /\ UNCHANGED <<ring, stop, shutdown, slot, draining, makeVars, hisVars>>

(* RopExecuter::Shutdown(), when no Send() is under way (MayCall). *)
Shutdown ==
  /\ ~shutdown /\ \A t \in Sender : ppc[t] = "idle"
  /\ shutdown' = TRUE
  /\ UNCHANGED <<ring, event, stop, threadVars, makeVars, hisVars>>

(* CheckAndDoShutdown(), called by Receive() and by HaveValidHandles(). *)
StopSendThread ==
  /\ tpc["executer"] \in {"wait", "receive"} /\ shutdown
  /\ stop' = TRUE
  /\ raced' = (tpc["sendThd"] # "wait")
  /\ Goto("executer", "finalize")
  /\ UNCHANGED <<ring, event, shutdown, slot, draining, makeVars,
                 given, taken, overrun, late, touched>>

(* What a queue holds, first pushed first. *)
Content(q) == [k \in 1 .. ring[q].size |-> ring[q].data[(ring[q].base + k - 1) % Capacity]]

(* Finalize() and FreeLibrary(); MsgQ, which nobody else uses now, is      *)
(* emptied and deleted.  SendQ is emptied by Pop(), beside the send thread.*)
Finalize_ ==
  /\ tpc["executer"] = "finalize" /\ \A t \in DllThread : ppc[t] = "idle"
  /\ draining' = TRUE
  /\ taken' = [taken EXCEPT !["msg"] = @ \o Content("msg")]
  /\ ring' = [ring EXCEPT !["msg"].base = (@ + ring["msg"].size) % Capacity,
                          !["msg"].size = 0]
  /\ Goto("executer", "pop")
  /\ UNCHANGED <<event, stop, shutdown, slot, makeVars, given, overrun, late, raced, touched>>

(* RopAsyncIO::CheckAndDoShutdown() has closed the event of the device, so *)
(* HaveValidHandles() deletes the object, whose destructor closes the two  *)
(* events.                                                                 *)
DeleteObject ==
  /\ tpc["executer"] = "emptied"
  /\ Goto("executer", "deleted")
  /\ UNCHANGED <<ring, event, stop, shutdown, slot, draining, makeVars, hisVars>>

-----------------------------------------------------------------------------
ProducerNext(t) == PushTest(t) \/ Push(t) \/ Signal(t)
PopNext(th) == PopTest(th) \/ PopTake(th) \/ PopRead(th)
SendThread == PopNext("sendThd") \/ SendWake \/ SendStop \/ SendHandle \/ SendCount
                \/ SendReset \/ UseGone
Executer == PopNext("executer") \/ ExecWake \/ OnReceive \/ Receive
                \/ StopSendThread \/ Finalize_ \/ DeleteObject

Next == \/ \E t \in Producer : ProducerNext(t)
        \/ SendThread \/ Executer \/ Shutdown

Spec == Init /\ [][Next]_vars

(* The threads run on; nobody has to send, to call back or to shut down. *)
FairSpec == /\ Spec
            /\ \A t \in Producer : WF_vars(Push(t) \/ Signal(t))
            /\ WF_vars(SendThread) /\ WF_vars(Executer)

-----------------------------------------------------------------------------
(* The types of the variables. *)
Types ==
  /\ ring \in [Queue -> [base : 0 .. Capacity - 1, size : 0 .. ULongMax,
                        data : [0 .. Capacity - 1 -> Nat]]]
  /\ event \in [Queue -> BOOLEAN] /\ stop \in BOOLEAN /\ shutdown \in BOOLEAN
  /\ ppc \in [Producer -> {"idle", "push", "set"}] /\ item \in [Producer -> Nat]
  /\ tpc \in [Thread -> SendPc \cup ExecPc]
  /\ slot \in [Thread -> 0 .. Capacity - 1] /\ draining \in BOOLEAN
  /\ next \in [Queue -> Nat] /\ \A q \in Queue : next[q] <= MaxMsg[q]
  /\ given \in [Queue -> Seq(Nat)] /\ taken \in [Queue -> Seq(Nat)]
  /\ overrun \in [Queue -> BOOLEAN]
  /\ late \in BOOLEAN /\ raced \in BOOLEAN /\ touched \in SendPc \cup {NoWhere}

(* size, an unsigned long that is tested outside the critical section,     *)
(* neither wraps below zero nor exceeds the capacity, unless one of the    *)
(* races that overrun and raced record has happened.                       *)
SizesInRange ==
  \A q \in Queue : overrun[q] \/ (q = "send" /\ raced) \/ Count(q) <= Capacity

TypeOK == Types /\ SizesInRange

(* The message of a Pop() that has not read it yet. *)
InHand(q) ==
  LET H == {th \in Thread : tpc[th] = "read" /\ Popped(th) = q} IN
  IF H = {} THEN <<>> ELSE <<ring[q].data[slot[CHOOSE th \in H : TRUE]]>>

(* Pop() reads its slot after it left the critical section, and the sizes  *)
(* are tested before it is entered.  Still every message pushed is popped  *)
(* once and in order, through full, empty and wrapped queues, unless one   *)
(* of two things happened: a Push() filled the queue between the two lines *)
(* of a Pop(), or two at once passed the test for the last room; or the    *)
(* shutdown met a send thread that was not waiting.                        *)
FifoUnlessOverrun ==
  \A q \in Queue :
    \/ overrun[q] \/ (q = "send" /\ raced)
    \/ given[q] = taken[q] \o InHand(q) \o Content(q)

(* A thread that waits has been signalled for every message in its queue,  *)
(* or will be by the call that pushed it; but a Send() between the send    *)
(* thread's test of Count() and its ResetEvent() is forgotten.             *)
NoLostWakeup ==
  /\ tpc["executer"] = "wait" /\ Count("msg") # 0
       => event["msg"] \/ \E t \in DllThread : ppc[t] = "set"
  /\ tpc["sendThd"] = "wait" /\ Count("send") # 0
       => event["send"] \/ late \/ raced \/ \E t \in Sender : ppc[t] = "set"

(* The shutdown unloads the library and deletes the queues and the object  *)
(* without waiting for the send thread ("howto wait it to end??").  If the *)
(* thread was waiting when m_StopEvent was set, it enters neither library  *)
(* nor queue afterwards, since that event comes first in hTable, even if   *)
(* m_SendEvent is set too.  It still uses the object, which may be deleted *)
(* by then: the handles it waits on, the tick count, the name.             *)
StopSparesQueues == raced \/ touched \in {NoWhere, "wait", "stopping"}

(* Every message pushed is popped, by its thread or at the shutdown, with  *)
(* the exceptions of the properties above.                                 *)
PushedIsPopped ==
  \A q \in Queue : \A m \in 1 .. MaxMsg[q] :
    m \in ToSet(given[q])
      ~> m \in ToSet(taken[q]) \/ overrun[q] \/ (q = "send" /\ (late \/ raced))
=============================================================================
