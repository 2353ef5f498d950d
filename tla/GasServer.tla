----------------------------- MODULE GasServer ------------------------------
(***************************************************************************)
(* The authentication server gas as its clients see it: connections of the *)
(* event loop (Server/Lib/lib-libevt.c), ras_user_msg_recv() and the       *)
(* handlers of gas-user-msg.c, the queries of gas-user.c, and the table    *)
(* user, which the web site and the administrators change meanwhile.       *)
(*                                                                         *)
(* The module is composed of what the layers below promise: FifoBuffer for *)
(* the consumer pool, WorkerPool for the thread pool, and for the pool of  *)
(* database handles that at most MaxHandles are in use.                    *)
(***************************************************************************)
EXTENDS Naturals, Sequences, FiniteSets

CONSTANTS Conn,          \* the connections clients open, each once
          Fd,            \* the descriptors they may get
          Req,           \* the messages clients send, each once
          User,          \* the names in the table user
          None,          \* no descriptor, no connection, no user
          Login,         \* [Req -> User, or None for a server list]
          MaxThreads,    \* threads of the high priority pool (8)
          MaxHandles,    \* handles of the database pool
          TableChanges   \* may rows of the table user come and go?

ASSUME GasAssumption ==
  /\ IsFiniteSet(Conn) /\ IsFiniteSet(Fd) /\ IsFiniteSet(Req)
  /\ None \notin Conn \cup Fd \cup User
  /\ Login \in [Req -> User \cup {None}]
  /\ MaxThreads \in Nat \ {0} /\ MaxHandles \in Nat \ {0}
  /\ TableChanges \in BOOLEAN

VARIABLES
  conn,      \* [Conn -> "new", then "open", "orphan" or "closed"]
  fd,        \* [Conn -> its descriptor, None unless the server holds one]
  asker,     \* [Req -> the connection it came on]
  peer,      \* [Req -> msg_item_t.peer, the descriptor to answer on]
  pc,        \* [Req -> where its handler is]
  ret,       \* [Req -> the verdict of its answer]
  gotOn,     \* [Req -> the connection its answer was written to]
  mute,      \* history: the requests that were refused, or whose answer
             \* lib_send_msg() could not write to a connection it found
  buf, seen, \* the consumer pool: FifoBuffer
  running, returned,  \* the thread pool: WorkerPool
  held,      \* the requests that hold a database handle
  rows,      \* the users the table has
  login_cnt, \* [User -> logins counted]
  up         \* the process has not aborted

connVars == <<conn, fd>>
reqVars  == <<asker, peer, ret, gotOn, mute>>
fifoVars == <<buf, seen>>
poolVars == <<running, returned>>
dbVars   == <<rows, login_cnt>>
vars == <<connVars, reqVars, pc, fifoVars, poolVars, held, dbVars, up>>

FB == INSTANCE FifoBuffer WITH Msg <- Req
WP == INSTANCE WorkerPool WITH Job <- Req

ReqPc == {"unsent", "discarded", "queued", "dropped", "check", "auth", "handle", "query",
          "lastlogin", "answer", "put", "done"}

Init ==
  /\ conn = [c \in Conn |-> "new"] /\ fd = [c \in Conn |-> None]
  /\ asker = [r \in Req |-> None] /\ peer = [r \in Req |-> None]
  /\ pc = [r \in Req |-> "unsent"]
  /\ ret = [r \in Req |-> "ok"] /\ gotOn = [r \in Req |-> None]
  /\ mute = {}
  /\ FB!FifoInit /\ WP!PoolInit
  /\ held = {}
  /\ rows = User /\ login_cnt = [u \in User |-> 0]
  /\ up = TRUE

Goto(r, p) == pc' = [pc EXCEPT ![r] = p]
Fail(r)    == ret' = [ret EXCEPT ![r] = "fail"]

-----------------------------------------------------------------------------
(* The event loop. *)

(* libevt_accept_conn_cb(): the kernel gives the new connection a          *)
(* descriptor nobody has.  When the timeout cannot be set or malloc fails  *)
(* the callback returns without closing it: the descriptor is orphaned.    *)
Accept(c) ==
  /\ up /\ conn[c] = "new"
  /\ \E f \in Fd \ {fd[d] : d \in Conn} : fd' = [fd EXCEPT ![c] = f]
  /\ \E s \in {"open", "orphan"} : conn' = [conn EXCEPT ![c] = s]
  /\ UNCHANGED <<reqVars, pc, fifoVars, poolVars, held, dbVars, up>>

(* Seeded fault: the descriptor is closed and the event stays.             *)
CleanKeepsEvent(c) ==
  /\ up /\ conn[c] = "open"
  /\ fd' = [fd EXCEPT ![c] = None]
  /\ UNCHANGED <<conn, reqVars, pc, fifoVars, poolVars, held, dbVars, up>>

(* libevt_clean(): the client closed, sent a broken message, or was idle   *)
(* for ten minutes.  What it asked before may still be under way.          *)
Clean(c) ==
  /\ up /\ conn[c] = "open"
  /\ conn' = [conn EXCEPT ![c] = "closed"]
  /\ fd'   = [fd EXCEPT ![c] = None]
  /\ UNCHANGED <<reqVars, pc, fifoVars, poolVars, held, dbVars, up>>

(* ras_user_msg_recv(): the message goes to the consumer pool with the     *)
(* descriptor it came on, or is discarded when there is no item for it.    *)
Receive(r, c) ==
  /\ up /\ conn[c] = "open" /\ pc[r] = "unsent"
  /\ asker' = [asker EXCEPT ![r] = c]
  /\ \/ /\ peer' = [peer EXCEPT ![r] = fd[c]]
        /\ FB!Put(r)
        /\ Goto(r, "queued")
     \/ Goto(r, "discarded") /\ UNCHANGED <<peer, fifoVars>>
  /\ UNCHANGED <<connVars, ret, gotOn, mute, poolVars, held, dbVars, up>>

(* The high priority thread hands the first message to a pool thread; the  *)
(* message is lost when the pool fails to create one.                      *)
Dispatch ==
  /\ up /\ FB!Take
  /\ LET r == Head(buf) IN
       \/ WP!Start(r) /\ Goto(r, "check")
       \/ Goto(r, "dropped") /\ UNCHANGED poolVars
  /\ UNCHANGED <<connVars, reqVars, held, dbVars, up>>

-----------------------------------------------------------------------------
(* gas_user_login() and gas_server_list(), on a pool thread. *)

(* ras_user_msg_handle(): a message of another type, or longer than        *)
(* MID_MSG_LEN, is refused without an answer.                              *)
Check(r) ==
  /\ up /\ pc[r] = "check"
  /\ \/ /\ Goto(r, IF Login[r] = None THEN "handle" ELSE "auth")
        /\ UNCHANGED <<mute, poolVars>>
     \/ /\ mute' = mute \cup {r}
        /\ WP!Returns(r)
        /\ Goto(r, "put")
  /\ UNCHANGED <<connVars, asker, peer, ret, gotOn, fifoVars, held, dbVars, up>>

(* gas_db_user_auth() on a connection of its own: exactly one row with the *)
(* name and the password, so the user is there.  The password, the name's  *)
(* sanity check or a failed connection or query may deny it.               *)
Auth(r) ==
  /\ up /\ pc[r] = "auth"
  /\ \/ Login[r] \in rows /\ Goto(r, "handle") /\ UNCHANGED ret
     \/ Fail(r) /\ Goto(r, "answer")
  /\ UNCHANGED <<connVars, asker, peer, gotOn, mute, fifoVars, poolVars, held, dbVars, up>>

(* db_get_handle(). *)
GetHandle(r) ==
  /\ up /\ pc[r] = "handle" /\ Cardinality(held) < MaxHandles
  /\ held' = held \cup {r}
  /\ Goto(r, "query")
  /\ UNCHANGED <<connVars, reqVars, fifoVars, poolVars, dbVars, up>>

(* Seeded fault: a failed query returns with the handle.                   *)
QueryFailsWithHandle(r) ==
  /\ up /\ pc[r] = "query"
  /\ Fail(r)
  /\ Goto(r, "answer")
  /\ UNCHANGED <<connVars, asker, peer, gotOn, mute, fifoVars, poolVars, held, dbVars, up>>

(* The query of gas_db_user_info() or gas_db_server_info() fails.          *)
QueryFails(r) ==
  /\ up /\ pc[r] = "query"
  /\ held' = held \ {r}
  /\ Fail(r)
  /\ Goto(r, "answer")
  /\ UNCHANGED <<connVars, asker, peer, gotOn, mute, fifoVars, poolVars, dbVars, up>>

(* gas_db_user_info(): the row is read; without one assert() aborts.       *)
QueryUser(r) ==
  /\ up /\ pc[r] = "query" /\ Login[r] # None
  /\ IF Login[r] \in rows
     THEN held' = held \ {r} /\ Goto(r, "lastlogin") /\ UNCHANGED up
     ELSE up' = FALSE /\ UNCHANGED <<held, pc>>
  /\ UNCHANGED <<connVars, reqVars, fifoVars, poolVars, dbVars>>

QueryServers(r) ==
  /\ up /\ pc[r] = "query" /\ Login[r] = None
  /\ held' = held \ {r}
  /\ Goto(r, "answer")
  /\ UNCHANGED <<connVars, reqVars, fifoVars, poolVars, dbVars, up>>

(* gas_db_user_update_lastlogin(): errors are ignored. *)
UpdateLastLogin(r) ==
  /\ up /\ pc[r] = "lastlogin"
  /\ \/ /\ Login[r] \in rows
        /\ login_cnt' = [login_cnt EXCEPT ![Login[r]] = @ + 1]
     \/ UNCHANGED login_cnt
  /\ Goto(r, "answer")
  /\ UNCHANGED <<connVars, reqVars, fifoVars, poolVars, held, rows, up>>

(* lib_send_msg(): to whichever connection has the descriptor now, if any. *)
(* That it failed, also with a connection that is open, is only logged.    *)
Answer(r) ==
  /\ up /\ pc[r] = "answer"
  /\ IF \E c \in Conn : fd[c] = peer[r]
     THEN \/ /\ \E c \in Conn : fd[c] = peer[r] /\ gotOn' = [gotOn EXCEPT ![r] = c]
             /\ UNCHANGED mute
          \/ mute' = mute \cup {r} /\ UNCHANGED gotOn
     ELSE UNCHANGED <<gotOn, mute>>
  /\ WP!Returns(r)
  /\ Goto(r, "put")
  /\ UNCHANGED <<connVars, asker, peer, ret, fifoVars, held, dbVars, up>>

(* The item is put back and the thread reclaimed. *)
Done(r) ==
  /\ up /\ pc[r] = "put"
  /\ WP!Finish(r)
  /\ Goto(r, "done")
  /\ UNCHANGED <<connVars, reqVars, fifoVars, held, dbVars, up>>

Handler(r) ==
  \/ Check(r) \/ Auth(r) \/ GetHandle(r) \/ QueryFails(r) \/ QueryUser(r)
  \/ QueryServers(r) \/ UpdateLastLogin(r) \/ Answer(r) \/ Done(r)

-----------------------------------------------------------------------------
(* The table user, changed by others: an account is deleted by an          *)
(* administrator or the web site, or registered again.                     *)
TableChange(u) ==
  /\ up /\ TableChanges
  /\ rows' = IF u \in rows THEN rows \ {u} ELSE rows \cup {u}
  /\ UNCHANGED <<connVars, reqVars, pc, fifoVars, poolVars, held, login_cnt, up>>

Next ==
  \/ \E c \in Conn : Accept(c) \/ Clean(c) \/ \E r \in Req : Receive(r, c)
  \/ Dispatch
  \/ \E r \in Req : Handler(r)
  \/ \E u \in User : TableChange(u)

(* The high priority thread runs on, and so does every handler.  For one   *)
(* that waits for a handle this asks nothing of sem_wait: there is an end  *)
(* to the requests that could overtake it.                                 *)
Fairness ==
  /\ WF_vars(Dispatch)
  /\ \A r \in Req : WF_vars(Handler(r))

Spec     == Init /\ [][Next]_vars
FairSpec == Spec /\ Fairness

-----------------------------------------------------------------------------
(* Properties. *)

InHandler == {r \in Req : pc[r] \in {"check", "auth", "handle", "query", "lastlogin", "answer"}}
Answered  == {r \in Req : pc[r] \in {"put", "done"}}

TypeOK ==
  /\ conn \in [Conn -> {"new", "open", "orphan", "closed"}]
  /\ fd \in [Conn -> Fd \cup {None}]
  /\ asker \in [Req -> Conn \cup {None}]
  /\ peer \in [Req -> Fd \cup {None}]
  /\ pc \in [Req -> ReqPc]
  /\ ret \in [Req -> {"ok", "fail"}]
  /\ gotOn \in [Req -> Conn \cup {None}] /\ mute \subseteq Req
  /\ buf \in Seq(Req) /\ seen \subseteq Req
  /\ returned \subseteq running /\ running \subseteq Req
  /\ held \subseteq running
  /\ rows \subseteq User /\ login_cnt \in [User -> Nat]
  /\ up \in BOOLEAN

(* What the handlers hold is what they use: a handle during a query and at *)
(* no other time, a slot of the pool from dispatch to reclaim, and a place *)
(* in the queue before that.  Nothing leaks on an error path.              *)
ResourcesMatch ==
  /\ held = {r \in Req : pc[r] = "query"} /\ Cardinality(held) <= MaxHandles
  /\ running \ returned = InHandler
  /\ {buf[k] : k \in DOMAIN buf} = {r \in Req : pc[r] = "queued"}

(* A client whose connection is still open when its request is through has *)
(* the answer, on that connection, whatever else was closed, accepted and  *)
(* answered meanwhile; unless the message was refused unread or the answer *)
(* could not be written to the connection.                                 *)
OpenAskerIsAnswered ==
  \A r \in Answered \ mute : conn[asker[r]] = "open" => gotOn[r] = asker[r]

(* "the IO for msg sent back" (lib-msgpool.h:29): an answer is never sent  *)
(* to another client than the one that asked.                              *)
ReplyGoesToAsker == \A r \in Req : gotOn[r] \in {None, asker[r]}

(* assert(row != NULL) (gas-user.c:93): the user that was authenticated is *)
(* found, and the server does not abort.                                   *)
RowFound == up

(* A request in the consumer pool is served, or dropped for want of a      *)
(* thread, whatever the other requests do; unless the process aborts.      *)
QueuedIsServed ==
  \A r \in Req : (pc[r] = "queued") ~> (pc[r] \in {"done", "dropped"} \/ ~up)
=============================================================================
