-------------------------- MODULE GasServerProofs ---------------------------
(***************************************************************************)
(* Proofs about GasServer, for any clients, descriptors, requests and      *)
(* users, any size of the thread pool and of the pool of handles, and with *)
(* the table user changing or not.                                         *)
(***************************************************************************)
EXTENDS GasServer, FiniteSetTheorems, TLAPS

(* A request holds what the place of its handler says. *)
Stage ==
  /\ running = {r \in Req :
       pc[r] \in {"check", "auth", "handle", "query", "lastlogin", "answer", "put"}}
  /\ returned = {r \in Req : pc[r] = "put"}
  /\ held = {r \in Req : pc[r] = "query"}
  /\ Cardinality(held) <= MaxHandles
  /\ seen = {r \in Req : pc[r] \notin {"unsent", "discarded"}}

(* The consumer pool has each queued request once, and no other. *)
Queue ==
  /\ \A k \in 1..Len(buf) : pc[buf[k]] = "queued"
  /\ \A k, l \in 1..Len(buf) : buf[k] = buf[l] => k = l
  /\ \A r \in Req : pc[r] = "queued" => \E k \in 1..Len(buf) : buf[k] = r

(* An open connection has a descriptor, and no other connection has it. *)
Conns ==
  /\ \A c \in Conn : conn[c] = "open" => fd[c] # None
  /\ \A c \in Conn : conn[c] \in {"new", "closed"} => fd[c] = None
  /\ \A c, d \in Conn : fd[c] = fd[d] /\ fd[c] # None => c = d

(* The descriptor to answer on is that of the connection the request came  *)
(* on, as long as this is open; a connection that was closed never opens   *)
(* again.                                                                  *)
Peers ==
  \A r \in Req : pc[r] \notin {"unsent", "discarded"} =>
    /\ asker[r] \in Conn /\ conn[asker[r]] # "new"
    /\ peer[r] \in Fd
    /\ conn[asker[r]] = "open" => peer[r] = fd[asker[r]]

Inv == TypeOK /\ Stage /\ Queue /\ Conns /\ Peers /\ OpenAskerIsAnswered

-----------------------------------------------------------------------------
LEMMA TailIs ==
  ASSUME NEW S, NEW s \in Seq(S), s # <<>>
  PROVE  /\ Head(s) = s[1] /\ 1 \in 1..Len(s) /\ Head(s) \in S
         /\ Tail(s) \in Seq(S) /\ Len(Tail(s)) = Len(s) - 1
         /\ \A k \in 1..Len(Tail(s)) : k + 1 \in 1..Len(s) /\ Tail(s)[k] = s[k + 1]
OBVIOUS

LEMMA AppendIs ==
  ASSUME NEW S, NEW s \in Seq(S), NEW x \in S
  PROVE  /\ Append(s, x) \in Seq(S) /\ Len(Append(s, x)) = Len(s) + 1
         /\ Append(s, x)[Len(s) + 1] = x
         /\ \A k \in 1..Len(s) : Append(s, x)[k] = s[k]
OBVIOUS

LEMMA HeldFinite ==
  ASSUME held \subseteq Req
  PROVE  IsFiniteSet(held) /\ Cardinality(held) \in Nat
BY GasAssumption, FS_Subset, FS_CardinalityType DEF GasAssumption

LEMMA InitInv == Init => Inv
<1> SUFFICES ASSUME Init PROVE Inv
  OBVIOUS
<1>1. held = {} /\ Cardinality(held) = 0
  BY FS_EmptySet DEF Init
<1>2. TypeOK
  BY GasAssumption DEF GasAssumption, Init, TypeOK, ReqPc, FB!FifoInit, WP!PoolInit
<1>3. Stage
  BY <1>1, GasAssumption DEF GasAssumption, Init, Stage, FB!FifoInit, WP!PoolInit
<1>4. Queue /\ Conns /\ Peers /\ OpenAskerIsAnswered
  BY DEF Init, Queue, Conns, Peers, OpenAskerIsAnswered, Answered, FB!FifoInit
<1> QED
  BY <1>2, <1>3, <1>4 DEF Inv

-----------------------------------------------------------------------------
LEMMA AcceptStep ==
  ASSUME Inv, NEW c \in Conn, Accept(c)
  PROVE  Inv'
<1> USE DEF Inv, reqVars, fifoVars, poolVars, dbVars
<1>0. None \notin Fd /\ None \notin Conn
  BY GasAssumption DEF GasAssumption
<1>1. PICK f \in Fd \ {fd[d] : d \in Conn} : fd' = [fd EXCEPT ![c] = f]
  BY DEF Accept
<1>2. PICK s \in {"open", "orphan"} : conn' = [conn EXCEPT ![c] = s]
  BY DEF Accept
<1>3. conn[c] = "new" /\ UNCHANGED <<reqVars, pc, fifoVars, poolVars, held, dbVars, up>>
  BY DEF Accept
<1>4. TypeOK'
  BY <1>1, <1>2, <1>3 DEF TypeOK
<1>5. Stage' /\ Queue'
  BY <1>3 DEF Stage, Queue
<1>6. Conns'
  BY <1>0, <1>1, <1>2, <1>3 DEF Conns, TypeOK
<1>7. Peers'
  BY <1>1, <1>2, <1>3 DEF Peers, TypeOK
<1>8. OpenAskerIsAnswered'
  BY <1>1, <1>2, <1>3 DEF OpenAskerIsAnswered, Answered, Peers, TypeOK
<1> QED
  BY <1>4, <1>5, <1>6, <1>7, <1>8

LEMMA CleanStep ==
  ASSUME Inv, NEW c \in Conn, Clean(c)
  PROVE  Inv'
<1> USE DEF Inv, reqVars, fifoVars, poolVars, dbVars
<1>1. TypeOK'
  BY DEF Clean, TypeOK
<1>2. Stage' /\ Queue'
  BY DEF Clean, Stage, Queue
<1>3. Conns'
  BY DEF Clean, Conns, TypeOK
<1>4. Peers'
  BY DEF Clean, Peers, TypeOK
<1>5. OpenAskerIsAnswered'
  BY DEF Clean, OpenAskerIsAnswered, Answered, Peers, TypeOK
<1> QED
  BY <1>1, <1>2, <1>3, <1>4, <1>5

LEMMA ReceiveStep ==
  ASSUME Inv, NEW c \in Conn, NEW r \in Req, Receive(r, c)
  PROVE  Inv'
<1> USE DEF Inv, connVars, fifoVars, poolVars, dbVars, Goto
<1>0. conn[c] = "open" /\ fd[c] \in Fd /\ pc[r] = "unsent" /\ asker' = [asker EXCEPT ![r] = c]
      /\ UNCHANGED <<connVars, ret, gotOn, mute, poolVars, held, dbVars, up>>
  BY DEF Receive, Conns, TypeOK
<1>1. CASE /\ peer' = [peer EXCEPT ![r] = fd[c]]
           /\ FB!Put(r) /\ Goto(r, "queued")
  <2>1. /\ Len(buf) \in Nat /\ buf' = Append(buf, r) /\ buf' \in Seq(Req)
        /\ Len(buf') = Len(buf) + 1 /\ buf'[Len(buf) + 1] = r
        /\ \A k \in 1..Len(buf) : buf'[k] = buf[k] /\ buf[k] \in Req
    BY <1>1, AppendIs DEF FB!Put, TypeOK
  <2>2. TypeOK'
    BY <1>0, <1>1, <2>1 DEF TypeOK, ReqPc, FB!Put
  <2>3. Stage'
    BY <1>0, <1>1 DEF Stage, TypeOK, FB!Put
  <2>4. Queue'
    <3>1. \A k \in 1..Len(buf) : buf[k] # r
      BY <1>0 DEF Queue
    <3>2. \A k \in 1..Len(buf') : k = Len(buf) + 1 \/ k \in 1..Len(buf)
      BY <2>1
    <3>3. 1..Len(buf) \subseteq 1..Len(buf') /\ Len(buf) + 1 \in 1..Len(buf')
      BY <2>1
    <3>4. \A k \in 1..Len(buf') : pc'[buf'[k]] = "queued"
      BY <1>1, <2>1, <3>2 DEF Queue, TypeOK
    <3>5. \A k, l \in 1..Len(buf') : buf'[k] = buf'[l] => k = l
      BY <2>1, <3>1, <3>2 DEF Queue
    <3>6. \A q \in Req : pc'[q] = "queued" => \E k \in 1..Len(buf') : buf'[k] = q
      BY <1>1, <2>1, <3>3 DEF Queue, TypeOK
    <3> QED
      BY <3>4, <3>5, <3>6 DEF Queue
  <2>5. Conns'
    BY <1>0 DEF Conns
  <2>6. Peers'
    BY <1>0, <1>1 DEF Peers, TypeOK
  <2>7. OpenAskerIsAnswered'
    BY <1>0, <1>1 DEF OpenAskerIsAnswered, Answered, TypeOK
  <2> QED
    BY <2>2, <2>3, <2>4, <2>5, <2>6, <2>7
<1>2. CASE Goto(r, "discarded") /\ UNCHANGED <<peer, fifoVars>>
  <2>1. TypeOK'
    BY <1>0, <1>2 DEF TypeOK, ReqPc
  <2>2. Stage'
    BY <1>0, <1>2 DEF Stage, TypeOK
  <2>3. Queue'
    <3>1. \A k \in 1..Len(buf) : buf[k] # r
      BY <1>0 DEF Queue
    <3> QED
      BY <1>0, <1>2, <3>1 DEF Queue, TypeOK
  <2>4. Conns' /\ Peers'
    BY <1>0, <1>2 DEF Conns, Peers, TypeOK
  <2>5. OpenAskerIsAnswered'
    BY <1>0, <1>2 DEF OpenAskerIsAnswered, Answered, TypeOK
  <2> QED
    BY <2>1, <2>2, <2>3, <2>4, <2>5
<1> QED
  BY <1>1, <1>2 DEF Receive

LEMMA DispatchStep ==
  ASSUME Inv, Dispatch
  PROVE  Inv'
<1> USE DEF Inv, connVars, reqVars, dbVars, poolVars, Goto
<1> DEFINE r == Head(buf)
<1>1. /\ buf \in Seq(Req) /\ buf # <<>> /\ buf' = Tail(buf) /\ seen' = seen
      /\ UNCHANGED <<connVars, reqVars, held, dbVars, up>>
  BY DEF Dispatch, FB!Take, TypeOK
<1>2. /\ r \in Req /\ r = buf[1] /\ 1 \in 1..Len(buf) /\ pc[r] = "queued" /\ Len(buf) \in Nat
      /\ buf' \in Seq(Req) /\ Len(buf') = Len(buf) - 1
      /\ \A k \in 1..Len(buf') : k + 1 \in 1..Len(buf) /\ buf'[k] = buf[k + 1]
  BY <1>1, TailIs DEF Queue
<1> HIDE DEF r
<1>3. \E p \in {"check", "dropped"} :
        /\ pc' = [pc EXCEPT ![r] = p]
        /\ IF p = "dropped" THEN UNCHANGED poolVars ELSE WP!Start(r)
  BY DEF Dispatch, r
<1>4. PICK p \in {"check", "dropped"} :
        /\ pc' = [pc EXCEPT ![r] = p]
        /\ IF p = "dropped" THEN UNCHANGED poolVars ELSE WP!Start(r)
  BY <1>3
<1>5. TypeOK'
  BY <1>1, <1>2, <1>4 DEF TypeOK, ReqPc, WP!Start
<1>6. Stage'
  BY <1>1, <1>2, <1>4 DEF Stage, TypeOK, WP!Start
<1>7. Queue'
  <2>1. \A k \in 1..Len(buf') : buf'[k] \in Req /\ buf'[k] # r
    BY <1>1, <1>2 DEF Queue
  <2>2. \A k \in 1..Len(buf') : pc'[buf'[k]] = "queued"
    <3> SUFFICES ASSUME NEW k \in 1..Len(buf') PROVE pc'[buf'[k]] = "queued"
      OBVIOUS
    <3>1. buf'[k] \in Req /\ buf'[k] # r /\ pc[buf'[k]] = "queued"
      <4>1. k + 1 \in 1..Len(buf) /\ buf'[k] = buf[k + 1]
        BY <1>2
      <4>2. pc[buf[k + 1]] = "queued"
        BY ONLY <4>1, Queue DEF Queue
      <4> QED
        BY <2>1, <4>1, <4>2
    <3> QED
      BY <1>4, <3>1 DEF TypeOK
  <2>3. \A k, l \in 1..Len(buf') : buf'[k] = buf'[l] => k = l
    BY <1>2 DEF Queue
  <2>4. ASSUME NEW q \in Req, pc'[q] = "queued"
        PROVE  \E k \in 1..Len(buf') : buf'[k] = q
    <3>1. q # r /\ pc[q] = "queued"
      BY <1>2, <1>4, <2>4 DEF TypeOK
    <3>2. PICK k \in 1..Len(buf) : buf[k] = q
      BY <3>1 DEF Queue
    <3>3. k # 1 /\ k - 1 \in 1..Len(buf') /\ buf'[k - 1] = buf[(k - 1) + 1] /\ (k - 1) + 1 = k
      BY <1>2, <3>1, <3>2
    <3> QED
      BY <3>2, <3>3
  <2> QED
    BY <2>2, <2>3, <2>4 DEF Queue
<1>8. Conns' /\ Peers'
  BY <1>1, <1>2, <1>4 DEF Conns, Peers, TypeOK
<1>9. OpenAskerIsAnswered'
  BY <1>1, <1>2, <1>4 DEF OpenAskerIsAnswered, Answered, TypeOK
<1> QED
  BY <1>5, <1>6, <1>7, <1>8, <1>9

-----------------------------------------------------------------------------
(* What a step of a handler leaves alone. *)
LEMMA HandlerKeeps ==
  ASSUME Inv, NEW r \in Req, NEW p \in ReqPc \ {"unsent", "discarded", "queued", "put", "done"},
         pc[r] \in {"check", "auth", "handle", "query", "lastlogin"}, pc' = [pc EXCEPT ![r] = p],
         UNCHANGED <<connVars, asker, peer, gotOn, mute, fifoVars>>
  PROVE  Queue' /\ Conns' /\ Peers' /\ OpenAskerIsAnswered'
<1> USE DEF Inv, connVars, fifoVars
<1>1. Queue'
  <2>1. \A k \in 1..Len(buf) : buf[k] # r
    BY DEF Queue
  <2> QED
    BY <2>1 DEF Queue, TypeOK
<1>2. Conns' /\ Peers'
  BY DEF Conns, Peers, TypeOK
<1>3. OpenAskerIsAnswered'
  BY DEF OpenAskerIsAnswered, Answered, TypeOK
<1> QED
  BY <1>1, <1>2, <1>3

LEMMA CheckStep ==
  ASSUME Inv, NEW r \in Req, Check(r)
  PROVE  Inv'
<1> USE DEF Inv, connVars, fifoVars, dbVars, Goto
<1>1. CASE UNCHANGED <<mute, poolVars>>
  <2>1. PICK p \in {"auth", "handle", "put"} : pc' = [pc EXCEPT ![r] = p]
    BY DEF Check
  <2>2. CASE p = "put"
    BY <1>1, <2>1, <2>2 DEF Check, WP!Returns, poolVars, TypeOK, Stage
  <2>3. CASE p \in {"auth", "handle"}
    <3>1. TypeOK'
      BY <1>1, <2>1, <2>3 DEF Check, poolVars, TypeOK, ReqPc
    <3>2. Stage'
      BY <1>1, <2>1, <2>3 DEF Check, poolVars, Stage, TypeOK
    <3>3. p \in ReqPc \ {"unsent", "discarded", "queued", "put", "done"}
      BY <2>3 DEF ReqPc
    <3>4. Queue' /\ Conns' /\ Peers' /\ OpenAskerIsAnswered'
      BY <1>1, <2>1, <3>3, HandlerKeeps DEF Check
    <3> QED
      BY <3>1, <3>2, <3>4
  <2> QED
    BY <2>2, <2>3
<1>2. CASE mute' = mute \cup {r} /\ WP!Returns(r) /\ Goto(r, "put")
  <2>1. pc[r] = "check" /\ r \in running
    BY DEF Check, Stage
  <2>2. TypeOK'
    <3>1. pc' \in [Req -> ReqPc]
      BY <1>2 DEF TypeOK, ReqPc
    <3>2. returned' \subseteq running' /\ running' \subseteq Req /\ held' \subseteq running'
      BY <1>2, <2>1 DEF Check, TypeOK, WP!Returns
    <3> QED
      BY <1>2, <3>1, <3>2 DEF Check, TypeOK
  <2>3. Stage'
    BY <1>2, <2>1 DEF Check, Stage, TypeOK, WP!Returns
  <2>4. Queue'
    <3>1. \A k \in 1..Len(buf) : buf[k] # r
      BY <2>1 DEF Queue
    <3>2. buf' = buf /\ pc' = [pc EXCEPT ![r] = "put"] /\ pc \in [Req -> ReqPc] /\ buf \in Seq(Req)
      BY <1>2 DEF Check, TypeOK
    <3> QED
      BY <3>1, <3>2 DEF Queue
  <2>5. Conns' /\ Peers'
    BY <1>2, <2>1 DEF Check, Conns, Peers, TypeOK
  <2>6. OpenAskerIsAnswered'
    BY <1>2 DEF Check, OpenAskerIsAnswered, Answered, TypeOK
  <2> QED
    BY <2>2, <2>3, <2>4, <2>5, <2>6
<1> QED
  BY <1>1, <1>2 DEF Check

LEMMA AuthStep ==
  ASSUME Inv, NEW r \in Req, Auth(r)
  PROVE  Inv'
<1> USE DEF Inv, connVars, fifoVars, poolVars, dbVars, Goto, Fail
<1>1. PICK p \in {"handle", "answer"} : pc' = [pc EXCEPT ![r] = p]
  BY DEF Auth
<1>2. TypeOK'
  BY <1>1 DEF Auth, TypeOK, ReqPc
<1>3. Stage'
  BY <1>1 DEF Auth, Stage, TypeOK
<1>4. Queue' /\ Conns' /\ Peers' /\ OpenAskerIsAnswered'
  <2>1. p \in ReqPc \ {"unsent", "discarded", "queued", "put", "done"}
    BY DEF ReqPc
  <2> QED
    BY <1>1, <2>1, HandlerKeeps DEF Auth
<1> QED
  BY <1>2, <1>3, <1>4

LEMMA GetHandleStep ==
  ASSUME Inv, NEW r \in Req, GetHandle(r)
  PROVE  Inv'
<1> USE DEF Inv, connVars, reqVars, fifoVars, poolVars, dbVars, Goto
<1>1. r \notin held /\ held' = held \cup {r} /\ pc' = [pc EXCEPT ![r] = "query"] /\ r \in running
  BY DEF GetHandle, Stage
<1>2. Cardinality(held') <= MaxHandles
  <2>1. IsFiniteSet(held) /\ Cardinality(held) \in Nat
    BY HeldFinite DEF Stage
  <2>2. Cardinality(held') = Cardinality(held) + 1
    BY <1>1, <2>1, FS_AddElement
  <2> QED
    BY <2>1, <2>2, GasAssumption DEF GetHandle, GasAssumption
<1>3. TypeOK'
  BY <1>1 DEF GetHandle, TypeOK, ReqPc
<1>4. Stage'
  BY <1>1, <1>2 DEF GetHandle, Stage, TypeOK
<1>5. Queue' /\ Conns' /\ Peers' /\ OpenAskerIsAnswered'
  BY <1>1, HandlerKeeps DEF GetHandle, ReqPc
<1> QED
  BY <1>3, <1>4, <1>5

(* Whatever ends a query gives the handle back. *)
LEMMA HandleGivenBack ==
  ASSUME Inv, NEW r \in Req, held' = held \ {r}
  PROVE  Cardinality(held') <= MaxHandles
<1>1. IsFiniteSet(held) /\ Cardinality(held) \in Nat /\ Cardinality(held) <= MaxHandles
  BY HeldFinite DEF Inv, Stage
<1>2. IsFiniteSet(held') /\ Cardinality(held') \in Nat /\ Cardinality(held') <= Cardinality(held)
  BY <1>1, FS_Subset, FS_CardinalityType
<1> QED
  BY <1>1, <1>2, GasAssumption DEF GasAssumption

LEMMA QueryStep ==
  ASSUME Inv, NEW r \in Req, QueryFails(r) \/ QueryUser(r) \/ QueryServers(r)
  PROVE  Inv'
<1> USE DEF Inv, connVars, reqVars, fifoVars, poolVars, dbVars, Goto, Fail
<1>1. CASE UNCHANGED <<held, pc>>
  <2>1. UNCHANGED <<connVars, asker, peer, gotOn, mute, fifoVars, poolVars, held, dbVars, pc>>
    BY <1>1 DEF QueryFails, QueryUser, QueryServers
  <2>2. ret' \in [Req -> {"ok", "fail"}] /\ up' \in BOOLEAN
    BY DEF QueryFails, QueryUser, QueryServers, TypeOK
  <2>3. TypeOK'
    BY <2>1, <2>2 DEF TypeOK
  <2>4. Stage' /\ Queue' /\ Conns' /\ Peers' /\ OpenAskerIsAnswered'
    BY <2>1 DEF Stage, Queue, Conns, Peers, OpenAskerIsAnswered, Answered
  <2> QED
    BY <2>3, <2>4
<1>2. CASE ~UNCHANGED <<held, pc>>
  <2>1. /\ pc[r] = "query" /\ held' = held \ {r}
        /\ \E p \in {"lastlogin", "answer"} : pc' = [pc EXCEPT ![r] = p]
    BY <1>2 DEF QueryFails, QueryUser, QueryServers
  <2>2. PICK p \in {"lastlogin", "answer"} : pc' = [pc EXCEPT ![r] = p]
    BY <2>1
  <2>3. UNCHANGED <<connVars, asker, peer, gotOn, mute, fifoVars, poolVars, dbVars>>
    BY DEF QueryFails, QueryUser, QueryServers
  <2>4. TypeOK'
    <3>1. ret' \in [Req -> {"ok", "fail"}] /\ up' \in BOOLEAN
      BY DEF QueryFails, QueryUser, QueryServers, TypeOK
    <3> QED
      BY <2>1, <2>2, <2>3, <3>1 DEF TypeOK, ReqPc
  <2>5. Stage'
    BY <2>1, <2>2, <2>3, HandleGivenBack DEF Stage, TypeOK
  <2>6. Queue' /\ Conns' /\ Peers' /\ OpenAskerIsAnswered'
    <3>1. p \in ReqPc \ {"unsent", "discarded", "queued", "put", "done"}
      BY DEF ReqPc
    <3> QED
      BY <2>1, <2>2, <2>3, <3>1, HandlerKeeps
  <2> QED
    BY <2>4, <2>5, <2>6
<1> QED
  BY <1>1, <1>2

LEMMA UpdateLastLoginStep ==
  ASSUME Inv, NEW r \in Req, UpdateLastLogin(r)
  PROVE  Inv'
<1> USE DEF Inv, connVars, reqVars, fifoVars, poolVars, dbVars, Goto
<1>1. login_cnt' \in [User -> Nat]
  BY DEF UpdateLastLogin, TypeOK
<1>2. TypeOK'
  BY <1>1 DEF UpdateLastLogin, TypeOK, ReqPc
<1>3. Stage'
  BY DEF UpdateLastLogin, Stage, TypeOK
<1>4. Queue' /\ Conns' /\ Peers' /\ OpenAskerIsAnswered'
  BY HandlerKeeps DEF UpdateLastLogin, ReqPc
<1> QED
  BY <1>2, <1>3, <1>4

(* The answer goes to the connection that has the descriptor, and only the *)
(* one it came on has that, unless it was closed.                          *)
LEMMA AnswerStep ==
  ASSUME Inv, NEW r \in Req, Answer(r)
  PROVE  Inv'
<1> USE DEF Inv, connVars, reqVars, fifoVars, dbVars, Goto
<1>1. pc[r] = "answer" /\ pc' = [pc EXCEPT ![r] = "put"] /\ r \in running
  BY DEF Answer, Stage
<1>2. /\ gotOn' \in [Req -> Conn \cup {None}] /\ \A q \in Req \ {r} : gotOn'[q] = gotOn[q]
      /\ mute \subseteq mute' /\ mute' \subseteq Req
  BY DEF Answer, TypeOK
<1>3. conn[asker[r]] = "open" /\ r \notin mute' => gotOn'[r] = asker[r]
  <2>1. SUFFICES ASSUME conn[asker[r]] = "open", r \notin mute' PROVE gotOn'[r] = asker[r]
    OBVIOUS
  <2>2. asker[r] \in Conn /\ fd[asker[r]] = peer[r] /\ peer[r] # None
    BY <1>1, <2>1 DEF Peers, Conns
  <2>3. \A c \in Conn : fd[c] = peer[r] => c = asker[r]
    BY <2>2 DEF Conns
  <2>4. PICK c \in Conn : fd[c] = peer[r] /\ gotOn' = [gotOn EXCEPT ![r] = c]
    BY <2>1, <2>2 DEF Answer
  <2> QED
    BY <2>3, <2>4 DEF TypeOK
<1>4. TypeOK'
  <2>1. pc' \in [Req -> ReqPc]
    BY <1>1 DEF TypeOK, ReqPc
  <2>2. returned' \subseteq running' /\ running' \subseteq Req /\ held' \subseteq running'
    BY <1>1 DEF Answer, TypeOK, WP!Returns
  <2> QED
    BY <1>2, <2>1, <2>2 DEF Answer, TypeOK
<1>5. Stage'
  BY <1>1 DEF Answer, Stage, TypeOK, WP!Returns
<1>6. Queue'
  <2>1. \A k \in 1..Len(buf) : buf[k] # r
    BY <1>1 DEF Queue
  <2> QED
    BY <1>1, <2>1 DEF Answer, Queue, TypeOK
<1>7. Conns' /\ Peers'
  BY <1>1 DEF Answer, Conns, Peers, TypeOK
<1>8. OpenAskerIsAnswered'
  BY <1>1, <1>2, <1>3 DEF Answer, OpenAskerIsAnswered, Answered, TypeOK
<1> QED
  BY <1>4, <1>5, <1>6, <1>7, <1>8

LEMMA DoneStep ==
  ASSUME Inv, NEW r \in Req, Done(r)
  PROVE  Inv'
<1> USE DEF Inv, connVars, reqVars, fifoVars, dbVars, Goto
<1>1. TypeOK'
  BY DEF Done, TypeOK, ReqPc, WP!Finish, Stage
<1>2. Stage'
  BY DEF Done, Stage, TypeOK, WP!Finish
<1>3. Queue'
  <2>1. \A k \in 1..Len(buf) : buf[k] # r
    BY DEF Done, Queue
  <2> QED
    BY <2>1 DEF Done, Queue, TypeOK
<1>4. Conns' /\ Peers'
  BY DEF Done, Conns, Peers, TypeOK
<1>5. OpenAskerIsAnswered'
  BY DEF Done, OpenAskerIsAnswered, Answered, TypeOK
<1> QED
  BY <1>1, <1>2, <1>3, <1>4, <1>5

LEMMA TableStep ==
  ASSUME Inv, NEW u \in User, TableChange(u)
  PROVE  Inv'
<1>1. /\ rows' \subseteq User
      /\ UNCHANGED <<connVars, reqVars, pc, fifoVars, poolVars, held, login_cnt, up>>
  BY DEF TableChange, Inv, TypeOK
<1> USE DEF Inv, connVars, reqVars, fifoVars, poolVars
<1>2. TypeOK'
  BY <1>1 DEF TypeOK
<1>3. Stage'
  BY <1>1 DEF Stage
<1>4. Queue'
  BY <1>1 DEF Queue
<1>5. Conns' /\ Peers'
  BY <1>1 DEF Conns, Peers
<1>6. OpenAskerIsAnswered'
  BY <1>1 DEF OpenAskerIsAnswered, Answered
<1> QED
  BY <1>2, <1>3, <1>4, <1>5, <1>6

LEMMA InvStep == Inv /\ [Next]_vars => Inv'
<1> SUFFICES ASSUME Inv, [Next]_vars PROVE Inv'
  OBVIOUS
<1>1. CASE Next
  <2>1. CASE \E c \in Conn : Accept(c) \/ Clean(c) \/ \E r \in Req : Receive(r, c)
    BY <2>1, AcceptStep, CleanStep, ReceiveStep
  <2>2. CASE Dispatch
    BY <2>2, DispatchStep
  <2>3. CASE \E r \in Req : Handler(r)
    BY <2>3, CheckStep, AuthStep, GetHandleStep, QueryStep, UpdateLastLoginStep, AnswerStep, DoneStep
    DEF Handler
  <2>4. CASE \E u \in User : TableChange(u)
    BY <2>4, TableStep
  <2> QED
    BY <1>1, <2>1, <2>2, <2>3, <2>4 DEF Next
<1>2. CASE UNCHANGED vars
  <2>1. TypeOK'
    BY <1>2 DEF vars, connVars, reqVars, fifoVars, poolVars, dbVars, Inv, TypeOK
  <2>2. Stage' /\ Queue'
    BY <1>2 DEF vars, connVars, reqVars, fifoVars, poolVars, dbVars, Inv, Stage, Queue
  <2>3. Conns' /\ Peers' /\ OpenAskerIsAnswered'
    BY <1>2 DEF vars, connVars, reqVars, Inv, Conns, Peers, OpenAskerIsAnswered, Answered
  <2> QED
    BY <2>1, <2>2, <2>3 DEF Inv
<1> QED
  BY <1>1, <1>2

-----------------------------------------------------------------------------
(* The types, among them that an answer is written to a connection and a   *)
(* handle held only by a request that has a thread.                        *)
THEOREM GasTypeOK == Spec => []TypeOK
BY InitInv, InvStep, PTL DEF Spec, Inv

(* Whatever fails on the way, requests hold handles during queries only,   *)
(* and never more than the pool has; a slot from dispatch to reclaim; and  *)
(* the consumer pool has the queued requests and no other.                 *)
THEOREM GasResourcesMatch == Spec => []ResourcesMatch
<1>1. Inv => ResourcesMatch
  <2> SUFFICES ASSUME Inv PROVE ResourcesMatch
    OBVIOUS
  <2>1. running \ returned = InHandler
    BY DEF Inv, Stage, InHandler
  <2>2. DOMAIN buf = 1..Len(buf) /\ \A k \in 1..Len(buf) : buf[k] \in Req
    BY DEF Inv, TypeOK
  <2>3. {buf[k] : k \in DOMAIN buf} = {r \in Req : pc[r] = "queued"}
    BY <2>2 DEF Inv, Queue
  <2> QED
    BY <2>1, <2>3 DEF Inv, Stage, ResourcesMatch
<1> QED
  BY <1>1, InitInv, InvStep, PTL DEF Spec

(* A client whose connection is still open when its request is through got *)
(* the answer on it, however descriptors were closed and reused, unless it *)
(* was refused or lib_send_msg() failed.                                   *)
THEOREM GasOpenAskerIsAnswered == Spec => []OpenAskerIsAnswered
BY InitInv, InvStep, PTL DEF Spec, Inv
-----------------------------------------------------------------------------
(* The layers below are used as their modules permit, and the guards with  *)
(* which FifoBuffer and WorkerPool state what may be asked of them never   *)
(* hold the server back, whose code has no such tests: a message that      *)
(* comes in was never in the consumer pool, the first in the pool has no   *)
(* thread yet, a handler that answers has one, and keeps it until it is    *)
(* reclaimed.                                                              *)
AsPermitted ==
  /\ \A r \in Req : pc[r] = "unsent" => r \notin seen
  /\ buf # <<>> => Head(buf) \in Req \ running
  /\ \A r \in Req : pc[r] \in {"check", "answer"} => r \in running \ returned
  /\ \A r \in Req : pc[r] = "put" => r \in returned

LEMMA FifoStep ==
  Inv /\ [Next]_vars => [FB!Take \/ \E m \in Req : FB!Put(m)]_<<buf, seen>>
BY DEF Next, vars, fifoVars, Accept, Clean, Receive, Dispatch, Handler, Check, Auth, GetHandle, QueryFails,
       QueryUser, QueryServers, UpdateLastLogin, Answer, Done, TableChange

LEMMA PoolStep ==
  Inv /\ [Next]_vars => [WP!PoolNext]_<<running, returned>>
<1> SUFFICES ASSUME Inv, [Next]_vars, ~UNCHANGED <<running, returned>>
             PROVE  \E r \in Req : WP!Start(r) \/ WP!Returns(r) \/ WP!Finish(r)
  BY DEF WP!PoolNext
<1>1. Dispatch \/ \E r \in Req : Check(r) \/ Answer(r) \/ Done(r)
  BY DEF Next, vars, poolVars, Accept, Clean, Receive, Handler, Auth, GetHandle, QueryFails,
         QueryUser, QueryServers, UpdateLastLogin, TableChange
<1>2. CASE Dispatch
  <2>1. Head(buf) \in Req
    BY <1>2, TailIs DEF Dispatch, FB!Take, Inv, TypeOK
  <2> QED
    BY <1>2, <2>1 DEF Dispatch, poolVars
<1> QED
  BY <1>1, <1>2 DEF Check, poolVars, Answer, Done

THEOREM GasUsesLayers ==
  Spec => []AsPermitted /\ FB!FifoSpec /\ WP!PoolSpec
<1>1. Inv => AsPermitted
  <2> SUFFICES ASSUME Inv PROVE AsPermitted
    OBVIOUS
  <2>1. ASSUME buf # <<>> PROVE Head(buf) \in Req \ running
    <3>1. Head(buf) = buf[1] /\ 1 \in 1..Len(buf) /\ Head(buf) \in Req
      BY <2>1, TailIs DEF Inv, TypeOK
    <3> QED
      BY <3>1 DEF Inv, Queue, Stage
  <2> QED
    BY <2>1 DEF Inv, Stage, AsPermitted
<1>2. Init => FB!FifoInit /\ WP!PoolInit
  BY DEF Init
<1>3. Inv /\ [Next]_vars => [FB!Take \/ \E m \in Req : FB!Put(m)]_<<buf, seen>>
  BY FifoStep
<1>4. Inv /\ [Next]_vars => [WP!PoolNext]_<<running, returned>>
  BY PoolStep
<1> QED
  BY <1>1, <1>2, <1>3, <1>4, InitInv, InvStep, PTL DEF Spec, FB!FifoSpec, WP!PoolSpec
-----------------------------------------------------------------------------
(* What must have happened for the two promises of the source to be        *)
(* broken, which TLC shows the code can break.                             *)

(* An answer is sent to another client than the one that asked only after  *)
(* that one's connection was closed.                                       *)
StrayOnlyAfterClose ==
  \A r \in Req : gotOn[r] \notin {None, asker[r]} => conn[asker[r]] = "closed"

(* Who asked on a connection asked while it was open, and answers are sent *)
(* at the end only.                                                        *)
Asked ==
  \A r \in Req : /\ pc[r] \notin {"unsent", "discarded"} => conn[asker[r]] \in {"open", "closed"}
                 /\ gotOn[r] # None => r \in Answered \ mute
                 /\ r \in mute => r \in Answered

LEMMA AskedStep ==
  Inv /\ Asked /\ [Next]_vars => Asked'
<1> SUFFICES ASSUME Inv, Asked, [Next]_vars PROVE Asked'
  OBVIOUS
<1> USE DEF Inv, TypeOK, Asked, Answered, Goto
<1>1. ASSUME NEW c \in Conn, Accept(c) \/ Clean(c) PROVE Asked'
  <2>1. /\ UNCHANGED <<asker, gotOn, mute, pc>> /\ \A d \in Conn \ {c} : conn'[d] = conn[d]
        /\ conn[c] = "new" \/ conn'[c] = "closed"
    BY <1>1 DEF Accept, Clean, reqVars
  <2>2. \A r \in Req : pc[r] \notin {"unsent", "discarded"} => asker[r] \in Conn /\ conn[asker[r]] # "new"
    BY DEF Peers
  <2> QED
    BY <2>1, <2>2
<1>2. ASSUME NEW c \in Conn, NEW r \in Req, Receive(r, c) PROVE Asked'
  <2>1. \E p \in {"queued", "discarded"} : pc' = [pc EXCEPT ![r] = p]
    BY <1>2 DEF Receive
  <2> QED
    BY <1>2, <2>1 DEF Receive, connVars
<1>3. CASE Dispatch
  <2>1. Head(buf) \in Req /\ pc[Head(buf)] = "queued"
    <3>1. Head(buf) = buf[1] /\ 1 \in 1..Len(buf) /\ Head(buf) \in Req
      BY <1>3, TailIs DEF Dispatch, FB!Take
    <3> QED
      BY <3>1 DEF Queue
  <2>2. \E p \in {"check", "dropped"} : pc' = [pc EXCEPT ![Head(buf)] = p]
    BY <1>3 DEF Dispatch
  <2> QED
    BY <1>3, <2>1, <2>2 DEF Dispatch, connVars, reqVars
<1>4. ASSUME NEW r \in Req, Auth(r) \/ GetHandle(r) \/ QueryFails(r) \/ QueryUser(r) \/ QueryServers(r)
                            \/ UpdateLastLogin(r)
      PROVE  Asked'
  <2>1. /\ pc[r] \in {"auth", "handle", "query", "lastlogin"}
        /\ \E p \in {"handle", "query", "lastlogin", "answer"} : pc' = [pc EXCEPT ![r] = p]
        /\ UNCHANGED <<conn, asker, gotOn, mute>>
    BY <1>4 DEF Auth, GetHandle, QueryFails, QueryUser, QueryServers, UpdateLastLogin, connVars, reqVars
  <2> QED
    BY <2>1
<1>5. ASSUME NEW r \in Req, Answer(r) \/ Done(r) PROVE Asked'
  <2>1. /\ pc[r] \in {"answer", "put"} /\ UNCHANGED <<conn, asker>>
        /\ \E p \in {"put", "done"} : pc' = [pc EXCEPT ![r] = p]
        /\ \A q \in Req \ {r} : gotOn'[q] = gotOn[q]
        /\ \/ mute' = mute /\ (gotOn'[r] = gotOn[r] \/ r \notin mute)
           \/ mute' = mute \cup {r} /\ gotOn'[r] = gotOn[r] /\ gotOn[r] = None
    BY <1>5 DEF Answer, Done, connVars, reqVars
  <2> QED
    BY <2>1
<1>8. ASSUME NEW r \in Req, Check(r) PROVE Asked'
  <2>1. pc[r] = "check" /\ UNCHANGED <<conn, asker, gotOn>>
    BY <1>8 DEF Check, connVars
  <2>3. mute' = mute \/ (mute' = mute \cup {r} /\ pc'[r] = "put")
    BY <1>8, <2>1 DEF Check
  <2>2. \E p \in {"auth", "handle", "put"} : pc' = [pc EXCEPT ![r] = p]
    BY <1>8 DEF Check
  <2> QED
    BY <2>1, <2>2, <2>3
<1>6. ASSUME NEW u \in User, TableChange(u) PROVE Asked'
  BY <1>6 DEF TableChange, connVars, reqVars
<1>7. CASE UNCHANGED vars
  BY <1>7 DEF vars, connVars, reqVars
<1> QED
  BY <1>1, <1>2, <1>3, <1>4, <1>5, <1>6, <1>7, <1>8 DEF Next, Handler

THEOREM GasStrayOnlyAfterClose == Spec => []StrayOnlyAfterClose
<1>1. Init => Asked
  BY DEF Init, Asked
<1>2. Inv /\ Asked => StrayOnlyAfterClose
  BY DEF Inv, Asked, Answered, OpenAskerIsAnswered, StrayOnlyAfterClose
<1>3. Inv /\ Asked /\ [Next]_vars => Asked'
  BY AskedStep
<1> QED
  BY <1>1, <1>2, <1>3, InitInv, InvStep, PTL DEF Spec

(* The user whose row is about to be read has one. *)
Found == up /\ \A r \in Req : pc[r] \in {"handle", "query"} /\ Login[r] # None => Login[r] \in rows

LEMMA FoundStep ==
  Inv /\ Found /\ [Next]_vars /\ [rows \subseteq rows']_rows => Found'
<1> SUFFICES ASSUME Inv, Found, [Next]_vars, rows \subseteq rows' PROVE Found'
  OBVIOUS
<1> USE DEF Inv, TypeOK, Found, Goto
<1>1. CASE Dispatch
  <2>1. Head(buf) \in Req
    BY <1>1, TailIs DEF Dispatch, FB!Take
  <2>2. \E p \in {"check", "dropped"} : pc' = [pc EXCEPT ![Head(buf)] = p]
    BY <1>1 DEF Dispatch
  <2> QED
    BY <1>1, <2>1, <2>2 DEF Dispatch
<1>2. ASSUME NEW r \in Req, Auth(r) PROVE Found'
  BY <1>2 DEF Auth
<1>9. ASSUME NEW r \in Req, Check(r) PROVE Found'
  <2>1. /\ UNCHANGED <<up, rows>>
        /\ \E p \in {"auth", "handle", "put"} :
             pc' = [pc EXCEPT ![r] = p] /\ (p = "handle" => Login[r] = None)
    BY <1>9 DEF Check, dbVars
  <2> QED
    BY <2>1
<1>3. ASSUME NEW r \in Req, GetHandle(r) PROVE Found'
  BY <1>3 DEF GetHandle
<1>4. ASSUME NEW r \in Req, QueryUser(r) PROVE Found'
  BY <1>4 DEF QueryUser
<1>5. ASSUME NEW r \in Req, QueryFails(r) \/ QueryServers(r) \/ UpdateLastLogin(r) \/ Answer(r) \/ Done(r)
      PROVE  Found'
  <2>1. up' = up /\ \E p \in ReqPc \ {"handle", "query"} : pc' = [pc EXCEPT ![r] = p]
    BY <1>5 DEF QueryFails, QueryServers, UpdateLastLogin, Answer, Done, ReqPc
  <2> QED
    BY <2>1
<1>6. ASSUME NEW c \in Conn, Accept(c) \/ Clean(c) \/ \E r \in Req : Receive(r, c) PROVE Found'
  <2>1. CASE Accept(c) \/ Clean(c)
    BY <2>1 DEF Accept, Clean
  <2>2. ASSUME NEW r \in Req, Receive(r, c) PROVE Found'
    <3>1. up' = up /\ \E p \in {"queued", "discarded"} : pc' = [pc EXCEPT ![r] = p]
      BY <2>2 DEF Receive
    <3> QED
      BY <3>1
  <2> QED
    BY <1>6, <2>1, <2>2
<1>7. ASSUME NEW u \in User, TableChange(u) PROVE Found'
  BY <1>7 DEF TableChange
<1>8. CASE UNCHANGED vars
  BY <1>8 DEF vars, dbVars
<1> QED
  BY <1>1, <1>2, <1>3, <1>4, <1>5, <1>6, <1>7, <1>8, <1>9 DEF Next, Handler

(* assert(row != NULL) (gas-user.c:93) never fails as long as no row of    *)
(* the table user goes, however the requests interleave: the row           *)
(* gas_db_user_auth() found on its own connection is still there when      *)
(* another handle is used to read it.                                      *)
THEOREM GasRowFound ==
  Spec /\ [][rows \subseteq rows']_rows => []RowFound
<1>1. Init => Found
  BY DEF Init, Found
<1>2. Inv /\ Found /\ [Next]_vars /\ [rows \subseteq rows']_rows => Found'
  BY FoundStep
<1>3. Found => RowFound
  BY DEF Found, RowFound
<1> QED
  BY <1>1, <1>2, <1>3, InitInv, InvStep, PTL DEF Spec
=============================================================================
