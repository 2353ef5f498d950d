---------------------------- MODULE DbPoolProofs ----------------------------
(***************************************************************************)
(* Proofs about DbPool, for any finite set of handles and of clients: the  *)
(* semaphore counts the idle handles, hence an open pool never answers     *)
(* NULL, and no handle is lent twice.                                      *)
(***************************************************************************)
EXTENDS DbPool, FiniteSetTheorems, TLAPS

(* The invariants are inductive together: a search that follows sem_wait   *)
(* succeeds because of the count, the count is kept because a handle that  *)
(* is put back was lent, and it was lent once.  HeldInUse says that only a *)
(* client that uses a handle has one.                                      *)
HeldInUse == \A c \in Client : pc[c] # "using" => held[c] = Nil

Inv == TypeOK /\ HeldInUse /\ SemCountsIdle /\ NeverNull /\ HandleExclusive

(* The sets that are counted are finite. *)
LEMMA CountedFinite ==
  ASSUME TypeOK
  PROVE  /\ IsFiniteSet(Idle)
         /\ Cardinality(Idle) \in Nat
         /\ \A p : IsFiniteSet(At(p)) /\ Cardinality(At(p)) \in Nat
<1>1. Idle \in SUBSET Handle
  BY DEF TypeOK, Idle
<1>2. ASSUME NEW p PROVE IsFiniteSet(At(p)) /\ Cardinality(At(p)) \in Nat
  <2>1. At(p) \in SUBSET Client
    BY DEF At
  <2> QED
    BY <2>1, DbAssumption, FS_Subset, FS_CardinalityType DEF DbAssumption
<1> QED
  BY <1>1, <1>2, DbAssumption, FS_Subset, FS_CardinalityType DEF DbAssumption

(* What a client adds to those at a point of the code by going there, and  *)
(* takes from those at the point it leaves.                                *)
LEMMA OneMore ==
  ASSUME NEW S, IsFiniteSet(S), NEW x, x \notin S
  PROVE  Cardinality(S \cup {x}) = Cardinality(S) + 1
BY FS_AddElement

LEMMA OneLess ==
  ASSUME NEW S, IsFiniteSet(S), NEW x, x \in S
  PROVE  Cardinality(S \ {x}) = Cardinality(S) - 1 /\ Cardinality(S) \in Nat \ {0}
BY FS_RemoveElement, FS_CardinalityType, FS_EmptySet

LEMMA InitInv == Init => Inv
<1> SUFFICES ASSUME Init PROVE Inv
  OBVIOUS
<1>1. Cardinality(Handle) \in Nat
  BY DbAssumption, FS_CardinalityType DEF DbAssumption
<1>2. TypeOK
  BY <1>1 DEF Init, TypeOK, ClientPc
<1>3. SemCountsIdle
  <2>1. At("scan") = {} /\ At("post") = {}
    BY DEF Init, At
  <2>2. Idle = Handle
    BY DEF Init, Idle
  <2> QED
    BY <1>1, <2>1, <2>2, FS_EmptySet DEF Init, SemCountsIdle
<1>4. HeldInUse /\ NeverNull /\ HandleExclusive
  BY DEF Init, HeldInUse, NeverNull, HandleExclusive, At
<1> QED
  BY <1>2, <1>3, <1>4 DEF Inv

(* sem_wait takes one from the semaphore for one client more at the search. *)
LEMMA SemWaitInv == ASSUME Inv, NEW c \in Client, SemWait(c) PROVE Inv'
<1>0. TypeOK /\ HeldInUse /\ SemCountsIdle /\ NeverNull /\ HandleExclusive
  BY DEF Inv
<1>1. TypeOK'
  BY <1>0 DEF SemWait, TypeOK, ClientPc
<1>2. /\ Cardinality(At("scan")') = Cardinality(At("scan")) + 1
      /\ At("post")' = At("post") /\ At("null")' = At("null")
  <2>1. /\ At("scan")' = At("scan") \cup {c} /\ c \notin At("scan")
        /\ At("post")' = At("post") /\ At("null")' = At("null")
    BY <1>0 DEF SemWait, TypeOK, At
  <2> QED
    BY <1>0, <2>1, CountedFinite, OneMore
<1>3. Idle' = Idle
  BY DEF SemWait, Idle
<1>4. SemCountsIdle'
  BY <1>0, <1>2, <1>3, CountedFinite DEF SemWait, SemCountsIdle, TypeOK
<1>5. NeverNull'
  BY <1>0, <1>2 DEF SemWait, NeverNull
<1>6. HandleExclusive' /\ HeldInUse'
  BY <1>0 DEF SemWait, HandleExclusive, HeldInUse, TypeOK
<1> QED
  BY <1>1, <1>4, <1>5, <1>6 DEF Inv

(* A pool that is closed refuses. *)
LEMMA RefuseInv == ASSUME Inv, NEW c \in Client, Refuse(c) PROVE Inv'
<1>0. TypeOK /\ HeldInUse /\ HandleExclusive
  BY DEF Inv
<1>1. TypeOK'
  BY <1>0 DEF Refuse, TypeOK, ClientPc
<1>2. pool' # "open"
  BY DEF Refuse
<1>3. HandleExclusive' /\ HeldInUse'
  BY <1>0 DEF Refuse, HandleExclusive, HeldInUse, TypeOK
<1> QED
  BY <1>1, <1>2, <1>3 DEF Inv, SemCountsIdle, NeverNull

(* The search of an open pool finds a handle, because the client is itself *)
(* counted among those an idle handle is due to; the handle was not lent.  *)
LEMMA ScanInv == ASSUME Inv, NEW c \in Client, Scan(c) PROVE Inv'
<1>0. TypeOK /\ HeldInUse /\ SemCountsIdle /\ NeverNull /\ HandleExclusive
  BY DEF Inv
<1>1. CASE Idle = {}
  <2>1. pc' = [pc EXCEPT ![c] = "null"] /\ pc[c] = "scan"
        /\ UNCHANGED <<sem, pool, listed, state, held>>
    BY <1>1 DEF Scan
  <2>2. pool # "open"
    <3> SUFFICES ASSUME pool = "open" PROVE FALSE
      OBVIOUS
    <3>1. Cardinality(Idle) = 0
      BY <1>1, FS_EmptySet
    <3>2. Cardinality(At("scan")) \in Nat \ {0}
      <4>1. c \in At("scan")
        BY <2>1 DEF At
      <4> QED
        BY <1>0, <4>1, CountedFinite, OneLess
    <3>3. sem \in Nat /\ Cardinality(At("post")) \in Nat
      BY <1>0, CountedFinite DEF TypeOK
    <3> QED
      BY <1>0, <3>1, <3>2, <3>3 DEF SemCountsIdle
  <2>3. TypeOK'
    BY <1>0, <2>1 DEF TypeOK, ClientPc
  <2>4. HandleExclusive' /\ HeldInUse'
    BY <1>0, <2>1 DEF HandleExclusive, HeldInUse, TypeOK
  <2> QED
    BY <2>1, <2>2, <2>3, <2>4 DEF Inv, SemCountsIdle, NeverNull
<1>2. CASE Idle # {}
  <2>1. PICK h \in Idle :
          /\ state' = [state EXCEPT ![h] = "BUSY"]
          /\ held'  = [held EXCEPT ![c] = h]
          /\ pc'    = [pc EXCEPT ![c] = "using"]
    BY <1>2 DEF Scan
  <2>2. pc[c] = "scan" /\ UNCHANGED <<sem, pool, listed>>
    BY <1>2 DEF Scan
  <2>3. h \in listed /\ state[h] = "IDLE" /\ h \in Handle
    BY <1>0 DEF Idle, TypeOK
  <2>4. TypeOK'
    BY <1>0, <2>1, <2>2, <2>3 DEF TypeOK, ClientPc
  <2>5. /\ Cardinality(At("scan")') = Cardinality(At("scan")) - 1
        /\ At("post")' = At("post") /\ At("null")' = At("null")
    <3>1. /\ At("scan")' = At("scan") \ {c} /\ c \in At("scan")
          /\ At("post")' = At("post") /\ At("null")' = At("null")
      BY <1>0, <2>1, <2>2 DEF TypeOK, At
    <3> QED
      BY <1>0, <3>1, CountedFinite, OneLess
  <2>6. Cardinality(Idle') = Cardinality(Idle) - 1
    <3>1. Idle' = Idle \ {h}
      BY <1>0, <2>1, <2>2, <2>3 DEF Idle, TypeOK
    <3> QED
      BY <1>0, <2>1, <3>1, CountedFinite, FS_RemoveElement
  <2>7. SemCountsIdle'
    BY <1>0, <2>2, <2>5, <2>6, CountedFinite DEF SemCountsIdle, TypeOK
  <2>8. NeverNull'
    BY <1>0, <2>2, <2>5 DEF NeverNull
  <2>9. HandleExclusive'
    <3>1. \A d \in Client : held[d] # h
      BY <1>0, <2>3, DbAssumption DEF HandleExclusive, HeldInUse, DbAssumption
    <3>2. \A d \in Client \ {c} : pc'[d] = pc[d] /\ held'[d] = held[d]
      BY <1>0, <2>1 DEF TypeOK
    <3>3. held'[c] = h /\ state'[h] = "BUSY" /\ h \in listed'
      BY <1>0, <2>1, <2>2, <2>3 DEF TypeOK
    <3>4. \A g \in Handle : state[g] = "BUSY" => state'[g] = "BUSY"
      BY <1>0, <2>1 DEF TypeOK
    <3>5. listed \subseteq Handle /\ listed' = listed
      BY <1>0, <2>2 DEF TypeOK
    <3> SUFFICES ASSUME NEW d \in Client, pc'[d] = "using"
                 PROVE  /\ held'[d] \in listed' /\ state'[held'[d]] = "BUSY"
                        /\ \A e \in Client : held'[e] = held'[d] => e = d
      BY DEF HandleExclusive
    <3>7. CASE d = c
      BY <3>1, <3>2, <3>3, <3>7
    <3>8. CASE d # c
      <4>1. held'[d] = held[d] /\ pc[d] = "using" /\ held[d] # h
        BY <3>1, <3>2, <3>8
      <4>2. held[d] \in listed /\ state[held[d]] = "BUSY"
        BY <1>0, <4>1 DEF HandleExclusive
      <4> QED
        BY <1>0, <3>2, <3>3, <3>4, <3>5, <4>1, <4>2 DEF HandleExclusive
    <3> QED
      BY <3>7, <3>8
  <2>10. HeldInUse'
    BY <1>0, <2>1, <2>2 DEF HeldInUse, TypeOK
  <2> QED
    BY <2>4, <2>7, <2>8, <2>9, <2>10 DEF Inv
<1> QED
  BY <1>1, <1>2

LEMMA GiveUpInv == ASSUME Inv, NEW c \in Client, GiveUp(c) PROVE Inv'
<1>0. TypeOK /\ HeldInUse /\ SemCountsIdle /\ NeverNull /\ HandleExclusive
  BY DEF Inv
<1>1. TypeOK'
  BY <1>0 DEF GiveUp, TypeOK, ClientPc
<1>2. pool' # "open"
  BY <1>0 DEF GiveUp, NeverNull, At
<1>3. HandleExclusive' /\ HeldInUse'
  BY <1>0 DEF GiveUp, HandleExclusive, HeldInUse, TypeOK
<1> QED
  BY <1>1, <1>2, <1>3 DEF Inv, SemCountsIdle, NeverNull

(* The handle that becomes idle was busy, and is owed to a sem_post. *)
LEMMA PutIdleInv == ASSUME Inv, NEW c \in Client, PutIdle(c) PROVE Inv'
<1>0. TypeOK /\ HeldInUse /\ SemCountsIdle /\ NeverNull /\ HandleExclusive
  BY DEF Inv
<1>1. /\ held[c] \in listed /\ state[held[c]] = "BUSY" /\ held[c] \in Handle
      /\ \A d \in Client : pc[d] = "using" /\ d # c => held[d] # held[c]
  BY <1>0 DEF PutIdle, HandleExclusive, TypeOK
<1>2. TypeOK'
  BY <1>0, <1>1 DEF PutIdle, TypeOK, ClientPc
<1>3. /\ Cardinality(At("post")') = Cardinality(At("post")) + 1
      /\ At("scan")' = At("scan") /\ At("null")' = At("null")
  <2>1. /\ At("post")' = At("post") \cup {c} /\ c \notin At("post")
        /\ At("scan")' = At("scan") /\ At("null")' = At("null")
    BY <1>0 DEF PutIdle, TypeOK, At
  <2> QED
    BY <1>0, <2>1, CountedFinite, OneMore
<1>4. Cardinality(Idle') = Cardinality(Idle) + 1
  <2>1. Idle' = Idle \cup {held[c]} /\ held[c] \notin Idle
    BY <1>0, <1>1 DEF PutIdle, Idle, TypeOK
  <2> QED
    BY <1>0, <2>1, CountedFinite, FS_AddElement
<1>5. SemCountsIdle'
  BY <1>0, <1>3, <1>4, CountedFinite DEF PutIdle, SemCountsIdle, TypeOK
<1>6. NeverNull'
  BY <1>0, <1>3 DEF PutIdle, NeverNull
<1>7. /\ held'[c] = Nil /\ pc'[c] # "using"
      /\ \A d \in Client \ {c} : pc'[d] = pc[d] /\ held'[d] = held[d]
  BY <1>0 DEF PutIdle, TypeOK
<1>8. HeldInUse'
  BY <1>0, <1>7 DEF HeldInUse
<1>9. HandleExclusive'
  <2>1. \A g \in Handle : g # held[c] => state'[g] = state[g]
    BY <1>0 DEF PutIdle, TypeOK
  <2>2. listed \subseteq Handle /\ listed' = listed
    BY <1>0 DEF PutIdle, TypeOK
  <2> SUFFICES ASSUME NEW d \in Client, pc'[d] = "using"
               PROVE  /\ held'[d] \in listed' /\ state'[held'[d]] = "BUSY"
                      /\ \A e \in Client : held'[e] = held'[d] => e = d
    BY DEF HandleExclusive
  <2>3. d # c /\ held'[d] = held[d] /\ pc[d] = "using"
    BY <1>7
  <2>4. /\ held[d] \in listed /\ state[held[d]] = "BUSY" /\ held[d] # held[c]
        /\ \A e \in Client : held[e] = held[d] => e = d
    BY <1>0, <1>1, <2>3 DEF HandleExclusive
  <2> QED
    BY <1>7, <2>1, <2>2, <2>3, <2>4, DbAssumption DEF DbAssumption
<1> QED
  BY <1>2, <1>5, <1>6, <1>8, <1>9 DEF Inv

LEMMA SemPostInv == ASSUME Inv, NEW c \in Client, SemPost(c) PROVE Inv'
<1>0. TypeOK /\ HeldInUse /\ SemCountsIdle /\ NeverNull /\ HandleExclusive
  BY DEF Inv
<1>1. TypeOK'
  BY <1>0 DEF SemPost, TypeOK, ClientPc
<1>2. /\ Cardinality(At("post")) \in Nat \ {0}
      /\ Cardinality(At("post")') = Cardinality(At("post")) - 1
      /\ At("scan")' = At("scan") /\ At("null")' = At("null")
  <2>1. /\ At("post")' = At("post") \ {c} /\ c \in At("post")
        /\ At("scan")' = At("scan") /\ At("null")' = At("null")
    BY <1>0 DEF SemPost, TypeOK, At
  <2> QED
    BY <1>0, <2>1, CountedFinite, OneLess
<1>3. Idle' = Idle
  BY DEF SemPost, Idle
<1>4. SemCountsIdle'
  BY <1>0, <1>2, <1>3, CountedFinite DEF SemPost, SemCountsIdle, TypeOK
<1>5. NeverNull'
  BY <1>0, <1>2 DEF SemPost, NeverNull
<1>6. HandleExclusive' /\ HeldInUse'
  BY <1>0 DEF SemPost, HandleExclusive, HeldInUse, TypeOK
<1> QED
  BY <1>1, <1>4, <1>5, <1>6 DEF Inv

(* Closing touches idle handles only, and ends the promise of the count.   *)
LEMMA FinlInv == ASSUME Inv, Finl \/ FinlFails PROVE Inv'
<1>0. TypeOK /\ HeldInUse /\ HandleExclusive
  BY DEF Inv
<1>1. pool' # "open"
  BY DEF Finl, FinlFails
<1>2. TypeOK'
  BY <1>0 DEF Finl, FinlFails, TypeOK
<1>3. HandleExclusive' /\ HeldInUse'
  <2>1. UNCHANGED <<state, pc, held>>
    BY DEF Finl, FinlFails
  <2>2. ASSUME NEW h \in listed, state[h] = "BUSY" PROVE h \in listed'
    BY <2>2 DEF Finl, FinlFails, Idle
  <2> QED
    BY <1>0, <2>1, <2>2 DEF HandleExclusive, HeldInUse
<1> QED
  BY <1>1, <1>2, <1>3 DEF Inv, SemCountsIdle, NeverNull

LEMMA NextInv == Inv /\ [Next]_vars => Inv'
<1> SUFFICES ASSUME Inv, [Next]_vars PROVE Inv'
  OBVIOUS
<1>1. CASE Finl \/ FinlFails
  BY <1>1, FinlInv
<1>2. ASSUME NEW c \in Client, ClientStep(c) PROVE Inv'
  BY <1>2, SemWaitInv, RefuseInv, ScanInv, GiveUpInv, PutIdleInv, SemPostInv
     DEF ClientStep
<1>3. CASE UNCHANGED vars
  BY <1>3 DEF vars, Inv, TypeOK, HeldInUse, SemCountsIdle, NeverNull, HandleExclusive, Idle, At
<1> QED
  BY <1>1, <1>2, <1>3 DEF Next

LEMMA SpecInv == Spec => []Inv
  BY InitInv, NextInv, PTL DEF Spec

(* The variables of the pool keep their types: in particular the semaphore *)
(* is never taken below zero.                                              *)
THEOREM DbTypeOK == Spec => []TypeOK
<1>1. Inv => TypeOK
  BY DEF Inv
<1> QED
  BY <1>1, SpecInv, PTL

(* While the pool is open every idle handle is accounted for by the        *)
(* semaphore, by a client about to search, or by one about to post.        *)
THEOREM DbSemCountsIdle == Spec => []SemCountsIdle
<1>1. Inv => SemCountsIdle
  BY DEF Inv
<1> QED
  BY <1>1, SpecInv, PTL

(* db_get_handle() of an open pool never returns NULL, which its callers   *)
(* would take for success.                                                 *)
THEOREM DbNeverNull == Spec => []NeverNull
<1>1. Inv => NeverNull
  BY DEF Inv
<1> QED
  BY <1>1, SpecInv, PTL

(* No two threads ever use the same MYSQL connection, not even while the   *)
(* pool is being closed.                                                   *)
THEOREM DbHandleExclusive == Spec => []HandleExclusive
<1>1. Inv => HandleExclusive
  BY DEF Inv
<1> QED
  BY <1>1, SpecInv, PTL
(* Never do more threads have a connection, or, while the pool is open,    *)
(* are on the way to one past sem_wait, than the pool has handles: what    *)
(* GasServer takes for granted of db_get_handle().                         *)
AtMostHandles ==
  /\ Cardinality(At("using")) <= Cardinality(Handle)
  /\ pool = "open" => Cardinality(At("using") \cup At("scan")) <= Cardinality(Handle)

(* Who uses a handle has one of its own, and one that is not idle. *)
LEMMA UsersHandles ==
  ASSUME Inv
  PROVE  Cardinality(At("using")) <= Cardinality({h \in Handle : state[h] = "BUSY"})
<1> DEFINE U == At("using")
           B == {h \in Handle : state[h] = "BUSY"}
           f == [c \in U |-> held[c]]
<1>1. f \in Injection(U, B)
  <2>1. f \in [U -> B]
    BY DEF Inv, TypeOK, HandleExclusive, At
  <2>2. \A c, d \in U : f[c] = f[d] => c = d
    BY DEF Inv, HandleExclusive, At
  <2> QED
    BY <2>1, <2>2 DEF Injection, IsInjective
<1>2. IsFiniteSet(B)
  BY DbAssumption, FS_Subset DEF DbAssumption
<1> HIDE DEF U, B, f
<1>3. Cardinality(U) <= Cardinality(B)
  BY <1>1, <1>2, FS_Injection DEF ExistsInjection
<1> QED
  BY <1>3 DEF U, B

THEOREM DbAtMostHandles == Spec => []AtMostHandles
<1>1. Inv => AtMostHandles
  <2> SUFFICES ASSUME Inv PROVE AtMostHandles
    OBVIOUS
  <2> DEFINE U == At("using")
             S == At("scan")
             B == {h \in Handle : state[h] = "BUSY"}
             I == Idle
  <2>1. /\ IsFiniteSet(U) /\ Cardinality(U) \in Nat /\ IsFiniteSet(S) /\ Cardinality(S) \in Nat
        /\ IsFiniteSet(I) /\ Cardinality(I) \in Nat
    BY CountedFinite DEF Inv
  <2>2. B \subseteq Handle /\ I \subseteq Handle /\ B \cap I = {} /\ U \cap S = {}
    BY DEF Inv, TypeOK, Idle, At
  <2>3. Cardinality(U) <= Cardinality(B)
    BY UsersHandles
  <2>4. pool = "open" => Cardinality(S) <= Cardinality(I)
    <3>1. SUFFICES ASSUME pool = "open" PROVE Cardinality(S) <= Cardinality(I)
      OBVIOUS
    <3>2. Cardinality(I) = sem + Cardinality(S) + Cardinality(At("post"))
      BY <3>1 DEF Inv, SemCountsIdle
    <3>3. sem \in Nat /\ Cardinality(At("post")) \in Nat
      BY CountedFinite DEF Inv, TypeOK
    <3> QED
      BY <2>1, <3>2, <3>3
  <2> HIDE DEF U, S, B, I
  <2>5. IsFiniteSet(Handle) /\ IsFiniteSet(B) /\ Cardinality(B) \in Nat /\ Cardinality(Handle) \in Nat
    BY <2>2, DbAssumption, FS_Subset, FS_CardinalityType DEF DbAssumption
  <2>6. Cardinality(B \cup I) = Cardinality(B) + Cardinality(I)
    <3>1. Cardinality(B \cup I) = Cardinality(B) + Cardinality(I) - Cardinality(B \cap I)
      BY <2>1, <2>5, FS_Union
    <3> QED
      BY <2>1, <2>2, <2>5, <3>1, FS_EmptySet
  <2>7. Cardinality(U \cup S) = Cardinality(U) + Cardinality(S)
    <3>1. Cardinality(U \cup S) = Cardinality(U) + Cardinality(S) - Cardinality(U \cap S)
      BY <2>1, FS_Union
    <3>2. Cardinality(U \cap S) = 0
      BY <2>2, FS_EmptySet
    <3> QED
      BY <2>1, <3>1, <3>2
  <2>8. Cardinality(B \cup I) <= Cardinality(Handle) /\ Cardinality(B) <= Cardinality(Handle)
    BY <2>2, <2>5, FS_Subset
  <2>9. Cardinality(U) <= Cardinality(Handle)
    BY <2>1, <2>3, <2>5, <2>8
  <2>10. pool = "open" => Cardinality(U \cup S) <= Cardinality(Handle)
    BY <2>1, <2>3, <2>4, <2>5, <2>6, <2>7, <2>8
  <2> QED
    BY <2>9, <2>10 DEF AtMostHandles, U, S
<1> QED
  BY <1>1, SpecInv, PTL
=============================================================================
