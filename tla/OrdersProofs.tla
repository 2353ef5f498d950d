---------------------------- MODULE OrdersProofs ----------------------------
(***************************************************************************)
(* Proofs about Orders, for any orders, reports and users: what holds even *)
(* if reports of one order overlap and processes die over them, and what   *)
(* users are credited as long as the reports of an order come in turn.     *)
(***************************************************************************)
EXTENDS Orders, FiniteSetTheorems, TLAPS

(* A report that goes on to change something is about an order and says    *)
(* another status than 0.                                                  *)
Reporting == \A q \in Request :
  pc[q] \in {"first", "quota", "bonus", "force"} => about[q] \in Order /\ status[q] \in 1..5

(* The user is credited, and the order updated again, after the record     *)
(* says that it is processed.                                              *)
Recorded == \A q \in Request :
  pc[q] \in {"quota", "bonus", "force"} => state[about[q]] > 0

Inv == TypeOK /\ Reporting /\ Recorded /\ PlanIsRecorded

LEMMA InitInv == Init => Inv
BY OrderAssumption DEF OrderAssumption, Init, Inv, TypeOK, ReqPc, Reporting, Recorded, PlanIsRecorded

(* The largest status of a trade is one of its statuses. *)
LEMMA MaxReached ==
  ASSUME NEW S \in SUBSET (0..5), S # {}
  PROVE  Max(S) \in S
<1>1. \E x \in S : \A y \in S : x >= y
  <2>1. \A y \in S : y \in {0, 1, 2, 3, 4, 5}
    OBVIOUS
  <2>2. CASE 5 \in S
    BY <2>1, <2>2
  <2>3. CASE 4 \in S /\ 5 \notin S
    BY <2>1, <2>3
  <2>4. CASE 3 \in S /\ 4 \notin S /\ 5 \notin S
    BY <2>1, <2>4
  <2>5. CASE 3 \notin S /\ 4 \notin S /\ 5 \notin S
    <3>1. CASE 2 \in S
      <4>1. \A y \in S : 2 >= y
        BY <2>1, <2>5
      <4> QED
        BY <3>1, <4>1
    <3>2. CASE 2 \notin S /\ 1 \in S
      <4>1. \A y \in S : 1 >= y
        BY <2>1, <2>5, <3>2
      <4> QED
        BY <3>2, <4>1
    <3>3. CASE 2 \notin S /\ 1 \notin S
      <4>1. \A y \in S : y = 0
        BY <2>1, <2>5, <3>3
      <4>2. PICK x \in S : TRUE
        OBVIOUS
      <4>3. x = 0 /\ \A y \in S : x >= y
        BY <4>1, <4>2
      <4> QED
        BY <4>3
    <3> QED
      BY <3>1, <3>2, <3>3
  <2> QED
    BY <2>2, <2>3, <2>4, <2>5
<1> QED
  BY <1>1 DEF Max

(* A step that leaves the requests alone. *)
LEMMA OtherStep ==
  ASSUME Inv, NEW o \in Order, Checkout(o) \/ Advance(o) \/ Close(o)
  PROVE  Inv'
<1> USE DEF Inv, userVars, reqVars, hisVars
<1>1. CASE Checkout(o)
  BY <1>1 DEF Checkout, TypeOK, Reporting, Recorded, PlanIsRecorded, OrdersOf, Processed
<1>2. CASE Advance(o)
  <2>1. reached[o] \in SUBSET (0..5) /\ Max(reached[o]) \in 0..3
    BY <1>2, MaxReached, OrderAssumption DEF OrderAssumption, Advance, TypeOK
  <2>2. TypeOK'
    BY <1>2, <2>1 DEF Advance, TypeOK
  <2> QED
    BY <1>2, <2>2 DEF Advance, Reporting, Recorded, PlanIsRecorded, OrdersOf, Processed
<1>3. CASE Close(o)
  BY <1>3 DEF Close, Closed, TypeOK, Reporting, Recorded, PlanIsRecorded, OrdersOf, Processed
<1> QED
  BY <1>1, <1>2, <1>3

LEMMA GetBySerialStep ==
  ASSUME Inv, NEW q \in Request, NEW o \in Order, GetBySerial(q, o)
  PROVE  Inv' /\ UNCHANGED state
<1> USE DEF Inv, userVars
<1>1. PICK s \in reached[o] :
        /\ status' = [status EXCEPT ![q] = s]
        /\ pc' = [pc EXCEPT ![q] = IF s = 0 THEN "done" ELSE IF state[o] = 0 THEN "first" ELSE "force"]
  BY DEF GetBySerial, Goto
<1>2. about' = [about EXCEPT ![q] = o] /\ state[o] \in 0..5 /\ s \in 0..5
  BY DEF GetBySerial, TypeOK
<1>3. TypeOK'
  BY <1>1, <1>2 DEF GetBySerial, TypeOK, ReqPc
<1>4. Reporting' /\ Recorded'
  BY <1>1, <1>2 DEF GetBySerial, TypeOK, Reporting, Recorded
<1>5. PlanIsRecorded'
  BY DEF GetBySerial, PlanIsRecorded, OrdersOf, Processed
<1> QED
  BY <1>3, <1>4, <1>5 DEF GetBySerial

LEMMA UpdateOrderStep ==
  ASSUME Inv, NEW q \in Request, UpdateOrder(q)
  PROVE  Inv' /\ \A o \in Order : state[o] > 0 => state'[o] > 0
<1> USE DEF Inv, userVars, reqVars, hisVars, Goto
<1>1. /\ about[q] \in Order /\ status[q] \in 1..5
      /\ state' = [state EXCEPT ![about[q]] = status[q]] /\ state \in [Order -> -1..5]
  BY DEF UpdateOrder, Reporting, TypeOK
<1>2. \A o \in Order : state[o] > 0 => state'[o] > 0
  BY <1>1
<1>3. TypeOK'
  BY <1>1 DEF UpdateOrder, TypeOK, ReqPc
<1>4. Reporting'
  BY <1>1 DEF UpdateOrder, TypeOK, Reporting
<1>5. Recorded'
  <2> SUFFICES ASSUME NEW r \in Request, pc'[r] \in {"quota", "bonus", "force"}
               PROVE  state'[about[r]] > 0
    BY DEF UpdateOrder, Recorded
  <2>1. about[r] \in Order /\ (r = q \/ state[about[r]] > 0)
    BY <1>1 DEF UpdateOrder, TypeOK, Reporting, Recorded
  <2> QED
    BY <2>1, <1>1, <1>2
<1>6. PlanIsRecorded'
  BY <1>2 DEF UpdateOrder, PlanIsRecorded, OrdersOf, Processed
<1> QED
  BY <1>2, <1>3, <1>4, <1>5, <1>6

LEMMA CreditStep ==
  ASSUME Inv, NEW q \in Request, UpdateQuota(q) \/ UpdateBonus(q) \/ Die(q)
  PROVE  Inv' /\ UNCHANGED state
<1> USE DEF Inv, userVars, reqVars, Goto
<1>0. OrderAssumption
  BY OrderAssumption
<1>1. CASE UpdateQuota(q)
  <2>1. about[q] \in Order /\ state[about[q]] > 0 /\ Buyer[about[q]] \in User
        /\ Price[about[q]] \in Nat
    BY <1>1, <1>0 DEF UpdateQuota, Reporting, Recorded, OrderAssumption
  <2>2. TypeOK'
    BY <1>1, <2>1 DEF UpdateQuota, TypeOK, ReqPc, hisVars
  <2>3. Reporting' /\ Recorded'
    BY <1>1 DEF UpdateQuota, TypeOK, Reporting, Recorded
  <2>4. PlanIsRecorded'
    BY <1>1, <2>1 DEF UpdateQuota, TypeOK, PlanIsRecorded, OrdersOf, Processed
  <2> QED
    BY <1>1, <2>2, <2>3, <2>4 DEF UpdateQuota
<1>2. CASE UpdateBonus(q)
  <2>1. about[q] \in Order /\ BonusFor(about[q]) \in Nat
    BY <1>2, <1>0 DEF UpdateBonus, Reporting, OrderAssumption, BonusFor
  <2>a. Refer[Buyer[about[q]]] \in User \cup {Nobody}
    BY <2>1, <1>0 DEF OrderAssumption
  <2>b. bonus' \in [User -> Nat]
    <3>1. CASE Refer[Buyer[about[q]]] = Nobody
      BY <1>2, <3>1 DEF UpdateBonus, TypeOK
    <3>2. CASE Refer[Buyer[about[q]]] \in User /\ Refer[Buyer[about[q]]] # Nobody
      BY <1>2, <2>1, <3>2 DEF UpdateBonus, TypeOK
    <3> QED
      BY <2>a, <3>1, <3>2
  <2>2. TypeOK'
    BY <1>2, <2>1, <2>b DEF UpdateBonus, TypeOK, ReqPc, hisVars
  <2>3. Reporting' /\ Recorded'
    BY <1>2 DEF UpdateBonus, TypeOK, Reporting, Recorded
  <2>4. PlanIsRecorded'
    BY <1>2 DEF UpdateBonus, PlanIsRecorded, OrdersOf, Processed
  <2> QED
    BY <1>2, <2>2, <2>3, <2>4 DEF UpdateBonus
<1>3. CASE Die(q)
  <2>1. q \in Request /\ pc[q] \in {"first", "quota", "bonus", "force"} /\ about[q] \in Order
    BY <1>3 DEF Die, Active, TypeOK, ReqPc, Reporting
  <2>2. TypeOK'
    BY <1>3, <2>1 DEF Die, TypeOK, ReqPc
  <2>3. Reporting' /\ Recorded'
    BY <1>3 DEF Die, TypeOK, Reporting, Recorded
  <2>4. PlanIsRecorded'
    BY <1>3 DEF Die, PlanIsRecorded, OrdersOf, Processed
  <2> QED
    BY <1>3, <2>2, <2>3, <2>4 DEF Die
<1> QED
  BY <1>1, <1>2, <1>3

LEMMA InvStep ==
  Inv /\ [Next]_vars => Inv' /\ \A o \in Order : state[o] > 0 => state'[o] > 0
<1> SUFFICES ASSUME Inv, [Next]_vars
             PROVE  Inv' /\ \A o \in Order : state[o] > 0 => state'[o] > 0
  OBVIOUS
<1>1. ASSUME NEW o \in Order, Checkout(o) \/ Advance(o) \/ Close(o)
      PROVE  \A p \in Order : state[p] > 0 => state'[p] > 0
  BY <1>1 DEF Checkout, Advance, Close, Inv, TypeOK
<1>2. ASSUME UNCHANGED vars PROVE Inv' /\ UNCHANGED state
  BY <1>2 DEF vars, userVars, reqVars, hisVars, Inv, TypeOK, Reporting, Recorded, PlanIsRecorded,
     OrdersOf, Processed
<1> QED
  BY <1>1, <1>2, OtherStep, GetBySerialStep, UpdateOrderStep, CreditStep
  DEF Next, order_transaction

-----------------------------------------------------------------------------
(* Sums over sets of orders. *)

(* G gives every subset of U the sum of f over it. *)
Sums(G, f, U) ==
  /\ G \in [SUBSET U -> Nat]
  /\ G[{}] = 0
  /\ \A s \in SUBSET U : \A x \in s : G[s] = f[x] + G[s \ {x}]

(* Among any subsets of a finite set there is one that contains none of the
   others: this is how a claim about all its subsets is proved.             *)
LEMMA SmallestSubset ==
  ASSUME NEW U, IsFiniteSet(U), NEW C, C \subseteq SUBSET U, C # {}
  PROVE  \E s \in C : \A t \in C : t \subseteq s => t = s
<1> DEFINE R == StrictSubsetOrdering(U)
<1>1. IsWellFoundedOn(R, SUBSET U)
  BY FS_FiniteSubsetsOfFinite, FS_StrictSubsetOrderingWellFounded
<1>2. PICK s \in C : \A t \in C : ~(<<t, s>> \in R)
  <2> HIDE DEF R
  <2> QED
    BY <1>1, WFMin
<1>3. ASSUME NEW t \in C, t \subseteq s, t # s
      PROVE  FALSE
  <2>1. t \in SUBSET U /\ s \in SUBSET U
    OBVIOUS
  <2>2. <<t, s>> \in R
    BY <1>3, <2>1 DEF StrictSubsetOrdering
  <2> QED
    BY <2>2, <1>2
<1> QED
  BY <1>2, <1>3

(* The sums over the subsets of A and x from those over the subsets of A. *)
LEMMA SumsAdd ==
  ASSUME NEW A, NEW x, x \notin A, NEW f \in [A \cup {x} -> Nat],
         NEW G, Sums(G, f, A)
  PROVE  \E H : Sums(H, f, A \cup {x})
<1> DEFINE B == A \cup {x}
           H == [s \in SUBSET B |-> IF x \in s THEN f[x] + G[s \ {x}] ELSE G[s]]
<1>1. \A s \in SUBSET B : s \ {x} \in SUBSET A /\ (x \notin s => s \in SUBSET A)
  OBVIOUS
<1>2. \A s \in SUBSET A : G[s] \in Nat
  BY DEF Sums
<1>3. H \in [SUBSET B -> Nat]
  BY <1>1, <1>2
<1>4. H[{}] = 0
  BY DEF Sums
<1>5. ASSUME NEW s \in SUBSET B, NEW y \in s
      PROVE  H[s] = f[y] + H[s \ {y}]
  <2>0. s \ {y} \in SUBSET B /\ f[x] \in Nat /\ f[y] \in Nat
    OBVIOUS
  <2>1. CASE y = x
    <3>1. H[s] = f[x] + G[s \ {x}] /\ H[s \ {x}] = G[s \ {x}]
      BY <2>0, <2>1
    <3> QED
      BY <3>1, <2>1
  <2>2. CASE y # x /\ x \in s
    <3>1. s \ {x} \in SUBSET A /\ y \in s \ {x} /\ (s \ {x}) \ {y} = (s \ {y}) \ {x}
      BY <2>2
    <3>2. G[s \ {x}] = f[y] + G[(s \ {y}) \ {x}]
      BY <3>1 DEF Sums
    <3>3. H[s] = f[x] + G[s \ {x}] /\ H[s \ {y}] = f[x] + G[(s \ {y}) \ {x}]
      BY <2>0, <2>2
    <3>4. G[(s \ {y}) \ {x}] \in Nat
      BY <1>1, <1>2, <2>0
    <3> QED
      BY <3>2, <3>3, <3>4, <2>0
  <2>3. CASE x \notin s
    <3>1. s \in SUBSET A /\ H[s] = G[s] /\ H[s \ {y}] = G[s \ {y}]
      BY <2>0, <2>3
    <3> QED
      BY <3>1 DEF Sums
  <2> QED
    BY <2>1, <2>2, <2>3
<1> HIDE DEF H
<1> QED
  BY <1>3, <1>4, <1>5 DEF Sums

(* Every finite set has its sums. *)
LEMMA SumsExist ==
  ASSUME NEW U, IsFiniteSet(U), NEW f \in [U -> Nat]
  PROVE  \E G : Sums(G, f, U)
<1> DEFINE Bad == {A \in SUBSET U : ~\E G : Sums(G, f, A)}
<1>1. SUFFICES ASSUME Bad # {} PROVE FALSE
  OBVIOUS
<1>2. PICK A \in Bad : \A B \in Bad : B \subseteq A => B = A
  <2>1. Bad \subseteq SUBSET U
    OBVIOUS
  <2> HIDE DEF Bad
  <2> QED
    BY <1>1, <2>1, SmallestSubset
<1>3. CASE A = {}
  <2> DEFINE G == [s \in SUBSET {} |-> 0]
  <2>1. SUBSET {} = {{}}
    OBVIOUS
  <2>2. Sums(G, f, {})
    BY <2>1 DEF Sums
  <2> QED
    BY <2>2, <1>3
<1>4. CASE A # {}
  <2>1. PICK x \in A : TRUE
    BY <1>4
  <2>2. A \ {x} \in SUBSET U /\ A \ {x} \subseteq A /\ A \ {x} # A /\ (A \ {x}) \cup {x} = A
    BY <2>1
  <2>3. PICK G : Sums(G, f, A \ {x})
    BY <2>2, <1>2
  <2> DEFINE g == [y \in A |-> f[y]]
  <2>5. g \in [(A \ {x}) \cup {x} -> Nat]
    BY <2>2
  <2>6. Sums(G, g, A \ {x})
    BY <2>3 DEF Sums
  <2> HIDE DEF g
  <2>7. PICK H : Sums(H, g, (A \ {x}) \cup {x})
    BY <2>5, <2>6, SumsAdd
  <2>8. Sums(H, f, A)
    <3> USE DEF g
    <3>1. Sums(H, g, A)
      BY <2>7, <2>2
    <3>2. ASSUME NEW s \in SUBSET A, NEW y \in s PROVE g[y] = f[y]
      OBVIOUS
    <3> QED
      BY <3>1, <3>2 DEF Sums
  <2> QED
    BY <2>8
<1> QED
  BY <1>3, <1>4

(* What the fold adds up, whichever element it takes next. *)
IsFold(iter, f, S) ==
  iter = [s \in SUBSET S |->
            IF s = {} THEN 0
            ELSE f[CHOOSE x \in s : TRUE] + iter[s \ {CHOOSE x \in s : TRUE}]]

LEMMA FoldIsSum ==
  ASSUME NEW U, IsFiniteSet(U), NEW f, NEW G, Sums(G, f, U), NEW S \in SUBSET U
  PROVE  /\ \E iter : IsFold(iter, f, S)
         /\ \A iter : IsFold(iter, f, S) => iter[S] = G[S]
<1>0. ASSUME NEW s \in SUBSET S, s # {}
      PROVE  /\ (CHOOSE x \in s : TRUE) \in s
             /\ G[s] = f[CHOOSE x \in s : TRUE] + G[s \ {CHOOSE x \in s : TRUE}]
  <2>1. (CHOOSE x \in s : TRUE) \in s
    BY <1>0
  <2>2. s \in SUBSET U
    OBVIOUS
  <2> QED
    BY <2>1, <2>2 DEF Sums
<1>1. \E iter : IsFold(iter, f, S)
  <2> DEFINE it == [s \in SUBSET S |-> G[s]]
  <2>1. G[{}] = 0
    BY DEF Sums
  <2>2. ASSUME NEW s \in SUBSET S
        PROVE  it[s] = IF s = {} THEN 0
            ELSE f[CHOOSE x \in s : TRUE] + it[s \ {CHOOSE x \in s : TRUE}]
    BY <2>1, <1>0
  <2>3. IsFold(it, f, S)
    <3> HIDE DEF it
    <3>1. it = [s \in SUBSET S |-> it[s]]
      BY DEF it
    <3> QED
      BY <3>1, <2>2 DEF IsFold
  <2> QED
    BY <2>3
<1>2. ASSUME NEW iter, IsFold(iter, f, S)
      PROVE  iter[S] = G[S]
  <2> DEFINE Bad == {s \in SUBSET S : iter[s] # G[s]}
  <2>1. SUFFICES ASSUME Bad # {} PROVE FALSE
    OBVIOUS
  <2>2. IsFiniteSet(S) /\ Bad \subseteq SUBSET S
    BY FS_Subset
  <2>3. PICK s \in Bad : \A t \in Bad : t \subseteq s => t = s
    <3> HIDE DEF Bad
    <3> QED
      BY <2>1, <2>2, SmallestSubset
  <2>4. s # {}
    BY <1>2 DEF IsFold, Sums
  <2> DEFINE x == CHOOSE x \in s : TRUE
  <2>5. x \in s /\ G[s] = f[x] + G[s \ {x}]
    BY <2>4, <1>0
  <2>6. iter[s] = f[x] + iter[s \ {x}]
    BY <1>2, <2>4 DEF IsFold
  <2>7. s \ {x} \in SUBSET S /\ s \ {x} \subseteq s /\ s \ {x} # s
    BY <2>5
  <2>8. iter[s \ {x}] = G[s \ {x}]
    <3> HIDE DEF x
    <3> QED
      BY <2>3, <2>7
  <2> QED
    BY <2>5, <2>6, <2>8
<1> QED
  BY <1>1, <1>2


LEMMA SumGrows ==
  ASSUME NEW U, IsFiniteSet(U), NEW f \in [U -> Nat], NEW G, Sums(G, f, U),
         NEW T \in SUBSET U, NEW S \in SUBSET T
  PROVE  G[S] <= G[T]
<1> DEFINE Bad == {A \in SUBSET U : S \subseteq A /\ ~(G[S] <= G[A])}
<1>1. SUFFICES ASSUME Bad # {} PROVE FALSE
  BY DEF Bad
<1>2. PICK A \in Bad : \A B \in Bad : B \subseteq A => B = A
  <2>1. Bad \subseteq SUBSET U
    OBVIOUS
  <2> HIDE DEF Bad
  <2> QED
    BY <1>1, <2>1, SmallestSubset
<1>3. A # S
  <2>1. G[S] \in Nat
    BY DEF Sums
  <2> QED
    BY <2>1
<1>4. PICK x \in A : x \notin S
  BY <1>3
<1>5. A \ {x} \in SUBSET U /\ A \ {x} \subseteq A /\ A \ {x} # A /\ S \subseteq A \ {x}
  BY <1>4
<1>6. G[S] <= G[A \ {x}]
  BY <1>2, <1>5
<1>7. /\ G[A] = f[x] + G[A \ {x}] /\ f[x] \in Nat
      /\ G[S] \in Nat /\ G[A] \in Nat /\ G[A \ {x}] \in Nat
  BY <1>4, <1>5 DEF Sums
<1> QED
  BY <1>6, <1>7

(* What there is to know about the prices of some orders ... *)
LEMMA ValueFacts ==
  ASSUME NEW S \in SUBSET Order
  PROVE  /\ Value(S) \in Nat /\ Value({}) = 0
         /\ \A o \in Order \ S : Value(S \cup {o}) = Value(S) + Price[o]
         /\ \A T \in SUBSET S : Value(T) <= Value(S)
<1>0. IsFiniteSet(Order) /\ Price \in [Order -> Nat]
  BY OrderAssumption DEF OrderAssumption
<1>1. PICK G : Sums(G, Price, Order)
  BY <1>0, SumsExist
<1>2. ASSUME NEW T \in SUBSET Order PROVE Value(T) = G[T]
  <2> DEFINE it == CHOOSE iter : IsFold(iter, Price, T)
  <2>1. IsFold(it, Price, T)
    BY <1>0, <1>1, FoldIsSum
  <2>2. it[T] = G[T]
    BY <2>1, <1>0, <1>1, FoldIsSum
  <2>3. Value(T) = it[T]
    BY DEF Value, MapThenSumSet, MapThenFoldSet, IsFold
  <2> QED
    BY <2>2, <2>3
<1>3. Value(S) \in Nat /\ Value({}) = 0
  <2>1. {} \in SUBSET Order
    OBVIOUS
  <2> QED
    BY <1>1, <1>2, <2>1 DEF Sums
<1>4. ASSUME NEW o \in Order \ S PROVE Value(S \cup {o}) = Value(S) + Price[o]
  <2>1. S \cup {o} \in SUBSET Order /\ o \in S \cup {o} /\ (S \cup {o}) \ {o} = S
    OBVIOUS
  <2>2. G[S \cup {o}] = Price[o] + G[S]
    BY <1>1, <2>1 DEF Sums
  <2> QED
    BY <2>1, <2>2, <1>0, <1>1, <1>2 DEF Sums
<1>5. ASSUME NEW T \in SUBSET S PROVE Value(T) <= Value(S)
  BY <1>0, <1>1, <1>2, SumGrows
<1> QED
  BY <1>3, <1>4, <1>5

(* ... and about the bonuses they give. *)
LEMMA BonusFacts ==
  ASSUME NEW S \in SUBSET Order
  PROVE  /\ Bonuses(S) \in Nat /\ Bonuses({}) = 0
         /\ \A o \in Order \ S : Bonuses(S \cup {o}) = Bonuses(S) + BonusFor(o)
         /\ \A T \in SUBSET S : Bonuses(T) <= Bonuses(S)
<1> DEFINE f == [o \in Order |-> BonusFor(o)]
<1>0. IsFiniteSet(Order) /\ f \in [Order -> Nat] /\ \A o \in Order : f[o] = BonusFor(o)
  BY OrderAssumption DEF OrderAssumption, BonusFor
<1> HIDE DEF f
<1>1. PICK G : Sums(G, f, Order)
  BY <1>0, SumsExist
<1>2. ASSUME NEW T \in SUBSET Order PROVE Bonuses(T) = G[T]
  <2> DEFINE Is(iter) == iter = [s \in SUBSET T |->
               IF s = {} THEN 0
               ELSE BonusFor(CHOOSE x \in s : TRUE) + iter[s \ {CHOOSE x \in s : TRUE}]]
  <2>1. ASSUME NEW iter PROVE IsFold(iter, f, T) <=> Is(iter)
    <3>1. ASSUME NEW s \in SUBSET T, s # {}
          PROVE  f[CHOOSE x \in s : TRUE] = BonusFor(CHOOSE x \in s : TRUE)
      <4>1. (CHOOSE x \in s : TRUE) \in s
        BY <3>1
      <4> QED
        BY <4>1, <1>0
    <3> QED
      BY <3>1 DEF IsFold
  <2> DEFINE it == CHOOSE iter : Is(iter)
  <2>2. Bonuses(T) = it[T]
    BY DEF Bonuses, MapThenSumSet, MapThenFoldSet
  <2>3. Is(it)
    <3>1. \E iter : IsFold(iter, f, T)
      BY <1>0, <1>1, FoldIsSum
    <3> HIDE DEF Is
    <3>2. \E iter : Is(iter)
      BY <3>1, <2>1
    <3> QED
      BY <3>2
  <2>4. it[T] = G[T]
    <3> HIDE DEF Is, it
    <3>1. IsFold(it, f, T)
      BY <2>1, <2>3
    <3> QED
      BY <3>1, <1>0, <1>1, FoldIsSum
  <2> QED
    BY <2>2, <2>4
<1>3. Bonuses(S) \in Nat /\ Bonuses({}) = 0
  <2>1. {} \in SUBSET Order
    OBVIOUS
  <2> QED
    BY <1>1, <1>2, <2>1 DEF Sums
<1>4. ASSUME NEW o \in Order \ S PROVE Bonuses(S \cup {o}) = Bonuses(S) + BonusFor(o)
  <2>1. S \cup {o} \in SUBSET Order /\ o \in S \cup {o} /\ (S \cup {o}) \ {o} = S
    OBVIOUS
  <2>2. G[S \cup {o}] = f[o] + G[S]
    BY <1>1, <2>1 DEF Sums
  <2>3. G[S \cup {o}] = Bonuses(S \cup {o}) /\ G[S] = Bonuses(S) /\ G[S] \in Nat
    BY <1>1, <1>2, <2>1 DEF Sums
  <2>4. f[o] = BonusFor(o) /\ f[o] \in Nat
    BY <1>0
  <2> QED
    BY <2>2, <2>3, <2>4
<1>5. ASSUME NEW T \in SUBSET S PROVE Bonuses(T) <= Bonuses(S)
  BY <1>0, <1>1, <1>2, SumGrows
<1> QED
  BY <1>3, <1>4, <1>5

-----------------------------------------------------------------------------
(* Reports that come in turn. *)

(* Two reports that are about one order at once are known to overlap. *)
InTurn == \A q, p \in Active :
  q # p /\ about[q] = about[p] => about[q] \in overlapped

(* An order that is about to be credited is still unpaid on record, unless *)
(* another report of it came in between.                                   *)
FirstIsNew == \A q \in Request :
  pc[q] = "first" /\ about[q] \notin overlapped => state[about[q]] = 0

(* The orders a report is about that is at one of these points. *)
At(points) == {about[q] : q \in {p \in Request : pc[p] \in points}}

(* The processed orders the buyer has been credited for, unless the report *)
(* died, and those the bonus has been given for.                           *)
Funded(u)   == (OrdersOf(u) \cap Processed) \ At({"quota"})
Rewarded(u) == (Referred(u) \cap Processed) \ At({"quota", "bonus"})

FundIsDue == \A u \in User : OrdersOf(u) \cap overlapped = {} =>
  /\ fund[u] <= Value(Funded(u))
  /\ OrdersOf(u) \cap died = {} => fund[u] = Value(Funded(u))

BonusIsDue == \A u \in User : Referred(u) \cap overlapped = {} =>
  /\ bonus[u] <= Bonuses(Rewarded(u))
  /\ Referred(u) \cap died = {} => bonus[u] = Bonuses(Rewarded(u))

Due == InTurn /\ FirstIsNew /\ FundIsDue /\ BonusIsDue

LEMMA InitDue == Init => Due
<1> SUFFICES ASSUME Init PROVE Due
  OBVIOUS
<1>1. Active = {} /\ At({"quota"}) = {} /\ At({"quota", "bonus"}) = {} /\ Processed = {}
  BY DEF Init, Active, At, Processed
<1>2. \A u \in User : Funded(u) = {} /\ Rewarded(u) = {}
  BY <1>1 DEF Funded, Rewarded
<1>3. Value({}) = 0 /\ Bonuses({}) = 0
  <2>1. {} \in SUBSET Order
    OBVIOUS
  <2> QED
    BY <2>1, ValueFacts, BonusFacts
<1>4. InTurn /\ FirstIsNew
  BY <1>1 DEF Init, InTurn, FirstIsNew
<1>5. \A u \in User : fund[u] = 0 /\ bonus[u] = 0
  BY DEF Init
<1>6. FundIsDue
  BY <1>2, <1>3, <1>5 DEF FundIsDue
<1>7. BonusIsDue
  BY <1>2, <1>3, <1>5 DEF BonusIsDue
<1> QED
  BY <1>4, <1>6, <1>7 DEF Due

(* The reports of an order stay in turn. *)
LEMMA TurnStep ==
  ASSUME Inv, Due, [Next]_vars
  PROVE  InTurn' /\ FirstIsNew'
<1> USE DEF userVars, reqVars, hisVars
<1>0. /\ pc \in [Request -> ReqPc] /\ about \in [Request -> Order \cup {Nobody}]
      /\ state \in [Order -> -1..5] /\ InTurn /\ FirstIsNew
      /\ \A q \in Active : about[q] \in Order
  BY DEF Inv, Due, TypeOK, Reporting, Active, ReqPc
<1>1. ASSUME UNCHANGED <<pc, about, overlapped>>,
             \A o \in Order : state[o] = 0 => state'[o] = 0
      PROVE  InTurn' /\ FirstIsNew'
  <2>1. \A q \in Request : pc[q] = "first" => about[q] \in Order
    BY DEF Inv, Reporting
  <2> QED
    BY <1>0, <1>1, <2>1 DEF InTurn, FirstIsNew, Active
<1>2. ASSUME NEW o \in Order, Checkout(o) \/ Advance(o) \/ Close(o)
      PROVE  InTurn' /\ FirstIsNew'
  <2>1. UNCHANGED <<pc, about, overlapped>>
    BY <1>2 DEF Checkout, Advance, Close
  <2>2. \A p \in Order : state[p] = 0 => state'[p] = 0
    BY <1>0, <1>2 DEF Checkout, Advance, Close
  <2> QED
    BY <1>1, <2>1, <2>2
<1>3. ASSUME NEW q \in Request, NEW o \in Order, GetBySerial(q, o)
      PROVE  InTurn' /\ FirstIsNew'
  <2>1. PICK s \in reached[o] :
          pc' = [pc EXCEPT ![q] = IF s = 0 THEN "done" ELSE IF state[o] = 0 THEN "first" ELSE "force"]
    BY <1>3 DEF GetBySerial, Goto
  <2>2. /\ about' = [about EXCEPT ![q] = o] /\ state' = state /\ q \notin Active
        /\ overlapped' = overlapped \cup (IF \E p \in Active : about[p] = o THEN {o} ELSE {})
    BY <1>3 DEF GetBySerial, Active
  <2>3. \A p \in Active' : p # q => p \in Active /\ about'[p] = about[p]
    BY <1>0, <2>1, <2>2 DEF Active
  <2>4. InTurn'
    <3> SUFFICES ASSUME NEW a \in Active', NEW b \in Active', a # b, about'[a] = about'[b]
                 PROVE  about'[a] \in overlapped'
      BY DEF InTurn
    <3>1. CASE a = q \/ b = q
      <4>1. about'[a] = o /\ \E p \in Active : about[p] = o
        BY <1>0, <2>2, <2>3, <3>1
      <4> QED
        BY <2>2, <4>1
    <3>2. CASE a # q /\ b # q
      BY <1>0, <2>2, <2>3, <3>2 DEF InTurn
    <3> QED
      BY <3>1, <3>2
  <2>5. FirstIsNew'
    BY <1>0, <2>1, <2>2 DEF FirstIsNew
  <2> QED
    BY <2>4, <2>5
<1>4. ASSUME NEW q \in Active, NEW to \in {"quota", "bonus", "done"}, Goto(q, to),
             UNCHANGED <<about, overlapped>>,
             \A o \in Order : state'[o] = state[o] \/ o = about[q]
      PROVE  InTurn' /\ FirstIsNew'
  <2>1. Active' \subseteq Active
    BY <1>0, <1>4 DEF Active, Goto
  <2>2. InTurn'
    BY <1>0, <1>4, <2>1 DEF InTurn
  <2>3. ASSUME NEW p \in Request, pc'[p] = "first", about[p] \notin overlapped
        PROVE  state'[about[p]] = 0
    <3>1. p # q /\ pc[p] = "first" /\ p \in Active
      BY <1>0, <1>4, <2>3 DEF Active, Goto
    <3>2. about[p] # about[q] /\ about[p] \in Order
      BY <1>0, <1>4, <2>3, <3>1 DEF InTurn
    <3> QED
      BY <1>0, <1>4, <2>3, <3>1, <3>2 DEF FirstIsNew
  <2> QED
    BY <1>4, <2>2, <2>3 DEF FirstIsNew
<1>5. ASSUME NEW q \in Request, UpdateOrder(q) \/ UpdateQuota(q) \/ UpdateBonus(q) \/ Die(q)
      PROVE  InTurn' /\ FirstIsNew'
  <2>1. q \in Active /\ UNCHANGED <<about, overlapped>>
    BY <1>5 DEF UpdateOrder, UpdateQuota, UpdateBonus, Die, Active
  <2>2. \E to \in {"quota", "bonus", "done"} : Goto(q, to)
    BY <1>5 DEF UpdateOrder, UpdateQuota, UpdateBonus, Die
  <2>3. \A o \in Order : state'[o] = state[o] \/ o = about[q]
    BY <1>0, <1>5 DEF UpdateOrder, UpdateQuota, UpdateBonus, Die
  <2> QED
    BY <1>4, <2>1, <2>2, <2>3
<1>6. CASE UNCHANGED vars
  BY <1>1, <1>6 DEF vars
<1> QED
  BY <1>2, <1>3, <1>5, <1>6 DEF Next, order_transaction

(* A step that neither credits a user nor finds or drops what is due. *)
LEMMA DueKept ==
  ASSUME FundIsDue, BonusIsDue, UNCHANGED <<fund, bonus, died>>, overlapped \subseteq overlapped',
         \A u \in User : OrdersOf(u) \cap overlapped' = {} => Funded(u)' = Funded(u),
         \A u \in User : Referred(u) \cap overlapped' = {} => Rewarded(u)' = Rewarded(u)
  PROVE  FundIsDue' /\ BonusIsDue'
<1>1. ASSUME NEW u \in User, OrdersOf(u) \cap overlapped' = {}
      PROVE  /\ fund'[u] <= Value(Funded(u)')
             /\ OrdersOf(u) \cap died' = {} => fund'[u] = Value(Funded(u)')
  <2>1. OrdersOf(u) \cap overlapped = {} /\ Funded(u)' = Funded(u)
    BY <1>1
  <2> QED
    BY <2>1 DEF FundIsDue
<1>2. ASSUME NEW u \in User, Referred(u) \cap overlapped' = {}
      PROVE  /\ bonus'[u] <= Bonuses(Rewarded(u)')
             /\ Referred(u) \cap died' = {} => bonus'[u] = Bonuses(Rewarded(u)')
  <2>1. Referred(u) \cap overlapped = {} /\ Rewarded(u)' = Rewarded(u)
    BY <1>2
  <2> QED
    BY <2>1 DEF BonusIsDue
<1>3. FundIsDue'
  BY <1>1 DEF FundIsDue, OrdersOf
<1>4. BonusIsDue'
  BY <1>2 DEF BonusIsDue, Referred
<1> QED
  BY <1>3, <1>4

(* The record of an order to be credited is updated. *)
LEMMA UpdateOrderDue ==
  ASSUME Inv, Due, NEW q \in Request, UpdateOrder(q)
  PROVE  FundIsDue' /\ BonusIsDue'
<1> DEFINE o == about[q]
<1>0. /\ o \in Order /\ status[q] \in 1..5 /\ q \in Active
      /\ state \in [Order -> -1..5] /\ pc \in [Request -> ReqPc]
      /\ state' = [state EXCEPT ![o] = status[q]]
      /\ pc' = [pc EXCEPT ![q] = IF pc[q] = "first" THEN "quota" ELSE "done"]
      /\ UNCHANGED <<fund, bonus, about, died, overlapped>>
  BY DEF UpdateOrder, Inv, TypeOK, Reporting, Active, Goto, userVars, reqVars, hisVars
<1> HIDE DEF o
<1>1. Processed' = Processed \cup {o}
  BY <1>0 DEF Processed
<1>2. CASE pc[q] = "force"
  <2>1. o \in Processed
    BY <1>0, <1>2 DEF Inv, Recorded, Processed, o
  <2>2. At({"quota"})' = At({"quota"}) /\ At({"quota", "bonus"})' = At({"quota", "bonus"})
    BY <1>0, <1>2 DEF At
  <2>3. \A u \in User : Funded(u)' = Funded(u) /\ Rewarded(u)' = Rewarded(u)
    BY <1>1, <2>1, <2>2 DEF Funded, Rewarded, OrdersOf, Referred
  <2> QED
    BY <1>0, <2>3, DueKept DEF Due
<1>3. CASE pc[q] = "first"
  <2>1. At({"quota"})' = At({"quota"}) \cup {o}
    BY <1>0, <1>3 DEF At, o
  <2>2. At({"quota", "bonus"})' = At({"quota", "bonus"}) \cup {o}
    BY <1>0, <1>3 DEF At, o
  <2>3. o \notin overlapped => o \notin Processed
    BY <1>0, <1>3 DEF Due, FirstIsNew, Processed, o
  <2>4. ASSUME NEW u \in User, OrdersOf(u) \cap overlapped' = {}
        PROVE  Funded(u)' = Funded(u)
    <3>1. o \in OrdersOf(u) => o \notin Processed
      BY <2>3, <2>4, <1>0
    <3>2. Funded(u)' = (OrdersOf(u) \cap (Processed \cup {o})) \ (At({"quota"}) \cup {o})
      BY <1>1, <2>1 DEF Funded, OrdersOf
    <3> QED
      BY <3>1, <3>2 DEF Funded
  <2>5. ASSUME NEW u \in User, Referred(u) \cap overlapped' = {}
        PROVE  Rewarded(u)' = Rewarded(u)
    <3>1. o \in Referred(u) => o \notin Processed
      BY <2>3, <2>5, <1>0
    <3>2. Rewarded(u)' = (Referred(u) \cap (Processed \cup {o})) \ (At({"quota", "bonus"}) \cup {o})
      BY <1>1, <2>2 DEF Rewarded, Referred
    <3> QED
      BY <3>1, <3>2 DEF Rewarded
  <2> QED
    BY <1>0, <2>4, <2>5, DueKept DEF Due
<1> QED
  BY <1>2, <1>3 DEF UpdateOrder

(* The only report of an order that is about to be credited. *)
LEMMA OnlyReport ==
  ASSUME Inv, Due, NEW q \in Active, about[q] \notin overlapped, NEW p \in Active, p # q
  PROVE  about[p] # about[q]
BY DEF Due, InTurn

(* The buyer gets the price of the order. *)
LEMMA UpdateQuotaDue ==
  ASSUME Inv, Due, NEW q \in Request, UpdateQuota(q)
  PROVE  FundIsDue' /\ BonusIsDue'
<1> DEFINE o == about[q]
           b == Buyer[o]
<1>0. /\ o \in Order /\ q \in Active /\ pc \in [Request -> ReqPc] /\ pc[q] = "quota"
      /\ b \in User /\ Price[o] \in Nat /\ fund \in [User -> Nat]
      /\ fund' = [fund EXCEPT ![b] = @ + Price[o]]
      /\ pc' = [pc EXCEPT ![q] = "bonus"] /\ o \in Processed
      /\ UNCHANGED <<state, bonus, about, died, overlapped>>
  BY OrderAssumption DEF OrderAssumption, UpdateQuota, Inv, TypeOK, Reporting, Recorded, Processed,
     Active, Goto, reqVars, hisVars
<1>1. Processed' = Processed
  BY <1>0 DEF Processed
<1>2. At({"quota", "bonus"})' = At({"quota", "bonus"})
  BY <1>0 DEF At
<1>3. \A x \in Order : x # o => (x \in At({"quota"})' <=> x \in At({"quota"}))
  BY <1>0 DEF At
<1>4. o \in At({"quota"})
  BY <1>0 DEF At
<1>5. o \notin overlapped => o \notin At({"quota"})'
  <2> SUFFICES ASSUME o \notin overlapped, o \in At({"quota"})' PROVE FALSE
    OBVIOUS
  <2>1. PICK p \in Request : pc'[p] = "quota" /\ about'[p] = o
    BY DEF At
  <2>2. p \in Active /\ p # q /\ about[p] = about[q]
    BY <1>0, <2>1 DEF Active
  <2> QED
    BY <1>0, <2>2, OnlyReport
<1> HIDE DEF o
<1>6. ASSUME NEW u \in User, OrdersOf(u) \cap overlapped' = {}
      PROVE  /\ fund'[u] <= Value(Funded(u)')
             /\ OrdersOf(u) \cap died' = {} => fund'[u] = Value(Funded(u)')
  <2>0. /\ Funded(u) \in SUBSET Order /\ fund[u] \in Nat
        /\ fund[u] <= Value(Funded(u))
        /\ OrdersOf(u) \cap died = {} => fund[u] = Value(Funded(u))
    BY <1>0, <1>6 DEF Funded, Processed, Due, FundIsDue
  <2>1. CASE u = b
    <3>1. o \in OrdersOf(u) /\ o \notin overlapped
      BY <1>0, <1>6, <2>1 DEF OrdersOf
    <3>2. Funded(u)' = Funded(u) \cup {o} /\ o \in Order \ Funded(u)
      <4>1. Funded(u)' = (OrdersOf(u) \cap Processed) \ At({"quota"})'
        BY <1>1 DEF Funded, OrdersOf
      <4>2. OrdersOf(u) \cap Processed \subseteq Order
        BY DEF OrdersOf
      <4> QED
        BY <4>1, <4>2, <1>0, <1>3, <1>4, <1>5, <3>1 DEF Funded
    <3>3. Value(Funded(u)') = Value(Funded(u)) + Price[o] /\ Value(Funded(u)) \in Nat
      BY <2>0, <3>2, ValueFacts
    <3>4. fund'[u] = fund[u] + Price[o]
      BY <1>0, <2>1
    <3> QED
      BY <3>3, <3>4, <2>0, <1>0
  <2>2. CASE u # b
    <3>1. o \notin OrdersOf(u)
      BY <2>2 DEF OrdersOf
    <3>2. Funded(u)' = Funded(u)
      <4>1. Funded(u)' = (OrdersOf(u) \cap Processed) \ At({"quota"})'
        BY <1>1 DEF Funded, OrdersOf
      <4>2. OrdersOf(u) \cap Processed \subseteq Order
        BY DEF OrdersOf
      <4> QED
        BY <4>1, <4>2, <1>3, <3>1 DEF Funded
    <3>3. fund'[u] = fund[u]
      BY <1>0, <2>2
    <3> QED
      BY <3>2, <3>3, <2>0, <1>0
  <2> QED
    BY <2>1, <2>2
<1>7. FundIsDue'
  BY <1>6 DEF FundIsDue, OrdersOf
<1>8. BonusIsDue'
  <2>1. ASSUME NEW u \in User, Referred(u) \cap overlapped' = {}
        PROVE  /\ bonus'[u] <= Bonuses(Rewarded(u)')
               /\ Referred(u) \cap died' = {} => bonus'[u] = Bonuses(Rewarded(u)')
    <3>1. Rewarded(u)' = Rewarded(u)
      BY <1>1, <1>2 DEF Rewarded, Referred
    <3> QED
      BY <1>0, <2>1, <3>1 DEF Due, BonusIsDue
  <2> QED
    BY <2>1 DEF BonusIsDue, Referred
<1> QED
  BY <1>7, <1>8

(* The user who referred the buyer gets the bonus. *)
LEMMA UpdateBonusDue ==
  ASSUME Inv, Due, NEW q \in Request, UpdateBonus(q)
  PROVE  FundIsDue' /\ BonusIsDue'
<1> DEFINE o == about[q]
           r == Refer[Buyer[o]]
<1>0. /\ o \in Order /\ q \in Active /\ pc \in [Request -> ReqPc] /\ pc[q] = "bonus"
      /\ r \in User \cup {Nobody} /\ BonusFor(o) \in Nat /\ bonus \in [User -> Nat]
      /\ bonus' = IF r = Nobody THEN bonus ELSE [bonus EXCEPT ![r] = @ + BonusFor(o)]
      /\ pc' = [pc EXCEPT ![q] = "done"] /\ o \in Processed /\ Nobody \notin User
      /\ UNCHANGED <<state, fund, about, died, overlapped>>
  BY OrderAssumption DEF OrderAssumption, UpdateBonus, Inv, TypeOK, Reporting, Recorded, Processed,
     Active, Goto, reqVars, hisVars, BonusFor
<1>1. Processed' = Processed
  BY <1>0 DEF Processed
<1>2. At({"quota"})' = At({"quota"})
  BY <1>0 DEF At
<1>3. \A x \in Order : x # o => (x \in At({"quota", "bonus"})' <=> x \in At({"quota", "bonus"}))
  BY <1>0 DEF At
<1>4. o \in At({"quota", "bonus"})
  BY <1>0 DEF At
<1>5. o \notin overlapped => o \notin At({"quota", "bonus"})'
  <2> SUFFICES ASSUME o \notin overlapped, o \in At({"quota", "bonus"})' PROVE FALSE
    OBVIOUS
  <2>1. PICK p \in Request : pc'[p] \in {"quota", "bonus"} /\ about'[p] = o
    BY DEF At
  <2>2. p \in Active /\ p # q /\ about[p] = about[q]
    BY <1>0, <2>1 DEF Active
  <2> QED
    BY <1>0, <2>2, OnlyReport
<1> HIDE DEF o
<1>6. ASSUME NEW u \in User, Referred(u) \cap overlapped' = {}
      PROVE  /\ bonus'[u] <= Bonuses(Rewarded(u)')
             /\ Referred(u) \cap died' = {} => bonus'[u] = Bonuses(Rewarded(u)')
  <2>0. /\ Rewarded(u) \in SUBSET Order /\ bonus[u] \in Nat
        /\ bonus[u] <= Bonuses(Rewarded(u))
        /\ Referred(u) \cap died = {} => bonus[u] = Bonuses(Rewarded(u))
    BY <1>0, <1>6 DEF Rewarded, Processed, Due, BonusIsDue
  <2>a. /\ Rewarded(u)' = (Referred(u) \cap Processed) \ At({"quota", "bonus"})'
        /\ Referred(u) \cap Processed \subseteq Order
    BY <1>1 DEF Rewarded, Referred
  <2>1. CASE u = r
    <3>1. o \in Referred(u) /\ o \notin overlapped
      BY <1>0, <1>6, <2>1 DEF Referred
    <3>2. Rewarded(u)' = Rewarded(u) \cup {o} /\ o \in Order \ Rewarded(u)
      BY <2>a, <1>0, <1>3, <1>4, <1>5, <3>1 DEF Rewarded
    <3>3. Bonuses(Rewarded(u)') = Bonuses(Rewarded(u)) + BonusFor(o) /\ Bonuses(Rewarded(u)) \in Nat
      BY <2>0, <3>2, BonusFacts
    <3>4. bonus'[u] = bonus[u] + BonusFor(o)
      BY <1>0, <2>1
    <3> QED
      BY <3>3, <3>4, <2>0, <1>0
  <2>2. CASE u # r
    <3>1. o \notin Referred(u)
      BY <2>2 DEF Referred
    <3>2. Rewarded(u)' = Rewarded(u)
      BY <2>a, <1>3, <3>1 DEF Rewarded
    <3>3. bonus'[u] = bonus[u]
      BY <1>0, <2>2
    <3> QED
      BY <3>2, <3>3, <2>0, <1>0
  <2> QED
    BY <2>1, <2>2
<1>7. BonusIsDue'
  BY <1>6 DEF BonusIsDue, Referred
<1>8. FundIsDue'
  <2>1. ASSUME NEW u \in User, OrdersOf(u) \cap overlapped' = {}
        PROVE  /\ fund'[u] <= Value(Funded(u)')
               /\ OrdersOf(u) \cap died' = {} => fund'[u] = Value(Funded(u)')
    <3>1. Funded(u)' = Funded(u)
      BY <1>1, <1>2 DEF Funded, OrdersOf
    <3> QED
      BY <1>0, <2>1, <3>1 DEF Due, FundIsDue
  <2> QED
    BY <2>1 DEF FundIsDue, OrdersOf
<1> QED
  BY <1>7, <1>8

(* The process dies: what it had not done yet stays undone. *)
LEMMA DieDue ==
  ASSUME Inv, Due, NEW q \in Request, Die(q)
  PROVE  FundIsDue' /\ BonusIsDue'
<1> DEFINE o == about[q]
<1>0. /\ o \in Order /\ pc \in [Request -> ReqPc]
      /\ pc' = [pc EXCEPT ![q] = "done"] /\ died' = died \cup {o}
      /\ fund \in [User -> Nat] /\ bonus \in [User -> Nat]
      /\ UNCHANGED <<state, fund, bonus, about, overlapped>>
  BY DEF Die, Inv, TypeOK, Reporting, Active, ReqPc, Goto, userVars, reqVars
<1>1. Processed' = Processed
  BY <1>0 DEF Processed
<1>2. /\ At({"quota"})' \subseteq At({"quota"})
      /\ At({"quota", "bonus"})' \subseteq At({"quota", "bonus"})
  BY <1>0 DEF At
<1>3. /\ \A x \in Order : x # o => (x \in At({"quota"})' <=> x \in At({"quota"}))
      /\ \A x \in Order : x # o => (x \in At({"quota", "bonus"})' <=> x \in At({"quota", "bonus"}))
  BY <1>0 DEF At
<1> HIDE DEF o
<1>4. ASSUME NEW u \in User, OrdersOf(u) \cap overlapped' = {}
      PROVE  /\ fund'[u] <= Value(Funded(u)')
             /\ OrdersOf(u) \cap died' = {} => fund'[u] = Value(Funded(u)')
  <2>0. /\ fund'[u] = fund[u] /\ fund[u] \in Nat
        /\ fund[u] <= Value(Funded(u))
        /\ OrdersOf(u) \cap died = {} => fund[u] = Value(Funded(u))
    BY <1>0, <1>4 DEF Due, FundIsDue
  <2>1. /\ Funded(u)' = (OrdersOf(u) \cap Processed) \ At({"quota"})'
        /\ OrdersOf(u) \cap Processed \subseteq Order
    BY <1>1 DEF Funded, OrdersOf
  <2>2. Funded(u)' \in SUBSET Order /\ Funded(u) \in SUBSET Funded(u)'
    BY <1>2, <2>1 DEF Funded
  <2>3. /\ Value(Funded(u)) <= Value(Funded(u)')
        /\ Value(Funded(u)) \in Nat /\ Value(Funded(u)') \in Nat
    BY <2>2, ValueFacts
  <2>4. OrdersOf(u) \cap died' = {} => Funded(u)' = Funded(u)
    BY <1>0, <1>3, <2>1 DEF Funded
  <2> QED
    BY <1>0, <2>0, <2>3, <2>4
<1>5. ASSUME NEW u \in User, Referred(u) \cap overlapped' = {}
      PROVE  /\ bonus'[u] <= Bonuses(Rewarded(u)')
             /\ Referred(u) \cap died' = {} => bonus'[u] = Bonuses(Rewarded(u)')
  <2>0. /\ bonus'[u] = bonus[u] /\ bonus[u] \in Nat
        /\ bonus[u] <= Bonuses(Rewarded(u))
        /\ Referred(u) \cap died = {} => bonus[u] = Bonuses(Rewarded(u))
    BY <1>0, <1>5 DEF Due, BonusIsDue
  <2>1. /\ Rewarded(u)' = (Referred(u) \cap Processed) \ At({"quota", "bonus"})'
        /\ Referred(u) \cap Processed \subseteq Order
    BY <1>1 DEF Rewarded, Referred
  <2>2. Rewarded(u)' \in SUBSET Order /\ Rewarded(u) \in SUBSET Rewarded(u)'
    BY <1>2, <2>1 DEF Rewarded
  <2>3. /\ Bonuses(Rewarded(u)) <= Bonuses(Rewarded(u)')
        /\ Bonuses(Rewarded(u)) \in Nat /\ Bonuses(Rewarded(u)') \in Nat
    BY <2>2, BonusFacts
  <2>4. Referred(u) \cap died' = {} => Rewarded(u)' = Rewarded(u)
    BY <1>0, <1>3, <2>1 DEF Rewarded
  <2> QED
    BY <1>0, <2>0, <2>3, <2>4
<1>6. FundIsDue'
  BY <1>4 DEF FundIsDue, OrdersOf
<1>7. BonusIsDue'
  BY <1>5 DEF BonusIsDue, Referred
<1> QED
  BY <1>6, <1>7

LEMMA DueStep == Inv /\ Due /\ [Next]_vars => Due'
<1> SUFFICES ASSUME Inv, Due, [Next]_vars PROVE Due'
  OBVIOUS
<1> USE DEF userVars, reqVars, hisVars
<1>0. pc \in [Request -> ReqPc] /\ state \in [Order -> -1..5]
  BY DEF Inv, TypeOK
<1>1. ASSUME UNCHANGED <<fund, bonus, died, pc, about>>, overlapped \subseteq overlapped',
             Processed' = Processed
      PROVE  FundIsDue' /\ BonusIsDue'
  <2>1. At({"quota"})' = At({"quota"}) /\ At({"quota", "bonus"})' = At({"quota", "bonus"})
    BY <1>1 DEF At
  <2>2. \A u \in User : Funded(u)' = Funded(u) /\ Rewarded(u)' = Rewarded(u)
    BY <1>1, <2>1 DEF Funded, Rewarded, OrdersOf, Referred
  <2> QED
    BY <1>1, <2>2, DueKept DEF Due
<1>2. ASSUME NEW o \in Order, Checkout(o) \/ Advance(o) \/ Close(o)
      PROVE  FundIsDue' /\ BonusIsDue'
  <2>1. Processed' = Processed
    BY <1>0, <1>2 DEF Checkout, Advance, Close, Processed
  <2> QED
    BY <1>1, <1>2, <2>1 DEF Checkout, Advance, Close
<1>3. ASSUME NEW q \in Request, NEW o \in Order, GetBySerial(q, o)
      PROVE  FundIsDue' /\ BonusIsDue'
  <2>1. PICK p \in {"done", "first", "force"} : pc' = [pc EXCEPT ![q] = p]
    BY <1>3 DEF GetBySerial, Goto
  <2>2. /\ pc[q] = "idle" /\ about' = [about EXCEPT ![q] = o] /\ about \in [Request -> Order \cup {Nobody}]
        /\ overlapped \subseteq overlapped' /\ UNCHANGED <<fund, bonus, died, state>>
    BY <1>3 DEF GetBySerial, Inv, TypeOK
  <2>3. At({"quota"})' = At({"quota"}) /\ At({"quota", "bonus"})' = At({"quota", "bonus"})
    BY <1>0, <2>1, <2>2 DEF At
  <2>4. Processed' = Processed
    BY <2>2 DEF Processed
  <2>5. \A u \in User : Funded(u)' = Funded(u) /\ Rewarded(u)' = Rewarded(u)
    BY <2>3, <2>4 DEF Funded, Rewarded, OrdersOf, Referred
  <2> QED
    BY <2>2, <2>5, DueKept DEF Due
<1>4. ASSUME UNCHANGED vars PROVE FundIsDue' /\ BonusIsDue'
  BY <1>1, <1>4 DEF vars, Processed
<1>5. ASSUME NEW q \in Request, UpdateOrder(q) \/ UpdateQuota(q) \/ UpdateBonus(q) \/ Die(q)
      PROVE  FundIsDue' /\ BonusIsDue'
  BY <1>5, UpdateOrderDue, UpdateQuotaDue, UpdateBonusDue, DieDue
<1>6. FundIsDue' /\ BonusIsDue'
  BY <1>2, <1>3, <1>4, <1>5 DEF Next, order_transaction
<1>7. InTurn' /\ FirstIsNew'
  BY TurnStep
<1> QED
  BY <1>6, <1>7 DEF Due

LEMMA DueAlways == Spec => [](Inv /\ Due)
<1>1. Inv /\ Due /\ [Next]_vars => (Inv /\ Due)'
  BY InvStep, DueStep
<1> QED
  BY <1>1, InitInv, InitDue, PTL DEF Spec

(* The types, among them that a record never holds a status that Alipay    *)
(* cannot report and that funds and bonuses are numbers.                   *)
THEOREM OrdersTypeOK == Spec => []TypeOK
BY InitInv, InvStep, PTL DEF Spec, Inv

(* The plan a user has is always that of one of the user's orders, and the *)
(* order is recorded as processed, however reports overlap, come late or   *)
(* die.                                                                    *)
THEOREM OrdersPlanIsRecorded == Spec => []PlanIsRecorded
BY InitInv, InvStep, PTL DEF Spec, Inv

(* No report makes a processed order payable again. *)
THEOREM OrdersNeverUnpaid == Spec => NeverUnpaid
<1>1. Inv /\ [Next]_vars => [\A o \in Order : state[o] > 0 => state'[o] > 0]_state
  BY InvStep
<1>2. Inv /\ [Next]_vars => Inv'
  BY InvStep
<1> QED
  BY <1>1, <1>2, InitInv, PTL DEF Spec, NeverUnpaid

(* As long as no two reports of a buyer's orders are handled at once, the  *)
(* buyer's fund is at most what the processed orders are worth: whatever   *)
(* is reported how often and in whatever order, and whichever process dies.*)
THEOREM OrdersCreditedOnceInTurn == Spec => []CreditedOnceInTurn
<1>1. Inv /\ Due => CreditedOnceInTurn
  <2> SUFFICES ASSUME Inv, Due, NEW u \in User, OrdersOf(u) \cap overlapped = {}
               PROVE  fund[u] <= Value(OrdersOf(u) \cap Processed)
    BY DEF CreditedOnceInTurn
  <2>1. /\ OrdersOf(u) \cap Processed \in SUBSET Order
        /\ Funded(u) \in SUBSET (OrdersOf(u) \cap Processed)
    BY DEF Processed, Funded
  <2>2. /\ Value(Funded(u)) <= Value(OrdersOf(u) \cap Processed)
        /\ Value(Funded(u)) \in Nat /\ Value(OrdersOf(u) \cap Processed) \in Nat
    BY <2>1, ValueFacts
  <2>3. fund[u] \in Nat /\ fund[u] <= Value(Funded(u))
    BY DEF Inv, TypeOK, Due, FundIsDue
  <2> QED
    BY <2>2, <2>3
<1> QED
  BY <1>1, DueAlways, PTL

(* Once the reports about their orders are through, every buyer and every  *)
(* user who referred one has exactly what the processed orders are worth,  *)
(* unless reports of one of these orders overlapped or a process died over *)
(* it; reports about the orders of others do not matter.                   *)
THEOREM OrdersSettled == Spec => []Settled
<1>1. Inv /\ Due => Settled
  <2> SUFFICES ASSUME Inv, Due, NEW u \in User
               PROVE  Settled!(u)
    BY DEF Settled
  <2>1. ASSUME Undisturbed(OrdersOf(u))
        PROVE  fund[u] = Value(OrdersOf(u) \cap Processed)
    <3>1. Funded(u) = OrdersOf(u) \cap Processed
      BY <2>1 DEF Undisturbed, Funded, At, Active
    <3> QED
      BY <2>1, <3>1 DEF Undisturbed, Due, FundIsDue
  <2>2. ASSUME Undisturbed(Referred(u))
        PROVE  bonus[u] = Bonuses(Referred(u) \cap Processed)
    <3>1. Rewarded(u) = Referred(u) \cap Processed
      BY <2>2 DEF Undisturbed, Rewarded, At, Active
    <3> QED
      BY <2>2, <3>1 DEF Undisturbed, Due, BonusIsDue
  <2> QED
    BY <2>1, <2>2
<1> QED
  BY <1>1, DueAlways, PTL
-----------------------------------------------------------------------------
(* The plans of trades that nobody paid.  PlanIsPaid fails for a trade     *)
(* that was closed unpaid, and for no other.                               *)
PlanIsPaidOrClosed ==
  \A u \in User : quota_name[u] # Nobody =>
    Closed \in reached[quota_name[u]] \/ reached[quota_name[u]] \cap 1..LastStatus # {}

(* A report says what its trade has been through, and the trade of a plan  *)
(* has been through more than waiting for its buyer.                       *)
Reached ==
  /\ \A o \in Order : reached[o] \subseteq 0..LastStatus \cup {Closed}
  /\ \A q \in Request : pc[q] \in {"first", "quota", "bonus", "force"} =>
       state[about[q]] # -1 /\ status[q] \in reached[about[q]]
  /\ \A u \in User : quota_name[u] # Nobody => ~(reached[quota_name[u]] \subseteq {0})

LEMMA TradeReached ==
  ASSUME Inv, Reached, NEW o \in Order, Checkout(o) \/ Advance(o) \/ Close(o)
  PROVE  Reached'
<1> USE DEF Inv, userVars, reqVars, hisVars, Closed
<1>1. CASE Checkout(o)
  <2>1. \A q \in Request : pc[q] \in {"first", "quota", "bonus", "force"} => about[q] \in Order \ {o}
    BY <1>1 DEF Checkout, Reached, Reporting
  <2>2. \A u \in User : quota_name[u] # Nobody => quota_name[u] \in Order \ {o}
    BY <1>1 DEF Checkout, PlanIsRecorded, OrdersOf, Processed
  <2>3. LastStatus \in Nat
    BY OrderAssumption DEF OrderAssumption
  <2>4. state' = [state EXCEPT ![o] = 0] /\ reached' = [reached EXCEPT ![o] = {0}]
        /\ UNCHANGED <<userVars, pc, reqVars, hisVars>>
    BY <1>1 DEF Checkout
  <2>5. \A p \in Order : reached'[p] \subseteq 0..LastStatus \cup {Closed}
    BY <2>3, <2>4 DEF Reached, TypeOK
  <2>6. \A q \in Request : pc'[q] \in {"first", "quota", "bonus", "force"} =>
           state'[about'[q]] # -1 /\ status'[q] \in reached'[about'[q]]
    BY <2>1, <2>4 DEF Reached, TypeOK
  <2>7. \A u \in User : quota_name'[u] # Nobody =>
           ~(reached'[quota_name'[u]] \subseteq {0})
    BY <2>2, <2>4 DEF Reached, TypeOK
  <2> QED
    BY <2>5, <2>6, <2>7 DEF Reached
<1>2. CASE Advance(o) \/ Close(o)
  <2>1. PICK n \in 0..LastStatus \cup {Closed} : reached' = [reached EXCEPT ![o] = reached[o] \cup {n}]
    <3>1. CASE Close(o)
      BY <3>1 DEF Close
    <3>2. CASE Advance(o)
      <4>1. Max(reached[o]) \in reached[o] /\ Max(reached[o]) < LastStatus
        BY <3>2, MaxReached DEF Advance, TypeOK
      <4>2. Max(reached[o]) + 1 \in 0..LastStatus
        BY <4>1, OrderAssumption DEF OrderAssumption, TypeOK
      <4> QED
        BY <3>2, <4>2 DEF Advance
    <3> QED
      BY <1>2, <3>1, <3>2
  <2>2. \A p \in Order : reached[p] \subseteq reached'[p]
    BY <2>1 DEF TypeOK
  <2>3. UNCHANGED <<state, userVars, pc, reqVars, hisVars>>
    BY <1>2 DEF Advance, Close
  <2>4. \A p \in Order : reached'[p] \subseteq 0..LastStatus \cup {Closed}
    BY <2>1 DEF Reached, TypeOK
  <2>5. \A q \in Request : pc[q] \in {"first", "quota", "bonus", "force"} => about[q] \in Order
    BY DEF Reporting
  <2>6. \A u \in User : quota_name[u] # Nobody => quota_name[u] \in Order
    BY DEF PlanIsRecorded, OrdersOf
  <2> QED
    BY <2>2, <2>3, <2>4, <2>5, <2>6 DEF Reached
<1> QED
  BY <1>1, <1>2

LEMMA ReportReached ==
  ASSUME Inv, Reached, NEW q \in Request, order_transaction(q)
  PROVE  Reached'
<1> USE DEF Inv, Goto, userVars, reqVars, hisVars
<1>1. reached' = reached
  BY DEF order_transaction, GetBySerial, UpdateOrder, UpdateQuota, UpdateBonus, Die
<1>2. ASSUME NEW o \in Order, GetBySerial(q, o) PROVE Reached'
  <2>1. PICK s \in reached[o] : status' = [status EXCEPT ![q] = s]
    BY <1>2 DEF GetBySerial
  <2>2. about' = [about EXCEPT ![q] = o] /\ state[o] # -1 /\ state' = state /\ quota_name' = quota_name
        /\ \A r \in Request \ {q} : pc'[r] = pc[r]
    BY <1>2 DEF GetBySerial, TypeOK
  <2> QED
    BY <1>1, <2>1, <2>2 DEF Reached, TypeOK
<1>3. CASE UpdateOrder(q)
  <2>1. /\ about[q] \in Order /\ status[q] \in 1..5 /\ state' = [state EXCEPT ![about[q]] = status[q]]
        /\ UNCHANGED <<userVars, reqVars>> /\ pc[q] \in {"first", "force"}
        /\ \A r \in Request \ {q} : pc'[r] = pc[r]
    BY <1>3 DEF UpdateOrder, Reporting, TypeOK
  <2>2. \A o \in Order : state[o] # -1 => state'[o] # -1
    BY <2>1 DEF TypeOK
  <2>3. \A r \in Request : pc[r] \in {"first", "quota", "bonus", "force"} => about[r] \in Order
    BY DEF Reporting
  <2> QED
    BY <1>1, <2>1, <2>2, <2>3 DEF Reached
<1>4. CASE UpdateQuota(q) \/ UpdateBonus(q) \/ Die(q)
  <2>1. /\ pc[q] \in {"first", "quota", "bonus", "force"} /\ about[q] \in Order /\ status[q] \in 1..5
        /\ UNCHANGED <<state, about, status>> /\ \A r \in Request \ {q} : pc'[r] = pc[r]
    BY <1>4 DEF UpdateQuota, UpdateBonus, Die, Active, ReqPc, Reporting, TypeOK
  <2>2. status[q] \in reached[about[q]] /\ ~(reached[about[q]] \subseteq {0})
    BY <2>1 DEF Reached
  <2>3. \A u \in User : quota_name'[u] \in {quota_name[u], about[q]}
    BY <1>4 DEF UpdateQuota, UpdateBonus, Die, TypeOK
  <2> QED
    BY <1>1, <2>1, <2>2, <2>3 DEF Reached
<1> QED
  BY <1>2, <1>3, <1>4 DEF order_transaction

(* The code grants a plan on every status but 0, which are those of a      *)
(* trade that was paid and that of a trade that was closed: a plan nobody  *)
(* paid for is that of a closed trade, however reports come.               *)
THEOREM OrdersPlanIsPaidOrClosed == Spec => []PlanIsPaidOrClosed
<1>1. Init => Reached
  BY OrderAssumption DEF OrderAssumption, Init, Reached
<1>2. Inv /\ Reached /\ [Next]_vars => Reached'
  <2> SUFFICES ASSUME Inv, Reached, [Next]_vars PROVE Reached'
    OBVIOUS
  <2>1. CASE UNCHANGED vars
    BY <2>1 DEF vars, userVars, reqVars, hisVars, Reached
  <2> QED
    BY <2>1, TradeReached, ReportReached DEF Next
<1>3. Inv /\ [Next]_vars => Inv'
  BY InvStep
<1>4. Inv /\ Reached => PlanIsPaidOrClosed
  <2> SUFFICES ASSUME Inv, Reached, NEW u \in User, quota_name[u] # Nobody,
                      Closed \notin reached[quota_name[u]]
               PROVE  reached[quota_name[u]] \cap 1..LastStatus # {}
    BY DEF PlanIsPaidOrClosed
  <2>1. quota_name[u] \in Order
    BY DEF Inv, TypeOK
  <2>2. PICK n \in reached[quota_name[u]] : n # 0
    BY DEF Reached
  <2>3. n \in 1..LastStatus
    BY <2>1, <2>2, OrderAssumption DEF OrderAssumption, Reached
  <2> QED
    BY <2>2, <2>3
<1> QED
  BY <1>1, <1>2, <1>3, <1>4, InitInv, PTL DEF Spec
=============================================================================
