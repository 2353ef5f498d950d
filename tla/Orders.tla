------------------------------- MODULE Orders -------------------------------
(***************************************************************************)
(* The payment of an order on the web site: checkout() of service.php, and *)
(* order_transaction() of alipay_notify_url.php (called by Alipay's        *)
(* server) and alipay_return_url.php (called by the buyer's browser),      *)
(* which are the same but for their log lines.  Every web request runs in  *)
(* a process of its own, and only a single SQL statement is atomic.        *)
(*                                                                         *)
(* Alipay is external: it reports any status a trade has reached, late,    *)
(* repeatedly and out of order, on both ways at once.  Only a buyer who    *)
(* has paid is sent to the return page, as its "Wont goes here !!!" takes  *)
(* for granted, so that an unpaid trade is reported by Alipay's server.    *)
(***************************************************************************)
EXTENDS Integers, FiniteSets, FiniteSetsExt

CONSTANTS Order,        \* the orders, each with a serial of its own
          Request,      \* the calls of order_transaction()
          User, Nobody,
          Buyer,        \* [Order -> User]
          Price,        \* [Order -> proprice]
          Refer,        \* [User -> the user in refered, or Nobody]
          MaxBonus,     \* the largest bonus, in hundredths (45 yuan)
          LastStatus    \* the last status of a trade that is paid (4)

ASSUME OrderAssumption ==
  /\ IsFiniteSet(Order) /\ IsFiniteSet(Request) /\ IsFiniteSet(User)
  /\ Nobody \notin User \cup Order
  /\ Buyer \in [Order -> User]
  /\ Price \in [Order -> Nat \ {0}]
  /\ Refer \in [User -> User \cup {Nobody}]
  /\ MaxBonus \in Nat
  /\ LastStatus \in 1..4

VARIABLES
  state,      \* [Order -> the state column, or -1 before the row exists]
  reached,    \* Alipay: the statuses each trade has been through
  fund,       \* [User -> paid in total]
  quota_name, \* [User -> the order the user's plan is from, or Nobody]
  bonus,      \* [User -> bonus, in hundredths]
  pc,         \* where each request is
  about,      \* [Request -> the order it is about]
  status,     \* [Request -> the status it reports]
  died,       \* history: the orders a request died over
  overlapped  \* history: the orders two requests were about at once

userVars == <<fund, quota_name, bonus>>
reqVars  == <<about, status>>
hisVars  == <<died, overlapped>>
vars == <<state, reached, userVars, pc, reqVars, hisVars>>

(* index() tells order_transaction() a trade's status as a number: 0 for   *)
(* WAIT_BUYER_PAY, 1 to 4 once it is paid, 5 for any other.                *)
Closed == 5
ReqPc == {"idle", "first", "quota", "bonus", "force", "done"}

Init ==
  /\ state = [o \in Order |-> -1]
  /\ reached = [o \in Order |-> {}]
  /\ fund = [u \in User |-> 0] /\ bonus = [u \in User |-> 0]
  /\ quota_name = [u \in User |-> Nobody]
  /\ pc = [q \in Request |-> "idle"]
  /\ about = [q \in Request |-> Nobody] /\ status = [q \in Request |-> 0]
  /\ died = {} /\ overlapped = {}

Active == {q \in Request : pc[q] \notin {"idle", "done"}}
Goto(q, p) == pc' = [pc EXCEPT ![q] = p]

-----------------------------------------------------------------------------
(* checkout(): the row is added before the buyer is sent to Alipay. *)
Checkout(o) ==
  /\ state[o] = -1
  /\ state'   = [state EXCEPT ![o] = 0]
  /\ reached' = [reached EXCEPT ![o] = {0}]
  /\ UNCHANGED <<userVars, pc, reqVars, hisVars>>

(* Alipay: the trade is paid, delivered, confirmed ... *)
Advance(o) ==
  /\ reached[o] # {} /\ Closed \notin reached[o]
  /\ Max(reached[o]) < LastStatus
  /\ reached' = [reached EXCEPT ![o] = @ \cup {Max(@) + 1}]
  /\ UNCHANGED <<state, userVars, pc, reqVars, hisVars>>

(* ... or closed, paid or not. *)
Close(o) ==
  /\ reached[o] # {} /\ Closed \notin reached[o]
  /\ reached' = [reached EXCEPT ![o] = @ \cup {Closed}]
  /\ UNCHANGED <<state, userVars, pc, reqVars, hisVars>>

-----------------------------------------------------------------------------
(* order_transaction() *)

(* Seeded fault: status 0 is recorded for an order that was processed. *)
GetBySerialAnyStatus(q, o) ==
  /\ pc[q] = "idle" /\ state[o] # -1
  /\ \E s \in reached[o] :
       /\ status' = [status EXCEPT ![q] = s]
       /\ Goto(q, IF state[o] # 0 THEN "force" ELSE IF s = 0 THEN "done" ELSE "first")
  /\ about' = [about EXCEPT ![q] = o]
  /\ overlapped' = overlapped \cup (IF \E p \in Active : about[p] = o THEN {o} ELSE {})
  /\ UNCHANGED <<state, reached, userVars, died>>

(* Seeded fault: an order that was paid before is paid again. *)
GetBySerialForgetful(q, o) ==
  /\ pc[q] = "idle" /\ state[o] # -1
  /\ \E s \in reached[o] :
       /\ status' = [status EXCEPT ![q] = s]
       /\ Goto(q, IF s = 0 THEN "done" ELSE "first")
  /\ about' = [about EXCEPT ![q] = o]
  /\ overlapped' = overlapped \cup (IF \E p \in Active : about[p] = o THEN {o} ELSE {})
  /\ UNCHANGED <<state, reached, userVars, died>>

(* get_by_serial(): what is done depends on the state that is read here.   *)
(* Status 0 changes nothing.                                               *)
GetBySerial(q, o) ==
  /\ pc[q] = "idle" /\ state[o] # -1
  /\ \E s \in reached[o] :
       /\ status' = [status EXCEPT ![q] = s]
       /\ Goto(q, IF s = 0 THEN "done" ELSE IF state[o] = 0 THEN "first" ELSE "force")
  /\ about' = [about EXCEPT ![q] = o]
  /\ overlapped' = overlapped \cup (IF \E p \in Active : about[p] = o THEN {o} ELSE {})
  /\ UNCHANGED <<state, reached, userVars, died>>

(* Seeded fault: the user is updated first, the record last. *)
UpdateOrderLater(q) ==
  /\ pc[q] \in {"first", "force"}
  /\ state' = IF pc[q] = "first" THEN state ELSE [state EXCEPT ![about[q]] = status[q]]
  /\ Goto(q, IF pc[q] = "first" THEN "quota" ELSE "done")
  /\ UNCHANGED <<reached, userVars, reqVars, hisVars>>

(* order_mdl.update(): first of all when the user is to be credited, all   *)
(* there is to do when the user has been.                                  *)
UpdateOrder(q) ==
  /\ pc[q] \in {"first", "force"}
  /\ state' = [state EXCEPT ![about[q]] = status[q]]
  /\ Goto(q, IF pc[q] = "first" THEN "quota" ELSE "done")
  /\ UNCHANGED <<reached, userVars, reqVars, hisVars>>

(* Seeded fault: the arguments uid and proname are swapped. *)
UpdateQuotaSwapped(q) ==
  LET u == Buyer[about[q]] IN
  /\ pc[q] = "quota"
  /\ fund' = [fund EXCEPT ![u] = @ + Price[about[q]]]
  /\ quota_name' = [quota_name EXCEPT ![u] = u]
  /\ Goto(q, "bonus")
  /\ UNCHANGED <<state, reached, bonus, reqVars, hisVars>>

(* user_mdl.update_quota() *)
UpdateQuota(q) ==
  LET u == Buyer[about[q]] IN
  /\ pc[q] = "quota"
  /\ fund' = [fund EXCEPT ![u] = @ + Price[about[q]]]
  /\ quota_name' = [quota_name EXCEPT ![u] = about[q]]
  /\ Goto(q, "bonus")
  /\ UNCHANGED <<state, reached, bonus, reqVars, hisVars>>

(* 15% of the price for the user who referred the buyer, unless it exceeds *)
(* the limit.                                                              *)
BonusFor(o) == IF Price[o] * 15 <= MaxBonus THEN Price[o] * 15 ELSE 0

(* Seeded fault: the bonus goes to the buyer. *)
UpdateBonusOfBuyer(q) ==
  LET u == Buyer[about[q]] IN
  /\ pc[q] = "bonus"
  /\ bonus' = [bonus EXCEPT ![u] = @ + BonusFor(about[q])]
  /\ Goto(q, "done")
  /\ UNCHANGED <<state, reached, fund, quota_name, reqVars, hisVars>>

(* user_mdl.update_bonus() *)
UpdateBonus(q) ==
  LET r == Refer[Buyer[about[q]]] IN
  /\ pc[q] = "bonus"
  /\ bonus' = IF r = Nobody THEN bonus ELSE [bonus EXCEPT ![r] = @ + BonusFor(about[q])]
  /\ Goto(q, "done")
  /\ UNCHANGED <<state, reached, fund, quota_name, reqVars, hisVars>>

(* The process dies, or a failed query ends it (db_debug is on). *)
Die(q) ==
  /\ q \in Active
  /\ died' = died \cup {about[q]}
  /\ Goto(q, "done")
  /\ UNCHANGED <<state, reached, userVars, reqVars, overlapped>>

order_transaction(q) ==
  \/ \E o \in Order : GetBySerial(q, o)
  \/ UpdateOrder(q) \/ UpdateQuota(q) \/ UpdateBonus(q)
  \/ Die(q)

Next ==
  \/ \E o \in Order : Checkout(o) \/ Advance(o) \/ Close(o)
  \/ \E q \in Request : order_transaction(q)

Spec == Init /\ [][Next]_vars

-----------------------------------------------------------------------------
(* Properties. *)

TypeOK ==
  /\ state \in [Order -> -1..5]
  /\ reached \in [Order -> SUBSET (0..5)]
  /\ fund \in [User -> Nat] /\ bonus \in [User -> Nat]
  /\ quota_name \in [User -> Order \cup {Nobody}]
  /\ pc \in [Request -> ReqPc]
  /\ about \in [Request -> Order \cup {Nobody}]
  /\ status \in [Request -> 0..5]
  /\ died \subseteq Order /\ overlapped \subseteq Order

OrdersOf(u) == {o \in Order : Buyer[o] = u}
Processed   == {o \in Order : state[o] > 0}
Value(orders)  == MapThenSumSet(LAMBDA o : Price[o], orders)
Bonuses(orders) == MapThenSumSet(BonusFor, orders)
Referred(u) == {o \in Order : Refer[Buyer[o]] = u}

(* "just update order record status, keep user state intact, cause it must *)
(* be updated before" (alipay_notify_url.php:107-110): an order adds to    *)
(* the buyer's fund once, however often it is reported.                    *)
CreditedOnce == \A u \in User : fund[u] <= Value(OrdersOf(u) \cap Processed)

(* It does so as long as the reports of an order come one after the other, *)
(* in whatever order, also when a process died over one of them.           *)
CreditedOnceInTurn ==
  \A u \in User : OrdersOf(u) \cap overlapped = {} =>
    fund[u] <= Value(OrdersOf(u) \cap Processed)

(* No report of these orders is being handled, and none overlapped or died.*)
Undisturbed(orders) ==
  orders \cap (died \cup overlapped) = {} /\ \A q \in Active : about[q] \notin orders

(* When the reports are through, buyers and those who referred them have   *)
(* what the processed orders are worth, unless reports of one of these     *)
(* orders overlapped or a process died over it.                            *)
Settled ==
  \A u \in User :
    /\ Undisturbed(OrdersOf(u)) => fund[u] = Value(OrdersOf(u) \cap Processed)
    /\ Undisturbed(Referred(u)) => bonus[u] = Bonuses(Referred(u) \cap Processed)

(* The plan a user has is that of an order whose record says so: "update   *)
(* record state to payed first" (alipay_notify_url.php:82).                *)
PlanIsRecorded ==
  \A u \in User : quota_name[u] # Nobody => quota_name[u] \in OrdersOf(u) \cap Processed

(* "order record need payment, and pay_notify return payed"                *)
(* (alipay_notify_url.php:82): a plan is granted only for an order whose   *)
(* trade was paid at some time.                                            *)
PlanIsPaid ==
  \A u \in User : quota_name[u] # Nobody => reached[quota_name[u]] \cap 1..LastStatus # {}

(* No report, however late, makes a processed order payable again.         *)
NeverUnpaid == [][\A o \in Order : state[o] > 0 => state'[o] > 0]_state
=============================================================================
