--------------------------- MODULE AccountsProofs ---------------------------
(***************************************************************************)
(* Proofs about Accounts, for any numbers of requests, names and passwords.*)
(* Everything rests on one observation: as long as no two requests about a *)
(* name have overlapped, what a request read about the name is still true. *)
(***************************************************************************)
EXTENDS Accounts, FiniteSetTheorems, TLAPS

(* The statements after the row of openvpn was inserted. *)
After == {"add_userinfo", "add_radcheck", "add_radusergroup", "update_ref",
          "test_del", "del_ovpn"}

(* A request at work is about a name and a password. *)
Working == \A q \in Active : name[q] \in Name /\ password[q] \in Password

(* No two requests at work are about a name that has not been overlapped. *)
Alone == \A p, q \in Active : name[p] = name[q] /\ name[q] \notin overlapped => p = q

(* The answer OK comes after the last insert, a row after the first; a     *)
(* request that changes a password has no row of its own.                  *)
Stage == \A q \in Request :
  /\ q \in ok => pc[q] \in {"update_ref", "done"}
  /\ pc[q] = "update_ref" => q \in ok
  /\ pc[q] \in {"idle", "add_ovpn", "mod_ovpn", "mod_radius"} => q \notin Users

(* That the name was free still holds when the row is inserted, ... *)
Free == \A q \in Request :
  pc[q] = "add_ovpn" /\ name[q] \notin overlapped => UserRows(name[q]) = {}

(* ... and from then on the row is the only one of its name. *)
OnlyRow == \A q \in Request :
  (q \in ok \/ pc[q] \in After) /\ name[q] \notin overlapped => UserRows(name[q]) = {q}

(* A row that is not registered has a request at work on it. *)
Kept == \A q \in Users :
  name[q] \notin overlapped \cup ended => q \in ok \/ pc[q] \in After

NameInv == TypeOK /\ Working /\ Alone /\ Stage /\ Free /\ OnlyRow /\ Kept

LEMMA InitNameInv == Init => NameInv
BY AccountsAssumption DEF AccountsAssumption, Init, NameInv, TypeOK, Steps, Inserts, Active,
   Working, Alone, Stage, Users, UserRows, Free, After, OnlyRow, Kept
-----------------------------------------------------------------------------
(* Types *)

LEMMA BeginType ==
  ASSUME TypeOK, Working, NEW q \in Request, NEW n \in Name, NEW pw \in Password,
         NEW r \in Request \cup {None}, NEW p \in Steps, Begin(q, n, pw, r, p),
         UNCHANGED <<db_debug, dbVars, session, ok, failed, ended>>
  PROVE  TypeOK' /\ Working'
BY AccountsAssumption DEF AccountsAssumption, TypeOK, Working, Active, Begin, Goto, dbVars

LEMMA StatementType ==
  ASSUME TypeOK, Working, NEW q \in Active, UNCHANGED reqVars,
         NEW p \in Steps \cup {"done"}, Goto(q, p)
  PROVE  /\ Working'
         /\ name' \in [Request -> Name \cup {None}]
         /\ password' \in [Request -> Password \cup {None}]
         /\ refid' \in [Request -> Request \cup {None}]
         /\ pc' \in [Request -> Steps \cup {"idle", "done"}]
         /\ Active' \subseteq Active
BY DEF TypeOK, Working, Active, Goto, reqVars, Steps, Inserts

LEMMA TypeStep == TypeOK /\ Working /\ [Next]_vars => TypeOK' /\ Working'
<1> SUFFICES ASSUME TypeOK, Working, [Next]_vars PROVE TypeOK' /\ Working'
  OBVIOUS
<1>1. ASSUME NEW q \in Request, NEW n \in Name, AddUser(q, n) PROVE TypeOK' /\ Working'
  BY <1>1, BeginType DEF AddUser, Users, Steps, Inserts
<1>2. ASSUME NEW q \in Request, NEW n \in Name, ModUserPassword(q, n) PROVE TypeOK' /\ Working'
  BY <1>2, BeginType DEF ModUserPassword, Steps
<1>3. ASSUME NEW q \in Request, AddOpenvpnUser(q) PROVE TypeOK' /\ Working'
  BY <1>3, StatementType DEF AddOpenvpnUser, TypeOK, Working, Active, Steps, Inserts, hisVars
<1>4. ASSUME NEW q \in Request, AddUserinfo(q) PROVE TypeOK' /\ Working'
  BY <1>4, StatementType DEF AddUserinfo, TypeOK, Active, Steps, Inserts, hisVars
<1>5. ASSUME NEW q \in Request, AddRadcheck(q) PROVE TypeOK' /\ Working'
  BY <1>5, StatementType DEF AddRadcheck, TypeOK, Active, Steps, Inserts, hisVars
<1>6. ASSUME NEW q \in Request, AddRadusergroup(q) PROVE TypeOK' /\ Working'
  BY <1>6, StatementType DEF AddRadusergroup, TypeOK, Active, Steps, Inserts, hisVars
<1>7. ASSUME NEW q \in Request, UpdateRef(q) PROVE TypeOK' /\ Working'
  BY <1>7, StatementType DEF UpdateRef, TypeOK, Active, Steps, Inserts, hisVars, Users
<1>8. ASSUME NEW q \in Request, TestDelete(q) PROVE TypeOK' /\ Working'
  BY <1>8, StatementType DEF TestDelete, TypeOK, Active, Steps, Inserts, hisVars, dbVars
<1>9. ASSUME NEW q \in Request, DeleteOpenvpnUser(q) PROVE TypeOK' /\ Working'
  BY <1>9, StatementType DEF DeleteOpenvpnUser, TypeOK, Active, Steps, Inserts, hisVars
<1>10. ASSUME NEW q \in Request, ModOpenvpn(q) PROVE TypeOK' /\ Working'
  BY <1>10, StatementType DEF ModOpenvpn, TypeOK, Active, Steps, Inserts, hisVars
<1>11. ASSUME NEW q \in Request, ModRadius(q) PROVE TypeOK' /\ Working'
  BY <1>11, StatementType DEF ModRadius, TypeOK, Active, Steps, Inserts, hisVars
<1>12. ASSUME NEW q \in Request, StatementFails(q) PROVE TypeOK' /\ Working'
  <2>1. q \in Active /\ name[q] \in Name /\ AfterFailure(pc[q]) \in Steps \cup {"done"}
    BY <1>12 DEF StatementFails, Active, AfterFailure, Steps, Inserts, Working
  <2> QED
    BY <1>12, <2>1, StatementType DEF StatementFails, TypeOK, dbVars
<1>13. ASSUME NEW q \in Request, Die(q) PROVE TypeOK' /\ Working'
  BY <1>13, StatementType DEF Die, TypeOK, Working, dbVars
<1>14. ASSUME NEW n \in Name, Login(n) PROVE TypeOK' /\ Working'
  BY <1>14 DEF Login, TypeOK, Working, Active, dbVars, reqVars, hisVars
<1>15. ASSUME UNCHANGED vars PROVE TypeOK' /\ Working'
  BY <1>15 DEF vars, TypeOK, Working, Active, dbVars, reqVars, hisVars
<1> QED
  BY <1>1, <1>2, <1>3, <1>4, <1>5, <1>6, <1>7, <1>8, <1>9, <1>10, <1>11, <1>12, <1>13, <1>14,
     <1>15 DEF Next, submit, modify_password

(* The types of the tables, in particular that a password is a password.   *)
THEOREM AccountsTypeOK == Spec => []TypeOK
<1>1. Init => TypeOK /\ Working
  BY InitNameInv DEF NameInv
<1> QED
  BY <1>1, TypeStep, PTL DEF Spec
-----------------------------------------------------------------------------
(* The names *)

NameRest == Alone /\ Stage /\ Free /\ OnlyRow /\ Kept

(* A request that begins has no row, and if a request about the same name  *)
(* is at work the name is overlapped from now on.                          *)
LEMMA BeginKeepsNames ==
  ASSUME NameInv, NEW q \in Request, NEW n \in Name, NEW pw, NEW r,
         NEW p \in {"add_ovpn", "mod_ovpn"}, pc[q] = "idle", Begin(q, n, pw, r, p),
         p = "add_ovpn" => UserRows(n) = {},
         UNCHANGED <<db_debug, dbVars, session, ok, failed, ended>>
  PROVE  NameRest'
<1> USE DEF Begin, Goto, NameInv, dbVars
<1>1. /\ pc' = [pc EXCEPT ![q] = p] /\ pc \in [Request -> Steps \cup {"idle", "done"}]
      /\ name' = [name EXCEPT ![q] = n] /\ name \in [Request -> Name \cup {None}]
      /\ Users' = Users /\ q \notin Users /\ q \notin ok /\ overlapped \subseteq overlapped'
  BY DEF TypeOK, Stage, Users
<1>2. Active' = Active \cup {q} /\ q \notin Active
  BY <1>1 DEF Active, Steps, Inserts
<1>3. \A m : UserRows(m)' = UserRows(m)
  BY <1>1 DEF UserRows, Users
<1>4. Alone'
  <2> SUFFICES ASSUME NEW s \in Active', NEW t \in Active', name'[s] = name'[t],
                      name'[t] \notin overlapped'
               PROVE  s = t
    BY DEF Alone
  <2>1. CASE s = q /\ t # q
    <3>1. t \in Active /\ name[t] = n
      BY <1>1, <1>2, <2>1 DEF Active
    <3> QED
      BY <3>1, <1>1, <2>1
  <2>2. CASE s # q /\ t = q
    <3>1. s \in Active /\ name[s] = n
      BY <1>1, <1>2, <2>2 DEF Active
    <3> QED
      BY <3>1, <1>1, <2>2
  <2>3. CASE s # q /\ t # q
    BY <2>3, <1>1, <1>2 DEF Alone, Active
  <2> QED
    BY <2>1, <2>2, <2>3
<1>5. Stage'
  BY <1>1 DEF Stage
<1>6. Free'
  BY <1>1, <1>3 DEF Free
<1>7. OnlyRow' /\ Kept'
  BY <1>1, <1>3 DEF OnlyRow, Kept, After, Users
<1> QED
  BY <1>4, <1>5, <1>6, <1>7 DEF NameRest

(* A statement changes neither the requests nor the rows of other names,   *)
(* nor, unless the name is overlapped, the row of another request.         *)
LEMMA StatementKeepsNames ==
  ASSUME NameInv, NEW q \in Active, NEW p \in (Steps \ {"add_ovpn"}) \cup {"done"}, Goto(q, p),
         UNCHANGED <<reqVars, overlapped>>, ended \subseteq ended',
         \A s \in Request \ {q} : (s \in ok') = (s \in ok),
         q \in ok' => p \in {"update_ref", "done"},
         p = "update_ref" => q \in ok',
         p \in {"mod_ovpn", "mod_radius"} => q \notin Users',
         q \in ok' \/ p \in After => pc[q] \in After \cup {"add_ovpn"},
         \A s \in Request \ {q} : s \in Users' => s \in Users,
         \A s \in Request : name[s] # name[q] => (s \in Users') = (s \in Users),
         name[q] \notin overlapped =>
           \A s \in Request \ {q} : (s \in Users') = (s \in Users),
         name[q] \notin overlapped /\ (q \in ok' \/ p \in After) => q \in Users',
         q \in Users' => q \in Users \/ p \in After,
         name[q] \notin overlapped \cup ended' /\ q \in Users' => q \in ok' \/ p \in After
  PROVE  NameRest'
<1> USE DEF NameInv, Goto, reqVars
<1>1. /\ pc' = [pc EXCEPT ![q] = p] /\ pc \in [Request -> Steps \cup {"idle", "done"}]
      /\ q \in Request /\ Active' \subseteq Active /\ pc[q] # "idle"
  BY DEF TypeOK, Active, Steps, Inserts
<1>2. Alone'
  BY <1>1 DEF Alone
<1>3. Stage'
  <2> SUFFICES ASSUME NEW s \in Request
               PROVE  /\ s \in ok' => pc'[s] \in {"update_ref", "done"}
                      /\ pc'[s] = "update_ref" => s \in ok'
                      /\ pc'[s] \in {"idle", "add_ovpn", "mod_ovpn", "mod_radius"} => s \notin Users'
    BY DEF Stage
  <2>1. CASE s = q
    BY <2>1, <1>1 DEF Steps, Inserts
  <2>2. CASE s # q
    BY <2>2, <1>1 DEF Stage
  <2> QED
    BY <2>1, <2>2
<1>4. \A m : m # name[q] => UserRows(m)' = UserRows(m)
  BY DEF UserRows, Users
<1>5. Free'
  <2> SUFFICES ASSUME NEW s \in Request, pc'[s] = "add_ovpn", name[s] \notin overlapped
               PROVE  UserRows(name[s])' = {}
    BY DEF Free
  <2>1. s # q /\ s \in Active /\ pc[s] = "add_ovpn"
    BY <1>1 DEF Active, Steps, Inserts
  <2>2. name[s] # name[q]
    BY <2>1 DEF Alone
  <2> QED
    BY <2>1, <2>2, <1>4 DEF Free
<1>6. OnlyRow'
  <2> SUFFICES ASSUME NEW s \in Request, s \in ok' \/ pc'[s] \in After, name[s] \notin overlapped
               PROVE  UserRows(name[s])' = {s}
    BY DEF OnlyRow
  <2>1. CASE s = q
    <3>1. UserRows(name[q]) \subseteq {q}
      BY <2>1, <1>1 DEF OnlyRow, Free
    <3> QED
      BY <3>1, <2>1, <1>1 DEF UserRows, Users
  <2>2. CASE s # q
    <3>1. UserRows(name[s]) = {s}
      BY <1>1, <2>2 DEF OnlyRow
    <3>2. CASE name[s] # name[q]
      BY <3>1, <3>2, <1>4
    <3>3. CASE name[s] = name[q]
      <4>1. q \notin Users /\ pc[q] \notin After \cup {"add_ovpn"}
        BY <3>1, <3>3, <2>2, <1>1 DEF UserRows, OnlyRow, Free
      <4> QED
        BY <4>1, <3>1, <3>3, <2>2 DEF UserRows, Users
    <3> QED
      BY <3>2, <3>3
  <2> QED
    BY <2>1, <2>2
<1>7. Kept'
  <2> SUFFICES ASSUME NEW s \in Users', name[s] \notin overlapped \cup ended'
               PROVE  s \in ok' \/ pc'[s] \in After
    BY DEF Kept
  <2> QED
    BY <1>1 DEF Kept, Users
<1> QED
  BY <1>2, <1>3, <1>5, <1>6, <1>7 DEF NameRest

LEMMA NameStep == NameInv /\ [Next]_vars => NameInv'
<1> SUFFICES ASSUME NameInv, [Next]_vars PROVE NameRest'
  BY TypeStep DEF NameInv, NameRest
<1> USE DEF NameInv, hisVars, dbVars
<1>0. /\ \A q \in Request : pc[q] \in Steps => q \in Active /\ password[q] # None
      /\ ovpn \in [Request -> Password \cup {None}]
      /\ pc \in [Request -> Steps \cup {"idle", "done"}]
  BY AccountsAssumption DEF AccountsAssumption, Active, Working, TypeOK
<1>1. ASSUME NEW q \in Request, NEW n \in Name, AddUser(q, n) PROVE NameRest'
  BY <1>1, BeginKeepsNames DEF AddUser, is_user_exist
<1>2. ASSUME NEW q \in Request, NEW n \in Name, ModUserPassword(q, n) PROVE NameRest'
  BY <1>2, BeginKeepsNames DEF ModUserPassword
<1>3. ASSUME NEW q \in Request, AddOpenvpnUser(q) PROVE NameRest'
  <2>1. q \in Active /\ Users' = Users \cup {q}
    BY <1>3, <1>0 DEF AddOpenvpnUser, Users, Steps, Inserts
  <2> QED
    BY <1>3, <2>1, <1>0, StatementKeepsNames DEF AddOpenvpnUser, Steps, Inserts, After, Stage
<1>4. ASSUME NEW q \in Request, AddUserinfo(q) PROVE NameRest'
  <2>1. q \in Active /\ Users' = Users
    BY <1>4, <1>0 DEF AddUserinfo, Users, Steps, Inserts
  <2> QED
    BY <1>4, <2>1, StatementKeepsNames
    DEF AddUserinfo, Steps, Inserts, After, Stage, OnlyRow, UserRows
<1>5. ASSUME NEW q \in Request, AddRadcheck(q) PROVE NameRest'
  <2>1. q \in Active /\ Users' = Users
    BY <1>5, <1>0 DEF AddRadcheck, Users, Steps, Inserts
  <2> QED
    BY <1>5, <2>1, StatementKeepsNames
    DEF AddRadcheck, Steps, Inserts, After, Stage, OnlyRow, UserRows
<1>6. ASSUME NEW q \in Request, AddRadusergroup(q) PROVE NameRest'
  <2>1. q \in Active /\ Users' = Users
    BY <1>6, <1>0 DEF AddRadusergroup, Users, Steps, Inserts
  <2> QED
    BY <1>6, <2>1, StatementKeepsNames
    DEF AddRadusergroup, Steps, Inserts, After, Stage, OnlyRow, UserRows
<1>7. ASSUME NEW q \in Request, UpdateRef(q) PROVE NameRest'
  <2>1. q \in Active /\ Users' = Users /\ q \in ok
    BY <1>7, <1>0 DEF UpdateRef, Users, Steps, Inserts, Stage
  <2> QED
    BY <1>7, <2>1, StatementKeepsNames
    DEF UpdateRef, Steps, Inserts, After, Stage, OnlyRow, UserRows
<1>8. ASSUME NEW q \in Request, TestDelete(q) PROVE NameRest'
  <2>1. q \in Active /\ Users' = Users /\ q \notin ok
    BY <1>8, <1>0 DEF TestDelete, Users, Steps, Inserts, Stage
  <2>2. name[q] \notin overlapped => q \in Users /\ is_user_exist(name[q])
    BY <1>8 DEF TestDelete, OnlyRow, After, UserRows, is_user_exist
  <2> QED
    BY <1>8, <2>1, <2>2, StatementKeepsNames DEF TestDelete, Steps, Inserts, After
<1>9. ASSUME NEW q \in Request, DeleteOpenvpnUser(q) PROVE NameRest'
  <2>1. q \in Active /\ Users' = Users \ UserRows(name[q]) /\ q \notin Users' /\ q \notin ok
    BY <1>9, <1>0 DEF DeleteOpenvpnUser, Users, UserRows, Steps, Inserts, Stage
  <2>2. name[q] \notin overlapped => UserRows(name[q]) = {q}
    BY <1>9 DEF DeleteOpenvpnUser, OnlyRow, After
  <2> QED
    BY <1>9, <2>1, <2>2, StatementKeepsNames
    DEF DeleteOpenvpnUser, Steps, Inserts, After, UserRows
<1>10. ASSUME NEW q \in Request, ModOpenvpn(q) PROVE NameRest'
  <2>1. q \in Active /\ Users' = Users /\ q \notin ok /\ q \notin Users
    BY <1>10, <1>0 DEF ModOpenvpn, Users, UserRows, Steps, Inserts, Stage
  <2> QED
    BY <1>10, <2>1, StatementKeepsNames DEF ModOpenvpn, Steps, Inserts, After
<1>11. ASSUME NEW q \in Request, ModRadius(q) PROVE NameRest'
  <2>1. q \in Active /\ Users' = Users /\ q \notin ok /\ q \notin Users
    BY <1>11, <1>0 DEF ModRadius, Users, Steps, Inserts, Stage
  <2> QED
    BY <1>11, <2>1, StatementKeepsNames DEF ModRadius, Steps, Inserts, After
<1>12. ASSUME NEW q \in Request, StatementFails(q) PROVE NameRest'
  <2>1. q \in Active /\ Users' = Users
    BY <1>12, <1>0 DEF StatementFails, Users, Steps, Inserts
  <2>2. /\ AfterFailure(pc[q]) \in {"test_del", "mod_radius", "done"}
        /\ AfterFailure(pc[q]) = "test_del" => pc[q] \in After /\ q \notin ok
        /\ AfterFailure(pc[q]) = "mod_radius" => q \notin Users /\ q \notin ok
        /\ AfterFailure(pc[q]) = "done" => q \notin Users \/ q \in ok
        /\ q \in ok => pc[q] = "update_ref"
    BY <1>12 DEF StatementFails, AfterFailure, Steps, Inserts, After, Stage
  <2> QED
    BY <1>12, <2>1, <2>2, StatementKeepsNames
    DEF StatementFails, Steps, After, OnlyRow, UserRows
<1>13. ASSUME NEW q \in Request, Die(q) PROVE NameRest'
  <2>1. q \in Active /\ Users' = Users /\ (q \in ok => pc[q] = "update_ref")
    BY <1>13 DEF Die, Active, Steps, Inserts, Users, Stage
  <2> QED
    BY <1>13, <2>1, StatementKeepsNames DEF Die, Steps, After, OnlyRow, UserRows
<1>14. ASSUME (\E n \in Name : Login(n)) \/ UNCHANGED vars PROVE NameRest'
  BY <1>14 DEF Login, vars, reqVars, NameRest, Alone, Stage, Free, OnlyRow, Kept, Active, Users, UserRows
<1> QED
  BY <1>1, <1>2, <1>3, <1>4, <1>5, <1>6, <1>7, <1>8, <1>9, <1>10, <1>11, <1>12, <1>13, <1>14
  DEF Next, submit, modify_password

(* Whoever was told that the registration succeeded has the only row of    *)
(* the name: the test for the name and the insert are separate statements, *)
(* and a rollback deletes every row of the name, but what was read is true *)
(* as long as requests about the name do not overlap.                      *)
THEOREM AccountsLogsIn == Spec => []LogsIn
<1>1. NameInv => LogsIn
  BY DEF NameInv, TypeOK, OnlyRow, LogsIn
<1> QED
  BY <1>1, InitNameInv, NameStep, PTL DEF Spec

(* A registration that failed gives the name back. *)
THEOREM AccountsNameGivenBack == Spec => []NameGivenBack
<1>1. NameInv => NameGivenBack
  <2> SUFFICES ASSUME NameInv, NEW q \in Users, name[q] \notin Busy \cup overlapped \cup ended
               PROVE  q \in ok
    BY DEF NameGivenBack
  <2>1. q \notin Active
    BY DEF Busy
  <2> QED
    BY <2>1 DEF NameInv, Kept, After, Active, Steps, Inserts, Users
<1> QED
  BY <1>1, InitNameInv, NameStep, PTL DEF Spec
-----------------------------------------------------------------------------
(* The two databases *)

Good(n) == n \notin overlapped \cup failed \cup ended

(* The rows of radius follow that of openvpn, one statement after another; *)
(* the passwords differ only while a request is between its two updates.   *)
FollowAt(q) ==
  /\ (q \in userinfo) = (q \in Users /\ pc[q] # "add_userinfo")
  /\ (radcheck[q] # None) = (q \in Users /\ pc[q] \notin {"add_userinfo", "add_radcheck"})
  /\ (q \in radusergroup) = (q \in Users /\ pc[q] \notin Inserts)
  /\ q \in Users /\ pc[q] \in Inserts => ovpn[q] = password[q]
  /\ \/ radcheck[q] \in {None, ovpn[q]}
     \/ \E p \in Request : pc[p] = "mod_radius" /\ name[p] = name[q]
  /\ pc[q] \notin {"test_del", "del_ovpn"}

Follow == \A q \in Request : Good(name[q]) => FollowAt(q)

(* Such a request has the password that openvpn has. *)
Changing == \A p, q \in Request :
  pc[p] = "mod_radius" /\ name[q] = name[p] /\ Good(name[p]) /\ q \in Users =>
    ovpn[q] = password[p]

(* A request that has not begun is about no name. *)
Fresh == \A q \in Request : pc[q] = "idle" => name[q] = None

RowInv == NameInv /\ Fresh /\ Follow /\ Changing

LEMMA InitRowInv == Init => RowInv
<1>1. Init => Fresh /\ Follow /\ Changing
  BY DEF Init, Fresh, Follow, FollowAt, Changing, Users
<1> QED
  BY <1>1, InitNameInv DEF RowInv

(* A request that begins finds no row of its own anywhere. *)
LEMMA BeginKeepsRows ==
  ASSUME RowInv, NEW q \in Request, NEW n \in Name, NEW pw, NEW r,
         NEW p \in {"add_ovpn", "mod_ovpn"}, pc[q] = "idle", Begin(q, n, pw, r, p),
         UNCHANGED <<db_debug, dbVars, session, ok, failed, ended>>
  PROVE  Fresh' /\ Follow' /\ Changing'
<1> USE DEF RowInv, Begin, Goto, dbVars
<1>1. /\ pc' = [pc EXCEPT ![q] = p] /\ pc \in [Request -> Steps \cup {"idle", "done"}]
      /\ name' = [name EXCEPT ![q] = n] /\ name \in [Request -> Name \cup {None}]
      /\ password' = [password EXCEPT ![q] = pw]
      /\ password \in [Request -> Password \cup {None}]
      /\ Users' = Users /\ q \notin Users
      /\ \A m : Good(m)' => Good(m)
  BY DEF NameInv, TypeOK, Stage, Users, Good
<1>2. ASSUME NEW s \in Request, Good(name[s])' PROVE FollowAt(s)'
  <2>1. CASE s # q
    <3>1. Good(name[s]) /\ pc'[s] = pc[s] /\ name'[s] = name[s] /\ password'[s] = password[s]
      BY <1>1, <1>2, <2>1 DEF Good
    <3> QED
      BY <3>1, <1>1 DEF Follow, FollowAt
  <2>2. CASE s = q
    <3>1. q \notin userinfo /\ radcheck[q] = None /\ q \notin radusergroup
      <4>1. Good(name[q])
        BY AccountsAssumption DEF AccountsAssumption, Fresh, Good, NameInv, TypeOK
      <4> QED
        BY <4>1, <1>1 DEF Follow, FollowAt
    <3> QED
      BY <3>1, <1>1, <2>2 DEF FollowAt
  <2> QED
    BY <2>1, <2>2
<1>3. Follow'
  BY <1>2, <1>1 DEF Follow
<1>4. Changing'
  BY <1>1 DEF Changing, Good
<1> QED
  BY <1>1, <1>3, <1>4 DEF Fresh

(* A statement that is not part of a change of password changes the rows   *)
(* of its own request only, or is about a name over which something failed.*)
LEMMA StatementKeepsRows ==
  ASSUME RowInv, NEW q \in Active, NEW p \in Steps \cup {"done"},
         Goto(q, p), UNCHANGED <<reqVars, overlapped>>,
         failed \subseteq failed', ended \subseteq ended',
         Good(name[q])' => FollowAt(q)' /\ "mod_radius" \notin {pc[q], p},
         \A s \in Request \ {q} : Good(name[s])' =>
           /\ ovpn'[s] = ovpn[s] /\ radcheck'[s] = radcheck[s]
           /\ (s \in userinfo') = (s \in userinfo)
           /\ (s \in radusergroup') = (s \in radusergroup)
  PROVE  Fresh' /\ Follow' /\ Changing'
<1> USE DEF RowInv, Goto, reqVars
<1>1. /\ pc' = [pc EXCEPT ![q] = p] /\ pc \in [Request -> Steps \cup {"idle", "done"}]
      /\ q \in Request /\ pc[q] \in Steps /\ p # "idle"
      /\ \A m : Good(m)' => Good(m)
  BY DEF NameInv, TypeOK, Active, Steps, Inserts, Good
<1>2. Fresh'
  BY <1>1 DEF Fresh
<1>3. ASSUME NEW s \in Request, Good(name[s])' PROVE FollowAt(s)'
  <2>1. CASE s = q
    BY <2>1, <1>3
  <2>2. CASE s # q
    <3>1. FollowAt(s) /\ pc'[s] = pc[s] /\ (s \in Users') = (s \in Users)
      BY <1>1, <1>3, <2>2 DEF Follow, Users
    <3>2. ASSUME NEW t \in Request, pc[t] = "mod_radius", name[t] = name[s]
          PROVE  pc'[t] = "mod_radius"
      BY <1>1, <1>3, <3>2 DEF Good
    <3> QED
      BY <3>1, <3>2, <2>2, <1>3 DEF FollowAt
  <2> QED
    BY <2>1, <2>2
<1>4. Changing'
  <2> SUFFICES ASSUME NEW t \in Request, NEW s \in Request, pc'[t] = "mod_radius",
                      name[s] = name[t], Good(name[t])', s \in Users'
               PROVE  ovpn'[s] = password[t]
    BY DEF Changing
  <2>1. pc[t] = "mod_radius" /\ t # q /\ t \in Active
    BY <1>1 DEF Active, Steps, Inserts
  <2>2. name[t] # name[q]
    BY <2>1, <1>1 DEF NameInv, Alone, Good
  <2> QED
    BY <2>1, <2>2, <1>1 DEF Changing, Users
<1> QED
  BY <1>2, <1>3, <1>4 DEF Follow

(* "change ovpn table": from here to the next update the passwords differ. *)
LEMMA ModOpenvpnKeepsRows ==
  ASSUME RowInv, NEW q \in Request, ModOpenvpn(q)
  PROVE  Fresh' /\ Follow' /\ Changing'
<1> USE DEF RowInv, ModOpenvpn, Goto, reqVars, hisVars
<1>1. /\ pc' = [pc EXCEPT ![q] = "mod_radius"] /\ pc[q] = "mod_ovpn"
      /\ pc \in [Request -> Steps \cup {"idle", "done"}]
      /\ \A m : Good(m)' = Good(m)
  BY DEF NameInv, TypeOK, Good
<1>2. /\ Users' = Users /\ q \notin Users /\ q \in Active
      /\ \A s \in Request : ovpn'[s] = IF s \in UserRows(name[q]) THEN password[q] ELSE ovpn[s]
  BY AccountsAssumption
  DEF AccountsAssumption, NameInv, Working, Stage, Active, Users, UserRows, Steps, Inserts
<1>3. \A s \in Active : name[s] = name[q] /\ Good(name[q]) => s = q
  BY <1>2 DEF NameInv, Alone, Good
<1>4. ASSUME NEW s \in Request, Good(name[s])' PROVE FollowAt(s)'
  <2>1. FollowAt(s)
    BY <1>1, <1>4 DEF Follow
  <2>2. CASE s = q
    BY <2>1, <2>2, <1>1, <1>2 DEF FollowAt, Inserts, UserRows
  <2>3. CASE s # q /\ s \in UserRows(name[q])
    <3>1. name[s] = name[q] /\ pc'[s] = pc[s] /\ pc[s] \notin Inserts
      BY <2>3, <1>1, <1>3, <1>4 DEF UserRows, Users, Active, Steps
    <3> QED
      BY <3>1, <2>1, <2>3, <1>1, <1>2 DEF FollowAt
  <2>4. CASE s # q /\ s \notin UserRows(name[q])
    <3>1. /\ ovpn'[s] = ovpn[s] /\ pc'[s] = pc[s]
          /\ \A t \in Request : pc[t] = "mod_radius" => pc'[t] = "mod_radius"
      BY <2>4, <1>1, <1>2
    <3> QED
      BY <3>1, <2>1, <1>2 DEF FollowAt
  <2> QED
    BY <2>2, <2>3, <2>4
<1>5. Follow'
  BY <1>4 DEF Follow
<1>6. Changing'
  <2> SUFFICES ASSUME NEW t \in Request, NEW s \in Request, pc'[t] = "mod_radius",
                      name[s] = name[t], Good(name[t])', s \in Users'
               PROVE  ovpn'[s] = password[t]
    BY DEF Changing
  <2>1. CASE t = q
    BY <2>1, <1>2 DEF UserRows, Users
  <2>2. CASE t # q
    <3>1. pc[t] = "mod_radius" /\ name[t] # name[q]
      BY <2>2, <1>1, <1>3 DEF Active, Steps, Inserts
    <3> QED
      BY <3>1, <1>1, <1>2 DEF Changing, UserRows, Users
  <2> QED
    BY <2>1, <2>2
<1> QED
  BY <1>1, <1>5, <1>6 DEF Fresh

(* "change radius table" gives radius the password that openvpn has. *)
LEMMA ModRadiusKeepsRows ==
  ASSUME RowInv, NEW q \in Request, ModRadius(q)
  PROVE  Fresh' /\ Follow' /\ Changing'
<1> USE DEF RowInv, ModRadius, Goto, reqVars, hisVars
<1>1. /\ pc' = [pc EXCEPT ![q] = "done"] /\ pc[q] = "mod_radius"
      /\ pc \in [Request -> Steps \cup {"idle", "done"}]
      /\ \A m : Good(m)' = Good(m)
      /\ Users' = Users /\ q \notin Users /\ q \in Active /\ password[q] # None
  BY AccountsAssumption
  DEF AccountsAssumption, NameInv, Working, TypeOK, Stage, Active, Users, Steps, Inserts, Good
<1>2. \A s \in Active : name[s] = name[q] /\ Good(name[q]) => s = q
  BY <1>1 DEF NameInv, Alone, Good
<1>3. ASSUME NEW s \in Request, Good(name[s])' PROVE FollowAt(s)'
  <2>1. FollowAt(s)
    BY <1>1, <1>3 DEF Follow
  <2>2. radcheck'[s] = IF radcheck[s] # None /\ name[s] = name[q] THEN password[q] ELSE radcheck[s]
    OBVIOUS
  <2>3. s = q \/ pc'[s] = pc[s]
    BY <1>1
  <2>4. CASE s = q
    BY <2>1, <2>2, <2>4, <1>1 DEF FollowAt, Inserts
  <2>5. CASE s # q /\ name[s] = name[q]
    <3>1. radcheck[s] # None => ovpn[s] = password[q]
      BY <2>1, <2>5, <1>1, <1>3 DEF FollowAt, Changing
    <3> QED
      BY <3>1, <2>1, <2>2, <2>5, <1>1 DEF FollowAt
  <2>6. CASE s # q /\ name[s] # name[q]
    <3>1. \A t \in Request : pc[t] = "mod_radius" /\ name[t] = name[s] => pc'[t] = "mod_radius"
      BY <2>6, <1>1
    <3> QED
      BY <3>1, <2>1, <2>2, <2>6, <1>1 DEF FollowAt
  <2> QED
    BY <2>4, <2>5, <2>6
<1>4. Follow' /\ Fresh'
  BY <1>1, <1>3 DEF Follow, Fresh
<1>5. Changing'
  BY <1>1 DEF Changing
<1> QED
  BY <1>4, <1>5

LEMMA RowStep == RowInv /\ [Next]_vars => RowInv'
<1> SUFFICES ASSUME RowInv, [Next]_vars PROVE Fresh' /\ Follow' /\ Changing'
  BY NameStep DEF RowInv
<1> USE DEF hisVars, dbVars
<1>0. ASSUME NEW q \in Request
      PROVE  /\ pc[q] \in Steps => q \in Active /\ password[q] # None
             /\ q \in Users => pc[q] \notin {"add_ovpn", "mod_ovpn", "mod_radius"}
             /\ pc[q] \in After /\ Good(name[q]) => q \in Users
             /\ Good(name[q]) => FollowAt(q)
  BY AccountsAssumption
  DEF AccountsAssumption, RowInv, NameInv, Active, Working, Stage, OnlyRow, UserRows, Follow, Good
<1>1. ASSUME NEW q \in Request, NEW n \in Name, AddUser(q, n) PROVE Fresh' /\ Follow' /\ Changing'
  BY <1>1, BeginKeepsRows DEF AddUser
<1>2. ASSUME NEW q \in Request, NEW n \in Name, ModUserPassword(q, n)
      PROVE  Fresh' /\ Follow' /\ Changing'
  BY <1>2, BeginKeepsRows DEF ModUserPassword
<1>3. ASSUME NEW q \in Request, AddOpenvpnUser(q) PROVE Fresh' /\ Follow' /\ Changing'
  <2>1. q \in Active /\ Users' = Users \cup {q} /\ ovpn'[q] = password[q] /\ q \notin Users
    BY <1>3, <1>0 DEF AddOpenvpnUser, RowInv, NameInv, TypeOK, Users, Steps, Inserts
  <2>2. Good(name[q])' => FollowAt(q)'
    BY <1>3, <1>0, <2>1 DEF AddOpenvpnUser, RowInv, NameInv, TypeOK, reqVars, Goto, FollowAt, Good, Inserts
  <2> QED
    BY <1>3, <2>1, <2>2, StatementKeepsRows DEF AddOpenvpnUser, Steps, Inserts
<1>4. ASSUME NEW q \in Request, AddUserinfo(q) PROVE Fresh' /\ Follow' /\ Changing'
  <2>1. q \in Active /\ Users' = Users
    BY <1>4, <1>0 DEF AddUserinfo, Users, Steps, Inserts
  <2>2. Good(name[q])' => FollowAt(q)'
    BY <1>4, <1>0, <2>1 DEF AddUserinfo, RowInv, NameInv, TypeOK, reqVars, Goto, FollowAt, Good, Inserts, After
  <2> QED
    BY <1>4, <2>1, <2>2, StatementKeepsRows DEF AddUserinfo, Steps, Inserts
<1>5. ASSUME NEW q \in Request, AddRadcheck(q) PROVE Fresh' /\ Follow' /\ Changing'
  <2>1. q \in Active /\ Users' = Users
    BY <1>5, <1>0 DEF AddRadcheck, Users, Steps, Inserts
  <2>2. Good(name[q])' => FollowAt(q)'
    BY <1>5, <1>0, <2>1 DEF AddRadcheck, RowInv, NameInv, TypeOK, reqVars, Goto, FollowAt, Good,
       Steps, Inserts, After
  <2> QED
    BY <1>5, <2>1, <2>2, StatementKeepsRows DEF AddRadcheck, Steps, Inserts
<1>6. ASSUME NEW q \in Request, AddRadusergroup(q) PROVE Fresh' /\ Follow' /\ Changing'
  <2>1. q \in Active /\ Users' = Users
    BY <1>6, <1>0 DEF AddRadusergroup, Users, Steps, Inserts
  <2>2. Good(name[q])' => FollowAt(q)'
    BY <1>6, <1>0, <2>1 DEF AddRadusergroup, RowInv, NameInv, TypeOK, reqVars, Goto, FollowAt, Good,
       Inserts, After
  <2> QED
    BY <1>6, <2>1, <2>2, StatementKeepsRows DEF AddRadusergroup, Steps, Inserts
<1>7. ASSUME NEW q \in Request, UpdateRef(q) \/ TestDelete(q)
      PROVE  Fresh' /\ Follow' /\ Changing'
  <2>1. q \in Active /\ Users' = Users
    BY <1>7, <1>0 DEF UpdateRef, TestDelete, Users, Steps, Inserts
  <2>2. Good(name[q])' => FollowAt(q)'
    BY <1>7, <1>0, <2>1 DEF UpdateRef, TestDelete, RowInv, NameInv, TypeOK, reqVars, Goto, FollowAt,
       Good, Inserts, After
  <2> QED
    BY <1>7, <2>1, <2>2, StatementKeepsRows DEF UpdateRef, TestDelete, Steps, Inserts
<1>8. ASSUME NEW q \in Request, DeleteOpenvpnUser(q) PROVE Fresh' /\ Follow' /\ Changing'
  <2>1. q \in Active /\ ~Good(name[q])
    BY <1>8, <1>0 DEF DeleteOpenvpnUser, FollowAt, Steps
  <2>2. \A s \in Request : Good(name[s]) => ovpn'[s] = ovpn[s]
    BY <1>8, <2>1 DEF DeleteOpenvpnUser, UserRows
  <2> QED
    BY <1>8, <2>1, <2>2, StatementKeepsRows DEF DeleteOpenvpnUser, Steps, Good, reqVars
<1>9. ASSUME NEW q \in Request, StatementFails(q) PROVE Fresh' /\ Follow' /\ Changing'
  <2>1. q \in Active /\ ~Good(name[q])' /\ AfterFailure(pc[q]) \in Steps \cup {"done"}
    BY <1>9, <1>0 DEF StatementFails, Steps, Inserts, Good, AfterFailure, reqVars
  <2> QED
    BY <1>9, <2>1, StatementKeepsRows DEF StatementFails
<1>10. ASSUME NEW q \in Request, Die(q) PROVE Fresh' /\ Follow' /\ Changing'
  <2>1. ~Good(name[q])'
    BY <1>10 DEF Die, Good, reqVars
  <2> QED
    BY <1>10, <2>1, StatementKeepsRows DEF Die
<1>11. ASSUME (\E n \in Name : Login(n)) \/ UNCHANGED vars PROVE Fresh' /\ Follow' /\ Changing'
  BY <1>11 DEF Login, vars, reqVars, RowInv, Fresh, Follow, FollowAt, Changing, Good, Users
<1> QED
  BY <1>1, <1>2, <1>3, <1>4, <1>5, <1>6, <1>7, <1>8, <1>9, <1>10, <1>11, ModOpenvpnKeepsRows,
     ModRadiusKeepsRows
  DEF Next, submit, modify_password

(* When nobody is at work on a name, and nothing failed, ended or          *)
(* overlapped over it, the two databases have the same account with the    *)
(* same password.                                                          *)
THEOREM AccountsBothDatabases == Spec => []BothDatabases
<1>1. RowInv => BothDatabases
  <2> SUFFICES ASSUME RowInv, NEW q \in Request,
                      name[q] \notin Busy \cup overlapped \cup failed \cup ended
               PROVE  /\ radcheck[q] = ovpn[q]
                      /\ (q \in Users) = (q \in userinfo) /\ (q \in Users) = (q \in radusergroup)
    BY DEF BothDatabases
  <2>1. pc[q] \notin Steps /\ \A p \in Request : name[p] = name[q] => pc[p] \notin Steps
    BY DEF Busy, Active
  <2>2. FollowAt(q)
    BY DEF RowInv, Follow, Good
  <2> QED
    BY <2>1, <2>2 DEF FollowAt, Steps, Inserts, Users
<1> QED
  BY <1>1, InitRowInv, RowStep, PTL DEF Spec
-----------------------------------------------------------------------------
(* The bonus_cnt of those who referred others *)

(* Who is referred to has a row, or had one. *)
Referrers == \A q \in Request :
  refid[q] # None => pc[refid[q]] \in After \cup {"done"}

(* The users an account brought whose registration is past the update of   *)
(* bonus_cnt, and those of them over which nothing failed or ended.        *)
Counted(r)   == {q \in Referred(r) : pc[q] # "update_ref"}
Faultless(r) == {q \in Counted(r) : name[q] \notin failed \cup ended}

CountedAtMost == \A r \in Request : bonus_cnt[r] <= Cardinality(Counted(r))

(* From the insert of the referrer's row on, if it is the only one of its  *)
(* name.                                                                   *)
HasOnlyRow(r) == (r \in ok \/ pc[r] \in After) /\ name[r] \notin overlapped

CountedAtLeast == \A r \in Request :
  HasOnlyRow(r) => bonus_cnt[r] >= Cardinality(Faultless(r))

CountInv == NameInv /\ Referrers /\ CountedAtMost /\ CountedAtLeast

LEMMA InitCountInv == Init => CountInv
<1> SUFFICES ASSUME Init PROVE CountInv
  OBVIOUS
<1>1. \A r \in Request : Counted(r) = {} /\ Faultless(r) = {} /\ bonus_cnt[r] = 0
  BY DEF Init, Counted, Faultless, Referred
<1>2. Cardinality({}) = 0
  BY FS_EmptySet
<1>3. Referrers
  BY DEF Init, Referrers
<1>4. CountedAtMost /\ CountedAtLeast
  BY <1>1, <1>2 DEF CountedAtMost, CountedAtLeast
<1> QED
  BY <1>3, <1>4, InitNameInv DEF CountInv

LEMMA CountedFinite ==
  ASSUME NameInv, NEW r
  PROVE  /\ IsFiniteSet(Counted(r)) /\ IsFiniteSet(Faultless(r)) /\ IsFiniteSet(Referred(r))
         /\ Cardinality(Counted(r)) \in Nat /\ Cardinality(Faultless(r)) \in Nat
         /\ Cardinality(Counted(r)) <= Cardinality(Referred(r))
         /\ Faultless(r) \subseteq Counted(r)
<1>1. IsFiniteSet(Request) /\ Counted(r) \in SUBSET Request /\ Faultless(r) \in SUBSET Request
      /\ Referred(r) \in SUBSET Request
  BY AccountsAssumption DEF AccountsAssumption, NameInv, TypeOK, Counted, Faultless, Referred
<1>2. IsFiniteSet(Counted(r)) /\ IsFiniteSet(Faultless(r)) /\ IsFiniteSet(Referred(r))
  BY <1>1, FS_Subset
<1>3. Cardinality(Counted(r)) <= Cardinality(Referred(r))
  BY <1>2, FS_Subset DEF Counted
<1> QED
  BY <1>2, <1>3, FS_CardinalityType DEF Faultless

(* A step that counts for nobody. *)
LEMMA CountKept ==
  ASSUME CountInv, NameInv', UNCHANGED bonus_cnt, Referrers',
         \A r \in Request : /\ Counted(r) \subseteq Counted(r)'
                            /\ Faultless(r)' \subseteq Faultless(r)
                            /\ HasOnlyRow(r)' => HasOnlyRow(r) \/ Counted(r) = {}
  PROVE  CountInv'
<1>0. bonus_cnt \in [Request -> Nat]
  BY DEF CountInv, NameInv, TypeOK
<1>1. ASSUME NEW r \in Request
      PROVE  /\ IsFiniteSet(Counted(r)) /\ IsFiniteSet(Counted(r)')
             /\ IsFiniteSet(Faultless(r)) /\ IsFiniteSet(Faultless(r)')
  BY AccountsAssumption, FS_Subset
  DEF AccountsAssumption, CountInv, NameInv, TypeOK, Counted, Faultless, Referred
<1>2. ASSUME NEW r \in Request
      PROVE  bonus_cnt'[r] <= Cardinality(Counted(r)')
  <2>1. Cardinality(Counted(r)) <= Cardinality(Counted(r)')
    BY <1>1, FS_Subset
  <2>2. bonus_cnt[r] <= Cardinality(Counted(r)) /\ bonus_cnt'[r] = bonus_cnt[r]
    BY DEF CountInv, CountedAtMost
  <2>3. Cardinality(Counted(r)) \in Nat /\ Cardinality(Counted(r)') \in Nat
    BY <1>1, FS_CardinalityType
  <2> QED
    BY <1>0, <2>1, <2>2, <2>3
<1>3. ASSUME NEW r \in Request, HasOnlyRow(r)'
      PROVE  bonus_cnt'[r] >= Cardinality(Faultless(r)')
  <2>1. Cardinality(Faultless(r)') <= Cardinality(Faultless(r))
        /\ Cardinality(Faultless(r)) \in Nat /\ Cardinality(Faultless(r)') \in Nat
    BY <1>1, FS_Subset, FS_CardinalityType
  <2>2. bonus_cnt[r] >= Cardinality(Faultless(r))
    <3>1. CASE HasOnlyRow(r)
      BY <3>1 DEF CountInv, CountedAtLeast
    <3>2. CASE Counted(r) = {}
      <4>1. Faultless(r) = {}
        BY <3>2 DEF Faultless
      <4> QED
        BY <4>1, <1>0, FS_EmptySet
    <3> QED
      BY <3>1, <3>2, <1>3
  <2> QED
    BY <1>0, <2>1, <2>2
<1>4. CountedAtMost' /\ CountedAtLeast'
  BY <1>2, <1>3 DEF CountedAtMost, CountedAtLeast
<1> QED
  BY <1>4 DEF CountInv

(* A request that begins refers to somebody who has a row. *)
LEMMA BeginCounts ==
  ASSUME CountInv, NameInv', NEW q \in Request, NEW n, NEW pw, NEW r \in Users \cup {None},
         NEW p \in {"add_ovpn", "mod_ovpn"}, pc[q] = "idle", Begin(q, n, pw, r, p),
         UNCHANGED <<dbVars, ok, failed, ended>>
  PROVE  CountInv'
<1>1. /\ pc' = [pc EXCEPT ![q] = p] /\ pc \in [Request -> Steps \cup {"idle", "done"}]
      /\ name' = [name EXCEPT ![q] = n] /\ name \in [Request -> Name \cup {None}]
      /\ refid' = [refid EXCEPT ![q] = r] /\ refid \in [Request -> Request \cup {None}]
      /\ q \notin ok /\ q \notin Users /\ overlapped \subseteq overlapped'
      /\ ok \subseteq Request /\ UNCHANGED <<ovpn, bonus_cnt, ok, failed, ended>>
  BY DEF CountInv, NameInv, TypeOK, Stage, Begin, Goto, dbVars
<1>2. \A s \in Users : s \in Request /\ s # q /\ pc[s] \in After \cup {"done"}
  BY <1>1 DEF CountInv, NameInv, Stage, Users, After, Steps, Inserts
<1>3. Referrers'
  <2> SUFFICES ASSUME NEW s \in Request, refid'[s] # None
               PROVE  pc'[refid'[s]] \in After \cup {"done"}
    BY DEF Referrers
  <2>1. CASE s = q
    BY <1>1, <1>2, <2>1
  <2>2. CASE s # q
    <3>1. refid[s] \in Request /\ pc[refid[s]] \in After \cup {"done"} /\ refid'[s] = refid[s]
      BY <1>1, <2>2 DEF CountInv, Referrers
    <3>2. refid[s] # q
      BY <3>1, <1>1 DEF After
    <3> QED
      BY <3>1, <3>2, <1>1
  <2> QED
    BY <2>1, <2>2
<1>4. ASSUME NEW t \in Request
      PROVE  /\ Counted(t) \subseteq Counted(t)'
             /\ Faultless(t)' \subseteq Faultless(t)
             /\ HasOnlyRow(t)' => HasOnlyRow(t) \/ Counted(t) = {}
  <2>1. Counted(t)' = Counted(t)
    BY <1>1 DEF Counted, Referred
  <2>2. \A s \in Counted(t) : s # q /\ s \in Request
    BY <1>1 DEF Counted, Referred
  <2>3. Faultless(t)' = Faultless(t)
    BY <1>1, <2>1, <2>2 DEF Faultless
  <2>4. HasOnlyRow(t)' => HasOnlyRow(t)
    BY <1>1 DEF HasOnlyRow, After
  <2> QED
    BY <2>1, <2>3, <2>4
<1> QED
  BY <1>1, <1>3, <1>4, CountKept

(* A statement other than the update of bonus_cnt that succeeds. *)
LEMMA StatementCounts ==
  ASSUME CountInv, NameInv', NEW q \in Active, NEW p \in Steps \cup {"done"}, Goto(q, p),
         UNCHANGED <<bonus_cnt, reqVars, overlapped>>,
         failed \subseteq failed', ended \subseteq ended',
         \A s \in Request \ {q} : (s \in ok') = (s \in ok), ok \subseteq ok',
         pc[q] \in After => p \in After \cup {"done"},
         p \in After => pc[q] \in After \cup {"add_ovpn"},
         q \in ok' => pc[q] \in After,
         p = "update_ref" => q \notin ok,
         q \in ok' /\ p # "update_ref" /\ refid[q] # None => name[q] \in failed' \cup ended'
  PROVE  CountInv'
<1>1. /\ pc' = [pc EXCEPT ![q] = p] /\ pc \in [Request -> Steps \cup {"idle", "done"}]
      /\ refid \in [Request -> Request \cup {None}] /\ q \in Request /\ None \notin Request
      /\ ok \subseteq Request /\ ok' \subseteq Request
      /\ UNCHANGED <<bonus_cnt, name, refid, overlapped>>
  BY AccountsAssumption DEF AccountsAssumption, CountInv, NameInv, TypeOK, Goto, reqVars, Active
<1>2. Referrers'
  <2> SUFFICES ASSUME NEW s \in Request, refid[s] # None
               PROVE  pc'[refid[s]] \in After \cup {"done"}
    BY <1>1 DEF Referrers
  <2>1. refid[s] \in Request /\ pc[refid[s]] \in After \cup {"done"}
    BY <1>1 DEF CountInv, Referrers
  <2>2. pc[q] # "done"
    BY DEF Active, Steps, Inserts
  <2> QED
    BY <1>1, <2>1, <2>2
<1>3. ASSUME NEW t \in Request
      PROVE  /\ Counted(t) \subseteq Counted(t)'
             /\ Faultless(t)' \subseteq Faultless(t)
             /\ HasOnlyRow(t)' => HasOnlyRow(t) \/ Counted(t) = {}
  <2>1. Counted(t) \subseteq Counted(t)'
    BY <1>1 DEF Counted, Referred
  <2>2. ASSUME NEW s \in Faultless(t)' PROVE s \in Faultless(t)
    <3>1. /\ s \in ok' /\ s \in Request /\ refid[s] = t /\ pc'[s] # "update_ref"
          /\ name[s] \notin failed' \cup ended' /\ name[s] \notin failed \cup ended
      BY <1>1 DEF Faultless, Counted, Referred
    <3>2. s # q
      BY <1>1, <3>1
    <3> QED
      BY <1>1, <3>1, <3>2 DEF Faultless, Counted, Referred
  <2>3. ASSUME HasOnlyRow(t)', ~HasOnlyRow(t) PROVE Counted(t) = {}
    <3>1. t = q /\ pc[q] = "add_ovpn"
      BY <1>1, <2>3 DEF HasOnlyRow
    <3>2. \A s \in Request : refid[s] # q
      BY <1>1, <3>1 DEF CountInv, Referrers, After
    <3> QED
      BY <1>1, <3>1, <3>2 DEF Counted, Referred
  <2> QED
    BY <2>1, <2>2, <2>3
<1> QED
  BY <1>1, <1>2, <1>3, CountKept

(* The update of bonus_cnt: the referrer that has the only row of its name *)
(* is there to get it.                                                     *)
LEMMA UpdateRefCounts ==
  ASSUME CountInv, NameInv', NEW q \in Request, UpdateRef(q)
  PROVE  CountInv'
<1>0. PICK r : r = refid[q]
  OBVIOUS
<1>1. /\ pc' = [pc EXCEPT ![q] = "done"] /\ pc \in [Request -> Steps \cup {"idle", "done"}]
      /\ pc[q] = "update_ref" /\ q \in ok /\ ok \subseteq Request /\ r \in Request \cup {None}
      /\ bonus_cnt \in [Request -> Nat] /\ None \notin Request
      /\ bonus_cnt' = IF r \in Users THEN [bonus_cnt EXCEPT ![r] = @ + 1] ELSE bonus_cnt
      /\ UNCHANGED <<ovpn, name, refid, ok, overlapped, failed, ended>>
  BY <1>0, AccountsAssumption
  DEF AccountsAssumption, CountInv, NameInv, TypeOK, Stage, UpdateRef, Goto, reqVars, hisVars
<1>2. Referrers'
  <2>1. ASSUME NEW s \in Request, refid[s] # None
        PROVE  pc'[refid[s]] \in After \cup {"done"}
    <3>1. refid[s] \in Request
      BY <2>1 DEF CountInv, NameInv, TypeOK
    <3> QED
      BY <1>1, <2>1, <3>1 DEF CountInv, Referrers
  <2> QED
    BY <1>1, <2>1 DEF Referrers
<1>3. ASSUME NEW t \in Request
      PROVE  /\ IsFiniteSet(Counted(t)) /\ Cardinality(Counted(t)) \in Nat
             /\ IsFiniteSet(Faultless(t)) /\ Cardinality(Faultless(t)) \in Nat
             /\ bonus_cnt[t] \in Nat
             /\ bonus_cnt[t] <= Cardinality(Counted(t))
             /\ HasOnlyRow(t) => bonus_cnt[t] >= Cardinality(Faultless(t))
             /\ HasOnlyRow(t)' => HasOnlyRow(t)
  <2>1. HasOnlyRow(t)' => HasOnlyRow(t)
    BY <1>1 DEF HasOnlyRow, After
  <2> QED
    BY <1>1, <2>1, CountedFinite DEF CountInv, CountedAtMost, CountedAtLeast
<1>4. ASSUME NEW t \in Request, t # r
      PROVE  Counted(t)' = Counted(t) /\ Faultless(t)' = Faultless(t) /\ bonus_cnt'[t] = bonus_cnt[t]
  <2>1. Counted(t)' = Counted(t)
    BY <1>0, <1>1, <1>4 DEF Counted, Referred
  <2> QED
    BY <1>1, <1>4, <2>1 DEF Faultless
<1>5. ASSUME r \in Request
      PROVE  /\ Counted(r)' = Counted(r) \cup {q} /\ q \notin Counted(r) /\ q \notin Faultless(r)
             /\ Faultless(r)' \in {Faultless(r), Faultless(r) \cup {q}}
  <2>1. Counted(r)' = Counted(r) \cup {q} /\ q \notin Counted(r) /\ q \notin Faultless(r)
    BY <1>0, <1>1 DEF Counted, Referred, Faultless
  <2> QED
    BY <1>1, <2>1 DEF Faultless
<1>6. HasOnlyRow(r) /\ r \in Request => r \in Users
  BY DEF HasOnlyRow, CountInv, NameInv, OnlyRow, UserRows
<1>7. ASSUME r \in Request
      PROVE  /\ bonus_cnt'[r] <= Cardinality(Counted(r)')
             /\ HasOnlyRow(r)' => bonus_cnt'[r] >= Cardinality(Faultless(r)')
  <2>1. Cardinality(Counted(r)') = Cardinality(Counted(r)) + 1
    BY <1>3, <1>5, <1>7, FS_AddElement
  <2>2. Cardinality(Faultless(r) \cup {q}) = Cardinality(Faultless(r)) + 1
    BY <1>3, <1>5, <1>7, FS_AddElement
  <2>3. Cardinality(Faultless(r)') \in {Cardinality(Faultless(r)), Cardinality(Faultless(r)) + 1}
    BY <1>5, <1>7, <2>2
  <2>4. bonus_cnt'[r] \in {bonus_cnt[r], bonus_cnt[r] + 1}
    BY <1>1, <1>7
  <2>5. HasOnlyRow(r)' => bonus_cnt'[r] = bonus_cnt[r] + 1
    BY <1>1, <1>3, <1>6, <1>7
  <2> QED
    BY <1>3, <1>7, <2>1, <2>3, <2>4, <2>5
<1>8. ASSUME NEW t \in Request
      PROVE  /\ bonus_cnt'[t] <= Cardinality(Counted(t)')
             /\ HasOnlyRow(t)' => bonus_cnt'[t] >= Cardinality(Faultless(t)')
  BY <1>3, <1>4, <1>7
<1>9. CountedAtMost' /\ CountedAtLeast'
  BY <1>8 DEF CountedAtMost, CountedAtLeast
<1> QED
  BY <1>2, <1>9 DEF CountInv

LEMMA CountStep == CountInv /\ [Next]_vars => CountInv'
<1> SUFFICES ASSUME CountInv, [Next]_vars PROVE CountInv'
  OBVIOUS
<1>0. NameInv'
  BY NameStep DEF CountInv
<1>a. ASSUME NEW q \in Request
      PROVE  /\ pc[q] \in Steps => q \in Active
             /\ q \in ok => pc[q] \in {"update_ref", "done"}
             /\ pc[q] = "update_ref" => q \in ok
  BY DEF CountInv, NameInv, Stage, Active
<1> USE DEF hisVars
<1>1. ASSUME NEW q \in Request, NEW n \in Name, AddUser(q, n) PROVE CountInv'
  BY <1>0, <1>1, BeginCounts DEF AddUser
<1>2. ASSUME NEW q \in Request, NEW n \in Name, ModUserPassword(q, n) PROVE CountInv'
  BY <1>0, <1>2, BeginCounts DEF ModUserPassword
<1>3. ASSUME NEW q \in Request, AddOpenvpnUser(q) PROVE CountInv'
  BY <1>0, <1>a, <1>3, StatementCounts DEF AddOpenvpnUser, After, Steps, Inserts
<1>4. ASSUME NEW q \in Request, AddUserinfo(q) PROVE CountInv'
  BY <1>0, <1>a, <1>4, StatementCounts DEF AddUserinfo, After, Steps, Inserts
<1>5. ASSUME NEW q \in Request, AddRadcheck(q) PROVE CountInv'
  BY <1>0, <1>a, <1>5, StatementCounts DEF AddRadcheck, After, Steps, Inserts
<1>6. ASSUME NEW q \in Request, AddRadusergroup(q) PROVE CountInv'
  <2> DEFINE p == IF refid[q] = None THEN "done" ELSE "update_ref"
  <2>1. /\ pc[q] = "add_radusergroup" /\ q \in Active /\ q \notin ok /\ ok' = ok \cup {q}
        /\ p \in Steps \cup {"done"} /\ Goto(q, p) /\ p \in {"done", "update_ref"}
        /\ p # "update_ref" => refid[q] = None
    BY <1>a, <1>6 DEF AddRadusergroup, Steps, Inserts
  <2> HIDE DEF p
  <2> QED
    BY <1>0, <1>6, <2>1, StatementCounts DEF AddRadusergroup, After
<1>7. ASSUME NEW q \in Request, UpdateRef(q) PROVE CountInv'
  BY <1>0, <1>7, UpdateRefCounts
<1>8. ASSUME NEW q \in Request, TestDelete(q) PROVE CountInv'
  BY <1>0, <1>a, <1>8, StatementCounts DEF TestDelete, After, Steps, Inserts, dbVars
<1>9. ASSUME NEW q \in Request, DeleteOpenvpnUser(q) PROVE CountInv'
  BY <1>0, <1>a, <1>9, StatementCounts DEF DeleteOpenvpnUser, After, Steps, Inserts
<1>10. ASSUME NEW q \in Request, ModOpenvpn(q) PROVE CountInv'
  BY <1>0, <1>a, <1>10, StatementCounts DEF ModOpenvpn, After, Steps, Inserts
<1>11. ASSUME NEW q \in Request, ModRadius(q) PROVE CountInv'
  BY <1>0, <1>a, <1>11, StatementCounts DEF ModRadius, After, Steps, Inserts
<1>12. ASSUME NEW q \in Request, StatementFails(q) PROVE CountInv'
  <2> DEFINE p == AfterFailure(pc[q])
  <2>1. /\ q \in Active /\ p \in Steps \cup {"done"} /\ Goto(q, p) /\ p # "update_ref"
        /\ p \in After => pc[q] \in After
        /\ pc[q] \in After => p \in After \cup {"done"}
        /\ failed' = failed \cup {name[q]} /\ pc[q] # "done"
    BY <1>a, <1>12 DEF StatementFails, AfterFailure, Steps, Inserts, After
  <2> HIDE DEF p
  <2> QED
    BY <1>0, <1>a, <1>12, <2>1, StatementCounts DEF StatementFails, After, dbVars
<1>13. ASSUME NEW q \in Request, Die(q) PROVE CountInv'
  <2>1. q \in Active /\ pc[q] # "done" /\ ended' = ended \cup {name[q]}
    BY <1>13 DEF Die, Active, Steps, Inserts
  <2> QED
    BY <1>0, <1>a, <1>13, <2>1, StatementCounts DEF Die, After, dbVars
<1>14. ASSUME (\E n \in Name : Login(n)) \/ UNCHANGED vars PROVE CountInv'
  <2>1. UNCHANGED <<bonus_cnt, pc, name, refid, ok, overlapped, failed, ended>>
    BY <1>14 DEF Login, vars, reqVars, dbVars
  <2>2. Referrers'
    BY <2>1 DEF CountInv, Referrers
  <2>3. \A r \in Request : /\ Counted(r)' = Counted(r) /\ Faultless(r)' = Faultless(r)
                           /\ HasOnlyRow(r)' = HasOnlyRow(r)
    BY <2>1 DEF Counted, Referred, Faultless, HasOnlyRow
  <2> QED
    BY <1>0, <2>1, <2>2, <2>3, CountKept
<1> QED
  BY <1>1, <1>2, <1>3, <1>4, <1>5, <1>6, <1>7, <1>8, <1>9, <1>10, <1>11, <1>12, <1>13, <1>14
  DEF Next, submit, modify_password

(* An account has one bonus_cnt for each user that it brought, none for a  *)
(* registration that failed, and misses only those over which something    *)
(* failed or ended or that are not through yet.                            *)
THEOREM AccountsReferralsCounted == Spec => []ReferralsCounted
<1>1. CountInv => ReferralsCounted
  <2> SUFFICES ASSUME CountInv, NEW r \in ok, name[r] \notin overlapped
               PROVE  /\ bonus_cnt[r] <= Cardinality(Referred(r))
                      /\ bonus_cnt[r] >= Cardinality(
                           {q \in Referred(r) : name[q] \notin Busy \cup failed \cup ended})
    BY DEF ReferralsCounted
  <2> DEFINE Through == {q \in Referred(r) : name[q] \notin Busy \cup failed \cup ended}
  <2>1. r \in Request /\ bonus_cnt[r] \in Nat
    BY DEF CountInv, NameInv, TypeOK
  <2>2. /\ IsFiniteSet(Faultless(r)) /\ IsFiniteSet(Referred(r))
        /\ Cardinality(Counted(r)) \in Nat /\ Cardinality(Faultless(r)) \in Nat
        /\ Cardinality(Counted(r)) <= Cardinality(Referred(r))
    BY CountedFinite DEF CountInv
  <2>3. Through \in SUBSET Faultless(r)
    BY DEF Faultless, Counted, Referred, Busy, Active, Steps, CountInv, NameInv, TypeOK
  <2>4. Cardinality(Through) <= Cardinality(Faultless(r))
    BY <2>2, <2>3, FS_Subset
  <2>5. Cardinality(Through) \in Nat /\ Cardinality(Referred(r)) \in Nat
    BY <2>2, <2>3, FS_Subset, FS_CardinalityType
  <2>6. bonus_cnt[r] <= Cardinality(Counted(r)) /\ bonus_cnt[r] >= Cardinality(Faultless(r))
    BY <2>1 DEF CountInv, CountedAtMost, CountedAtLeast, HasOnlyRow
  <2> QED
    BY <2>1, <2>2, <2>4, <2>5, <2>6
<1> QED
  BY <1>1, InitCountInv, CountStep, PTL DEF Spec
=============================================================================
