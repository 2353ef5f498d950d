------------------------------ MODULE Accounts ------------------------------
(***************************************************************************)
(* Accounts of the web site: registration (register.php), login (login.php)*)
(* and the change of a password (user.php), all through user_mdl.php.  An  *)
(* account is a row of the openvpn database, which the site and the gas    *)
(* server read, and three rows of the radius database, which the VPN       *)
(* servers read.  The tables (MyISAM) have no transaction and no unique    *)
(* name.  Every web request runs in a process of its own, and only a       *)
(* single SQL statement is atomic.                                         *)
(*                                                                         *)
(* A registration inserts at most one row into each table, so the request  *)
(* is the id of its rows and name[request] the name in them.               *)
(***************************************************************************)
EXTENDS Integers, FiniteSets

CONSTANTS Request,   \* the requests that register or change a password
          Name,      \* the user names
          Password,  \* the passwords
          None       \* no row, no referrer

ASSUME AccountsAssumption ==
  IsFiniteSet(Request) /\ None \notin Request \cup Name \cup Password

VARIABLES
  db_debug,     \* db_debug of config/database.php: a failing query ends the process
  ovpn,         \* table user of openvpn: [Request -> the password of its row, or None]
  bonus_cnt,    \* ... and its column bonus_cnt: [Request -> Nat]
  userinfo,     \* table userinfo of radius: the requests with a row
  radcheck,     \* table radcheck of radius: [Request -> the password, or None]
  radusergroup, \* table radusergroup of radius: the requests with a row
  session,      \* the names logged in by a browser
  pc,           \* the statement each request is at
  name, password, refid,  \* what each request is about
  ok,           \* history: the registrations that were answered OK
  overlapped,   \* history: the names two requests were about at once
  failed,       \* history: the names over which a statement failed
  ended         \* history: the names over which a process ended

dbVars  == <<ovpn, bonus_cnt, userinfo, radcheck, radusergroup>>
reqVars == <<name, password, refid>>
hisVars == <<overlapped, failed, ended>>
vars == <<db_debug, dbVars, session, pc, reqVars, ok, hisVars>>

Inserts == {"add_ovpn", "add_userinfo", "add_radcheck", "add_radusergroup"}
Steps   == Inserts \cup {"update_ref", "test_del", "del_ovpn", "mod_ovpn", "mod_radius"}

(* The file says TRUE for both databases; what add_user() does after a     *)
(* failed insert is written for FALSE.                                     *)
Init ==
  /\ db_debug \in BOOLEAN
  /\ ovpn = [q \in Request |-> None] /\ radcheck = [q \in Request |-> None]
  /\ bonus_cnt = [q \in Request |-> 0]
  /\ userinfo = {} /\ radusergroup = {} /\ session = {}
  /\ pc = [q \in Request |-> "idle"]
  /\ name = [q \in Request |-> None] /\ password = [q \in Request |-> None]
  /\ refid = [q \in Request |-> None]
  /\ ok = {} /\ overlapped = {} /\ failed = {} /\ ended = {}

Active      == {q \in Request : pc[q] \in Steps}
Goto(q, p)  == pc' = [pc EXCEPT ![q] = p]
Users       == {q \in Request : ovpn[q] # None}
UserRows(n) == {q \in Users : name[q] = n}
is_user_exist(n) == UserRows(n) # {}

(* A request about n that goes on to change something begins. *)
Begin(q, n, pw, r, p) ==
  /\ name' = [name EXCEPT ![q] = n]
  /\ password' = [password EXCEPT ![q] = pw]
  /\ refid' = [refid EXCEPT ![q] = r]
  /\ overlapped' = overlapped \cup (IF \E o \in Active : name[o] = n THEN {n} ELSE {})
  /\ Goto(q, p)

-----------------------------------------------------------------------------
(* register.php: submit() and user_mdl.add_user() *)

(* Seeded fault: nobody asks whether the name is taken. *)
AddUserUnasked(q, n) ==
  /\ pc[q] = "idle"
  /\ \E pw \in Password, r \in Users \cup {None} : Begin(q, n, pw, r, "add_ovpn")
  /\ UNCHANGED <<db_debug, dbVars, session, ok, failed, ended>>

(* A name that is taken is refused, which changes nothing.  The referrer   *)
(* is the user whose link the browser followed, if any.                    *)
AddUser(q, n) ==
  /\ pc[q] = "idle" /\ ~is_user_exist(n)
  /\ \E pw \in Password, r \in Users \cup {None} : Begin(q, n, pw, r, "add_ovpn")
  /\ UNCHANGED <<db_debug, dbVars, session, ok, failed, ended>>

AddOpenvpnUser(q) ==
  /\ pc[q] = "add_ovpn"
  /\ ovpn' = [ovpn EXCEPT ![q] = password[q]]
  /\ Goto(q, "add_userinfo")
  /\ UNCHANGED <<db_debug, bonus_cnt, userinfo, radcheck, radusergroup, session,
                 reqVars, ok, hisVars>>

AddUserinfo(q) ==
  /\ pc[q] = "add_userinfo"
  /\ userinfo' = userinfo \cup {q}
  /\ Goto(q, "add_radcheck")
  /\ UNCHANGED <<db_debug, ovpn, bonus_cnt, radcheck, radusergroup, session,
                 reqVars, ok, hisVars>>

AddRadcheck(q) ==
  /\ pc[q] = "add_radcheck"
  /\ radcheck' = [radcheck EXCEPT ![q] = password[q]]
  /\ Goto(q, "add_radusergroup")
  /\ UNCHANGED <<db_debug, ovpn, bonus_cnt, userinfo, radusergroup, session,
                 reqVars, ok, hisVars>>

(* The last insert makes the answer "ret => 0", for which a referrer gets  *)
(* one more bonus_cnt.                                                     *)
AddRadusergroup(q) ==
  /\ pc[q] = "add_radusergroup"
  /\ radusergroup' = radusergroup \cup {q}
  /\ ok' = ok \cup {q}
  /\ Goto(q, IF refid[q] = None THEN "done" ELSE "update_ref")
  /\ UNCHANGED <<db_debug, ovpn, bonus_cnt, userinfo, radcheck, session, reqVars, hisVars>>

(* "where id=$userid": a row that is gone gets nothing. *)
UpdateRef(q) ==
  /\ pc[q] = "update_ref"
  /\ bonus_cnt' = IF refid[q] \in Users THEN [bonus_cnt EXCEPT ![refid[q]] = @ + 1]
                  ELSE bonus_cnt
  /\ Goto(q, "done")
  /\ UNCHANGED <<db_debug, ovpn, userinfo, radcheck, radusergroup, session,
                 reqVars, ok, hisVars>>

(* del_openvpn_user(), after an insert into the radius database failed: it *)
(* asks for the name and deletes every row of that name.                   *)
TestDelete(q) ==
  /\ pc[q] = "test_del"
  /\ Goto(q, IF is_user_exist(name[q]) THEN "del_ovpn" ELSE "done")
  /\ UNCHANGED <<db_debug, dbVars, session, reqVars, ok, hisVars>>

(* Seeded fault: the referrer is rewarded whatever add_user() returned. *)
DeleteOpenvpnUserRewarded(q) ==
  /\ pc[q] = "del_ovpn"
  /\ ovpn' = [r \in Request |-> IF r \in UserRows(name[q]) THEN None ELSE ovpn[r]]
  /\ Goto(q, IF refid[q] = None THEN "done" ELSE "update_ref")
  /\ UNCHANGED <<db_debug, bonus_cnt, userinfo, radcheck, radusergroup, session,
                 reqVars, ok, hisVars>>

DeleteOpenvpnUser(q) ==
  /\ pc[q] = "del_ovpn"
  /\ ovpn' = [r \in Request |-> IF r \in UserRows(name[q]) THEN None ELSE ovpn[r]]
  /\ Goto(q, "done")
  /\ UNCHANGED <<db_debug, bonus_cnt, userinfo, radcheck, radusergroup, session,
                 reqVars, ok, hisVars>>

-----------------------------------------------------------------------------
(* login.php: validate_user() takes exactly one row with that password. *)
Login(n) ==
  /\ \E pw \in Password, q \in UserRows(n) : {r \in UserRows(n) : ovpn[r] = pw} = {q}
  /\ session' = session \cup {n}
  /\ UNCHANGED <<db_debug, dbVars, pc, reqVars, ok, hisVars>>

(* user.php: modify_password(), which takes the name from the session, and *)
(* mod_user_password(), which updates every row of the name.               *)
ModUserPassword(q, n) ==
  /\ pc[q] = "idle" /\ n \in session /\ is_user_exist(n)
  /\ \E pw \in Password : Begin(q, n, pw, None, "mod_ovpn")
  /\ UNCHANGED <<db_debug, dbVars, session, ok, failed, ended>>

(* Seeded fault: data and condition are swapped. *)
ModOpenvpnSwapped(q) ==
  /\ pc[q] = "mod_ovpn"
  /\ ovpn' = [r \in Request |-> IF r \in UserRows(name[q]) THEN name[q] ELSE ovpn[r]]
  /\ Goto(q, "mod_radius")
  /\ UNCHANGED <<db_debug, bonus_cnt, userinfo, radcheck, radusergroup, session,
                 reqVars, ok, hisVars>>

(* Seeded fault: one table is forgotten, as in mod_user(). *)
ModOpenvpnOnly(q) ==
  /\ pc[q] = "mod_ovpn"
  /\ ovpn' = [r \in Request |-> IF r \in UserRows(name[q]) THEN password[q] ELSE ovpn[r]]
  /\ Goto(q, "done")
  /\ UNCHANGED <<db_debug, bonus_cnt, userinfo, radcheck, radusergroup, session,
                 reqVars, ok, hisVars>>

(* "change ovpn table" *)
ModOpenvpn(q) ==
  /\ pc[q] = "mod_ovpn"
  /\ ovpn' = [r \in Request |-> IF r \in UserRows(name[q]) THEN password[q] ELSE ovpn[r]]
  /\ Goto(q, "mod_radius")
  /\ UNCHANGED <<db_debug, bonus_cnt, userinfo, radcheck, radusergroup, session,
                 reqVars, ok, hisVars>>

(* "change radius table" *)
ModRadius(q) ==
  /\ pc[q] = "mod_radius"
  /\ radcheck' = [r \in Request |-> IF radcheck[r] # None /\ name[r] = name[q]
                                    THEN password[q] ELSE radcheck[r]]
  /\ Goto(q, "done")
  /\ UNCHANGED <<db_debug, ovpn, bonus_cnt, userinfo, radusergroup, session,
                 reqVars, ok, hisVars>>

-----------------------------------------------------------------------------
(* Seeded fault: a registration that failed keeps its row. *)
AfterFailureKept(p) == IF p = "mod_ovpn" THEN "mod_radius" ELSE "done"

(* What follows a statement that fails and does not end the process: the   *)
(* first insert has nothing to take back, the others have, and nobody      *)
(* looks at the result of an update.                                       *)
AfterFailure(p) ==
  IF p \in Inserts \ {"add_ovpn"} THEN "test_del"
  ELSE IF p = "mod_ovpn" THEN "mod_radius" ELSE "done"

StatementFails(q) ==
  /\ ~db_debug /\ pc[q] \in Inserts \cup {"update_ref", "mod_ovpn", "mod_radius"}
  /\ failed' = failed \cup {name[q]}
  /\ Goto(q, AfterFailure(pc[q]))
  /\ UNCHANGED <<db_debug, dbVars, session, reqVars, ok, overlapped, ended>>

(* The process dies, a failing query ends it with db_debug, or reads a row *)
(* count from a result that is not there.  A delete that fails has the     *)
(* same effect.                                                            *)
Die(q) ==
  /\ q \in Active
  /\ ended' = ended \cup {name[q]}
  /\ Goto(q, "done")
  /\ UNCHANGED <<db_debug, dbVars, session, reqVars, ok, overlapped, failed>>

submit(q) ==
  \/ \E n \in Name : AddUser(q, n)
  \/ AddOpenvpnUser(q) \/ AddUserinfo(q) \/ AddRadcheck(q) \/ AddRadusergroup(q)
  \/ UpdateRef(q) \/ TestDelete(q) \/ DeleteOpenvpnUser(q)

modify_password(q) ==
  \/ \E n \in Name : ModUserPassword(q, n)
  \/ ModOpenvpn(q) \/ ModRadius(q)

Next ==
  \/ \E q \in Request : submit(q) \/ modify_password(q) \/ StatementFails(q) \/ Die(q)
  \/ \E n \in Name : Login(n)

Spec == Init /\ [][Next]_vars

-----------------------------------------------------------------------------
(* Properties. *)

TypeOK ==
  /\ db_debug \in BOOLEAN
  /\ ovpn \in [Request -> Password \cup {None}]
  /\ radcheck \in [Request -> Password \cup {None}]
  /\ bonus_cnt \in [Request -> Nat]
  /\ userinfo \subseteq Request /\ radusergroup \subseteq Request
  /\ session \subseteq Name
  /\ pc \in [Request -> Steps \cup {"idle", "done"}]
  /\ name \in [Request -> Name \cup {None}]
  /\ password \in [Request -> Password \cup {None}]
  /\ refid \in [Request -> Request \cup {None}]
  /\ ok \subseteq Request
  /\ overlapped \subseteq Name /\ failed \subseteq Name /\ ended \subseteq Name

Busy == {name[q] : q \in Active}

(* validate_user() wants "$num == 1": whoever was told that the            *)
(* registration succeeded has the only row of the name, for good, whatever *)
(* failed or died, unless two requests about the name overlapped.          *)
LogsIn == \A q \in ok : name[q] \notin overlapped => UserRows(name[q]) = {q}

(* add_user() takes the row back when the radius database fails            *)
(* (user_mdl.php:148-151): what is not registered does not hold the name,  *)
(* unless requests overlapped or a process ended.                          *)
NameGivenBack ==
  \A q \in Users : name[q] \notin Busy \cup overlapped \cup ended => q \in ok

(* The two databases have the same accounts with the same passwords when   *)
(* nobody is at work on them, unless something failed, ended or overlapped *)
(* over the name.                                                          *)
BothDatabases ==
  \A q \in Request : name[q] \notin Busy \cup overlapped \cup failed \cup ended =>
    /\ radcheck[q] = ovpn[q]
    /\ (q \in Users) = (q \in userinfo) /\ (q \in Users) = (q \in radusergroup)

Referred(r) == {q \in ok : refid[q] = r}

(* "called by user registration OK" (user_mdl.php:261): an account has one *)
(* bonus_cnt for each user that it brought, none for one that failed, and  *)
(* misses only those over which something failed or ended.                 *)
ReferralsCounted ==
  \A r \in ok : name[r] \notin overlapped =>
    /\ bonus_cnt[r] <= Cardinality(Referred(r))
    /\ bonus_cnt[r] >=
         Cardinality({q \in Referred(r) : name[q] \notin Busy \cup failed \cup ended})
=============================================================================
