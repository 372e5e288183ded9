------------------------------ MODULE AdminAccounts ------------------------------
(***************************************************************************)
(* Administrator accounts and sessions: first setup, password login, the   *)
(* session a passed second factor opens, refresh and logout, and a super   *)
(* administrator's changes of accounts.  The login and refresh handlers    *)
(* read an account or a session, work, and save the whole row; updateUser  *)
(* is a transaction that locks only the row it changes.                    *)
(***************************************************************************)
EXTENDS Naturals, FiniteSets

CONSTANTS
  AdminUser, AdminSession,
  MaxFailedLogins,      \* MAX_FAILED_ATTEMPTS, 5 in the code
  MaxAdminCalls         \* bound on the handlers in progress at one time

ASSUME AdminAssumption == {MaxFailedLogins, MaxAdminCalls} \subseteq Nat \ {0} /\ "noone" \notin AdminUser

VARIABLES
  accounts,             \* admin_users with the role super_admin as a flag
  sessions,             \* the sessions not revoked; claim is the role in the token last issued
  adminCalls,           \* handlers between their read and their write
  overlapped            \* history: two changes that each take away a super administrator overlapped

adminVars == <<accounts, sessions, adminCalls, overlapped>>

NoAccount == [status |-> "none", super |-> FALSE, failed |-> 0, barred |-> FALSE]
NoSession == [user |-> "noone", claim |-> FALSE, raced |-> FALSE]
Unchanged == "unchanged"

AdminInit ==
  /\ accounts = [a \in AdminUser |-> NoAccount]
  /\ sessions = [s \in AdminSession |-> NoSession]
  /\ adminCalls = {} /\ overlapped = FALSE

Exists(a) == accounts[a].status # "none"

(* Bounds: of two handlers that overlap, both change accounts or they       *)
(* differ, and none begins once an overlap has suspended SuperRemains.      *)
Began(call) ==
  /\ ~overlapped
  /\ Cardinality(adminCalls) < MaxAdminCalls /\ call.kind \notin {c.kind : c \in adminCalls} \ {"update"}
  /\ adminCalls' = adminCalls \cup {call}

Ended(call) == adminCalls' = adminCalls \ {call}

RowLocked(a) == \E call \in adminCalls : call.kind = "update" /\ call.user = a

(* JWT validation: a live session whose account is active.                  *)
Authenticated(s) == sessions[s] # NoSession /\ accounts[sessions[s].user].status = "active"

(* A new identifier: one of a revoked session stands for it when no refresh *)
(* still holds that session.                                                *)
OpenSession(s, a, claim, raced) ==
  /\ sessions[s] = NoSession /\ \A call \in adminCalls : call.kind = "refresh" => call.session # s
  /\ sessions' = [sessions EXCEPT ![s] = [user |-> a, claim |-> claim, raced |-> raced]]

(* One setup at a time, and only of an empty table.                         *)
initialize(a, s) ==
  /\ \A b \in AdminUser : ~Exists(b)
  /\ accounts' = [accounts EXCEPT ![a] = [NoAccount EXCEPT !.status = "active", !.super = TRUE]]
  /\ OpenSession(s, a, TRUE, FALSE)
  /\ UNCHANGED <<adminCalls, overlapped>>

(* A login reads the account; both outcomes of the password save the row   *)
(* as it was read, with the counters changed.  The count of failures stops *)
(* growing at the limit: every larger one locks too.                        *)
login(a) ==
  /\ accounts[a].status \in {"active", "locked"} /\ ~accounts[a].barred
  /\ Began([kind |-> "login", user |-> a, status |-> accounts[a].status, failed |-> accounts[a].failed])
  /\ UNCHANGED <<accounts, sessions, overlapped>>

PasswordMatches(call) ==
  /\ call.kind = "login" /\ ~RowLocked(call.user) /\ Ended(call)
  /\ accounts' = [accounts EXCEPT ![call.user].status = "active", ![call.user].failed = 0,
                                  ![call.user].barred = FALSE]
  /\ UNCHANGED <<sessions, overlapped>>

recordFailedLogin(call) ==
  LET failures == IF call.failed = MaxFailedLogins THEN MaxFailedLogins ELSE call.failed + 1
      locks == failures = MaxFailedLogins
  IN  /\ call.kind = "login" /\ ~RowLocked(call.user) /\ Ended(call)
      /\ accounts' = [accounts EXCEPT ![call.user].failed = failures,
                        ![call.user].status = IF locks THEN "locked" ELSE call.status,
                        ![call.user].barred = locks]
      /\ UNCHANGED <<sessions, overlapped>>

LockoutEnds(a) ==
  /\ accounts[a].barred
  /\ accounts' = [accounts EXCEPT ![a].barred = FALSE]
  /\ UNCHANGED <<sessions, adminCalls, overlapped>>

(* After the second factor: read the active account with its roles, save   *)
(* it, open a session whose token carries the roles that were read.         *)
completeMfaLogin(a) ==
  /\ accounts[a].status = "active"
  /\ Began([kind |-> "complete", user |-> a, claim |-> accounts[a].super, raced |-> FALSE])
  /\ UNCHANGED <<accounts, sessions, overlapped>>

createSession(call, s) ==
  /\ call.kind = "complete" /\ ~RowLocked(call.user) /\ Ended(call)
  /\ accounts' = [accounts EXCEPT ![call.user].status = "active", ![call.user].failed = 0,
                                  ![call.user].barred = FALSE]
  /\ OpenSession(s, call.user, call.claim, call.raced)
  /\ UNCHANGED overlapped

(* A refresh saves the session it read, revocation included: a revocation  *)
(* committed in between is undone.                                          *)
refresh(s) ==
  /\ Authenticated(s)
  /\ Began([kind |-> "refresh", user |-> sessions[s].user, session |-> s,
            claim |-> accounts[sessions[s].user].super, raced |-> sessions[s].raced])
  /\ UNCHANGED <<accounts, sessions, overlapped>>

SaveRefreshed(call) ==
  /\ call.kind = "refresh" /\ Ended(call)
  /\ sessions' = [sessions EXCEPT ![call.session] =
                    [user |-> call.user, claim |-> call.claim, raced |-> call.raced]]
  /\ UNCHANGED <<accounts, overlapped>>

(* Logout, and a refresh with a secret that is not the stored one.          *)
logout(s) ==
  /\ sessions[s] # NoSession /\ sessions' = [sessions EXCEPT ![s] = NoSession]
  /\ UNCHANGED <<accounts, adminCalls, overlapped>>

SuperActor(s) == Authenticated(s) /\ sessions[s].claim

createUser(s, a, super) ==
  /\ SuperActor(s) /\ ~Exists(a)
  /\ accounts' = [accounts EXCEPT ![a] = [NoAccount EXCEPT !.status = "active", !.super = super]]
  /\ UNCHANGED <<sessions, adminCalls, overlapped>>

(* Faulty: the account that changes counts as the one that remains.         *)
FaultyAnotherActiveSuper(a) == \E b \in AdminUser : accounts[b].super /\ accounts[b].status = "active"

AnotherActiveSuper(a) == \E b \in AdminUser \ {a} : accounts[b].super /\ accounts[b].status = "active"

Removes(call) == call.kind = "update" /\ call.removes

(* updateUser up to its UPDATE: the row is locked, the roles are read, and *)
(* taking a super administrator away needs another one that is active.      *)
updateUser(s, a, status, super) ==
  LET after == [status |-> IF status = Unchanged THEN accounts[a].status ELSE status,
                super |-> IF super = Unchanged THEN accounts[a].super ELSE super = "super"]
      removes == accounts[a].super /\ ~(after.super /\ after.status = "active")
  IN  /\ SuperActor(s) /\ Exists(a) /\ ~RowLocked(a)
      /\ sessions[s].user = a => status \in {Unchanged, "active"}
      /\ removes => AnotherActiveSuper(a)
      /\ Began([kind |-> "update", user |-> a, after |-> after, reset |-> status = "active", removes |-> removes])
      /\ overlapped' = (overlapped \/ (removes /\ \E call \in adminCalls : Removes(call)))
      /\ UNCHANGED <<accounts, sessions>>

(* Faulty: the account changes and its sessions stay.                       *)
FaultyRevokeAll(a) == [s \in AdminSession |-> sessions[s]]

RevokeAll(a) == [s \in AdminSession |-> IF sessions[s].user = a THEN NoSession ELSE sessions[s]]

(* The commit, which also marks the handlers of the account it overtook.    *)
CommitUser(call) ==
  LET a == call.user
  IN  /\ call.kind = "update"
      /\ accounts' = [accounts EXCEPT ![a].status = call.after.status, ![a].super = call.after.super,
                        ![a].failed = IF call.reset THEN 0 ELSE @, ![a].barred = IF call.reset THEN FALSE ELSE @]
      /\ sessions' = RevokeAll(a)
      /\ adminCalls' = {IF c.user = a /\ c.kind \in {"complete", "refresh"} THEN [c EXCEPT !.raced = TRUE] ELSE c :
                          c \in adminCalls \ {call}}
      /\ UNCHANGED overlapped

AdminNext ==
  \/ \E a \in AdminUser :
       \/ login(a) \/ LockoutEnds(a) \/ completeMfaLogin(a)
       \/ \E s \in AdminSession :
            \/ initialize(a, s)
            \/ \E super \in BOOLEAN : createUser(s, a, super)
            \/ \E status \in {Unchanged, "active", "disabled", "locked"}, super \in {Unchanged, "super", "other"} :
                 updateUser(s, a, status, super)
  \/ \E s \in AdminSession : refresh(s) \/ logout(s)
  \/ \E call \in adminCalls :
       \/ PasswordMatches(call) \/ recordFailedLogin(call) \/ SaveRefreshed(call) \/ CommitUser(call)
       \/ \E s \in AdminSession : createSession(call, s)

AdminTypeOK ==
  /\ accounts \in [AdminUser -> [status : {"none", "active", "disabled", "locked"}, super : BOOLEAN,
                                 failed : 0..MaxFailedLogins, barred : BOOLEAN]]
  /\ sessions \in [AdminSession -> [user : AdminUser \cup {"noone"}, claim : BOOLEAN, raced : BOOLEAN]]
  /\ Cardinality(adminCalls) <= MaxAdminCalls /\ overlapped \in BOOLEAN

(* Once set up, the system keeps a super administrator who is not disabled *)
(* through every order of changes, logins and lockouts, except when two     *)
(* changes that each take one away overlap.                                 *)
SuperRemains ==
  (\E a \in AdminUser : Exists(a)) /\ ~overlapped =>
    \E a \in AdminUser : accounts[a].super /\ accounts[a].status # "disabled"

(* A token that works and claims the role belongs to an account that has   *)
(* it, unless a login or refresh was overtaken by the change.               *)
ClaimsCurrent ==
  \A s \in AdminSession : SuperActor(s) /\ ~sessions[s].raced => accounts[sessions[s].user].super
=============================================================================
