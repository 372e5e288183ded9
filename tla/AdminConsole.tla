----------------------------- MODULE AdminConsole -----------------------------
(***************************************************************************)
(* The administration console in the browser and the session behind it.    *)
(* The page resolves where to start (setup, login or portal), leads through*)
(* setup and the steps of a login, and in the portal polls the services.   *)
(* A poll is two requests at once; one that is denied refreshes the session*)
(* by itself and is sent again.  A refresh exchanges the secret of the     *)
(* session, and one that presents an exchanged secret revokes it.          *)
(***************************************************************************)
EXTENDS Naturals, FiniteSets

CONSTANTS
  MaxConsoleSessions,   \* bound on the sessions opened
  LastSecret,           \* bound on the refresh secrets issued
  ConsoleScopes         \* bounds on what happens together: polls in progress, times the portal is
                        \* entered, whether the server is out of reach, whether requests are lost

ASSUME ConsoleAssumption ==
  /\ {MaxConsoleSessions, LastSecret} \subseteq Nat \ {0}
  /\ ConsoleScopes \subseteq [polls : Nat, mounts : Nat, offline : BOOLEAN, lossy : BOOLEAN]

VARIABLES
  page,          \* what AdminPortal shows
  wizard,        \* the step of the setup or the login that is mounted
  setupState,    \* setupStatus.state
  configured,    \* the server has an administrator
  sessionRows,   \* admin_sessions: the secret in force (0: no row) and revokedAt
  jar,           \* the cookies: the session of the access token, and of the refresh token
  minted,        \* secrets issued so far
  entries,       \* calls of resolveEntry in progress, by what they await
  polls,         \* polls in progress
  mounts,        \* times the portal was mounted
  consoleScope,  \* the bounds of this behaviour
  consolePast    \* history: sessions logged out; refreshes that met; a PIN that was taken away

pageVars == <<page, wizard, mounts>>
entryVars == <<setupState, entries>>
tableVars == <<configured, sessionRows, minted>>
consoleVars == <<pageVars, entryVars, tableVars, jar, polls, consoleScope, consolePast>>

ConsoleSession == 1..MaxConsoleSessions
NoCookies == [access |-> 0, session |-> 0, secret |-> 0]
RequestSent == [phase |-> "sent", session |-> 0, secret |-> 0]
Finished == {"ok", "denied", "failed"}

ConsoleInit ==
  /\ page = "boot" /\ wizard = "none" /\ setupState = "checking" /\ consoleScope \in ConsoleScopes
  /\ configured \in BOOLEAN /\ (configured \/ consoleScope.offline)
  /\ sessionRows = [s \in ConsoleSession |-> [secret |-> 0, revoked |-> FALSE]]
  /\ jar = NoCookies /\ minted = 0 /\ entries = {"status"} /\ polls = {} /\ mounts = 0
  /\ consolePast = [out |-> {}, met |-> FALSE, unread |-> FALSE, retried |-> FALSE]

(* AdminJwtStrategy: the access token names a session that is not revoked.  *)
Admitted == jar.access # 0 /\ ~sessionRows[jar.access].revoked

-----------------------------------------------------------------------------
(* The login mounts at its first step, and stays where it is when the page  *)
(* already shows it.                                                        *)
ToLogin ==
  /\ page' = "login" /\ wizard' = IF page = "login" THEN wizard ELSE "password"
  /\ UNCHANGED mounts

Poll(kind) == [kind |-> kind, mount |-> mounts + 1, first |-> RequestSent, second |-> RequestSent]

(* Entering the portal loads the profile and the metrics (a load beyond the *)
(* bound is not followed).                                                  *)
ToPortal ==
  /\ page' = "portal" /\ wizard' = "none"
  /\ IF page = "portal" THEN UNCHANGED <<polls, mounts>>
     ELSE /\ mounts < consoleScope.mounts /\ mounts' = mounts + 1
          /\ polls' = polls \cup (IF Cardinality(polls) < consoleScope.polls THEN {Poll("load")} ELSE {})

OpensSession(s) ==
  /\ \A r \in ConsoleSession : sessionRows[r].secret = 0 <=> r >= s
  /\ ~consolePast.met /\ minted < LastSecret /\ minted' = minted + 1
  /\ sessionRows' = [sessionRows EXCEPT ![s].secret = minted + 1]
  /\ jar' = [access |-> s, session |-> s, secret |-> minted + 1]

(* The status of the setup, which may stay unknown for 5 seconds.           *)
fetchSetupStatus(answer) ==
  /\ "status" \in entries
  /\ (answer = "offline" /\ consoleScope.offline) \/ answer = (IF configured THEN "configured" ELSE "ready")
  /\ setupState' = answer
  /\ CASE answer = "configured" -> /\ entries' = (entries \ {"status"}) \cup {"me"}
                                   /\ UNCHANGED <<pageVars>>
       [] answer = "ready" -> /\ entries' = entries \ {"status"} /\ page' = "setup"
                              /\ wizard' = (IF page = "setup" THEN wizard ELSE "initialize")
                              /\ UNCHANGED mounts
       [] answer = "offline" -> entries' = entries \ {"status"} /\ ToLogin
  /\ UNCHANGED <<tableVars, jar, polls, consolePast, consoleScope>>

(* /admin/auth/me: an answer of 401 here is not followed by a refresh.      *)
resolveEntry ==
  /\ "me" \in entries /\ entries' = entries \ {"me"}
  /\ \/ /\ Admitted /\ ToPortal
        /\ consolePast' = [consolePast EXCEPT !.unread = @ \/ (wizard = "recovery-pin" /\ ~consolePast.retried)]
     \/ ~Admitted /\ ToLogin /\ UNCHANGED <<polls, consolePast>>
  /\ UNCHANGED <<tableVars, setupState, jar, consoleScope>>

(* "Re-establish API connection" of the login, "Retry link" of the setup.   *)
RetryLink ==
  /\ setupState = "offline" /\ entries = {}
  /\ page = "login" \/ (page = "setup" /\ wizard = "check")
  /\ entries' = {"status"} /\ consolePast' = [consolePast EXCEPT !.retried = TRUE]
  /\ UNCHANGED <<pageVars, tableVars, setupState, jar, polls, consoleScope>>

-----------------------------------------------------------------------------
SetupSteps == [initialize |-> {"check"}, check |-> {"initialize", "administrator"}, administrator |-> {"check"}]

SetupExperience(next) ==
  /\ page = "setup" /\ wizard \in DOMAIN SetupSteps /\ next \in SetupSteps[wizard]
  /\ wizard = "check" /\ next = "administrator" => setupState # "offline"
  /\ wizard' = next
  /\ UNCHANGED <<entryVars, tableVars, page, jar, polls, mounts, consolePast, consoleScope>>

(* Refused when another browser has set the system up; one that does so    *)
(* keeps its own cookies.                                                   *)
initializeSystem(s) ==
  /\ page = "setup" /\ wizard = "administrator" /\ ~configured
  /\ configured' = TRUE /\ OpensSession(s) /\ wizard' = "ready"
  /\ UNCHANGED <<entryVars, page, polls, mounts, consolePast, consoleScope>>

SetElsewhere ==
  /\ ~configured /\ configured' = TRUE
  /\ UNCHANGED <<pageVars, entryVars, sessionRows, jar, minted, polls, consolePast, consoleScope>>

SetupComplete ==
  /\ page = "setup" /\ wizard = "ready" /\ ToPortal
  /\ UNCHANGED <<entryVars, tableVars, jar, consolePast, consoleScope>>

(* One request at a time: the form is disabled while it waits.              *)
LoginStep(next) ==
  /\ page = "login" /\ configured
  /\ \/ wizard = "password" /\ next \in {"totp", "enroll"}
     \/ wizard = "totp" /\ next = "recover"
     \/ wizard = "recover" /\ next \in {"totp", "enroll"}
  /\ wizard' = next
  /\ UNCHANGED <<entryVars, tableVars, page, jar, polls, mounts, consolePast, consoleScope>>

(* A code that is accepted opens the session at once; after an enrolment    *)
(* the PIN that comes with it is shown before the portal.                   *)
submitMfa(s) ==
  /\ page = "login" /\ wizard \in {"totp", "enroll"} /\ OpensSession(s)
  /\ IF wizard = "enroll"
     THEN wizard' = "recovery-pin" /\ UNCHANGED <<page, polls, mounts>>
     ELSE ToPortal
  /\ consolePast' = [consolePast EXCEPT !.retried = @ /\ entries # {}]
  /\ UNCHANGED <<entryVars, configured, consoleScope>>

ContinueWithPin ==
  /\ page = "login" /\ wizard = "recovery-pin" /\ ToPortal
  /\ UNCHANGED <<entryVars, tableVars, jar, consolePast, consoleScope>>

-----------------------------------------------------------------------------
Refreshing(part) == part.phase \in {"refresh", "passed", "rotated"}

(* Another refresh of this browser is between its request and its answer.   *)
Meets(p, side) ==
  \/ \E q \in polls \ {p} : Refreshing(q.first) \/ Refreshing(q.second)
  \/ Refreshing(IF side = "first" THEN p.second ELSE p.first)

Becomes(p, side, part) ==
  polls' = (polls \ {p}) \cup {IF side = "first" THEN [p EXCEPT !.first = part] ELSE [p EXCEPT !.second = part]}

PartOf(p, side) == IF side = "first" THEN p.first ELSE p.second

(* The profile is read under /admin/auth/, where nothing is refreshed.      *)
Refreshable(p, side) == p.kind # "load" \/ side = "second"

sessionFetch(p, side) ==
  LET refreshes == Refreshable(p, side) /\ jar.session # 0
  IN  /\ PartOf(p, side).phase = "sent"
      /\ Becomes(p, side,
           CASE Admitted -> [RequestSent EXCEPT !.phase = "ok"]
             [] ~Admitted /\ refreshes -> [phase |-> "refresh", session |-> jar.session, secret |-> jar.secret]
             [] OTHER -> [RequestSent EXCEPT !.phase = "denied"])
      /\ consolePast' = [consolePast EXCEPT !.met = @ \/ (~Admitted /\ refreshes /\ Meets(p, side))]
      /\ UNCHANGED <<pageVars, entryVars, tableVars, jar, consoleScope>>

(* The secret presented is the one in force.                                *)
Presented(part) == sessionRows[part.session].secret = part.secret

(* refresh up to its save: a secret that was exchanged revokes the session. *)
refreshReads(p, side) ==
  LET part == PartOf(p, side)
      passes == ~sessionRows[part.session].revoked /\ Presented(part)
  IN  /\ part.phase = "refresh"
      /\ Becomes(p, side, IF passes THEN [part EXCEPT !.phase = "passed"] ELSE [RequestSent EXCEPT !.phase = "denied"])
      /\ sessionRows' = [sessionRows EXCEPT ![part.session].revoked = @ \/ ~passes]
      /\ UNCHANGED <<pageVars, entryVars, configured, jar, minted, consolePast, consoleScope>>

(* The save writes the row as it was read, not revoked.                     *)
refreshSaves(p, side) ==
  LET part == PartOf(p, side)
  IN  /\ part.phase = "passed" /\ minted < LastSecret /\ minted' = minted + 1
      /\ sessionRows' = [sessionRows EXCEPT ![part.session] = [secret |-> minted + 1, revoked |-> FALSE]]
      /\ Becomes(p, side, [part EXCEPT !.phase = "rotated", !.secret = minted + 1])
      /\ UNCHANGED <<pageVars, entryVars, configured, jar, consolePast, consoleScope>>

setAdminSessionCookies(p, side) ==
  LET part == PartOf(p, side)
  IN  /\ part.phase = "rotated"
      /\ jar' = [access |-> part.session, session |-> part.session, secret |-> part.secret]
      /\ Becomes(p, side, [RequestSent EXCEPT !.phase = "again"])
      /\ UNCHANGED <<pageVars, entryVars, tableVars, consolePast, consoleScope>>

SentAgain(p, side) ==
  /\ PartOf(p, side).phase = "again"
  /\ Becomes(p, side, [RequestSent EXCEPT !.phase = IF Admitted THEN "ok" ELSE "denied"])
  /\ UNCHANGED <<pageVars, entryVars, tableVars, jar, consolePast, consoleScope>>

(* The network fails; an answer with new cookies that is lost counts as a   *)
(* refresh that met another: the next one presents an exchanged secret.     *)
Unanswered(p, side) ==
  LET part == PartOf(p, side)
  IN  /\ consoleScope.lossy /\ part.phase \in {"sent", "rotated", "again"}
      /\ Becomes(p, side, [RequestSent EXCEPT !.phase = "failed"])
      /\ consolePast' = [consolePast EXCEPT !.met = @ \/ part.phase = "rotated"]
      /\ UNCHANGED <<pageVars, entryVars, tableVars, jar, consoleScope>>

-----------------------------------------------------------------------------
(* Promise.allSettled, dropped when the portal it was started for is gone.  *)
LoadSettles(p) ==
  LET denied == "denied" \in {p.first.phase, p.second.phase}
  IN  /\ p.kind = "load" /\ {p.first.phase, p.second.phase} \subseteq Finished
      /\ polls' = polls \ {p}
      /\ IF denied /\ page = "portal" /\ p.mount = mounts THEN ToLogin
         ELSE UNCHANGED <<pageVars>>
      /\ UNCHANGED <<entryVars, tableVars, jar, consolePast, consoleScope>>

(* Promise.all: the first failure ends the poll, the other request goes on *)
(* unheeded.  onExpired is called whether or not the portal still shows.    *)
refreshSystemPulse(p) ==
  LET over == p.first.phase = "ok" /\ p.second.phase = "ok"
      heard == {p.first.phase, p.second.phase} \cap {"denied", "failed"}
      rest == IF {p.first.phase, p.second.phase} \subseteq Finished THEN {} ELSE {[p EXCEPT !.kind = "unheeded"]}
  IN  /\ p.kind = "pulse" /\ (over \/ heard # {})
      /\ polls' = (polls \ {p}) \cup rest
      /\ \/ "denied" \in heard /\ ToLogin
         \/ (over \/ "failed" \in heard) /\ UNCHANGED <<pageVars>>
      /\ UNCHANGED <<entryVars, tableVars, jar, consolePast, consoleScope>>

UnheededEnds(p) ==
  /\ p.kind = "unheeded" /\ {p.first.phase, p.second.phase} \subseteq Finished
  /\ polls' = polls \ {p}
  /\ UNCHANGED <<pageVars, entryVars, tableVars, jar, consolePast, consoleScope>>

(* On mounting, every 15 seconds, and on demand.                            *)
PulseDue ==
  /\ page = "portal" /\ Cardinality(polls) < consoleScope.polls /\ ~consolePast.met
  /\ polls' = polls \cup {[Poll("pulse") EXCEPT !.mount = mounts]}
  /\ UNCHANGED <<pageVars, entryVars, tableVars, jar, consolePast, consoleScope>>

(* 15 minutes: the access cookie goes, the refresh cookie stays.            *)
AccessExpires ==
  /\ jar.access # 0 /\ jar' = [jar EXCEPT !.access = 0]
  /\ UNCHANGED <<pageVars, entryVars, tableVars, polls, consolePast, consoleScope>>

(* Denied without an access cookie, and then too the console shows login.   *)
ConsoleLogout ==
  /\ page = "portal" /\ ToLogin
  /\ IF Admitted
     THEN /\ sessionRows' = [sessionRows EXCEPT ![jar.access].revoked = TRUE] /\ jar' = NoCookies
          /\ consolePast' = [consolePast EXCEPT !.out = @ \cup {jar.access},
                       !.met = @ \/ \E p \in polls : Refreshing(p.first) \/ Refreshing(p.second)]
     ELSE UNCHANGED <<sessionRows, jar, consolePast>>
  /\ UNCHANGED <<entryVars, configured, minted, polls, consoleScope>>

ConsoleNext ==
  \/ \E answer \in {"offline", "configured", "ready"} : fetchSetupStatus(answer)
  \/ resolveEntry \/ RetryLink \/ SetElsewhere \/ SetupComplete \/ ContinueWithPin
  \/ \E next \in {"initialize", "check", "administrator"} : SetupExperience(next)
  \/ \E next \in {"totp", "enroll", "recover"} : LoginStep(next)
  \/ \E s \in ConsoleSession : initializeSystem(s) \/ submitMfa(s)
  \/ \E p \in polls :
       \/ LoadSettles(p) \/ refreshSystemPulse(p) \/ UnheededEnds(p)
       \/ \E side \in {"first", "second"} :
            \/ sessionFetch(p, side) \/ refreshReads(p, side) \/ refreshSaves(p, side)
            \/ setAdminSessionCookies(p, side) \/ SentAgain(p, side) \/ Unanswered(p, side)
  \/ PulseDue \/ AccessExpires \/ ConsoleLogout

ConsoleTypeOK ==
  /\ page \in {"boot", "setup", "login", "portal"}
  /\ wizard \in {"none", "password", "totp", "enroll", "recover", "recovery-pin",
               "initialize", "check", "administrator", "ready"}
  /\ setupState \in {"checking", "ready", "configured", "offline"} /\ configured \in BOOLEAN
  /\ sessionRows \in [ConsoleSession -> [secret : 0..LastSecret, revoked : BOOLEAN]]
  /\ jar \in [access : 0..MaxConsoleSessions, session : 0..MaxConsoleSessions, secret : 0..LastSecret]
  /\ minted \in 0..LastSecret /\ entries \subseteq {"status", "me"} /\ mounts \in 0..consoleScope.mounts
  /\ consolePast.out \subseteq ConsoleSession

(* A session of the console ends by logging out and in no other way, and    *)
(* the browser holds its secret in force, as long as no two of its         *)
(* refreshes met.                                                           *)
SessionKept ==
  ~consolePast.met =>
    /\ \A s \in ConsoleSession : sessionRows[s].revoked <=> s \in consolePast.out
    /\ jar.session # 0 /\ (\A p \in polls : ~Refreshing(p.first) /\ ~Refreshing(p.second)) =>
         sessionRows[jar.session].secret = jar.secret

(* The recovery PIN, which is never shown again, leaves the page by the     *)
(* administrator's own step, unless a retry of the entry was on its way.    *)
PinKept == ~consolePast.unread
=============================================================================
