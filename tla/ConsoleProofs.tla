----------------------------- MODULE ConsoleProofs -----------------------------
(***************************************************************************)
(* Proofs about the administration console, for every number of sessions,  *)
(* mounted pages, records and requests in flight: which requests hold the  *)
(* cookies in force, that a workspace shows and writes one record, what a  *)
(* batch of AML limits knows of its requests, and that the AML simulator   *)
(* gives the answer of the reservation.                                    *)
(***************************************************************************)
EXTENDS AdminConsole, ConsoleWorkspaces, ReferenceData, SumProofs, Integers, TLAPS

-----------------------------------------------------------------------------
(* The session of an administrator.                                         *)
RequestSide == {"first", "second"}
RequestPart == [phase : {"sent", "refresh", "passed", "rotated", "again", "ok", "denied", "failed"},
                session : 0..MaxConsoleSessions, secret : 0..LastSecret]
ConsolePoll == [kind : {"load", "pulse", "unheeded"}, mount : Nat, first : RequestPart, second : RequestPart]

ConsoleShape ==
  /\ ConsoleTypeOK /\ polls \subseteq ConsolePoll /\ consoleScope \in ConsoleScopes
  /\ consolePast \in [out : SUBSET ConsoleSession, met : BOOLEAN, unread : BOOLEAN, retried : BOOLEAN]
  /\ jar.access \in {0, jar.session}
  /\ \A p \in polls : \A s \in RequestSide :
       Refreshing(PartOf(p, s)) => PartOf(p, s).session # 0

(* At most one request is between its refresh and the new cookies.          *)
OneRefreshes ==
  \A p, q \in polls : \A s, r \in RequestSide :
    Refreshing(PartOf(p, s)) /\ Refreshing(PartOf(q, r)) => p = q /\ s = r

(* It has the secret in force.                                              *)
RefreshHolds ==
  \A p \in polls : \A s \in RequestSide :
    Refreshing(PartOf(p, s)) =>
      /\ PartOf(p, s).session \notin consolePast.out /\ PartOf(p, s).secret # 0
      /\ sessionRows[PartOf(p, s).session].secret = PartOf(p, s).secret

(* So has the browser, or it will have the one that is being fetched.       *)
JarHolds ==
  jar.session # 0 =>
    /\ jar.session \notin consolePast.out /\ jar.secret # 0 /\ sessionRows[jar.session].secret # 0
    /\ \/ sessionRows[jar.session].secret = jar.secret
       \/ \E p \in polls : \E s \in RequestSide :
            Refreshing(PartOf(p, s)) /\ PartOf(p, s).session = jar.session

OutRevoked ==
  /\ \A s \in ConsoleSession : sessionRows[s].revoked <=> s \in consolePast.out
  /\ \A s \in consolePast.out : sessionRows[s].secret # 0

SessionInv == ~consolePast.met => OneRefreshes /\ RefreshHolds /\ JarHolds /\ OutRevoked

(* The entry is resolved again only on a retry.                             *)
EntryInv ==
  /\ entries \in {{}, {"status"}, {"me"}}
  /\ entries # {} => page = "boot" \/ consolePast.retried
  /\ page = "boot" => polls = {}
  /\ wizard = "recovery-pin" => page = "login"
  /\ ~consolePast.unread

ConsoleInv == ConsoleShape /\ SessionInv /\ EntryInv

LEMMA ConsoleStart == ConsoleInit => ConsoleInv
<1> SUFFICES ASSUME ConsoleInit PROVE ConsoleInv
  OBVIOUS
<1> USE DEF ConsoleInit, ConsoleSession
<1>1. ConsoleShape
  BY ConsoleAssumption DEF ConsoleShape, ConsoleTypeOK, NoCookies
<1>2. SessionInv
  BY ConsoleAssumption DEF SessionInv, OneRefreshes, RefreshHolds, JarHolds, OutRevoked, NoCookies
<1>3. EntryInv
  BY DEF EntryInv
<1> QED
  BY <1>1, <1>2, <1>3 DEF ConsoleInv

(* What a poll becomes when one of its requests goes on.                    *)
LEMMA PollBecomes ==
  ASSUME NEW p \in ConsolePoll, NEW s \in RequestSide, NEW part \in RequestPart, Becomes(p, s, part)
  PROVE  \E q \in ConsolePoll :
           /\ polls' = (polls \ {p}) \cup {q} /\ PartOf(q, s) = part
           /\ \A r \in RequestSide \ {s} : PartOf(q, r) = PartOf(p, r)
<1> DEFINE q == IF s = "first" THEN [p EXCEPT !.first = part] ELSE [p EXCEPT !.second = part]
<1>1. q \in ConsolePoll
  BY DEF ConsolePoll, RequestSide
<1>2. PartOf(q, s) = part /\ \A r \in RequestSide \ {s} : PartOf(q, r) = PartOf(p, r)
  BY DEF ConsolePoll, RequestSide, PartOf
<1>3. polls' = (polls \ {p}) \cup {q}
  BY DEF Becomes
<1> HIDE DEF q
<1> QED
  BY <1>1, <1>2, <1>3

LEMMA PartsAre ==
  ASSUME NEW p \in ConsolePoll, NEW s \in RequestSide
  PROVE  PartOf(p, s) \in RequestPart
BY DEF ConsolePoll, RequestSide, PartOf

(* Polls come and go that do not refresh.                                   *)
LEMMA RefreshersStay ==
  ASSUME SessionInv, UNCHANGED sessionRows, jar'.session = jar.session, jar'.secret = jar.secret,
         consolePast'.out = consolePast.out, consolePast.met => consolePast'.met,
         \A p \in polls' : \A s \in RequestSide : Refreshing(PartOf(p, s)) => p \in polls,
         \A p \in polls : \A s \in RequestSide : Refreshing(PartOf(p, s)) => p \in polls'
  PROVE  SessionInv'
<1> SUFFICES ASSUME ~consolePast'.met PROVE (OneRefreshes /\ RefreshHolds /\ JarHolds /\ OutRevoked)'
  BY DEF SessionInv
<1>1. OneRefreshes /\ RefreshHolds /\ JarHolds /\ OutRevoked
  BY DEF SessionInv
<1>2. OneRefreshes'
  BY <1>1 DEF OneRefreshes
<1>3. RefreshHolds'
  BY <1>1 DEF RefreshHolds
<1>4. JarHolds'
  BY <1>1 DEF JarHolds
<1>5. OutRevoked'
  BY <1>1 DEF OutRevoked
<1> QED
  BY <1>2, <1>3, <1>4, <1>5

(* A poll goes on, and its refreshing request, if there is one, with it.    *)
LEMMA RefresherGoesOn ==
  ASSUME SessionInv, UNCHANGED sessionRows, jar'.session = jar.session, jar'.secret = jar.secret,
         consolePast'.out = consolePast.out, consolePast.met => consolePast'.met,
         NEW p \in polls, NEW q, polls' = (polls \ {p}) \cup {q},
         \A s \in RequestSide :
           /\ Refreshing(PartOf(q, s)) <=> Refreshing(PartOf(p, s))
           /\ Refreshing(PartOf(p, s)) => /\ PartOf(q, s).session = PartOf(p, s).session
                                          /\ PartOf(q, s).secret = PartOf(p, s).secret
  PROVE  SessionInv'
<1> SUFFICES ASSUME ~consolePast'.met PROVE (OneRefreshes /\ RefreshHolds /\ JarHolds /\ OutRevoked)'
  BY DEF SessionInv
<1>1. OneRefreshes /\ RefreshHolds /\ JarHolds /\ OutRevoked
  BY DEF SessionInv
<1>2. OneRefreshes'
  BY <1>1 DEF OneRefreshes
<1>3. RefreshHolds'
  BY <1>1 DEF RefreshHolds
<1>4. JarHolds'
  BY <1>1 DEF JarHolds
<1>5. OutRevoked'
  BY <1>1 DEF OutRevoked
<1> QED
  BY <1>2, <1>3, <1>4, <1>5

(* The cookies are presented: the secret in force, and nobody else refreshes*)
(* unless two refreshes met.                                                *)
LEMMA EntryRefreshes ==
  ASSUME ConsoleInv, NEW p \in polls, NEW s \in RequestSide, NEW q \in ConsolePoll,
         polls' = (polls \ {p}) \cup {q}, UNCHANGED <<sessionRows, jar>>, consolePast'.out = consolePast.out,
         jar.session # 0, Refreshing(PartOf(q, s)), PartOf(q, s).session = jar.session,
            PartOf(q, s).secret = jar.secret,
         \A r \in RequestSide \ {s} : PartOf(q, r) = PartOf(p, r),
         consolePast'.met = (consolePast.met \/ Meets(p, s)), ~Refreshing(PartOf(p, s))
  PROVE  SessionInv'
<1> SUFFICES ASSUME ~consolePast'.met PROVE (OneRefreshes /\ RefreshHolds /\ JarHolds /\ OutRevoked)'
  BY DEF SessionInv
<1>1. OneRefreshes /\ RefreshHolds /\ JarHolds /\ OutRevoked
  BY DEF SessionInv, ConsoleInv
<1>2. \A a \in polls \ {p} : \A r \in RequestSide : ~Refreshing(PartOf(a, r))
  BY DEF Meets, RequestSide, PartOf
<1>3. \A r \in RequestSide : ~Refreshing(PartOf(p, r))
  BY DEF Meets, RequestSide, PartOf
<1>4. \A a \in polls' : \A r \in RequestSide : Refreshing(PartOf(a, r)) => a = q /\ r = s
  BY <1>2, <1>3
<1>5. OneRefreshes'
  BY <1>4 DEF OneRefreshes
<1>6. jar.session \notin consolePast.out /\ jar.secret # 0 /\ sessionRows[jar.session].secret = jar.secret
  BY <1>1, <1>2, <1>3 DEF JarHolds
<1>7. RefreshHolds'
  BY <1>4, <1>6 DEF RefreshHolds
<1>8. JarHolds'
  BY <1>6 DEF JarHolds
<1>9. OutRevoked'
  BY <1>1 DEF OutRevoked
<1> QED
  BY <1>5, <1>7, <1>8, <1>9

(* The row is saved with a new secret, which is on its way to the browser.  *)
LEMMA RefreshSaved ==
  ASSUME ConsoleInv, NEW p \in polls, NEW s \in RequestSide, NEW q \in ConsolePoll,
         polls' = (polls \ {p}) \cup {q}, UNCHANGED <<jar, consolePast>>,
         Refreshing(PartOf(p, s)), Refreshing(PartOf(q, s)), PartOf(q, s).session = PartOf(p, s).session,
         \A r \in RequestSide \ {s} : PartOf(q, r) = PartOf(p, r), PartOf(q, s).secret # 0,
         sessionRows' = [sessionRows EXCEPT ![PartOf(p, s).session]
            = [secret |-> PartOf(q, s).secret, revoked |-> FALSE]]
  PROVE  SessionInv'
<1> SUFFICES ASSUME ~consolePast.met PROVE (OneRefreshes /\ RefreshHolds /\ JarHolds /\ OutRevoked)'
  BY DEF SessionInv
<1>1. OneRefreshes /\ RefreshHolds /\ JarHolds /\ OutRevoked
  BY DEF SessionInv, ConsoleInv
<1>2. \A a \in polls' : \A r \in RequestSide : Refreshing(PartOf(a, r)) => a = q /\ r = s
  BY <1>1 DEF OneRefreshes
<1>3. PartOf(p, s).session \in ConsoleSession \ consolePast.out
  <2>1. PartOf(p, s).session \in 0..MaxConsoleSessions /\ PartOf(p, s).session # 0
    BY PartsAre DEF ConsoleInv, ConsoleShape, RequestPart
  <2> QED
    BY <1>1, <2>1, ConsoleAssumption DEF RefreshHolds, ConsoleSession
<1>4. sessionRows \in [ConsoleSession -> [secret : 0..LastSecret, revoked : BOOLEAN]]
      /\ consolePast.out \subseteq ConsoleSession
  BY DEF ConsoleInv, ConsoleShape, ConsoleTypeOK
<1> DEFINE a == PartOf(p, s).session
           n == PartOf(q, s).secret
<1>5. sessionRows'[a].secret = n /\ \A t \in ConsoleSession \ {a} : sessionRows'[t] = sessionRows[t]
  BY <1>3, <1>4
<1>6. sessionRows'[a].revoked = FALSE
  BY <1>3, <1>4
<1>7. OneRefreshes'
  BY <1>2 DEF OneRefreshes
<1>8. RefreshHolds'
  BY <1>2, <1>3, <1>5 DEF RefreshHolds
<1>9. JarHolds'
  <2>1. CASE jar.session = a
    BY <1>1, <1>5, <2>1 DEF JarHolds
  <2>2. CASE jar.session # a
    <3>1. jar.session = 0 \/ jar.session \in ConsoleSession \ {a}
      BY <2>2, ConsoleAssumption DEF ConsoleInv, ConsoleShape, ConsoleTypeOK, ConsoleSession
    <3>2. jar.session # 0 => sessionRows[jar.session].secret = jar.secret
      BY <1>1, <2>2 DEF JarHolds, OneRefreshes
    <3> QED
      BY <1>1, <1>5, <3>1, <3>2 DEF JarHolds
  <2> QED
    BY <2>1, <2>2
<1>10. OutRevoked'
  BY <1>1, <1>3, <1>4, <1>5, <1>6 DEF OutRevoked
<1> QED
  BY <1>7, <1>8, <1>9, <1>10

(* The answer sets the cookies.                                             *)
LEMMA RefreshEnds ==
  ASSUME ConsoleInv, NEW p \in polls, NEW s \in RequestSide, NEW q \in ConsolePoll,
         polls' = (polls \ {p}) \cup {q}, UNCHANGED <<sessionRows, consolePast>>,
         Refreshing(PartOf(p, s)), ~Refreshing(PartOf(q, s)),
         \A r \in RequestSide \ {s} : PartOf(q, r) = PartOf(p, r),
         jar'.session = PartOf(p, s).session, jar'.secret = PartOf(p, s).secret
  PROVE  SessionInv'
<1> SUFFICES ASSUME ~consolePast.met PROVE (OneRefreshes /\ RefreshHolds /\ JarHolds /\ OutRevoked)'
  BY DEF SessionInv
<1>1. OneRefreshes /\ RefreshHolds /\ JarHolds /\ OutRevoked
  BY DEF SessionInv, ConsoleInv
<1>2. \A a \in polls' : \A r \in RequestSide : ~Refreshing(PartOf(a, r))
  BY <1>1 DEF OneRefreshes
<1>3. JarHolds'
  BY <1>1 DEF JarHolds, RefreshHolds
<1> QED
  BY <1>1, <1>2, <1>3 DEF OneRefreshes, RefreshHolds, OutRevoked

(* A login or the setup opens a session, where nothing is refreshed that    *)
(* could be its own.                                                        *)
LEMMA SessionOpens ==
  ASSUME ConsoleInv, NEW t \in ConsoleSession, OpensSession(t),
         consolePast'.out = consolePast.out,
         \A p \in polls' : \A s \in RequestSide : Refreshing(PartOf(p, s)) => p \in polls
  PROVE  SessionInv'
<1> SUFFICES ASSUME ~consolePast'.met PROVE (OneRefreshes /\ RefreshHolds /\ JarHolds /\ OutRevoked)'
  BY DEF SessionInv
<1>1. OneRefreshes /\ RefreshHolds /\ JarHolds /\ OutRevoked
  BY DEF SessionInv, ConsoleInv, OpensSession
<1>2. sessionRows \in [ConsoleSession -> [secret : 0..LastSecret, revoked : BOOLEAN]]
      /\ minted \in 0..LastSecret
      /\ consolePast.out \subseteq ConsoleSession
  BY DEF ConsoleInv, ConsoleShape, ConsoleTypeOK
<1>3. sessionRows[t].secret = 0 /\ jar' = [access |-> t, session |-> t, secret |-> minted + 1]
      /\ sessionRows' = [sessionRows EXCEPT ![t].secret = minted + 1]
  BY DEF OpensSession, ConsoleSession
<1>4. minted + 1 # 0 /\ sessionRows'[t].secret = minted + 1
  BY <1>2, <1>3, ConsoleAssumption
<1>5. \A r \in ConsoleSession \ {t} : sessionRows'[r] = sessionRows[r]
  BY <1>2, <1>3
<1>6. \A r \in ConsoleSession : sessionRows'[r].revoked = sessionRows[r].revoked
  BY <1>2, <1>3
<1>7. OneRefreshes'
  BY <1>1 DEF OneRefreshes
<1>8. RefreshHolds'
  <2> SUFFICES ASSUME NEW p \in polls', NEW s \in RequestSide, Refreshing(PartOf(p, s))
               PROVE  /\ PartOf(p, s).session \notin consolePast'.out /\ PartOf(p, s).secret # 0
                      /\ sessionRows'[PartOf(p, s).session].secret = PartOf(p, s).secret
    BY DEF RefreshHolds
  <2>1. /\ PartOf(p, s).session \notin consolePast.out /\ PartOf(p, s).secret # 0
        /\ sessionRows[PartOf(p, s).session].secret = PartOf(p, s).secret
    BY <1>1 DEF RefreshHolds
  <2>2. PartOf(p, s).session \in 0..MaxConsoleSessions /\ PartOf(p, s).session # 0
    BY PartsAre DEF ConsoleInv, ConsoleShape, RequestPart
  <2>3. PartOf(p, s).session \in ConsoleSession \ {t}
    BY <1>3, <2>1, <2>2, ConsoleAssumption DEF ConsoleSession
  <2> QED
    BY <1>5, <2>1, <2>3
<1>9. JarHolds'
  BY <1>1, <1>3, <1>4 DEF JarHolds, OutRevoked
<1>10. OutRevoked'
  BY <1>1, <1>2, <1>4, <1>5, <1>6 DEF OutRevoked
<1> QED
  BY <1>7, <1>8, <1>9, <1>10

(* A logout revokes the session of the browser.                             *)
LEMMA SessionEnds ==
  ASSUME ConsoleInv, Admitted, UNCHANGED polls, jar' = NoCookies,
         sessionRows' = [sessionRows EXCEPT ![jar.access].revoked = TRUE],
         consolePast'.out = consolePast.out \cup {jar.access},
         consolePast'.met = (consolePast.met \/ \E p \in polls : Refreshing(p.first) \/ Refreshing(p.second))
  PROVE  SessionInv'
<1> SUFFICES ASSUME ~consolePast'.met PROVE (OneRefreshes /\ RefreshHolds /\ JarHolds /\ OutRevoked)'
  BY DEF SessionInv
<1>1. OneRefreshes /\ RefreshHolds /\ JarHolds /\ OutRevoked
  BY DEF SessionInv, ConsoleInv
<1>2. \A p \in polls : \A s \in RequestSide : ~Refreshing(PartOf(p, s))
  BY DEF RequestSide, PartOf
<1>3. jar.access \in ConsoleSession /\ jar.access = jar.session /\ jar.session # 0
  BY ConsoleAssumption DEF ConsoleInv, ConsoleShape, ConsoleTypeOK, ConsoleSession, Admitted
<1>4. sessionRows \in [ConsoleSession -> [secret : 0..LastSecret, revoked : BOOLEAN]]
  BY DEF ConsoleInv, ConsoleShape, ConsoleTypeOK
<1>5. \A r \in ConsoleSession : sessionRows'[r].secret = sessionRows[r].secret
  BY <1>3, <1>4
<1>6. \A r \in ConsoleSession : sessionRows'[r].revoked <=> (sessionRows[r].revoked \/ r = jar.access)
  BY <1>3, <1>4
<1>7. sessionRows[jar.access].secret # 0 /\ consolePast.out \subseteq ConsoleSession
  BY <1>1, <1>3 DEF JarHolds, ConsoleInv, ConsoleShape, ConsoleTypeOK
<1>8. OutRevoked'
  BY <1>1, <1>3, <1>5, <1>6, <1>7 DEF OutRevoked
<1> QED
  BY <1>2, <1>8 DEF OneRefreshes, RefreshHolds, JarHolds, NoCookies

LEMMA EntryStands ==
  ASSUME EntryInv, UNCHANGED <<page, wizard, entries>>, consolePast'.unread = consolePast.unread,
         consolePast'.retried = consolePast.retried, page = "boot" => polls' = {}
  PROVE  EntryInv'
BY DEF EntryInv

(* The type of the state after one request of a poll went on.               *)
LEMMA ShapeGoesOn ==
  ASSUME ConsoleInv, NEW p \in polls, NEW q \in ConsolePoll, polls' = (polls \ {p}) \cup {q},
         \A s \in RequestSide : Refreshing(PartOf(q, s)) => PartOf(q, s).session # 0,
         UNCHANGED <<pageVars, entryVars, configured, consoleScope>>,
         sessionRows' \in [ConsoleSession -> [secret : 0..LastSecret, revoked : BOOLEAN]],
            minted' \in 0..LastSecret,
         jar' \in [access : 0..MaxConsoleSessions, session : 0..MaxConsoleSessions, secret : 0..LastSecret],
         jar'.access \in {0, jar'.session},
         consolePast' \in [out : SUBSET ConsoleSession, met : BOOLEAN, unread : BOOLEAN, retried : BOOLEAN]
  PROVE  ConsoleShape'
BY DEF ConsoleInv, ConsoleShape, ConsoleTypeOK, pageVars, entryVars

LEMMA FetchKeeps ==
  ASSUME ConsoleInv, NEW p \in polls, NEW s \in RequestSide, sessionFetch(p, s)
  PROVE  ConsoleInv'
<1> DEFINE refreshes == Refreshable(p, s) /\ jar.session # 0
           part == CASE Admitted -> [RequestSent EXCEPT !.phase = "ok"]
                     [] ~Admitted
                        /\ refreshes -> [phase |-> "refresh", session |-> jar.session, secret |-> jar.secret]
                     [] OTHER -> [RequestSent EXCEPT !.phase = "denied"]
<1>1. /\ PartOf(p, s).phase = "sent" /\ Becomes(p, s, part)
      /\ consolePast' = [consolePast EXCEPT !.met = @ \/ (~Admitted /\ refreshes /\ Meets(p, s))]
      /\ UNCHANGED <<pageVars, entryVars, tableVars, jar, consoleScope>>
  BY DEF sessionFetch
<1>2. p \in ConsolePoll /\ ConsoleShape
  BY DEF ConsoleInv, ConsoleShape
<1>3. jar \in [access : 0..MaxConsoleSessions, session : 0..MaxConsoleSessions, secret : 0..LastSecret]
      /\ consolePast \in [out : SUBSET ConsoleSession, met : BOOLEAN, unread : BOOLEAN, retried : BOOLEAN]
  BY <1>2 DEF ConsoleShape, ConsoleTypeOK
<1>4. part \in RequestPart
  BY <1>3, ConsoleAssumption DEF RequestPart, RequestSent
<1>5. CASE ~Admitted /\ refreshes
  <2>1. part = [phase |-> "refresh", session |-> jar.session, secret |-> jar.secret]
    BY <1>5
  <2> HIDE DEF part
  <2>2. PICK q \in ConsolePoll : /\ polls' = (polls \ {p}) \cup {q} /\ PartOf(q, s) = part
                                 /\ \A r \in RequestSide \ {s} : PartOf(q, r) = PartOf(p, r)
    BY <1>1, <1>2, <1>4, PollBecomes
  <2>3. consolePast'.met = (consolePast.met \/ Meets(p, s)) /\ consolePast'.out = consolePast.out
        /\ consolePast'.unread = consolePast.unread /\ consolePast'.retried = consolePast.retried
    BY <1>1, <1>3, <1>5
  <2>4. Meets(p, s) \in BOOLEAN
    BY DEF Meets
  <2>5. consolePast' \in [out : SUBSET ConsoleSession, met : BOOLEAN, unread : BOOLEAN, retried : BOOLEAN]
    BY <1>1, <1>3, <1>5, <2>4
  <2>6. SessionInv'
    BY <1>1, <1>5, <2>1, <2>2, <2>3, EntryRefreshes DEF Refreshing, tableVars
  <2>7. ConsoleShape'
    BY <1>1, <1>2, <1>5, <2>1, <2>2, <2>5, ShapeGoesOn DEF ConsoleShape, ConsoleTypeOK, tableVars
  <2>8. EntryInv'
    BY <1>1, <2>3, EntryStands DEF ConsoleInv, EntryInv, pageVars, entryVars
  <2> QED
    BY <2>6, <2>7, <2>8 DEF ConsoleInv
<1>6. CASE ~(~Admitted /\ refreshes)
  <2>1. ~Refreshing(part)
    BY <1>6 DEF Refreshing, RequestSent
  <2>2. consolePast' = consolePast
    BY <1>1, <1>3, <1>6
  <2> HIDE DEF part
  <2>3. PICK q \in ConsolePoll : /\ polls' = (polls \ {p}) \cup {q} /\ PartOf(q, s) = part
                                 /\ \A r \in RequestSide \ {s} : PartOf(q, r) = PartOf(p, r)
    BY <1>1, <1>2, <1>4, PollBecomes
  <2>4. SessionInv'
    <3>1. ~Refreshing(PartOf(p, s))
      BY <1>1 DEF Refreshing
    <3>2. \A r \in RequestSide :
            /\ Refreshing(PartOf(q, r)) <=> Refreshing(PartOf(p, r))
            /\ Refreshing(PartOf(p, r)) => /\ PartOf(q, r).session = PartOf(p, r).session
                                           /\ PartOf(q, r).secret = PartOf(p, r).secret
      BY <2>1, <2>3, <3>1
    <3>3. UNCHANGED <<sessionRows, jar>> /\ SessionInv
      BY <1>1 DEF tableVars, ConsoleInv
    <3> QED
      BY <2>2, <2>3, <3>2, <3>3, RefresherGoesOn
  <2>5. ConsoleShape'
    BY <1>1, <1>2, <2>1, <2>2, <2>3, ShapeGoesOn DEF ConsoleShape, ConsoleTypeOK, tableVars
  <2>6. EntryInv'
    BY <1>1, <2>2, EntryStands DEF ConsoleInv, EntryInv, pageVars, entryVars
  <2> QED
    BY <2>4, <2>5, <2>6 DEF ConsoleInv
<1> QED
  BY <1>5, <1>6

LEMMA ReadsKeeps ==
  ASSUME ConsoleInv, NEW p \in polls, NEW s \in RequestSide, refreshReads(p, s)
  PROVE  ConsoleInv'
<1> DEFINE part == PartOf(p, s)
           passes == ~sessionRows[part.session].revoked /\ Presented(part)
           next == IF passes THEN [part EXCEPT !.phase = "passed"]
              ELSE [RequestSent EXCEPT !.phase = "denied"]
<1>1. /\ part.phase = "refresh" /\ Becomes(p, s, next)
      /\ sessionRows' = [sessionRows EXCEPT ![part.session].revoked = @ \/ ~passes]
      /\ UNCHANGED <<pageVars, entryVars, configured, jar, minted, consolePast, consoleScope>>
  BY DEF refreshReads
<1>2. p \in ConsolePoll /\ ConsoleShape
  BY DEF ConsoleInv, ConsoleShape
<1>3. part \in RequestPart /\ part.session # 0
  BY <1>1, <1>2, PartsAre DEF ConsoleShape, Refreshing
<1>4. part.session \in ConsoleSession
  BY <1>3, ConsoleAssumption DEF RequestPart, ConsoleSession
<1>5. next \in RequestPart
  BY <1>3, ConsoleAssumption DEF RequestPart, RequestSent
<1>6. sessionRows \in [ConsoleSession -> [secret : 0..LastSecret, revoked : BOOLEAN]]
  BY <1>2 DEF ConsoleShape, ConsoleTypeOK
<1>7. sessionRows' \in [ConsoleSession -> [secret : 0..LastSecret, revoked : BOOLEAN]]
  <2>1. passes \in BOOLEAN
    BY DEF Presented
  <2> HIDE DEF passes, part
  <2> QED
    BY <1>1, <1>4, <1>6, <2>1
<1>8. next.phase \in {"passed", "denied"}
  BY <1>3 DEF RequestSent, RequestPart
<1>9. PICK q \in ConsolePoll : /\ polls' = (polls \ {p}) \cup {q} /\ PartOf(q, s) = next
                               /\ \A r \in RequestSide \ {s} : PartOf(q, r) = PartOf(p, r)
  <2> HIDE DEF next
  <2> QED
    BY <1>1, <1>2, <1>5, PollBecomes
<1>10. passes => next.session = part.session /\ next.secret = part.secret /\ next.phase = "passed"
  BY <1>3 DEF RequestPart
<1>11. ~passes => next.phase = "denied"
  BY DEF RequestSent
<1>12. ConsoleShape'
  <2>1. Refreshing(next) => next.session # 0
    BY <1>3, <1>10, <1>11 DEF Refreshing
  <2> HIDE DEF next
  <2> QED
    BY <1>1, <1>2, <1>7, <1>9, <2>1, ShapeGoesOn DEF ConsoleShape, ConsoleTypeOK
<1>13. EntryInv'
  BY <1>1, EntryStands DEF ConsoleInv, EntryInv, pageVars, entryVars
<1>14. SessionInv'
  <2>1. ASSUME ~consolePast.met PROVE passes
    <3>1. RefreshHolds /\ OutRevoked
      BY <2>1 DEF ConsoleInv, SessionInv
    <3> QED
      BY <1>1, <1>4, <3>1 DEF RefreshHolds, OutRevoked, Refreshing, Presented
  <2>2. CASE passes
    <3>1. sessionRows' = sessionRows
      <4>1. sessionRows[part.session].revoked = FALSE
        BY <1>4, <1>6, <2>2
      <4> HIDE DEF part
      <4> QED
        BY <1>1, <1>4, <1>6, <2>2, <4>1
    <3>2. next.session = part.session /\ next.secret = part.secret /\ next.phase = "passed"
      BY <1>10, <2>2
    <3> HIDE DEF next, passes
    <3> QED
      BY <1>1, <1>9, <3>1, <3>2, RefresherGoesOn DEF ConsoleInv, Refreshing
  <2>3. CASE ~passes
    BY <1>1, <2>1, <2>3 DEF SessionInv
  <2> QED
    BY <2>2, <2>3
<1> QED
  BY <1>12, <1>13, <1>14 DEF ConsoleInv

LEMMA SavesKeeps ==
  ASSUME ConsoleInv, NEW p \in polls, NEW s \in RequestSide, refreshSaves(p, s)
  PROVE  ConsoleInv'
<1> DEFINE part == PartOf(p, s)
           next == [part EXCEPT !.phase = "rotated", !.secret = minted + 1]
<1>1. /\ part.phase = "passed" /\ Becomes(p, s, next) /\ minted < LastSecret /\ minted' = minted + 1
      /\ sessionRows' = [sessionRows EXCEPT ![part.session] = [secret |-> minted + 1, revoked |-> FALSE]]
      /\ UNCHANGED <<pageVars, entryVars, configured, jar, consolePast, consoleScope>>
  BY DEF refreshSaves
<1>2. p \in ConsolePoll /\ ConsoleShape
  BY DEF ConsoleInv, ConsoleShape
<1>3. part \in RequestPart /\ part.session # 0
  BY <1>1, <1>2, PartsAre DEF ConsoleShape, Refreshing
<1>4. minted \in Nat /\ minted + 1 \in 0..LastSecret /\ minted + 1 # 0
  BY <1>1, <1>2, ConsoleAssumption DEF ConsoleShape, ConsoleTypeOK
<1>5. next \in RequestPart /\ next.phase = "rotated" /\ next.session = part.session
      /\ next.secret = minted + 1
  BY <1>3, <1>4 DEF RequestPart
<1>6. sessionRows' \in [ConsoleSession -> [secret : 0..LastSecret, revoked : BOOLEAN]]
  <2> HIDE DEF part
  <2> QED
    BY <1>1, <1>2, <1>4 DEF ConsoleShape, ConsoleTypeOK
<1> HIDE DEF next
<1>7. PICK q \in ConsolePoll : /\ polls' = (polls \ {p}) \cup {q} /\ PartOf(q, s) = next
                               /\ \A r \in RequestSide \ {s} : PartOf(q, r) = PartOf(p, r)
  BY <1>1, <1>2, <1>5, PollBecomes
<1>8. ConsoleShape'
  BY <1>1, <1>2, <1>3, <1>4, <1>5, <1>6, <1>7, ShapeGoesOn DEF ConsoleShape, ConsoleTypeOK
<1>9. EntryInv'
  BY <1>1, EntryStands DEF ConsoleInv, EntryInv, pageVars, entryVars
<1>10. SessionInv'
  BY <1>1, <1>4, <1>5, <1>7, RefreshSaved DEF Refreshing
<1> QED
  BY <1>8, <1>9, <1>10 DEF ConsoleInv

LEMMA CookiesKeep ==
  ASSUME ConsoleInv, NEW p \in polls, NEW s \in RequestSide, setAdminSessionCookies(p, s)
  PROVE  ConsoleInv'
<1> DEFINE part == PartOf(p, s)
           next == [RequestSent EXCEPT !.phase = "again"]
<1>1. /\ part.phase = "rotated" /\ Becomes(p, s, next)
      /\ jar' = [access |-> part.session, session |-> part.session, secret |-> part.secret]
      /\ UNCHANGED <<pageVars, entryVars, tableVars, consolePast, consoleScope>>
  BY DEF setAdminSessionCookies
<1>2. p \in ConsolePoll /\ ConsoleShape
  BY DEF ConsoleInv, ConsoleShape
<1>3. part \in RequestPart
  BY <1>2, PartsAre
<1>4. next \in RequestPart /\ next.phase = "again"
  BY ConsoleAssumption DEF RequestPart, RequestSent
<1>5. jar' \in [access : 0..MaxConsoleSessions, session : 0..MaxConsoleSessions, secret : 0..LastSecret]
      /\ jar'.access = jar'.session
  BY <1>1, <1>3 DEF RequestPart
<1> HIDE DEF next
<1>6. PICK q \in ConsolePoll : /\ polls' = (polls \ {p}) \cup {q} /\ PartOf(q, s) = next
                               /\ \A r \in RequestSide \ {s} : PartOf(q, r) = PartOf(p, r)
  BY <1>1, <1>2, <1>4, PollBecomes
<1>7. ConsoleShape'
  BY <1>1, <1>2, <1>4, <1>5, <1>6, ShapeGoesOn DEF ConsoleShape, ConsoleTypeOK, Refreshing, tableVars
<1>8. EntryInv'
  BY <1>1, EntryStands DEF ConsoleInv, EntryInv, pageVars, entryVars
<1>9. SessionInv'
  BY <1>1, <1>4, <1>6, RefreshEnds DEF Refreshing, tableVars
<1> QED
  BY <1>7, <1>8, <1>9 DEF ConsoleInv

(* A request ends that does not refresh: it was sent again, or the network  *)
(* failed; when the answer with the new cookies is lost, refreshes met.     *)
LEMMA PartEnds ==
  ASSUME ConsoleInv, NEW p \in polls, NEW s \in RequestSide, NEW next \in RequestPart,
         Becomes(p, s, next), ~Refreshing(next), Refreshing(PartOf(p, s)) => consolePast'.met,
         UNCHANGED <<pageVars, entryVars, tableVars, jar, consoleScope>>,
         consolePast' \in [out : SUBSET ConsoleSession, met : BOOLEAN, unread : BOOLEAN, retried : BOOLEAN],
         consolePast'.out = consolePast.out, consolePast.met => consolePast'.met,
         consolePast'.unread = consolePast.unread, consolePast'.retried = consolePast.retried
  PROVE  ConsoleInv'
<1>1. p \in ConsolePoll /\ ConsoleShape
  BY DEF ConsoleInv, ConsoleShape
<1>2. PICK q \in ConsolePoll : /\ polls' = (polls \ {p}) \cup {q} /\ PartOf(q, s) = next
                               /\ \A r \in RequestSide \ {s} : PartOf(q, r) = PartOf(p, r)
  BY <1>1, PollBecomes
<1>3. ConsoleShape'
  BY <1>1, <1>2, ShapeGoesOn DEF ConsoleShape, ConsoleTypeOK, tableVars
<1>4. EntryInv'
  BY EntryStands DEF ConsoleInv, EntryInv, pageVars, entryVars
<1>5. CASE consolePast'.met
  BY <1>3, <1>4, <1>5 DEF ConsoleInv, SessionInv
<1>6. CASE ~Refreshing(PartOf(p, s))
  <2>1. SessionInv'
    BY <1>2, <1>6, RefresherGoesOn DEF ConsoleInv, tableVars
  <2> QED
    BY <1>3, <1>4, <2>1 DEF ConsoleInv
<1> QED
  BY <1>5, <1>6

LEMMA AgainKeeps ==
  ASSUME ConsoleInv, NEW p \in polls, NEW s \in RequestSide, SentAgain(p, s)
  PROVE  ConsoleInv'
<1> DEFINE next == [RequestSent EXCEPT !.phase = IF Admitted THEN "ok" ELSE "denied"]
<1>1. next \in RequestPart /\ ~Refreshing(next)
  BY ConsoleAssumption DEF RequestPart, RequestSent, Refreshing
<1>2. Becomes(p, s, next) /\ PartOf(p, s).phase = "again"
      /\ UNCHANGED <<pageVars, entryVars, tableVars, jar, consolePast, consoleScope>>
  BY DEF SentAgain
<1>3. consolePast \in [out : SUBSET ConsoleSession, met : BOOLEAN, unread : BOOLEAN, retried : BOOLEAN]
  BY DEF ConsoleInv, ConsoleShape
<1> HIDE DEF next
<1> QED
  BY <1>1, <1>2, <1>3, PartEnds DEF Refreshing

LEMMA UnansweredKeeps ==
  ASSUME ConsoleInv, NEW p \in polls, NEW s \in RequestSide, Unanswered(p, s)
  PROVE  ConsoleInv'
<1> DEFINE next == [RequestSent EXCEPT !.phase = "failed"]
<1>1. next \in RequestPart /\ ~Refreshing(next)
  BY ConsoleAssumption DEF RequestPart, RequestSent, Refreshing
<1>2. Becomes(p, s, next) /\ PartOf(p, s).phase \in {"sent", "rotated", "again"}
      /\ consolePast' = [consolePast EXCEPT !.met = @ \/ PartOf(p, s).phase = "rotated"]
      /\ UNCHANGED <<pageVars, entryVars, tableVars, jar, consoleScope>>
  BY DEF Unanswered
<1>3. consolePast \in [out : SUBSET ConsoleSession, met : BOOLEAN, unread : BOOLEAN, retried : BOOLEAN]
  BY DEF ConsoleInv, ConsoleShape
<1>4. consolePast' \in [out : SUBSET ConsoleSession, met : BOOLEAN, unread : BOOLEAN, retried : BOOLEAN]
      /\ consolePast'.out = consolePast.out /\ (consolePast.met => consolePast'.met)
      /\ consolePast'.unread = consolePast.unread /\ consolePast'.retried = consolePast.retried
      /\ (PartOf(p, s).phase = "rotated" => consolePast'.met)
  BY <1>2, <1>3
<1>5. Refreshing(PartOf(p, s)) => consolePast'.met
  BY <1>2, <1>4 DEF Refreshing
<1> HIDE DEF next
<1> QED
  BY <1>1, <1>2, <1>4, <1>5, PartEnds

(* What a step of the page leaves alone.                                    *)
LEMMA PageStep ==
  ASSUME ConsoleInv, UNCHANGED <<jar, sessionRows, minted>>, consolePast'.out = consolePast.out,
         consolePast'.met = consolePast.met,
         polls' \subseteq ConsolePoll,
         \A p \in polls' : \A s \in RequestSide : Refreshing(PartOf(p, s)) => p \in polls,
         \A p \in polls : \A s \in RequestSide : Refreshing(PartOf(p, s)) => p \in polls'
  PROVE  SessionInv'
         /\ \A p \in polls' : \A s \in RequestSide : Refreshing(PartOf(p, s)) => PartOf(p, s).session # 0
<1>1. SessionInv'
  BY RefreshersStay DEF ConsoleInv
<1> QED
  BY <1>1 DEF ConsoleInv, ConsoleShape

LEMMA PollIsNew ==
  ASSUME mounts \in Nat, NEW kind \in {"load", "pulse"}
  PROVE  /\ Poll(kind) \in ConsolePoll /\ [Poll(kind) EXCEPT !.mount = mounts] \in ConsolePoll
         /\ \A s \in RequestSide : ~Refreshing(PartOf(Poll(kind), s))
         /\ \A s \in RequestSide : ~Refreshing(PartOf([Poll(kind) EXCEPT !.mount = mounts], s))
<1>1. RequestSent \in RequestPart /\ ~Refreshing(RequestSent)
  BY ConsoleAssumption DEF RequestPart, RequestSent, Refreshing
<1> QED
  BY <1>1 DEF Poll, ConsolePoll, PartOf

LEMMA TheScope ==
  ASSUME ConsoleInv
  PROVE  /\ consoleScope.mounts \in Nat /\ mounts \in Nat /\ minted \in Nat
         /\ consolePast.out \subseteq ConsoleSession /\ consolePast.met \in BOOLEAN
         /\ consolePast.unread \in BOOLEAN
         /\ consolePast.retried \in BOOLEAN
BY ConsoleAssumption DEF ConsoleInv, ConsoleShape, ConsoleTypeOK

(* Entering the portal starts a poll at most, which does not refresh.       *)
LEMMA PortalPolls ==
  ASSUME ConsoleInv, ToPortal
  PROVE  /\ page' = "portal" /\ wizard' = "none" /\ mounts' \in 0..consoleScope.mounts
         /\ polls' \subseteq ConsolePoll
         /\ \A p \in polls' : \A s \in RequestSide : Refreshing(PartOf(p, s)) => p \in polls
         /\ polls \subseteq polls'
<1>1. mounts \in 0..consoleScope.mounts /\ polls \subseteq ConsolePoll /\ consoleScope.mounts \in Nat
      /\ mounts \in Nat
  BY TheScope DEF ConsoleInv, ConsoleShape, ConsoleTypeOK
<1>2. Poll("load") \in ConsolePoll /\ \A s \in RequestSide : ~Refreshing(PartOf(Poll("load"), s))
  BY <1>1, PollIsNew
<1> HIDE DEF Poll
<1>3. CASE page = "portal"
  BY <1>1, <1>3 DEF ToPortal
<1>4. CASE page # "portal"
  <2>1. mounts' = mounts + 1 /\ mounts < consoleScope.mounts
    BY <1>4 DEF ToPortal
  <2>2. polls' = polls \/ polls' = polls \cup {Poll("load")}
    BY <1>4 DEF ToPortal
  <2> QED
    BY <1>1, <1>2, <2>1, <2>2 DEF ToPortal
<1> QED
  BY <1>3, <1>4

LEMMA StatusKeeps ==
  ASSUME ConsoleInv, NEW answer \in {"offline", "configured", "ready"}, fetchSetupStatus(answer)
  PROVE  ConsoleInv'
<1>1. UNCHANGED <<configured, sessionRows, minted, jar, polls, consolePast, consoleScope>>
  BY DEF fetchSetupStatus, tableVars
<1>2. SessionInv'
  BY <1>1, PageStep DEF ConsoleInv, ConsoleShape
<1>3. setupState' = answer /\ "status" \in entries
  BY DEF fetchSetupStatus
<1>4. entries = {"status"} /\ ConsoleTypeOK
  BY <1>3 DEF ConsoleInv, EntryInv, ConsoleShape
<1>5. CASE answer = "configured"
  <2>1. entries' = {"me"} /\ UNCHANGED <<page, wizard, mounts>>
    BY <1>4, <1>5 DEF fetchSetupStatus, pageVars
  <2>2. EntryInv'
    BY <1>1, <1>3, <2>1 DEF ConsoleInv, EntryInv
  <2>3. ConsoleShape'
    BY <1>1, <1>3, <2>1 DEF ConsoleInv, ConsoleShape, ConsoleTypeOK
  <2> QED
    BY <1>2, <2>2, <2>3 DEF ConsoleInv
<1>6. CASE answer = "ready"
  <2>1. entries' = {} /\ page' = "setup" /\ wizard' = (IF page = "setup" THEN wizard ELSE "initialize")
        /\ mounts' = mounts
    BY <1>4, <1>6 DEF fetchSetupStatus
  <2>2. EntryInv'
    BY <1>1, <1>3, <2>1 DEF ConsoleInv, EntryInv
  <2>3. ConsoleShape'
    BY <1>1, <1>3, <2>1 DEF ConsoleInv, ConsoleShape, ConsoleTypeOK
  <2> QED
    BY <1>2, <2>2, <2>3 DEF ConsoleInv
<1>7. CASE answer = "offline"
  <2>1. entries' = {} /\ page' = "login" /\ wizard' = (IF page = "login" THEN wizard ELSE "password")
        /\ mounts' = mounts
    BY <1>4, <1>7 DEF fetchSetupStatus, ToLogin
  <2>2. EntryInv'
    BY <1>1, <1>3, <2>1 DEF ConsoleInv, EntryInv
  <2>3. ConsoleShape'
    BY <1>1, <1>3, <2>1 DEF ConsoleInv, ConsoleShape, ConsoleTypeOK
  <2> QED
    BY <1>2, <2>2, <2>3 DEF ConsoleInv
<1> QED
  BY <1>5, <1>6, <1>7

LEMMA EntryKeeps ==
  ASSUME ConsoleInv, resolveEntry
  PROVE  ConsoleInv'
<1>1. UNCHANGED <<configured, sessionRows, minted, setupState, jar, consoleScope>> /\ "me" \in entries
      /\ entries' = entries \ {"me"}
  BY DEF resolveEntry, tableVars
<1>2. entries = {"me"} /\ entries' = {} /\ ConsoleTypeOK
  BY <1>1 DEF ConsoleInv, EntryInv, ConsoleShape
<1>3. wizard = "recovery-pin" => consolePast.retried
  BY <1>2 DEF ConsoleInv, EntryInv
<1>4. CASE ToPortal
      /\ consolePast' = [consolePast EXCEPT !.unread = @ \/ (wizard = "recovery-pin" /\ ~consolePast.retried)]
  <2>1. consolePast' = consolePast
    BY <1>3, <1>4 DEF ConsoleInv, ConsoleShape
  <2>2. SessionInv'
        /\ \A p \in polls' : \A s \in RequestSide : Refreshing(PartOf(p, s)) => PartOf(p, s).session # 0
    BY <1>1, <1>4, <2>1, PortalPolls, PageStep
  <2>3. page' = "portal" /\ wizard' = "none" /\ mounts' \in 0..consoleScope.mounts
        /\ polls' \subseteq ConsolePoll
    BY <1>4, PortalPolls
  <2>4. ConsoleShape'
    BY <1>1, <1>2, <2>1, <2>2, <2>3 DEF ConsoleInv, ConsoleShape, ConsoleTypeOK
  <2>5. EntryInv'
    BY <1>2, <2>1, <2>3 DEF ConsoleInv, EntryInv
  <2> QED
    BY <2>2, <2>4, <2>5 DEF ConsoleInv
<1>5. CASE ToLogin /\ UNCHANGED <<polls, consolePast>>
  <2>1. page' = "login" /\ wizard' = (IF page = "login" THEN wizard ELSE "password") /\ mounts' = mounts
    BY <1>5 DEF ToLogin
  <2>2. SessionInv'
    BY <1>1, <1>5, PageStep DEF ConsoleInv, ConsoleShape
  <2>3. ConsoleShape'
    BY <1>1, <1>2, <1>5, <2>1 DEF ConsoleInv, ConsoleShape, ConsoleTypeOK
  <2>4. EntryInv'
    BY <1>2, <1>5, <2>1 DEF ConsoleInv, EntryInv
  <2> QED
    BY <2>2, <2>3, <2>4 DEF ConsoleInv
<1> QED
  BY <1>4, <1>5 DEF resolveEntry

LEMMA RetryKeeps ==
  ASSUME ConsoleInv, RetryLink
  PROVE  ConsoleInv'
<1>1. UNCHANGED <<page, wizard, mounts, configured, sessionRows, minted, setupState, jar, polls,
      consoleScope>>
      /\ entries' = {"status"} /\ consolePast' = [consolePast EXCEPT !.retried = TRUE]
  BY DEF RetryLink, pageVars, tableVars
<1>2. consolePast'.out = consolePast.out /\ consolePast'.met = consolePast.met /\ consolePast'.retried
      /\ consolePast'.unread = consolePast.unread
      /\ consolePast' \in [out : SUBSET ConsoleSession, met : BOOLEAN, unread : BOOLEAN, retried : BOOLEAN]
  BY <1>1 DEF ConsoleInv, ConsoleShape
<1>3. SessionInv'
  BY <1>1, <1>2, PageStep DEF ConsoleInv, ConsoleShape
<1>4. ConsoleShape'
  BY <1>1, <1>2 DEF ConsoleInv, ConsoleShape, ConsoleTypeOK
<1>5. EntryInv'
  BY <1>1, <1>2 DEF ConsoleInv, EntryInv
<1> QED
  BY <1>3, <1>4, <1>5 DEF ConsoleInv

(* A step of the setup or the login that opens no session.                  *)
LEMMA WizardKeeps ==
  ASSUME ConsoleInv, UNCHANGED <<entries, setupState, sessionRows, minted, jar, polls, mounts, page,
         consolePast, consoleScope>>,
         configured' \in BOOLEAN,
         wizard' = wizard \/ wizard' \in {"initialize", "check", "administrator", "totp", "enroll", "recover"}
  PROVE  ConsoleInv'
<1>1. SessionInv'
  BY PageStep DEF ConsoleInv, ConsoleShape
<1>2. ConsoleShape'
  BY DEF ConsoleInv, ConsoleShape, ConsoleTypeOK
<1>3. EntryInv'
  BY DEF ConsoleInv, EntryInv
<1> QED
  BY <1>1, <1>2, <1>3 DEF ConsoleInv

(* The portal is entered after the setup or with the PIN.                   *)
LEMMA PortalKeeps ==
  ASSUME ConsoleInv, page # "boot", ToPortal,
         UNCHANGED <<entryVars, tableVars, jar, consolePast, consoleScope>>
  PROVE  ConsoleInv'
<1>1. SessionInv'
      /\ \A p \in polls' : \A s \in RequestSide : Refreshing(PartOf(p, s)) => PartOf(p, s).session # 0
  BY PortalPolls, PageStep DEF tableVars
<1>2. page' = "portal" /\ wizard' = "none" /\ mounts' \in 0..consoleScope.mounts
      /\ polls' \subseteq ConsolePoll
  BY PortalPolls
<1>3. ConsoleShape'
  BY <1>1, <1>2 DEF ConsoleInv, ConsoleShape, ConsoleTypeOK, entryVars, tableVars
<1>4. EntryInv'
  BY <1>2 DEF ConsoleInv, EntryInv, entryVars
<1> QED
  BY <1>1, <1>3, <1>4 DEF ConsoleInv

LEMMA OpenedShape ==
  ASSUME ConsoleInv, NEW t \in ConsoleSession, OpensSession(t)
  PROVE  /\ sessionRows' \in [ConsoleSession -> [secret : 0..LastSecret, revoked : BOOLEAN]]
         /\ minted' \in 0..LastSecret
         /\ jar' \in [access : 0..MaxConsoleSessions, session : 0..MaxConsoleSessions, secret : 0..LastSecret]
         /\ jar'.access = jar'.session
<1>1. minted \in 0..LastSecret
      /\ sessionRows \in [ConsoleSession -> [secret : 0..LastSecret, revoked : BOOLEAN]]
      /\ minted < LastSecret /\ minted' = minted + 1
      /\ sessionRows' = [sessionRows EXCEPT ![t].secret = minted + 1]
      /\ jar' = [access |-> t, session |-> t, secret |-> minted + 1]
  BY DEF ConsoleInv, ConsoleShape, ConsoleTypeOK, OpensSession
<1>2. minted + 1 \in 0..LastSecret /\ t \in 0..MaxConsoleSessions
  BY <1>1, ConsoleAssumption DEF ConsoleSession
<1> QED
  BY <1>1, <1>2

LEMMA InitializeKeeps ==
  ASSUME ConsoleInv, NEW t \in ConsoleSession, initializeSystem(t)
  PROVE  ConsoleInv'
<1>1. OpensSession(t) /\ configured' = TRUE /\ page = "setup" /\ wizard' = "ready"
      /\ UNCHANGED <<entries, setupState, page, polls, mounts, consolePast, consoleScope>>
  BY DEF initializeSystem, entryVars
<1>2. SessionInv'
  BY <1>1, SessionOpens
<1>3. ConsoleShape'
  BY <1>1, OpenedShape DEF ConsoleInv, ConsoleShape, ConsoleTypeOK
<1>4. EntryInv'
  BY <1>1 DEF ConsoleInv, EntryInv
<1> QED
  BY <1>2, <1>3, <1>4 DEF ConsoleInv

LEMMA MfaKeeps ==
  ASSUME ConsoleInv, NEW t \in ConsoleSession, submitMfa(t)
  PROVE  ConsoleInv'
<1>1. OpensSession(t) /\ page = "login" /\ wizard \in {"totp", "enroll"}
      /\ UNCHANGED <<entries, setupState, configured, consoleScope>>
      /\ consolePast' = [consolePast EXCEPT !.retried = @ /\ entries # {}]
  BY DEF submitMfa, entryVars
<1>2. consolePast'.out = consolePast.out /\ consolePast'.unread = consolePast.unread
      /\ consolePast'.retried = (consolePast.retried /\ entries # {})
      /\ consolePast' \in [out : SUBSET ConsoleSession, met : BOOLEAN, unread : BOOLEAN, retried : BOOLEAN]
  BY <1>1 DEF ConsoleInv, ConsoleShape
<1>3. /\ polls' \subseteq ConsolePoll /\ polls \subseteq polls'
      /\ \A p \in polls' : \A s \in RequestSide : Refreshing(PartOf(p, s)) => p \in polls
      /\ mounts' \in 0..consoleScope.mounts
      /\ (page' = "login" /\ wizard' = "recovery-pin") \/ (page' = "portal" /\ wizard' = "none")
  <2>1. CASE wizard = "enroll"
    <3>1. wizard' = "recovery-pin" /\ UNCHANGED <<page, polls, mounts>>
      BY <2>1 DEF submitMfa
    <3> QED
      BY <1>1, <3>1 DEF ConsoleInv, ConsoleShape, ConsoleTypeOK
  <2>2. CASE wizard # "enroll"
    <3>1. ToPortal
      BY <2>2 DEF submitMfa
    <3> QED
      BY <3>1, PortalPolls
  <2> QED
    BY <2>1, <2>2
<1>4. SessionInv'
  BY <1>1, <1>2, <1>3, SessionOpens
<1>5. \A p \in polls' : \A s \in RequestSide : Refreshing(PartOf(p, s)) => PartOf(p, s).session # 0
  BY <1>3 DEF ConsoleInv, ConsoleShape
<1>6. ConsoleShape'
  BY <1>1, <1>2, <1>3, <1>5, OpenedShape DEF ConsoleInv, ConsoleShape, ConsoleTypeOK
<1>7. EntryInv'
  BY <1>1, <1>2, <1>3 DEF ConsoleInv, EntryInv
<1> QED
  BY <1>4, <1>6, <1>7 DEF ConsoleInv

(* A poll that has ended goes; the page shows the login or stays.           *)
LEMMA LoadKeeps ==
  ASSUME ConsoleInv, NEW p \in polls, {p.first.phase, p.second.phase} \subseteq Finished,
         polls' = polls \ {p},
         ToLogin \/ UNCHANGED pageVars, UNCHANGED <<entryVars, tableVars, jar, consolePast, consoleScope>>
  PROVE  ConsoleInv'
<1>1. \A s \in RequestSide : ~Refreshing(PartOf(p, s))
  BY DEF Finished, Refreshing, PartOf
<1>2. polls' \subseteq ConsolePoll /\ page # "boot"
  BY DEF ConsoleInv, ConsoleShape, EntryInv
<1>3. SessionInv'
  BY <1>1, <1>2, PageStep DEF tableVars
<1>4. ConsoleShape'
  BY <1>2 DEF ConsoleInv, ConsoleShape, ConsoleTypeOK, ToLogin, pageVars, entryVars, tableVars
<1>5. EntryInv'
  BY <1>2 DEF ConsoleInv, EntryInv, ToLogin, pageVars, entryVars
<1> QED
  BY <1>3, <1>4, <1>5 DEF ConsoleInv

LEMMA PulseKeeps ==
  ASSUME ConsoleInv, NEW p \in polls, refreshSystemPulse(p)
  PROVE  ConsoleInv'
<1>1. ToLogin \/ UNCHANGED pageVars
  BY DEF refreshSystemPulse
<1>2. UNCHANGED <<entryVars, tableVars, jar, consolePast, consoleScope>>
  BY DEF refreshSystemPulse
<1>3. CASE {p.first.phase, p.second.phase} \subseteq Finished
  <2>1. polls' = polls \ {p}
    BY <1>3 DEF refreshSystemPulse
  <2> QED
    BY <1>1, <1>2, <1>3, <2>1, LoadKeeps
<1>4. CASE ~({p.first.phase, p.second.phase} \subseteq Finished)
  <2> DEFINE q == [p EXCEPT !.kind = "unheeded"]
  <2>1. polls' = (polls \ {p}) \cup {q}
    BY <1>4 DEF refreshSystemPulse
  <2>2. p \in ConsolePoll
    BY DEF ConsoleInv, ConsoleShape
  <2>3. q \in ConsolePoll /\ q.first = p.first /\ q.second = p.second
    BY <2>2 DEF ConsolePoll
  <2> HIDE DEF q
  <2>4. \A s \in RequestSide : PartOf(q, s) = PartOf(p, s)
    BY <2>3 DEF PartOf
  <2>5. SessionInv'
    BY <1>2, <2>1, <2>4, RefresherGoesOn DEF ConsoleInv, tableVars
  <2>6. polls' \subseteq ConsolePoll /\ page # "boot"
    BY <2>1, <2>3 DEF ConsoleInv, ConsoleShape, EntryInv
  <2>7. \A a \in polls' : \A s \in RequestSide : Refreshing(PartOf(a, s)) => PartOf(a, s).session # 0
    BY <2>1, <2>4 DEF ConsoleInv, ConsoleShape
  <2>8. ConsoleShape'
    BY <1>1, <1>2, <2>6, <2>7 DEF ConsoleInv, ConsoleShape, ConsoleTypeOK, ToLogin, pageVars, entryVars,
       tableVars
  <2>9. EntryInv'
    BY <1>1, <1>2, <2>6 DEF ConsoleInv, EntryInv, ToLogin, pageVars, entryVars
  <2> QED
    BY <2>5, <2>8, <2>9 DEF ConsoleInv
<1> QED
  BY <1>3, <1>4

LEMMA DueKeeps ==
  ASSUME ConsoleInv, PulseDue
  PROVE  ConsoleInv'
<1> DEFINE q == [Poll("pulse") EXCEPT !.mount = mounts]
<1>1. polls' = polls \cup {q} /\ page = "portal"
      /\ UNCHANGED <<pageVars, entryVars, tableVars, jar, consolePast, consoleScope>>
  BY DEF PulseDue
<1>2. q \in ConsolePoll /\ \A s \in RequestSide : ~Refreshing(PartOf(q, s))
  BY TheScope, PollIsNew
<1> HIDE DEF q
<1>3. polls' \subseteq ConsolePoll
  BY <1>1, <1>2 DEF ConsoleInv, ConsoleShape
<1>4. SessionInv'
      /\ \A p \in polls' : \A s \in RequestSide : Refreshing(PartOf(p, s)) => PartOf(p, s).session # 0
  BY <1>1, <1>2, <1>3, PageStep DEF tableVars
<1>5. ConsoleShape'
  BY <1>1, <1>3, <1>4 DEF ConsoleInv, ConsoleShape, ConsoleTypeOK, pageVars, entryVars, tableVars
<1>6. EntryInv'
  BY <1>1 DEF ConsoleInv, EntryInv, pageVars, entryVars
<1> QED
  BY <1>4, <1>5, <1>6 DEF ConsoleInv

LEMMA ExpiryKeeps ==
  ASSUME ConsoleInv, AccessExpires
  PROVE  ConsoleInv'
<1>1. jar' = [jar EXCEPT !.access = 0]
      /\ UNCHANGED <<pageVars, entryVars, tableVars, polls, consolePast, consoleScope>>
  BY DEF AccessExpires
<1>2. jar' \in [access : 0..MaxConsoleSessions, session : 0..MaxConsoleSessions, secret : 0..LastSecret]
      /\ jar'.access = 0 /\ jar'.session = jar.session /\ jar'.secret = jar.secret
  BY <1>1, ConsoleAssumption DEF ConsoleInv, ConsoleShape, ConsoleTypeOK
<1>3. SessionInv'
  BY <1>1, <1>2, RefreshersStay DEF ConsoleInv, tableVars
<1>4. ConsoleShape'
  BY <1>1, <1>2 DEF ConsoleInv, ConsoleShape, ConsoleTypeOK, pageVars, entryVars, tableVars
<1>5. EntryInv'
  BY <1>1 DEF ConsoleInv, EntryInv, pageVars, entryVars
<1> QED
  BY <1>3, <1>4, <1>5 DEF ConsoleInv

LEMMA LogoutKeeps ==
  ASSUME ConsoleInv, ConsoleLogout
  PROVE  ConsoleInv'
<1>1. page = "portal" /\ page' = "login" /\ wizard' = "password" /\ mounts' = mounts
      /\ UNCHANGED <<entryVars, configured, minted, polls, consoleScope>>
  BY DEF ConsoleLogout, ToLogin
<1>2. CASE Admitted
  <2>1. /\ sessionRows' = [sessionRows EXCEPT ![jar.access].revoked = TRUE] /\ jar' = NoCookies
        /\ consolePast' = [consolePast EXCEPT !.out = @ \cup {jar.access},
                                              !.met = @ \/ \E p \in polls : Refreshing(p.first)
                                                 \/ Refreshing(p.second)]
    BY <1>2 DEF ConsoleLogout
  <2>2. jar.access \in ConsoleSession
    BY <1>2, ConsoleAssumption DEF ConsoleInv, ConsoleShape, ConsoleTypeOK, ConsoleSession, Admitted
  <2>3. consolePast' \in [out : SUBSET ConsoleSession, met : BOOLEAN, unread : BOOLEAN, retried : BOOLEAN]
        /\ consolePast'.unread = consolePast.unread /\ consolePast'.retried = consolePast.retried
        /\ consolePast'.out = consolePast.out \cup {jar.access}
        /\ consolePast'.met = (consolePast.met \/ \E p \in polls : Refreshing(p.first)
           \/ Refreshing(p.second))
    BY <2>1, <2>2 DEF ConsoleInv, ConsoleShape
  <2>4. SessionInv'
    BY <1>1, <1>2, <2>1, <2>3, SessionEnds
  <2>5. sessionRows' \in [ConsoleSession -> [secret : 0..LastSecret, revoked : BOOLEAN]]
    BY <2>1, <2>2 DEF ConsoleInv, ConsoleShape, ConsoleTypeOK
  <2>6. ConsoleShape'
    <3>1. jar' \in [access : 0..MaxConsoleSessions, session : 0..MaxConsoleSessions, secret : 0..LastSecret]
          /\ jar'.access = jar'.session
      BY <2>1, ConsoleAssumption DEF NoCookies
    <3> QED
      BY <1>1, <2>3, <2>5, <3>1 DEF ConsoleInv, ConsoleShape, ConsoleTypeOK, entryVars
  <2>7. EntryInv'
    BY <1>1, <2>3 DEF ConsoleInv, EntryInv, entryVars
  <2> QED
    BY <2>4, <2>6, <2>7 DEF ConsoleInv
<1>3. CASE ~Admitted
  <2>1. UNCHANGED <<sessionRows, jar, consolePast>>
    BY <1>3 DEF ConsoleLogout
  <2>2. SessionInv'
    BY <1>1, <2>1, PageStep DEF ConsoleInv, ConsoleShape
  <2>3. ConsoleShape'
    BY <1>1, <2>1 DEF ConsoleInv, ConsoleShape, ConsoleTypeOK, entryVars
  <2>4. EntryInv'
    BY <1>1, <2>1 DEF ConsoleInv, EntryInv, entryVars
  <2> QED
    BY <2>2, <2>3, <2>4 DEF ConsoleInv
<1> QED
  BY <1>2, <1>3

LEMMA ConsoleStep ==
  ASSUME ConsoleInv, [ConsoleNext]_consoleVars
  PROVE  ConsoleInv'
<1>1. CASE UNCHANGED consoleVars
  BY <1>1 DEF consoleVars, pageVars, entryVars, tableVars, ConsoleInv, ConsoleShape, ConsoleTypeOK,
     SessionInv, EntryInv,
              OneRefreshes, RefreshHolds, JarHolds, OutRevoked
<1>2. ASSUME NEW answer \in {"offline", "configured", "ready"}, fetchSetupStatus(answer) PROVE ConsoleInv'
  BY <1>2, StatusKeeps
<1>3. CASE resolveEntry
  BY <1>3, EntryKeeps
<1>4. CASE RetryLink
  BY <1>4, RetryKeeps
<1>5. CASE SetElsewhere
  BY <1>5, WizardKeeps DEF SetElsewhere, pageVars, entryVars
<1>6. CASE SetupComplete \/ ContinueWithPin
  BY <1>6, PortalKeeps DEF SetupComplete, ContinueWithPin
<1>7. ASSUME NEW next \in {"initialize", "check", "administrator"}, SetupExperience(next) PROVE ConsoleInv'
  BY <1>7, WizardKeeps DEF SetupExperience, entryVars, tableVars, ConsoleInv, ConsoleShape, ConsoleTypeOK
<1>8. ASSUME NEW next \in {"totp", "enroll", "recover"}, LoginStep(next) PROVE ConsoleInv'
  BY <1>8, WizardKeeps DEF LoginStep, entryVars, tableVars, ConsoleInv, ConsoleShape, ConsoleTypeOK
<1>9. ASSUME NEW t \in ConsoleSession, initializeSystem(t) \/ submitMfa(t) PROVE ConsoleInv'
  BY <1>9, InitializeKeeps, MfaKeeps
<1>10. ASSUME NEW p \in polls, LoadSettles(p) \/ refreshSystemPulse(p) \/ UnheededEnds(p) PROVE ConsoleInv'
  <2>1. CASE LoadSettles(p)
    <3>1. {p.first.phase, p.second.phase} \subseteq Finished /\ polls' = polls \ {p}
          /\ (ToLogin \/ UNCHANGED pageVars)
          /\ UNCHANGED <<entryVars, tableVars, jar, consolePast, consoleScope>>
      BY <2>1 DEF LoadSettles
    <3> QED
      BY <3>1, LoadKeeps
  <2>2. CASE UnheededEnds(p)
    BY <2>2, LoadKeeps DEF UnheededEnds
  <2> QED
    BY <1>10, <2>1, <2>2, PulseKeeps
<1>11. ASSUME NEW p \in polls, NEW s \in RequestSide,
              \/ sessionFetch(p, s) \/ refreshReads(p, s) \/ refreshSaves(p, s)
              \/ setAdminSessionCookies(p, s) \/ SentAgain(p, s) \/ Unanswered(p, s)
       PROVE  ConsoleInv'
  BY <1>11, FetchKeeps, ReadsKeeps, SavesKeeps, CookiesKeep, AgainKeeps, UnansweredKeeps
<1>12. CASE PulseDue \/ AccessExpires \/ ConsoleLogout
  BY <1>12, DueKeeps, ExpiryKeeps, LogoutKeeps
<1> QED
  BY <1>1, <1>2, <1>3, <1>4, <1>5, <1>6, <1>7, <1>8, <1>9, <1>10, <1>11, <1>12 DEF ConsoleNext, RequestSide

LEMMA ConsoleKept == ConsoleInv => SessionKept /\ PinKept /\ ConsoleTypeOK
<1> SUFFICES ASSUME ConsoleInv PROVE SessionKept /\ PinKept /\ ConsoleTypeOK
  OBVIOUS
<1>1. ASSUME ~consolePast.met, jar.session # 0, \A p \in polls : ~Refreshing(p.first) /\ ~Refreshing(p.second)
      PROVE  sessionRows[jar.session].secret = jar.secret
  BY <1>1 DEF ConsoleInv, SessionInv, JarHolds, PartOf, RequestSide
<1> QED
  BY <1>1 DEF ConsoleInv, SessionInv, OutRevoked, EntryInv, SessionKept, PinKept, ConsoleShape

-----------------------------------------------------------------------------
(* The workspaces.                                                          *)
Handler == {"detail", "list", "write", "saveProfile", "saveRouting", "create", "open", "created", "upload",
   "verify",
            "decided", "reopen", "masters", "rules", "transition", "createRule", "createPolicy", "simulate",
            "decideCase", "report", "settings", "close", "save", "review", "decide", "request", "remove",
            "saveAccess", "lateSave", "resetMfa", "lateReset", "resetList", "refList", "saveReference",
               "deactivate",
            "audit", "firstAudit", "lastAudit", "termsList", "savedTerms", "simulateTerms"}

WsCall == [by : Handler, of : OrNone] \cup {NoCall}
PaneRecord == [selected : OrNone, detail : OrNone, form : OrNone \cup {"default", "stored"}, aside : OrNone,
               editing : BOOLEAN, loading : BOOLEAN, busy : BOOLEAN]
PastShape ==
  /\ wsPast.crossed \in BOOLEAN /\ wsPast.failed \in BOOLEAN
  /\ wsPast = [astray |-> wsPast.astray, crossed |-> wsPast.crossed, failed |-> wsPast.failed]

PaneShape ==
  /\ workspace \in Workspaces \cup {None}
  /\ pane \in PaneRecord
  /\ wsCalls \in [CallSlot -> WsCall]
  /\ PastShape

(* Requests that did not overlap are one at a time.                         *)
OneCall ==
  ~wsPast.crossed =>
    \A s, t \in CallSlot : wsCalls[s] # NoCall /\ wsCalls[t] # NoCall => s = t

Under(handlers) == \E s \in CallSlot : wsCalls[s].by \in handlers
Reading(by, r) == \E s \in CallSlot : wsCalls[s].by = by /\ wsCalls[s].of = r
Orderly == ~wsPast.crossed /\ ~wsPast.failed

DrawerInv ==
  workspace \in {"customers", "transactions"} =>
    /\ pane.selected # None /\ pane.detail # None => pane.detail = pane.selected
    /\ ~pane.busy /\ (pane.loading => Under({"detail"}))
    /\ Orderly /\ pane.selected # None /\ pane.detail = None => Reading("detail", pane.selected)

CustomersInv == InFront("customers") /\ pane.selected # None => pane.form = pane.selected

TransactionsInv ==
  InFront("transactions") /\ Orderly =>
    /\ \A s \in CallSlot : wsCalls[s].by = "list" => wsCalls[s].of = pane.aside
    /\ pane.form # pane.aside => Under({"list"})

KycInv ==
  InFront("kyc") =>
    ~pane.loading /\ (pane.busy => Under({"created", "upload", "verify", "decided", "reopen"}))

PoliciesInv ==
  InFront("credit") =>
    /\ pane.loading => Under({"masters"})
    /\ pane.busy => Under({"simulate"})
    /\ Orderly =>
         /\ \A s \in CallSlot : wsCalls[s].by \in {"rules", "createRule"} => wsCalls[s].of = pane.selected
         /\ pane.selected # None /\ pane.selected # pane.detail => Under({"rules"})

PlainInv == workspace \in {"aml", "builder", None} => pane = Empty

ReportsInv ==
  InFront("accounting") =>
    /\ pane.loading => Under({"report"})
    /\ pane.busy => Under({"save"})
    /\ Orderly =>
         /\ \A s \in CallSlot : wsCalls[s].by = "report" => pane.selected \in {None, wsCalls[s].of}
         /\ pane.selected # None /\ pane.selected # pane.detail => Under({"report"})

SettingsInv ==
  InFront("settings") =>
    /\ pane.loading => Under({"settings"})
    /\ pane.busy => Under({"save"})
    /\ pane.selected = None
    /\ pane.form = "default" /\ ~pane.loading => wsPast.failed

ApprovalsInv ==
  InFront("approvals") =>
    /\ pane.loading => Under({"review"})
    /\ pane.busy => Under({"decide"})
    /\ pane.selected # None => pane.detail \in {None, pane.selected} /\ pane.form \in {None, pane.selected}
    /\ ~wsPast.crossed =>
         /\ \A s \in CallSlot : wsCalls[s].by = "review" => pane.selected \in {None, wsCalls[s].of}
         /\ pane.selected # None /\ pane.detail = None => pane.loading

FundingInv ==
  InFront("funding") =>
    /\ ~pane.loading /\ pane.selected = None
    /\ pane.busy => Under({"upload", "request", "remove"})

AccessInv ==
  InFront("access") =>
    /\ ~pane.loading
    /\ pane.busy <=> Under({"saveAccess"})
    /\ pane.aside # None <=> Under({"resetMfa", "resetList"})
    /\ \A s, t \in CallSlot :
         \/ wsCalls[s].by = "saveAccess" /\ wsCalls[t].by = "saveAccess"
         \/ wsCalls[s].by \in {"resetMfa", "resetList"} /\ wsCalls[t].by \in {"resetMfa", "resetList"}
         => s = t

ReferenceInv ==
  InFront("reference") =>
    /\ pane.loading => Under({"refList"})
    /\ pane.busy => Under({"saveReference"})
    /\ pane.aside # None => Under({"deactivate"})
    /\ ~wsPast.crossed => /\ Under({"saveReference"}) => pane.busy
                          /\ Under({"deactivate"}) => pane.aside # None

TermsInv ==
  InFront("terms") =>
    /\ ~pane.loading
    /\ pane.busy => Under({"termsList", "savedTerms", "firstAudit", "lastAudit", "simulateTerms"})
    /\ Orderly =>
         /\ \A s \in CallSlot :
              /\ wsCalls[s].by = "firstAudit" => pane.selected \in {None, FirstTerms}
              /\ wsCalls[s].by \in {"audit", "lastAudit"} => pane.selected \in {None, wsCalls[s].of}
         /\ pane.selected # None /\ pane.selected # pane.detail => Under({"firstAudit", "audit", "lastAudit"})

WorkInv ==
  /\ PaneShape /\ OneCall /\ DrawerInv /\ CustomersInv /\ TransactionsInv /\ KycInv /\ PoliciesInv /\ PlainInv
  /\ ReportsInv /\ SettingsInv /\ ApprovalsInv /\ FundingInv /\ AccessInv /\ ReferenceInv /\ TermsInv
  /\ WritesOnDisplay

(* A request was sent on slot s, or what was sent there was answered.       *)
IsSent(s, by, r) ==
  /\ wsCalls[s] = NoCall /\ wsCalls'[s] = [by |-> by, of |-> r]
  /\ \A t \in CallSlot \ {s} : wsCalls'[t] = wsCalls[t]
  /\ ~wsPast'.crossed => \A t \in CallSlot : wsCalls[t] = NoCall

IsAnswered(s, next) == wsCalls'[s] = next /\ \A t \in CallSlot \ {s} : wsCalls'[t] = wsCalls[t]

PastGoesOn == wsPast'.failed = wsPast.failed /\ (wsPast.crossed => wsPast'.crossed)

LEMMA Sent ==
  ASSUME PaneShape, OneCall, NEW by \in Handler, NEW r \in OrNone, NEW a,
         Sends(by, r, [wsPast EXCEPT !.astray = a])
  PROVE  /\ wsCalls' \in [CallSlot -> WsCall] /\ OneCall' /\ PastShape' /\ PastGoesOn
         /\ wsPast'.astray = a /\ \E s \in CallSlot : IsSent(s, by, r)
<1> DEFINE s == CHOOSE x \in FreeSlots : \A y \in FreeSlots : x <= y
<1>1. FreeSlots # {} /\ wsCalls' = [wsCalls EXCEPT ![s] = [by |-> by, of |-> r]]
      /\ wsPast' = [[wsPast EXCEPT !.astray = a] EXCEPT !.crossed = @ \/ ~Quiet]
  BY DEF Sends
<1>2. s \in FreeSlots
  <2>1. FreeSlots \in SUBSET Nat
    BY DEF FreeSlots, CallSlot
  <2> QED
    BY <1>1, <2>1, LeastNatural
<1> HIDE DEF s
<1>3. s \in CallSlot /\ wsCalls[s] = NoCall /\ wsCalls \in [CallSlot -> WsCall]
  BY <1>2 DEF FreeSlots, PaneShape
<1>4. [by |-> by, of |-> r] \in WsCall
  BY DEF WsCall
<1>5. wsCalls' \in [CallSlot -> WsCall] /\ wsCalls'[s] = [by |-> by, of |-> r]
      /\ \A t \in CallSlot \ {s} : wsCalls'[t] = wsCalls[t]
  BY <1>1, <1>3, <1>4
<1>6. PastShape' /\ wsPast'.astray = a /\ wsPast'.failed = wsPast.failed
      /\ wsPast'.crossed = (wsPast.crossed \/ ~Quiet)
  BY <1>1 DEF PaneShape, PastShape, Quiet
<1>7. ~wsPast'.crossed => \A t \in CallSlot : wsCalls[t] = NoCall
  BY <1>6 DEF Quiet
<1>8. OneCall'
  BY <1>5, <1>7 DEF OneCall
<1> QED
  BY <1>3, <1>5, <1>6, <1>7, <1>8 DEF IsSent, PastGoesOn

LEMMA SentRead ==
  ASSUME PaneShape, OneCall, NEW by \in Handler, NEW r \in OrNone, Reads(by, r)
  PROVE  /\ wsCalls' \in [CallSlot -> WsCall] /\ OneCall' /\ PastShape' /\ PastGoesOn
         /\ wsPast'.astray = wsPast.astray /\ \E s \in CallSlot : IsSent(s, by, r)
<1>1. wsPast = [wsPast EXCEPT !.astray = wsPast.astray]
  BY DEF PaneShape, PastShape
<1>2. Sends(by, r, [wsPast EXCEPT !.astray = wsPast.astray])
  BY <1>1 DEF Reads
<1> QED
  BY <1>2, Sent

(* A write for what is displayed, and one for what may not be.              *)
LEMMA SentWrite ==
  ASSUME PaneShape, OneCall, NEW by \in Handler, NEW r \in OrNone, NEW handler, NEW displayed,
         Writes(handler, by, r, displayed)
  PROVE  /\ wsCalls' \in [CallSlot -> WsCall] /\ OneCall' /\ PastShape' /\ PastGoesOn
         /\ wsPast'.astray = (IF displayed = {r} THEN wsPast.astray ELSE wsPast.astray \cup {handler})
         /\ \E s \in CallSlot : IsSent(s, by, r)
<1> DEFINE a == IF displayed = {r} THEN wsPast.astray ELSE wsPast.astray \cup {handler}
<1>1. Sends(by, r, [wsPast EXCEPT !.astray = a])
  BY DEF Writes
<1> HIDE DEF a
<1>2. /\ wsCalls' \in [CallSlot -> WsCall] /\ OneCall' /\ PastShape' /\ PastGoesOn
      /\ wsPast'.astray = a /\ \E s \in CallSlot : IsSent(s, by, r)
  BY <1>1, Sent
<1> QED
  BY <1>2 DEF a

(* The answer frees the slot, or the handler goes on with another request.  *)
LEMMA AnswerTaken ==
  ASSUME PaneShape, OneCall, NEW s \in CallSlot, wsCalls[s] # NoCall, NEW next \in WsCall,
         wsCalls' = [wsCalls EXCEPT ![s] = next], wsPast'.crossed = wsPast.crossed
  PROVE  wsCalls' \in [CallSlot -> WsCall] /\ OneCall' /\ IsAnswered(s, next)
<1>1. wsCalls \in [CallSlot -> WsCall]
  BY DEF PaneShape
<1>2. wsCalls' \in [CallSlot -> WsCall] /\ wsCalls'[s] = next
      /\ \A t \in CallSlot \ {s} : wsCalls'[t] = wsCalls[t]
  BY <1>1
<1>3. OneCall'
  BY <1>2 DEF OneCall
<1> QED
  BY <1>2, <1>3 DEF IsAnswered

LEMMA GoesOn ==
  ASSUME PaneShape, OneCall, NEW s \in CallSlot, wsCalls[s] # NoCall, NEW by \in Handler, NEW r \in OrNone,
         Continues(s, by, r), UNCHANGED wsPast
  PROVE  /\ wsCalls' \in [CallSlot -> WsCall] /\ OneCall' /\ IsAnswered(s, [by |-> by, of |-> r])
         /\ PastShape' /\ PastGoesOn /\ wsPast'.astray = wsPast.astray
<1>1. by # None
  BY DEF Handler, None
<1>2. wsCalls' = [wsCalls EXCEPT ![s] = [by |-> by, of |-> r]] /\ [by |-> by, of |-> r] \in WsCall
  BY <1>1 DEF Continues, WsCall
<1> QED
  BY <1>2, AnswerTaken DEF PaneShape, PastShape, PastGoesOn

LEMMA Freed ==
  ASSUME PaneShape, OneCall, NEW s \in CallSlot, wsCalls[s] # NoCall, Answered(s), UNCHANGED wsPast
  PROVE  /\ wsCalls' \in [CallSlot -> WsCall] /\ OneCall' /\ IsAnswered(s, NoCall)
         /\ PastShape' /\ PastGoesOn /\ wsPast'.astray = wsPast.astray
<1>1. wsCalls' = [wsCalls EXCEPT ![s] = NoCall]
  BY DEF Answered, Continues
<1> QED
  BY <1>1, AnswerTaken DEF WsCall, PaneShape, PastShape, PastGoesOn

LEMMA FailureTaken ==
  ASSUME PaneShape, OneCall, NEW s \in CallSlot, wsCalls[s] # NoCall, Fails(s)
  PROVE  /\ wsCalls' \in [CallSlot -> WsCall] /\ OneCall' /\ IsAnswered(s, NoCall) /\ PastShape'
         /\ wsPast'.failed /\ wsPast'.crossed = wsPast.crossed /\ wsPast'.astray = wsPast.astray
<1>1. wsCalls' = [wsCalls EXCEPT ![s] = NoCall] /\ wsPast' = [wsPast EXCEPT !.failed = TRUE]
  BY DEF Fails, Answered, Continues
<1>2. PastShape' /\ wsPast'.failed /\ wsPast'.crossed = wsPast.crossed /\ wsPast'.astray = wsPast.astray
  BY <1>1 DEF PaneShape, PastShape
<1> QED
  BY <1>1, <1>2, AnswerTaken DEF WsCall

(* A request was answered, well or not, and the slot holds what comes next. *)
LEMMA Settled ==
  ASSUME PaneShape, OneCall, NEW s \in CallSlot, wsCalls[s] # NoCall, NEW next \in WsCall,
         NEW well \in BOOLEAN,
         wsCalls' = [wsCalls EXCEPT ![s] = next],
         wsPast' = (IF well THEN wsPast ELSE [wsPast EXCEPT !.failed = TRUE])
  PROVE  /\ wsCalls' \in [CallSlot -> WsCall] /\ OneCall' /\ PastShape' /\ IsAnswered(s, next)
         /\ wsPast'.astray = wsPast.astray /\ wsPast'.crossed = wsPast.crossed
         /\ (wsPast.failed => wsPast'.failed) /\ (well \/ wsPast'.failed)
<1>1. /\ PastShape' /\ wsPast'.astray = wsPast.astray /\ wsPast'.crossed = wsPast.crossed
      /\ (wsPast.failed => wsPast'.failed) /\ (well \/ wsPast'.failed)
  <2>1. CASE well
    BY <2>1 DEF PaneShape, PastShape
  <2>2. CASE ~well
    BY <2>2 DEF PaneShape, PastShape
  <2> QED
    BY <2>1, <2>2
<1> QED
  BY <1>1, AnswerTaken

LEMMA HandlersNamed ==
  {"detail", "reopen", "rules", "masters", "list", "settings", "request", "remove", "refList", "termsList",
   "firstAudit", "lastAudit"} \subseteq Handler
BY DEF Handler

(* A step of one workspace concerns no other.                               *)
LEMMA FrontKeeps ==
  ASSUME PaneShape', OneCall', WritesOnDisplay',
         workspace' \in {"customers", "transactions"} => DrawerInv',
         workspace' = "customers" => CustomersInv', workspace' = "transactions" => TransactionsInv',
         workspace' = "kyc" => KycInv', workspace' = "credit" => PoliciesInv',
         workspace' \in {"aml", "builder", None} => PlainInv', workspace' = "accounting" => ReportsInv',
         workspace' = "settings" => SettingsInv', workspace' = "approvals" => ApprovalsInv',
         workspace' = "funding" => FundingInv', workspace' = "access" => AccessInv',
         workspace' = "reference" => ReferenceInv', workspace' = "terms" => TermsInv'
  PROVE  WorkInv'
BY DEF WorkInv, DrawerInv, CustomersInv, TransactionsInv, KycInv, PoliciesInv, PlainInv, ReportsInv,
   SettingsInv,
       ApprovalsInv, FundingInv, AccessInv, ReferenceInv, TermsInv, InFront

LEMMA WritesStay ==
  ASSUME WritesOnDisplay, wsPast'.astray \subseteq wsPast.astray \cup KnownAstray,
         wsPast.crossed => wsPast'.crossed, wsPast.failed => wsPast'.failed
  PROVE  WritesOnDisplay'
<1>1. "approve" \notin KnownAstray /\ "saveSettings" \notin KnownAstray
  BY DEF KnownAstray
<1> QED
  BY <1>1 DEF WritesOnDisplay

LEMMA TheShapes ==
  ASSUME WorkInv
  PROVE  /\ pane \in PaneRecord /\ wsCalls \in [CallSlot -> WsCall] /\ PastShape /\ PaneShape /\ OneCall
         /\ pane.selected \in OrNone /\ pane.detail \in OrNone /\ pane.aside \in OrNone
         /\ \A s \in CallSlot : wsCalls[s].of \in OrNone /\ (wsCalls[s].by # None => wsCalls[s] # NoCall)
BY WorkspaceAssumption DEF WorkInv, PaneShape, PaneRecord, WsCall, OrNone, NoCall

(* Customers and transactions.                                              *)
LEMMA OpenCustomerKeeps ==
  ASSUME WorkInv, NEW r \in ConsoleRecord, openCustomer(r)
  PROVE  WorkInv'
<1>1. workspace' = workspace /\ workspace = "customers" /\ Reads("detail", r) /\ r \in OrNone
      /\ pane.selected = None
  BY TheShapes, WorkspaceAssumption DEF openCustomer, InFront, OrNone, None
<1>2. pane' \in PaneRecord /\ pane'.selected = r /\ pane'.detail = None /\ pane'.form = r /\ pane'.loading
      /\ pane'.busy = pane.busy /\ pane'.aside = pane.aside
  BY <1>1, TheShapes, WorkspaceAssumption DEF openCustomer, PaneRecord, OrNone, InFront, None
<1>3. /\ wsCalls' \in [CallSlot -> WsCall] /\ OneCall' /\ PastShape' /\ PastGoesOn
      /\ wsPast'.astray = wsPast.astray /\ \E s \in CallSlot : IsSent(s, "detail", r)
  <2>1. "detail" \in Handler
    BY DEF Handler
  <2> QED
    BY <1>1, <2>1, TheShapes, SentRead
<1>4. PaneShape' /\ OneCall'
  BY <1>1, <1>2, <1>3 DEF WorkInv, PaneShape
<1> PICK s \in CallSlot : IsSent(s, "detail", r)
  BY <1>3
<1>5. DrawerInv' /\ CustomersInv'
  <2>1. /\ wsCalls[s] = NoCall /\ wsCalls'[s].by = "detail" /\ wsCalls'[s].of = r
        /\ \A t \in CallSlot \ {s} : wsCalls'[t] = wsCalls[t]
        /\ ~wsPast'.crossed => \A t \in CallSlot : wsCalls[t] = NoCall
    BY DEF IsSent
  <2> QED
    BY <1>1, <1>2, <1>3, <2>1, WorkspaceAssumption DEF WorkInv, DrawerInv, CustomersInv, InFront, Under,
       Reading, Orderly, PastGoesOn, NoCall, None
<1>6. WritesOnDisplay'
  BY <1>3, WritesStay DEF WorkInv, PastGoesOn
<1> QED
  BY <1>1, <1>4, <1>5, <1>6, FrontKeeps DEF None

LEMMA OpenTransactionKeeps ==
  ASSUME WorkInv, NEW r \in ConsoleRecord, openTransaction(r)
  PROVE  WorkInv'
<1>1. workspace' = workspace /\ workspace = "transactions" /\ Reads("detail", r) /\ r \in OrNone
      /\ pane.selected = None
  BY TheShapes, WorkspaceAssumption DEF openTransaction, InFront, OrNone, None
<1>2. pane' \in PaneRecord /\ pane'.selected = r /\ pane'.detail = None /\ pane'.loading
      /\ pane'.busy = pane.busy /\ pane'.aside = pane.aside /\ pane'.form = pane.form
  BY <1>1, TheShapes, WorkspaceAssumption DEF openTransaction, PaneRecord, OrNone, InFront, None
<1>3. /\ wsCalls' \in [CallSlot -> WsCall] /\ OneCall' /\ PastShape' /\ PastGoesOn
      /\ wsPast'.astray = wsPast.astray /\ \E s \in CallSlot : IsSent(s, "detail", r)
  <2>1. "detail" \in Handler
    BY DEF Handler
  <2> QED
    BY <1>1, <2>1, TheShapes, SentRead
<1>4. PaneShape' /\ OneCall'
  BY <1>1, <1>2, <1>3 DEF WorkInv, PaneShape
<1> PICK s \in CallSlot : IsSent(s, "detail", r)
  BY <1>3
<1>5. DrawerInv' /\ TransactionsInv'
  <2>1. /\ wsCalls[s] = NoCall /\ wsCalls'[s].by = "detail" /\ wsCalls'[s].of = r
        /\ \A t \in CallSlot \ {s} : wsCalls'[t] = wsCalls[t]
        /\ ~wsPast'.crossed => \A t \in CallSlot : wsCalls[t] = NoCall
    BY DEF IsSent
  <2> QED
    BY <1>1, <1>2, <1>3, <2>1, WorkspaceAssumption DEF WorkInv, DrawerInv, TransactionsInv, InFront, Under,
       Reading, Orderly, PastGoesOn, NoCall, None
<1>6. WritesOnDisplay'
  BY <1>3, WritesStay DEF WorkInv, PastGoesOn
<1> QED
  BY <1>1, <1>4, <1>5, <1>6, FrontKeeps DEF None

LEMMA SearchKeeps ==
  ASSUME WorkInv, NEW q \in ConsoleRecord, searchTransactions(q)
  PROVE  WorkInv'
<1>1. workspace' = workspace /\ workspace = "transactions" /\ Reads("list", q) /\ q \in OrNone
      /\ pane.selected = None
  BY TheShapes, WorkspaceAssumption DEF searchTransactions, InFront, OrNone, None
<1>2. pane' \in PaneRecord /\ pane'.aside = q /\ pane'.busy = pane.busy /\ pane'.selected = pane.selected
      /\ pane'.detail = pane.detail /\ pane'.loading = pane.loading /\ pane'.form = pane.form
  BY <1>1, TheShapes, WorkspaceAssumption DEF searchTransactions, PaneRecord, OrNone, InFront, None
<1>3. /\ wsCalls' \in [CallSlot -> WsCall] /\ OneCall' /\ PastShape' /\ PastGoesOn
      /\ wsPast'.astray = wsPast.astray /\ \E s \in CallSlot : IsSent(s, "list", q)
  <2>1. "list" \in Handler
    BY DEF Handler
  <2> QED
    BY <1>1, <2>1, TheShapes, SentRead
<1>4. PaneShape' /\ OneCall'
  BY <1>1, <1>2, <1>3 DEF WorkInv, PaneShape
<1> PICK s \in CallSlot : IsSent(s, "list", q)
  BY <1>3
<1>5. DrawerInv' /\ TransactionsInv'
  <2>1. /\ wsCalls[s] = NoCall /\ wsCalls'[s].by = "list" /\ wsCalls'[s].of = q
        /\ \A t \in CallSlot \ {s} : wsCalls'[t] = wsCalls[t]
        /\ ~wsPast'.crossed => \A t \in CallSlot : wsCalls[t] = NoCall
    BY DEF IsSent
  <2> QED
    BY <1>1, <1>2, <1>3, <2>1, WorkspaceAssumption DEF WorkInv, DrawerInv, TransactionsInv, InFront, Under,
       Reading, Orderly, PastGoesOn, NoCall, None
<1>6. WritesOnDisplay'
  BY <1>3, WritesStay DEF WorkInv, PastGoesOn
<1> QED
  BY <1>1, <1>4, <1>5, <1>6, FrontKeeps DEF None

LEMMA CloseDrawerKeeps ==
  ASSUME WorkInv, CloseDrawer
  PROVE  WorkInv'
<1>1. UNCHANGED <<workspace, wsCalls, wsPast>> /\ workspace \in {"customers", "transactions"}
  BY DEF CloseDrawer, InFront
<1>2. pane' \in PaneRecord /\ pane'.selected = None /\ pane'.detail = pane.detail /\ pane'.form = pane.form
      /\ pane'.aside = pane.aside /\ pane'.loading = pane.loading /\ pane'.busy = pane.busy
  BY <1>1, TheShapes DEF CloseDrawer, PaneRecord, OrNone
<1>3. PaneShape' /\ OneCall' /\ WritesOnDisplay'
  BY <1>1, <1>2 DEF WorkInv, PaneShape, OneCall, PastShape, WritesOnDisplay
<1>4. DrawerInv' /\ CustomersInv' /\ TransactionsInv'
  BY <1>1, <1>2, WorkspaceAssumption DEF WorkInv, DrawerInv, CustomersInv, TransactionsInv, InFront, Under,
     Reading, Orderly
<1> QED
  BY <1>1, <1>3, <1>4, FrontKeeps DEF None

LEMMA CustomerTabsKeeps ==
  ASSUME WorkInv, CustomerTabs
  PROVE  WorkInv'
<1>1. UNCHANGED <<workspace, wsCalls, wsPast>> /\ workspace = "customers"
  BY DEF CustomerTabs, InFront
<1>2. pane' \in PaneRecord /\ pane'.selected = pane.selected /\ pane'.detail = pane.detail
      /\ pane'.form = pane.form /\ pane'.loading = pane.loading /\ pane'.busy = pane.busy
  BY <1>1, TheShapes DEF CustomerTabs, PaneRecord, OrNone
<1>3. PaneShape' /\ OneCall' /\ WritesOnDisplay'
  BY <1>1, <1>2 DEF WorkInv, PaneShape, OneCall, PastShape, WritesOnDisplay
<1>4. DrawerInv' /\ CustomersInv'
  BY <1>1, <1>2, WorkspaceAssumption DEF WorkInv, DrawerInv, CustomersInv, InFront, Under, Reading, Orderly
<1> QED
  BY <1>1, <1>3, <1>4, FrontKeeps DEF None

LEMMA ChangeCustomerKeeps ==
  ASSUME WorkInv, changeCustomer
  PROVE  WorkInv'
<1>1. workspace' = workspace /\ workspace = "customers"
      /\ Writes("changeCustomer", "write", pane.detail, OnDisplay) /\ pane.detail \in OrNone /\ Offered
  BY TheShapes, WorkspaceAssumption DEF changeCustomer, InFront, OrNone, None
<1>2. pane' = pane /\ pane' \in PaneRecord
  BY TheShapes DEF changeCustomer
<1>3. /\ wsCalls' \in [CallSlot -> WsCall] /\ OneCall' /\ PastShape' /\ PastGoesOn
      /\ wsPast'.astray = (IF OnDisplay = {pane.detail} THEN wsPast.astray
         ELSE wsPast.astray \cup {"changeCustomer"}) /\ \E s \in CallSlot : IsSent(s, "write", pane.detail)
  <2>1. "write" \in Handler
    BY DEF Handler
  <2> QED
    BY <1>1, <2>1, TheShapes, SentWrite
<1>4. PaneShape' /\ OneCall'
  BY <1>1, <1>2, <1>3 DEF WorkInv, PaneShape
<1> PICK s \in CallSlot : IsSent(s, "write", pane.detail)
  BY <1>3
<1>5. DrawerInv' /\ CustomersInv'
  <2>1. /\ wsCalls[s] = NoCall /\ wsCalls'[s].by = "write" /\ wsCalls'[s].of = pane.detail
        /\ \A t \in CallSlot \ {s} : wsCalls'[t] = wsCalls[t]
        /\ ~wsPast'.crossed => \A t \in CallSlot : wsCalls[t] = NoCall
    BY DEF IsSent
  <2> QED
    BY <1>1, <1>2, <1>3, <2>1, WorkspaceAssumption DEF WorkInv, DrawerInv, CustomersInv, InFront, Under,
       Reading, Orderly, PastGoesOn, NoCall, None
<1>6. WritesOnDisplay'
  <2>1. OnDisplay = {pane.detail}
    BY <1>1 DEF WorkInv, DrawerInv, CustomersInv, InFront, Offered, OnDisplay
  <2> QED
    BY <1>3, <2>1, WritesStay DEF WorkInv, PastGoesOn
<1> QED
  BY <1>1, <1>4, <1>5, <1>6, FrontKeeps DEF None

LEMMA AddWalletKeeps ==
  ASSUME WorkInv, addCurrencyWallet
  PROVE  WorkInv'
<1>1. workspace' = workspace /\ workspace = "customers"
      /\ Writes("addCurrencyWallet", "write", pane.selected, OnDisplay) /\ pane.selected \in OrNone /\ Offered
  BY TheShapes, WorkspaceAssumption DEF addCurrencyWallet, InFront, OrNone, None
<1>2. pane' = pane /\ pane' \in PaneRecord
  BY TheShapes DEF addCurrencyWallet
<1>3. /\ wsCalls' \in [CallSlot -> WsCall] /\ OneCall' /\ PastShape' /\ PastGoesOn
      /\ wsPast'.astray = (IF OnDisplay = {pane.selected} THEN wsPast.astray
         ELSE wsPast.astray \cup {"addCurrencyWallet"})
         /\ \E s \in CallSlot : IsSent(s, "write", pane.selected)
  <2>1. "write" \in Handler
    BY DEF Handler
  <2> QED
    BY <1>1, <2>1, TheShapes, SentWrite
<1>4. PaneShape' /\ OneCall'
  BY <1>1, <1>2, <1>3 DEF WorkInv, PaneShape
<1> PICK s \in CallSlot : IsSent(s, "write", pane.selected)
  BY <1>3
<1>5. DrawerInv' /\ CustomersInv'
  <2>1. /\ wsCalls[s] = NoCall /\ wsCalls'[s].by = "write" /\ wsCalls'[s].of = pane.selected
        /\ \A t \in CallSlot \ {s} : wsCalls'[t] = wsCalls[t]
        /\ ~wsPast'.crossed => \A t \in CallSlot : wsCalls[t] = NoCall
    BY DEF IsSent
  <2> QED
    BY <1>1, <1>2, <1>3, <2>1, WorkspaceAssumption DEF WorkInv, DrawerInv, CustomersInv, InFront, Under,
       Reading, Orderly, PastGoesOn, NoCall, None
<1>6. WritesOnDisplay'
  <2>1. OnDisplay = {pane.selected}
    BY <1>1 DEF WorkInv, DrawerInv, CustomersInv, InFront, Offered, OnDisplay
  <2> QED
    BY <1>3, <2>1, WritesStay DEF WorkInv, PastGoesOn
<1> QED
  BY <1>1, <1>4, <1>5, <1>6, FrontKeeps DEF None

LEMMA SaveProfileKeeps ==
  ASSUME WorkInv, saveProfile
  PROVE  WorkInv'
<1> DEFINE shown == OnDisplay \cup {pane.form}
<1>1. workspace' = workspace /\ workspace = "customers"
      /\ Writes("saveProfile", "saveProfile", pane.selected, shown) /\ pane.selected \in OrNone /\ Offered
  BY TheShapes, WorkspaceAssumption DEF saveProfile, InFront, OrNone, None
<1> HIDE DEF shown
<1>2. pane' = pane /\ pane' \in PaneRecord
  BY TheShapes DEF saveProfile
<1>3. /\ wsCalls' \in [CallSlot -> WsCall] /\ OneCall' /\ PastShape' /\ PastGoesOn
      /\ wsPast'.astray = (IF shown = {pane.selected} THEN wsPast.astray
         ELSE wsPast.astray \cup {"saveProfile"})
         /\ \E s \in CallSlot : IsSent(s, "saveProfile", pane.selected)
  <2>1. "saveProfile" \in Handler
    BY DEF Handler
  <2> QED
    BY <1>1, <2>1, TheShapes, SentWrite
<1>4. PaneShape' /\ OneCall'
  BY <1>1, <1>2, <1>3 DEF WorkInv, PaneShape
<1> PICK s \in CallSlot : IsSent(s, "saveProfile", pane.selected)
  BY <1>3
<1>5. DrawerInv' /\ CustomersInv'
  <2>1. /\ wsCalls[s] = NoCall /\ wsCalls'[s].by = "saveProfile" /\ wsCalls'[s].of = pane.selected
        /\ \A t \in CallSlot \ {s} : wsCalls'[t] = wsCalls[t]
        /\ ~wsPast'.crossed => \A t \in CallSlot : wsCalls[t] = NoCall
    BY DEF IsSent
  <2> QED
    BY <1>1, <1>2, <1>3, <2>1, WorkspaceAssumption DEF WorkInv, DrawerInv, CustomersInv, InFront, Under,
       Reading, Orderly, PastGoesOn, NoCall, None
<1>6. WritesOnDisplay'
  <2>1. shown = {pane.selected}
    BY <1>1 DEF WorkInv, DrawerInv, CustomersInv, InFront, Offered, OnDisplay, shown
  <2> QED
    BY <1>3, <2>1, WritesStay DEF WorkInv, PastGoesOn
<1> QED
  BY <1>1, <1>4, <1>5, <1>6, FrontKeeps DEF None

LEMMA CreateCustomerKeeps ==
  ASSUME WorkInv, NEW r \in ConsoleRecord, createCustomer(r)
  PROVE  WorkInv'
<1>1. workspace' = workspace /\ workspace = "customers" /\ Reads("create", r) /\ r \in OrNone
  BY TheShapes, WorkspaceAssumption DEF createCustomer, InFront, OrNone, None
<1>2. pane' = pane /\ pane' \in PaneRecord
  BY TheShapes DEF createCustomer
<1>3. /\ wsCalls' \in [CallSlot -> WsCall] /\ OneCall' /\ PastShape' /\ PastGoesOn
      /\ wsPast'.astray = wsPast.astray /\ \E s \in CallSlot : IsSent(s, "create", r)
  <2>1. "create" \in Handler
    BY DEF Handler
  <2> QED
    BY <1>1, <2>1, TheShapes, SentRead
<1>4. PaneShape' /\ OneCall'
  BY <1>1, <1>2, <1>3 DEF WorkInv, PaneShape
<1> PICK s \in CallSlot : IsSent(s, "create", r)
  BY <1>3
<1>5. DrawerInv' /\ CustomersInv'
  <2>1. /\ wsCalls[s] = NoCall /\ wsCalls'[s].by = "create" /\ wsCalls'[s].of = r
        /\ \A t \in CallSlot \ {s} : wsCalls'[t] = wsCalls[t]
        /\ ~wsPast'.crossed => \A t \in CallSlot : wsCalls[t] = NoCall
    BY DEF IsSent
  <2> QED
    BY <1>1, <1>2, <1>3, <2>1, WorkspaceAssumption DEF WorkInv, DrawerInv, CustomersInv, InFront, Under,
       Reading, Orderly, PastGoesOn, NoCall, None
<1>6. WritesOnDisplay'
  BY <1>3, WritesStay DEF WorkInv, PastGoesOn
<1> QED
  BY <1>1, <1>4, <1>5, <1>6, FrontKeeps DEF None

(* Identity checks and credit policies.                                     *)
LEMMA OpenCaseKeeps ==
  ASSUME WorkInv, NEW r \in ConsoleRecord, openCase(r)
  PROVE  WorkInv'
<1>1. workspace' = workspace /\ workspace = "kyc" /\ Reads("open", r) /\ r \in OrNone
  BY TheShapes, WorkspaceAssumption DEF openCase, InFront, OrNone, None
<1>2. pane' = pane /\ pane' \in PaneRecord
  BY TheShapes DEF openCase
<1>3. /\ wsCalls' \in [CallSlot -> WsCall] /\ OneCall' /\ PastShape' /\ PastGoesOn
      /\ wsPast'.astray = wsPast.astray /\ \E s \in CallSlot : IsSent(s, "open", r)
  <2>1. "open" \in Handler
    BY DEF Handler
  <2> QED
    BY <1>1, <2>1, TheShapes, SentRead
<1>4. PaneShape' /\ OneCall'
  BY <1>1, <1>2, <1>3 DEF WorkInv, PaneShape
<1> PICK s \in CallSlot : IsSent(s, "open", r)
  BY <1>3
<1>5. KycInv'
  <2>1. /\ wsCalls[s] = NoCall /\ wsCalls'[s].by = "open" /\ wsCalls'[s].of = r
        /\ \A t \in CallSlot \ {s} : wsCalls'[t] = wsCalls[t]
        /\ ~wsPast'.crossed => \A t \in CallSlot : wsCalls[t] = NoCall
    BY DEF IsSent
  <2> QED
    BY <1>1, <1>2, <1>3, <2>1, WorkspaceAssumption DEF WorkInv, KycInv, InFront, Under, Reading, Orderly,
       PastGoesOn, NoCall, None
<1>6. WritesOnDisplay'
  BY <1>3, WritesStay DEF WorkInv, PastGoesOn
<1> QED
  BY <1>1, <1>4, <1>5, <1>6, FrontKeeps DEF None

LEMMA TypeReasonKeeps ==
  ASSUME WorkInv, TypeReason
  PROVE  WorkInv'
<1>1. UNCHANGED <<workspace, wsCalls, wsPast>> /\ workspace = "kyc"
  BY DEF TypeReason, InFront
<1>2. pane' \in PaneRecord /\ pane'.loading = pane.loading /\ pane'.busy = pane.busy
  BY <1>1, TheShapes DEF TypeReason, PaneRecord, OrNone
<1>3. PaneShape' /\ OneCall' /\ WritesOnDisplay'
  BY <1>1, <1>2 DEF WorkInv, PaneShape, OneCall, PastShape, WritesOnDisplay
<1>4. KycInv'
  BY <1>1, <1>2, WorkspaceAssumption DEF WorkInv, KycInv, InFront, Under, Reading, Orderly
<1> QED
  BY <1>1, <1>3, <1>4, FrontKeeps DEF None

LEMMA CreateCaseKeeps ==
  ASSUME WorkInv, NEW r \in ConsoleRecord, createCase(r)
  PROVE  WorkInv'
<1>1. workspace' = workspace /\ workspace = "kyc" /\ Reads("created", r) /\ r \in OrNone
  BY TheShapes, WorkspaceAssumption DEF createCase, InFront, OrNone, None
<1>2. pane' \in PaneRecord /\ pane'.busy /\ pane'.loading = pane.loading
  BY <1>1, TheShapes, WorkspaceAssumption DEF createCase, PaneRecord, OrNone, InFront, None
<1>3. /\ wsCalls' \in [CallSlot -> WsCall] /\ OneCall' /\ PastShape' /\ PastGoesOn
      /\ wsPast'.astray = wsPast.astray /\ \E s \in CallSlot : IsSent(s, "created", r)
  <2>1. "created" \in Handler
    BY DEF Handler
  <2> QED
    BY <1>1, <2>1, TheShapes, SentRead
<1>4. PaneShape' /\ OneCall'
  BY <1>1, <1>2, <1>3 DEF WorkInv, PaneShape
<1> PICK s \in CallSlot : IsSent(s, "created", r)
  BY <1>3
<1>5. KycInv'
  <2>1. /\ wsCalls[s] = NoCall /\ wsCalls'[s].by = "created" /\ wsCalls'[s].of = r
        /\ \A t \in CallSlot \ {s} : wsCalls'[t] = wsCalls[t]
        /\ ~wsPast'.crossed => \A t \in CallSlot : wsCalls[t] = NoCall
    BY DEF IsSent
  <2> QED
    BY <1>1, <1>2, <1>3, <2>1, WorkspaceAssumption DEF WorkInv, KycInv, InFront, Under, Reading, Orderly,
       PastGoesOn, NoCall, None
<1>6. WritesOnDisplay'
  BY <1>3, WritesStay DEF WorkInv, PastGoesOn
<1> QED
  BY <1>1, <1>4, <1>5, <1>6, FrontKeeps DEF None

LEMMA UploadKeeps ==
  ASSUME WorkInv, uploadAndVerify("upload")
  PROVE  WorkInv'
<1> DEFINE shown == {pane.selected}
<1>1. workspace' = workspace /\ workspace = "kyc" /\ Writes("upload", "upload", pane.selected, shown)
      /\ pane.selected \in OrNone
  BY TheShapes, WorkspaceAssumption DEF uploadAndVerify, InFront, OrNone, None
<1> HIDE DEF shown
<1>2. pane' \in PaneRecord /\ pane'.busy /\ pane'.loading = pane.loading
  BY <1>1, TheShapes, WorkspaceAssumption DEF uploadAndVerify, PaneRecord, OrNone, InFront, None
<1>3. /\ wsCalls' \in [CallSlot -> WsCall] /\ OneCall' /\ PastShape' /\ PastGoesOn
      /\ wsPast'.astray = (IF shown = {pane.selected} THEN wsPast.astray ELSE wsPast.astray \cup {"upload"})
      /\ \E s \in CallSlot : IsSent(s, "upload", pane.selected)
  <2>1. "upload" \in Handler
    BY DEF Handler
  <2> QED
    BY <1>1, <2>1, TheShapes, SentWrite
<1>4. PaneShape' /\ OneCall'
  BY <1>1, <1>2, <1>3 DEF WorkInv, PaneShape
<1> PICK s \in CallSlot : IsSent(s, "upload", pane.selected)
  BY <1>3
<1>5. KycInv'
  <2>1. /\ wsCalls[s] = NoCall /\ wsCalls'[s].by = "upload" /\ wsCalls'[s].of = pane.selected
        /\ \A t \in CallSlot \ {s} : wsCalls'[t] = wsCalls[t]
        /\ ~wsPast'.crossed => \A t \in CallSlot : wsCalls[t] = NoCall
    BY DEF IsSent
  <2> QED
    BY <1>1, <1>2, <1>3, <2>1, WorkspaceAssumption DEF WorkInv, KycInv, InFront, Under, Reading, Orderly,
       PastGoesOn, NoCall, None
<1>6. WritesOnDisplay'
  <2>1. shown = {pane.selected}
    BY <1>1 DEF WorkInv, KycInv, InFront, Offered, OnDisplay, shown
  <2> QED
    BY <1>3, <2>1, WritesStay DEF WorkInv, PastGoesOn
<1> QED
  BY <1>1, <1>4, <1>5, <1>6, FrontKeeps DEF None

LEMMA VerifyKeeps ==
  ASSUME WorkInv, uploadAndVerify("verify")
  PROVE  WorkInv'
<1> DEFINE shown == {pane.selected}
<1>1. workspace' = workspace /\ workspace = "kyc" /\ Writes("verify", "verify", pane.selected, shown)
      /\ pane.selected \in OrNone
  BY TheShapes, WorkspaceAssumption DEF uploadAndVerify, InFront, OrNone, None
<1> HIDE DEF shown
<1>2. pane' \in PaneRecord /\ pane'.busy /\ pane'.loading = pane.loading
  BY <1>1, TheShapes, WorkspaceAssumption DEF uploadAndVerify, PaneRecord, OrNone, InFront, None
<1>3. /\ wsCalls' \in [CallSlot -> WsCall] /\ OneCall' /\ PastShape' /\ PastGoesOn
      /\ wsPast'.astray = (IF shown = {pane.selected} THEN wsPast.astray ELSE wsPast.astray \cup {"verify"})
      /\ \E s \in CallSlot : IsSent(s, "verify", pane.selected)
  <2>1. "verify" \in Handler
    BY DEF Handler
  <2> QED
    BY <1>1, <2>1, TheShapes, SentWrite
<1>4. PaneShape' /\ OneCall'
  BY <1>1, <1>2, <1>3 DEF WorkInv, PaneShape
<1> PICK s \in CallSlot : IsSent(s, "verify", pane.selected)
  BY <1>3
<1>5. KycInv'
  <2>1. /\ wsCalls[s] = NoCall /\ wsCalls'[s].by = "verify" /\ wsCalls'[s].of = pane.selected
        /\ \A t \in CallSlot \ {s} : wsCalls'[t] = wsCalls[t]
        /\ ~wsPast'.crossed => \A t \in CallSlot : wsCalls[t] = NoCall
    BY DEF IsSent
  <2> QED
    BY <1>1, <1>2, <1>3, <2>1, WorkspaceAssumption DEF WorkInv, KycInv, InFront, Under, Reading, Orderly,
       PastGoesOn, NoCall, None
<1>6. WritesOnDisplay'
  <2>1. shown = {pane.selected}
    BY <1>1 DEF WorkInv, KycInv, InFront, Offered, OnDisplay, shown
  <2> QED
    BY <1>3, <2>1, WritesStay DEF WorkInv, PastGoesOn
<1> QED
  BY <1>1, <1>4, <1>5, <1>6, FrontKeeps DEF None

LEMMA DecideIdentityKeeps ==
  ASSUME WorkInv, decideIdentity
  PROVE  WorkInv'
<1> DEFINE shown == {pane.selected, pane.form}
<1>1. workspace' = workspace /\ workspace = "kyc"
      /\ Writes("decideIdentity", "decided", pane.selected, shown) /\ pane.selected \in OrNone
  BY TheShapes, WorkspaceAssumption DEF decideIdentity, InFront, OrNone, None
<1> HIDE DEF shown
<1>2. pane' \in PaneRecord /\ pane'.busy /\ pane'.loading = pane.loading
  BY <1>1, TheShapes, WorkspaceAssumption DEF decideIdentity, PaneRecord, OrNone, InFront, None
<1>3. /\ wsCalls' \in [CallSlot -> WsCall] /\ OneCall' /\ PastShape' /\ PastGoesOn
      /\ wsPast'.astray = (IF shown = {pane.selected} THEN wsPast.astray
         ELSE wsPast.astray \cup {"decideIdentity"})
         /\ \E s \in CallSlot : IsSent(s, "decided", pane.selected)
  <2>1. "decided" \in Handler
    BY DEF Handler
  <2> QED
    BY <1>1, <2>1, TheShapes, SentWrite
<1>4. PaneShape' /\ OneCall'
  BY <1>1, <1>2, <1>3 DEF WorkInv, PaneShape
<1> PICK s \in CallSlot : IsSent(s, "decided", pane.selected)
  BY <1>3
<1>5. KycInv'
  <2>1. /\ wsCalls[s] = NoCall /\ wsCalls'[s].by = "decided" /\ wsCalls'[s].of = pane.selected
        /\ \A t \in CallSlot \ {s} : wsCalls'[t] = wsCalls[t]
        /\ ~wsPast'.crossed => \A t \in CallSlot : wsCalls[t] = NoCall
    BY DEF IsSent
  <2> QED
    BY <1>1, <1>2, <1>3, <2>1, WorkspaceAssumption DEF WorkInv, KycInv, InFront, Under, Reading, Orderly,
       PastGoesOn, NoCall, None
<1>6. WritesOnDisplay'
  BY <1>3, WritesStay DEF WorkInv, PastGoesOn, KnownAstray
<1> QED
  BY <1>1, <1>4, <1>5, <1>6, FrontKeeps DEF None

LEMMA SelectPolicyKeeps ==
  ASSUME WorkInv, NEW r \in ConsoleRecord, selectPolicy(r)
  PROVE  WorkInv'
<1>1. workspace' = workspace /\ workspace = "credit" /\ Reads("rules", r) /\ r \in OrNone
  BY TheShapes, WorkspaceAssumption DEF selectPolicy, InFront, OrNone, None
<1>2. pane' \in PaneRecord /\ pane'.selected = r /\ pane'.loading = pane.loading /\ pane'.busy = pane.busy
      /\ pane'.detail = pane.detail
  BY <1>1, TheShapes, WorkspaceAssumption DEF selectPolicy, PaneRecord, OrNone, InFront, None
<1>3. /\ wsCalls' \in [CallSlot -> WsCall] /\ OneCall' /\ PastShape' /\ PastGoesOn
      /\ wsPast'.astray = wsPast.astray /\ \E s \in CallSlot : IsSent(s, "rules", r)
  <2>1. "rules" \in Handler
    BY DEF Handler
  <2> QED
    BY <1>1, <2>1, TheShapes, SentRead
<1>4. PaneShape' /\ OneCall'
  BY <1>1, <1>2, <1>3 DEF WorkInv, PaneShape
<1> PICK s \in CallSlot : IsSent(s, "rules", r)
  BY <1>3
<1>5. PoliciesInv'
  <2>1. /\ wsCalls[s] = NoCall /\ wsCalls'[s].by = "rules" /\ wsCalls'[s].of = r
        /\ \A t \in CallSlot \ {s} : wsCalls'[t] = wsCalls[t]
        /\ ~wsPast'.crossed => \A t \in CallSlot : wsCalls[t] = NoCall
    BY DEF IsSent
  <2> QED
    BY <1>1, <1>2, <1>3, <2>1, WorkspaceAssumption DEF WorkInv, PoliciesInv, InFront, Under, Reading, Orderly,
       PastGoesOn, NoCall, None
<1>6. WritesOnDisplay'
  BY <1>3, WritesStay DEF WorkInv, PastGoesOn
<1> QED
  BY <1>1, <1>4, <1>5, <1>6, FrontKeeps DEF None

LEMMA TransitionPolicyKeeps ==
  ASSUME WorkInv, transitionPolicy
  PROVE  WorkInv'
<1>1. workspace' = workspace /\ workspace = "credit"
      /\ Writes("transitionPolicy", "transition", pane.selected, OnDisplay) /\ pane.selected \in OrNone
  BY TheShapes, WorkspaceAssumption DEF transitionPolicy, InFront, OrNone, None
<1>2. pane' = pane /\ pane' \in PaneRecord
  BY TheShapes DEF transitionPolicy
<1>3. /\ wsCalls' \in [CallSlot -> WsCall] /\ OneCall' /\ PastShape' /\ PastGoesOn
      /\ wsPast'.astray = (IF OnDisplay = {pane.selected} THEN wsPast.astray
         ELSE wsPast.astray \cup {"transitionPolicy"})
         /\ \E s \in CallSlot : IsSent(s, "transition", pane.selected)
  <2>1. "transition" \in Handler
    BY DEF Handler
  <2> QED
    BY <1>1, <2>1, TheShapes, SentWrite
<1>4. PaneShape' /\ OneCall'
  BY <1>1, <1>2, <1>3 DEF WorkInv, PaneShape
<1> PICK s \in CallSlot : IsSent(s, "transition", pane.selected)
  BY <1>3
<1>5. PoliciesInv'
  <2>1. /\ wsCalls[s] = NoCall /\ wsCalls'[s].by = "transition" /\ wsCalls'[s].of = pane.selected
        /\ \A t \in CallSlot \ {s} : wsCalls'[t] = wsCalls[t]
        /\ ~wsPast'.crossed => \A t \in CallSlot : wsCalls[t] = NoCall
    BY DEF IsSent
  <2> QED
    BY <1>1, <1>2, <1>3, <2>1, WorkspaceAssumption DEF WorkInv, PoliciesInv, InFront, Under, Reading, Orderly,
       PastGoesOn, NoCall, None
<1>6. WritesOnDisplay'
  BY <1>3, WritesStay DEF WorkInv, PastGoesOn, KnownAstray
<1> QED
  BY <1>1, <1>4, <1>5, <1>6, FrontKeeps DEF None

LEMMA CreateRuleKeeps ==
  ASSUME WorkInv, createRule
  PROVE  WorkInv'
<1>1. workspace' = workspace /\ workspace = "credit"
      /\ Writes("createRule", "createRule", pane.selected, OnDisplay) /\ pane.selected \in OrNone
  BY TheShapes, WorkspaceAssumption DEF createRule, InFront, OrNone, None
<1>2. pane' = pane /\ pane' \in PaneRecord
  BY TheShapes DEF createRule
<1>3. /\ wsCalls' \in [CallSlot -> WsCall] /\ OneCall' /\ PastShape' /\ PastGoesOn
      /\ wsPast'.astray = (IF OnDisplay = {pane.selected} THEN wsPast.astray
         ELSE wsPast.astray \cup {"createRule"}) /\ \E s \in CallSlot : IsSent(s, "createRule", pane.selected)
  <2>1. "createRule" \in Handler
    BY DEF Handler
  <2> QED
    BY <1>1, <2>1, TheShapes, SentWrite
<1>4. PaneShape' /\ OneCall'
  BY <1>1, <1>2, <1>3 DEF WorkInv, PaneShape
<1> PICK s \in CallSlot : IsSent(s, "createRule", pane.selected)
  BY <1>3
<1>5. PoliciesInv'
  <2>1. /\ wsCalls[s] = NoCall /\ wsCalls'[s].by = "createRule" /\ wsCalls'[s].of = pane.selected
        /\ \A t \in CallSlot \ {s} : wsCalls'[t] = wsCalls[t]
        /\ ~wsPast'.crossed => \A t \in CallSlot : wsCalls[t] = NoCall
    BY DEF IsSent
  <2> QED
    BY <1>1, <1>2, <1>3, <2>1, WorkspaceAssumption DEF WorkInv, PoliciesInv, InFront, Under, Reading, Orderly,
       PastGoesOn, NoCall, None
<1>6. WritesOnDisplay'
  BY <1>3, WritesStay DEF WorkInv, PastGoesOn, KnownAstray
<1> QED
  BY <1>1, <1>4, <1>5, <1>6, FrontKeeps DEF None

LEMMA CreatePolicyKeeps ==
  ASSUME WorkInv, NEW r \in ConsoleRecord, createPolicy(r)
  PROVE  WorkInv'
<1>1. workspace' = workspace /\ workspace = "credit" /\ Reads("createPolicy", r) /\ r \in OrNone
  BY TheShapes, WorkspaceAssumption DEF createPolicy, InFront, OrNone, None
<1>2. pane' = pane /\ pane' \in PaneRecord
  BY TheShapes DEF createPolicy
<1>3. /\ wsCalls' \in [CallSlot -> WsCall] /\ OneCall' /\ PastShape' /\ PastGoesOn
      /\ wsPast'.astray = wsPast.astray /\ \E s \in CallSlot : IsSent(s, "createPolicy", r)
  <2>1. "createPolicy" \in Handler
    BY DEF Handler
  <2> QED
    BY <1>1, <2>1, TheShapes, SentRead
<1>4. PaneShape' /\ OneCall'
  BY <1>1, <1>2, <1>3 DEF WorkInv, PaneShape
<1> PICK s \in CallSlot : IsSent(s, "createPolicy", r)
  BY <1>3
<1>5. PoliciesInv'
  <2>1. /\ wsCalls[s] = NoCall /\ wsCalls'[s].by = "createPolicy" /\ wsCalls'[s].of = r
        /\ \A t \in CallSlot \ {s} : wsCalls'[t] = wsCalls[t]
        /\ ~wsPast'.crossed => \A t \in CallSlot : wsCalls[t] = NoCall
    BY DEF IsSent
  <2> QED
    BY <1>1, <1>2, <1>3, <2>1, WorkspaceAssumption DEF WorkInv, PoliciesInv, InFront, Under, Reading, Orderly,
       PastGoesOn, NoCall, None
<1>6. WritesOnDisplay'
  BY <1>3, WritesStay DEF WorkInv, PastGoesOn
<1> QED
  BY <1>1, <1>4, <1>5, <1>6, FrontKeeps DEF None

LEMMA SimulatePolicyKeeps ==
  ASSUME WorkInv, simulatePolicy
  PROVE  WorkInv'
<1>1. workspace' = workspace /\ workspace = "credit" /\ Reads("simulate", pane.selected)
      /\ pane.selected \in OrNone
  BY TheShapes, WorkspaceAssumption DEF simulatePolicy, InFront, OrNone, None
<1>2. pane' \in PaneRecord /\ pane'.busy /\ pane'.loading = pane.loading /\ pane'.selected = pane.selected
      /\ pane'.detail = pane.detail
  BY <1>1, TheShapes, WorkspaceAssumption DEF simulatePolicy, PaneRecord, OrNone, InFront, None
<1>3. /\ wsCalls' \in [CallSlot -> WsCall] /\ OneCall' /\ PastShape' /\ PastGoesOn
      /\ wsPast'.astray = wsPast.astray /\ \E s \in CallSlot : IsSent(s, "simulate", pane.selected)
  <2>1. "simulate" \in Handler
    BY DEF Handler
  <2> QED
    BY <1>1, <2>1, TheShapes, SentRead
<1>4. PaneShape' /\ OneCall'
  BY <1>1, <1>2, <1>3 DEF WorkInv, PaneShape
<1> PICK s \in CallSlot : IsSent(s, "simulate", pane.selected)
  BY <1>3
<1>5. PoliciesInv'
  <2>1. /\ wsCalls[s] = NoCall /\ wsCalls'[s].by = "simulate" /\ wsCalls'[s].of = pane.selected
        /\ \A t \in CallSlot \ {s} : wsCalls'[t] = wsCalls[t]
        /\ ~wsPast'.crossed => \A t \in CallSlot : wsCalls[t] = NoCall
    BY DEF IsSent
  <2> QED
    BY <1>1, <1>2, <1>3, <2>1, WorkspaceAssumption DEF WorkInv, PoliciesInv, InFront, Under, Reading, Orderly,
       PastGoesOn, NoCall, None
<1>6. WritesOnDisplay'
  BY <1>3, WritesStay DEF WorkInv, PastGoesOn
<1> QED
  BY <1>1, <1>4, <1>5, <1>6, FrontKeeps DEF None

(* Alerts, reports and settings.                                            *)
LEMMA DecideCaseKeeps ==
  ASSUME WorkInv, NEW r \in ConsoleRecord, decideCase(r)
  PROVE  WorkInv'
<1> DEFINE shown == {r}
<1>1. workspace' = workspace /\ workspace = "aml" /\ Writes("decideCase", "decideCase", r, shown)
      /\ r \in OrNone
  BY TheShapes, WorkspaceAssumption DEF decideCase, InFront, OrNone, None
<1> HIDE DEF shown
<1>2. pane' = pane /\ pane' \in PaneRecord
  BY TheShapes DEF decideCase
<1>3. /\ wsCalls' \in [CallSlot -> WsCall] /\ OneCall' /\ PastShape' /\ PastGoesOn
      /\ wsPast'.astray = (IF shown = {r} THEN wsPast.astray ELSE wsPast.astray \cup {"decideCase"})
      /\ \E s \in CallSlot : IsSent(s, "decideCase", r)
  <2>1. "decideCase" \in Handler
    BY DEF Handler
  <2> QED
    BY <1>1, <2>1, TheShapes, SentWrite
<1>4. PaneShape' /\ OneCall'
  BY <1>1, <1>2, <1>3 DEF WorkInv, PaneShape
<1> PICK s \in CallSlot : IsSent(s, "decideCase", r)
  BY <1>3
<1>5. PlainInv'
  <2>1. /\ wsCalls[s] = NoCall /\ wsCalls'[s].by = "decideCase" /\ wsCalls'[s].of = r
        /\ \A t \in CallSlot \ {s} : wsCalls'[t] = wsCalls[t]
        /\ ~wsPast'.crossed => \A t \in CallSlot : wsCalls[t] = NoCall
    BY DEF IsSent
  <2> QED
    BY <1>1, <1>2, <1>3, <2>1, WorkspaceAssumption DEF WorkInv, PlainInv, InFront, Under, Reading, Orderly,
       PastGoesOn, NoCall, None
<1>6. WritesOnDisplay'
  <2>1. shown = {r}
    BY <1>1 DEF WorkInv, PlainInv, InFront, Offered, OnDisplay, shown
  <2> QED
    BY <1>3, <2>1, WritesStay DEF WorkInv, PastGoesOn
<1> QED
  BY <1>1, <1>4, <1>5, <1>6, FrontKeeps DEF None

LEMMA ChangeFilterKeeps ==
  ASSUME WorkInv, NEW r \in ConsoleRecord, changeFilter(r)
  PROVE  WorkInv'
<1>1. workspace' = workspace /\ workspace = "accounting" /\ Reads("report", r) /\ r \in OrNone
  BY TheShapes, WorkspaceAssumption DEF changeFilter, InFront, OrNone, None
<1>2. pane' \in PaneRecord /\ pane'.selected = r /\ pane'.loading /\ pane'.busy = pane.busy
      /\ pane'.detail = pane.detail
  BY <1>1, TheShapes, WorkspaceAssumption DEF changeFilter, PaneRecord, OrNone, InFront, None
<1>3. /\ wsCalls' \in [CallSlot -> WsCall] /\ OneCall' /\ PastShape' /\ PastGoesOn
      /\ wsPast'.astray = wsPast.astray /\ \E s \in CallSlot : IsSent(s, "report", r)
  <2>1. "report" \in Handler
    BY DEF Handler
  <2> QED
    BY <1>1, <2>1, TheShapes, SentRead
<1>4. PaneShape' /\ OneCall'
  BY <1>1, <1>2, <1>3 DEF WorkInv, PaneShape
<1> PICK s \in CallSlot : IsSent(s, "report", r)
  BY <1>3
<1>5. ReportsInv'
  <2>1. /\ wsCalls[s] = NoCall /\ wsCalls'[s].by = "report" /\ wsCalls'[s].of = r
        /\ \A t \in CallSlot \ {s} : wsCalls'[t] = wsCalls[t]
        /\ ~wsPast'.crossed => \A t \in CallSlot : wsCalls[t] = NoCall
    BY DEF IsSent
  <2> QED
    BY <1>1, <1>2, <1>3, <2>1, WorkspaceAssumption DEF WorkInv, ReportsInv, InFront, Under, Reading, Orderly,
       PastGoesOn, NoCall, None
<1>6. WritesOnDisplay'
  BY <1>3, WritesStay DEF WorkInv, PastGoesOn
<1> QED
  BY <1>1, <1>4, <1>5, <1>6, FrontKeeps DEF None

LEMMA ViewKeeps ==
  ASSUME WorkInv, NEW r \in ConsoleRecord, changeView(r)
  PROVE  WorkInv'
<1>1. workspace' = workspace /\ workspace = "accounting" /\ Reads("report", r) /\ r \in OrNone
  BY TheShapes, WorkspaceAssumption DEF changeView, InFront, OrNone, None
<1>2. pane' \in PaneRecord /\ pane'.selected = r /\ pane'.loading /\ pane'.detail = None
      /\ pane'.busy = pane.busy
  BY <1>1, TheShapes, WorkspaceAssumption DEF changeView, PaneRecord, OrNone, InFront, None
<1>3. /\ wsCalls' \in [CallSlot -> WsCall] /\ OneCall' /\ PastShape' /\ PastGoesOn
      /\ wsPast'.astray = wsPast.astray /\ \E s \in CallSlot : IsSent(s, "report", r)
  <2>1. "report" \in Handler
    BY DEF Handler
  <2> QED
    BY <1>1, <2>1, TheShapes, SentRead
<1>4. PaneShape' /\ OneCall'
  BY <1>1, <1>2, <1>3 DEF WorkInv, PaneShape
<1> PICK s \in CallSlot : IsSent(s, "report", r)
  BY <1>3
<1>5. ReportsInv'
  <2>1. /\ wsCalls[s] = NoCall /\ wsCalls'[s].by = "report" /\ wsCalls'[s].of = r
        /\ \A t \in CallSlot \ {s} : wsCalls'[t] = wsCalls[t]
        /\ ~wsPast'.crossed => \A t \in CallSlot : wsCalls[t] = NoCall
    BY DEF IsSent
  <2> QED
    BY <1>1, <1>2, <1>3, <2>1, WorkspaceAssumption DEF WorkInv, ReportsInv, InFront, Under, Reading, Orderly,
       PastGoesOn, NoCall, None
<1>6. WritesOnDisplay'
  BY <1>3, WritesStay DEF WorkInv, PastGoesOn
<1> QED
  BY <1>1, <1>4, <1>5, <1>6, FrontKeeps DEF None

LEMMA NoViewKeeps ==
  ASSUME WorkInv, changeView(None)
  PROVE  WorkInv'
<1>1. UNCHANGED <<workspace, wsCalls, wsPast>> /\ workspace = "accounting"
  BY DEF changeView, InFront
<1>2. pane' \in PaneRecord /\ pane'.selected = None /\ pane'.detail = None /\ pane'.busy = pane.busy
      /\ pane'.loading = pane.loading
  BY <1>1, TheShapes DEF changeView, PaneRecord, OrNone
<1>3. PaneShape' /\ OneCall' /\ WritesOnDisplay'
  BY <1>1, <1>2 DEF WorkInv, PaneShape, OneCall, PastShape, WritesOnDisplay
<1>4. ReportsInv'
  BY <1>1, <1>2, WorkspaceAssumption DEF WorkInv, ReportsInv, InFront, Under, Reading, Orderly
<1> QED
  BY <1>1, <1>3, <1>4, FrontKeeps DEF None

LEMMA RunCloseKeeps ==
  ASSUME WorkInv, runClose
  PROVE  WorkInv'
<1>1. workspace' = workspace /\ workspace = "accounting" /\ Reads("close", None) /\ None \in OrNone
  BY TheShapes, WorkspaceAssumption DEF runClose, InFront, OrNone, None
<1>2. pane' = pane /\ pane' \in PaneRecord
  BY TheShapes DEF runClose
<1>3. /\ wsCalls' \in [CallSlot -> WsCall] /\ OneCall' /\ PastShape' /\ PastGoesOn
      /\ wsPast'.astray = wsPast.astray /\ \E s \in CallSlot : IsSent(s, "close", None)
  <2>1. "close" \in Handler
    BY DEF Handler
  <2> QED
    BY <1>1, <2>1, TheShapes, SentRead
<1>4. PaneShape' /\ OneCall'
  BY <1>1, <1>2, <1>3 DEF WorkInv, PaneShape
<1> PICK s \in CallSlot : IsSent(s, "close", None)
  BY <1>3
<1>5. ReportsInv'
  <2>1. /\ wsCalls[s] = NoCall /\ wsCalls'[s].by = "close" /\ wsCalls'[s].of = None
        /\ \A t \in CallSlot \ {s} : wsCalls'[t] = wsCalls[t]
        /\ ~wsPast'.crossed => \A t \in CallSlot : wsCalls[t] = NoCall
    BY DEF IsSent
  <2> QED
    BY <1>1, <1>2, <1>3, <2>1, WorkspaceAssumption DEF WorkInv, ReportsInv, InFront, Under, Reading, Orderly,
       PastGoesOn, NoCall, None
<1>6. WritesOnDisplay'
  BY <1>3, WritesStay DEF WorkInv, PastGoesOn
<1> QED
  BY <1>1, <1>4, <1>5, <1>6, FrontKeeps DEF None

LEMMA SaveScheduleKeeps ==
  ASSUME WorkInv, saveSchedule
  PROVE  WorkInv'
<1> DEFINE shown == (IF pane.form = "default" THEN {} ELSE {None})
<1>1. workspace' = workspace /\ workspace = "accounting" /\ Writes("saveSchedule", "save", None, shown)
      /\ None \in OrNone
  BY TheShapes, WorkspaceAssumption DEF saveSchedule, InFront, OrNone, None
<1> HIDE DEF shown
<1>2. pane' \in PaneRecord /\ pane'.busy /\ pane'.loading = pane.loading /\ pane'.selected = pane.selected
      /\ pane'.detail = pane.detail
  BY <1>1, TheShapes, WorkspaceAssumption DEF saveSchedule, PaneRecord, OrNone, InFront, None
<1>3. /\ wsCalls' \in [CallSlot -> WsCall] /\ OneCall' /\ PastShape' /\ PastGoesOn
      /\ wsPast'.astray = (IF shown = {None} THEN wsPast.astray ELSE wsPast.astray \cup {"saveSchedule"})
      /\ \E s \in CallSlot : IsSent(s, "save", None)
  <2>1. "save" \in Handler
    BY DEF Handler
  <2> QED
    BY <1>1, <2>1, TheShapes, SentWrite
<1>4. PaneShape' /\ OneCall'
  BY <1>1, <1>2, <1>3 DEF WorkInv, PaneShape
<1> PICK s \in CallSlot : IsSent(s, "save", None)
  BY <1>3
<1>5. ReportsInv'
  <2>1. /\ wsCalls[s] = NoCall /\ wsCalls'[s].by = "save" /\ wsCalls'[s].of = None
        /\ \A t \in CallSlot \ {s} : wsCalls'[t] = wsCalls[t]
        /\ ~wsPast'.crossed => \A t \in CallSlot : wsCalls[t] = NoCall
    BY DEF IsSent
  <2> QED
    BY <1>1, <1>2, <1>3, <2>1, WorkspaceAssumption DEF WorkInv, ReportsInv, InFront, Under, Reading, Orderly,
       PastGoesOn, NoCall, None
<1>6. WritesOnDisplay'
  BY <1>3, WritesStay DEF WorkInv, PastGoesOn, KnownAstray
<1> QED
  BY <1>1, <1>4, <1>5, <1>6, FrontKeeps DEF None

LEMMA SaveSettingsKeeps ==
  ASSUME WorkInv, saveSettings
  PROVE  WorkInv'
<1> DEFINE shown == (IF pane.form = "default" THEN {} ELSE {None})
<1>1. workspace' = workspace /\ workspace = "settings" /\ Writes("saveSettings", "save", None, shown)
      /\ None \in OrNone /\ ~pane.loading
  BY TheShapes, WorkspaceAssumption DEF saveSettings, InFront, OrNone, None
<1> HIDE DEF shown
<1>2. pane' \in PaneRecord /\ pane'.busy /\ pane'.loading = pane.loading /\ pane'.selected = pane.selected
      /\ pane'.form = pane.form
  BY <1>1, TheShapes, WorkspaceAssumption DEF saveSettings, PaneRecord, OrNone, InFront, None
<1>3. /\ wsCalls' \in [CallSlot -> WsCall] /\ OneCall' /\ PastShape' /\ PastGoesOn
      /\ wsPast'.astray = (IF shown = {None} THEN wsPast.astray ELSE wsPast.astray \cup {"saveSettings"})
      /\ \E s \in CallSlot : IsSent(s, "save", None)
  <2>1. "save" \in Handler
    BY DEF Handler
  <2> QED
    BY <1>1, <2>1, TheShapes, SentWrite
<1>4. PaneShape' /\ OneCall'
  BY <1>1, <1>2, <1>3 DEF WorkInv, PaneShape
<1> PICK s \in CallSlot : IsSent(s, "save", None)
  BY <1>3
<1>5. SettingsInv'
  <2>1. /\ wsCalls[s] = NoCall /\ wsCalls'[s].by = "save" /\ wsCalls'[s].of = None
        /\ \A t \in CallSlot \ {s} : wsCalls'[t] = wsCalls[t]
        /\ ~wsPast'.crossed => \A t \in CallSlot : wsCalls[t] = NoCall
    BY DEF IsSent
  <2> QED
    BY <1>1, <1>2, <1>3, <2>1, WorkspaceAssumption DEF WorkInv, SettingsInv, InFront, Under, Reading, Orderly,
       PastGoesOn, NoCall, None
<1>6. WritesOnDisplay'
  <2>1. wsPast'.astray \subseteq wsPast.astray \cup {"saveSettings"}
    BY <1>3
  <2>2. pane.form # "default" => wsPast'.astray = wsPast.astray
    BY <1>3 DEF shown
  <2>3. pane.form = "default" => wsPast.failed
    BY <1>1 DEF WorkInv, SettingsInv, InFront
  <2> QED
    BY <1>3, <2>1, <2>2, <2>3 DEF WorkInv, WritesOnDisplay, PastGoesOn
<1> QED
  BY <1>1, <1>4, <1>5, <1>6, FrontKeeps DEF None

(* Approvals and funding.                                                   *)
LEMMA OpenReviewKeeps ==
  ASSUME WorkInv, NEW r \in ConsoleRecord, openReview(r)
  PROVE  WorkInv'
<1>1. workspace' = workspace /\ workspace = "approvals" /\ Reads("review", r) /\ r \in OrNone
      /\ pane.selected = None
  BY TheShapes, WorkspaceAssumption DEF openReview, InFront, OrNone, None
<1>2. pane' \in PaneRecord /\ pane'.selected = r /\ pane'.detail = None /\ pane'.form = None
      /\ pane'.loading /\ pane'.busy = pane.busy
  BY <1>1, TheShapes, WorkspaceAssumption DEF openReview, PaneRecord, OrNone, InFront, None
<1>3. /\ wsCalls' \in [CallSlot -> WsCall] /\ OneCall' /\ PastShape' /\ PastGoesOn
      /\ wsPast'.astray = wsPast.astray /\ \E s \in CallSlot : IsSent(s, "review", r)
  <2>1. "review" \in Handler
    BY DEF Handler
  <2> QED
    BY <1>1, <2>1, TheShapes, SentRead
<1>4. PaneShape' /\ OneCall'
  BY <1>1, <1>2, <1>3 DEF WorkInv, PaneShape
<1> PICK s \in CallSlot : IsSent(s, "review", r)
  BY <1>3
<1>5. ApprovalsInv'
  <2>1. /\ wsCalls[s] = NoCall /\ wsCalls'[s].by = "review" /\ wsCalls'[s].of = r
        /\ \A t \in CallSlot \ {s} : wsCalls'[t] = wsCalls[t]
        /\ ~wsPast'.crossed => \A t \in CallSlot : wsCalls[t] = NoCall
    BY DEF IsSent
  <2> QED
    BY <1>1, <1>2, <1>3, <2>1, WorkspaceAssumption DEF WorkInv, ApprovalsInv, InFront, Under, Reading,
       Orderly, PastGoesOn, NoCall, None
<1>6. WritesOnDisplay'
  BY <1>3, WritesStay DEF WorkInv, PastGoesOn
<1> QED
  BY <1>1, <1>4, <1>5, <1>6, FrontKeeps DEF None

LEMMA CloseReviewKeeps ==
  ASSUME WorkInv, CloseReview
  PROVE  WorkInv'
<1>1. UNCHANGED <<workspace, wsCalls, wsPast>> /\ workspace = "approvals"
  BY DEF CloseReview, InFront
<1>2. pane' \in PaneRecord /\ pane'.selected = None /\ pane'.detail = pane.detail /\ pane'.form = pane.form
      /\ pane'.loading = pane.loading /\ pane'.busy = pane.busy
  BY <1>1, TheShapes DEF CloseReview, PaneRecord, OrNone
<1>3. PaneShape' /\ OneCall' /\ WritesOnDisplay'
  BY <1>1, <1>2 DEF WorkInv, PaneShape, OneCall, PastShape, WritesOnDisplay
<1>4. ApprovalsInv'
  BY <1>1, <1>2, WorkspaceAssumption DEF WorkInv, ApprovalsInv, InFront, Under, Reading, Orderly
<1> QED
  BY <1>1, <1>3, <1>4, FrontKeeps DEF None

LEMMA TypeCommentKeeps ==
  ASSUME WorkInv, TypeComment
  PROVE  WorkInv'
<1>1. UNCHANGED <<workspace, wsCalls, wsPast>> /\ workspace = "approvals"
  BY DEF TypeComment, InFront
<1>2. pane' \in PaneRecord /\ pane'.form = pane.selected /\ pane'.detail = pane.detail
      /\ pane'.selected = pane.selected /\ pane'.loading = pane.loading /\ pane'.busy = pane.busy
  BY <1>1, TheShapes DEF TypeComment, PaneRecord, OrNone
<1>3. PaneShape' /\ OneCall' /\ WritesOnDisplay'
  BY <1>1, <1>2 DEF WorkInv, PaneShape, OneCall, PastShape, WritesOnDisplay
<1>4. ApprovalsInv'
  BY <1>1, <1>2, WorkspaceAssumption DEF WorkInv, ApprovalsInv, InFront, Under, Reading, Orderly
<1> QED
  BY <1>1, <1>3, <1>4, FrontKeeps DEF None

LEMMA ApproveKeeps ==
  ASSUME WorkInv, decideRequest("approve")
  PROVE  WorkInv'
<1>1. workspace' = workspace /\ workspace = "approvals"
      /\ Writes("approve", "decide", pane.selected, OnDisplay) /\ pane.selected \in OrNone /\ ~pane.loading
      /\ pane.selected # None
  BY TheShapes, WorkspaceAssumption DEF decideRequest, InFront, OrNone, None
<1>2. pane' \in PaneRecord /\ pane'.busy /\ pane'.detail = pane.detail /\ pane'.form = pane.form
      /\ pane'.loading = pane.loading /\ pane'.selected = pane.selected
  BY <1>1, TheShapes, WorkspaceAssumption DEF decideRequest, PaneRecord, OrNone, InFront, None
<1>3. /\ wsCalls' \in [CallSlot -> WsCall] /\ OneCall' /\ PastShape' /\ PastGoesOn
      /\ wsPast'.astray = (IF OnDisplay = {pane.selected} THEN wsPast.astray
         ELSE wsPast.astray \cup {"approve"}) /\ \E s \in CallSlot : IsSent(s, "decide", pane.selected)
  <2>1. "decide" \in Handler
    BY DEF Handler
  <2> QED
    BY <1>1, <2>1, TheShapes, SentWrite
<1>4. PaneShape' /\ OneCall'
  BY <1>1, <1>2, <1>3 DEF WorkInv, PaneShape
<1> PICK s \in CallSlot : IsSent(s, "decide", pane.selected)
  BY <1>3
<1>5. ApprovalsInv'
  <2>1. /\ wsCalls[s] = NoCall /\ wsCalls'[s].by = "decide" /\ wsCalls'[s].of = pane.selected
        /\ \A t \in CallSlot \ {s} : wsCalls'[t] = wsCalls[t]
        /\ ~wsPast'.crossed => \A t \in CallSlot : wsCalls[t] = NoCall
    BY DEF IsSent
  <2> QED
    BY <1>1, <1>2, <1>3, <2>1, WorkspaceAssumption DEF WorkInv, ApprovalsInv, InFront, Under, Reading,
       Orderly, PastGoesOn, NoCall, None
<1>6. WritesOnDisplay'
  <2>1. wsPast'.astray \subseteq wsPast.astray \cup {"approve"}
    BY <1>3
  <2>2. ~wsPast.crossed => pane.detail = pane.selected
    BY <1>1 DEF WorkInv, ApprovalsInv, InFront
  <2>3. ~wsPast.crossed => wsPast'.astray = wsPast.astray
    BY <1>3, <2>2 DEF OnDisplay
  <2> QED
    BY <1>3, <2>1, <2>3 DEF WorkInv, WritesOnDisplay, PastGoesOn
<1> QED
  BY <1>1, <1>4, <1>5, <1>6, FrontKeeps DEF None

LEMMA RejectKeeps ==
  ASSUME WorkInv, decideRequest("reject")
  PROVE  WorkInv'
<1> DEFINE shown == {pane.selected, pane.form}
<1>1. workspace' = workspace /\ workspace = "approvals" /\ Writes("reject", "decide", pane.selected, shown)
      /\ pane.selected \in OrNone /\ pane.form # None /\ pane.selected # None
  BY TheShapes, WorkspaceAssumption DEF decideRequest, InFront, OrNone, None
<1> HIDE DEF shown
<1>2. pane' \in PaneRecord /\ pane'.busy /\ pane'.detail = pane.detail /\ pane'.form = pane.form
      /\ pane'.loading = pane.loading /\ pane'.selected = pane.selected
  BY <1>1, TheShapes, WorkspaceAssumption DEF decideRequest, PaneRecord, OrNone, InFront, None
<1>3. /\ wsCalls' \in [CallSlot -> WsCall] /\ OneCall' /\ PastShape' /\ PastGoesOn
      /\ wsPast'.astray = (IF shown = {pane.selected} THEN wsPast.astray ELSE wsPast.astray \cup {"reject"})
      /\ \E s \in CallSlot : IsSent(s, "decide", pane.selected)
  <2>1. "decide" \in Handler
    BY DEF Handler
  <2> QED
    BY <1>1, <2>1, TheShapes, SentWrite
<1>4. PaneShape' /\ OneCall'
  BY <1>1, <1>2, <1>3 DEF WorkInv, PaneShape
<1> PICK s \in CallSlot : IsSent(s, "decide", pane.selected)
  BY <1>3
<1>5. ApprovalsInv'
  <2>1. /\ wsCalls[s] = NoCall /\ wsCalls'[s].by = "decide" /\ wsCalls'[s].of = pane.selected
        /\ \A t \in CallSlot \ {s} : wsCalls'[t] = wsCalls[t]
        /\ ~wsPast'.crossed => \A t \in CallSlot : wsCalls[t] = NoCall
    BY DEF IsSent
  <2> QED
    BY <1>1, <1>2, <1>3, <2>1, WorkspaceAssumption DEF WorkInv, ApprovalsInv, InFront, Under, Reading,
       Orderly, PastGoesOn, NoCall, None
<1>6. WritesOnDisplay'
  <2>1. shown = {pane.selected}
    BY <1>1 DEF WorkInv, ApprovalsInv, InFront, Offered, OnDisplay, shown
  <2> QED
    BY <1>3, <2>1, WritesStay DEF WorkInv, PastGoesOn
<1> QED
  BY <1>1, <1>4, <1>5, <1>6, FrontKeeps DEF None

LEMMA OpenFundingKeeps ==
  ASSUME WorkInv, openFunding
  PROVE  WorkInv'
<1>1. UNCHANGED <<workspace, wsCalls, wsPast>> /\ workspace = "funding"
  BY DEF openFunding, InFront
<1>2. pane' \in PaneRecord /\ pane'.selected = pane.selected /\ pane'.loading = pane.loading
      /\ pane'.busy = pane.busy
  BY <1>1, TheShapes DEF openFunding, PaneRecord, OrNone
<1>3. PaneShape' /\ OneCall' /\ WritesOnDisplay'
  BY <1>1, <1>2 DEF WorkInv, PaneShape, OneCall, PastShape, WritesOnDisplay
<1>4. FundingInv'
  BY <1>1, <1>2, WorkspaceAssumption DEF WorkInv, FundingInv, InFront, Under, Reading, Orderly
<1> QED
  BY <1>1, <1>3, <1>4, FrontKeeps DEF None

LEMMA SubmitFundingKeeps ==
  ASSUME WorkInv, NEW r \in ConsoleRecord, submitFunding(r)
  PROVE  WorkInv'
<1>1. workspace' = workspace /\ workspace = "funding" /\ Reads("upload", r) /\ r \in OrNone
  BY TheShapes, WorkspaceAssumption DEF submitFunding, InFront, OrNone, None
<1>2. pane' \in PaneRecord /\ pane'.busy /\ pane'.selected = pane.selected /\ pane'.loading = pane.loading
  BY <1>1, TheShapes, WorkspaceAssumption DEF submitFunding, PaneRecord, OrNone, InFront, None
<1>3. /\ wsCalls' \in [CallSlot -> WsCall] /\ OneCall' /\ PastShape' /\ PastGoesOn
      /\ wsPast'.astray = wsPast.astray /\ \E s \in CallSlot : IsSent(s, "upload", r)
  <2>1. "upload" \in Handler
    BY DEF Handler
  <2> QED
    BY <1>1, <2>1, TheShapes, SentRead
<1>4. PaneShape' /\ OneCall'
  BY <1>1, <1>2, <1>3 DEF WorkInv, PaneShape
<1> PICK s \in CallSlot : IsSent(s, "upload", r)
  BY <1>3
<1>5. FundingInv'
  <2>1. /\ wsCalls[s] = NoCall /\ wsCalls'[s].by = "upload" /\ wsCalls'[s].of = r
        /\ \A t \in CallSlot \ {s} : wsCalls'[t] = wsCalls[t]
        /\ ~wsPast'.crossed => \A t \in CallSlot : wsCalls[t] = NoCall
    BY DEF IsSent
  <2> QED
    BY <1>1, <1>2, <1>3, <2>1, WorkspaceAssumption DEF WorkInv, FundingInv, InFront, Under, Reading, Orderly,
       PastGoesOn, NoCall, None
<1>6. WritesOnDisplay'
  BY <1>3, WritesStay DEF WorkInv, PastGoesOn
<1> QED
  BY <1>1, <1>4, <1>5, <1>6, FrontKeeps DEF None

(* Access and reference data.                                               *)
LEMMA OpenAccessKeeps ==
  ASSUME WorkInv, NEW r \in OrNone, openAccess(r)
  PROVE  WorkInv'
<1>1. UNCHANGED <<workspace, wsCalls, wsPast>> /\ workspace = "access"
  BY DEF openAccess, InFront
<1>2. pane' \in PaneRecord /\ pane'.aside = pane.aside /\ pane'.loading = pane.loading
      /\ pane'.busy = pane.busy
  BY <1>1, TheShapes DEF openAccess, PaneRecord, OrNone
<1>3. PaneShape' /\ OneCall' /\ WritesOnDisplay'
  BY <1>1, <1>2 DEF WorkInv, PaneShape, OneCall, PastShape, WritesOnDisplay
<1>4. AccessInv'
  BY <1>1, <1>2, WorkspaceAssumption DEF WorkInv, AccessInv, InFront, Under, Reading, Orderly
<1> QED
  BY <1>1, <1>3, <1>4, FrontKeeps DEF None

LEMMA SaveAccessKeeps ==
  ASSUME WorkInv, saveAccess
  PROVE  WorkInv'
<1>1. workspace' = workspace /\ workspace = "access" /\ Reads("saveAccess", pane.selected)
      /\ pane.selected \in OrNone /\ ~pane.busy
  BY TheShapes, WorkspaceAssumption DEF saveAccess, InFront, OrNone, None
<1>2. pane' \in PaneRecord /\ pane'.busy /\ pane'.aside = pane.aside /\ pane'.loading = pane.loading
  BY <1>1, TheShapes, WorkspaceAssumption DEF saveAccess, PaneRecord, OrNone, InFront, None
<1>3. /\ wsCalls' \in [CallSlot -> WsCall] /\ OneCall' /\ PastShape' /\ PastGoesOn
      /\ wsPast'.astray = wsPast.astray /\ \E s \in CallSlot : IsSent(s, "saveAccess", pane.selected)
  <2>1. "saveAccess" \in Handler
    BY DEF Handler
  <2> QED
    BY <1>1, <2>1, TheShapes, SentRead
<1>4. PaneShape' /\ OneCall'
  BY <1>1, <1>2, <1>3 DEF WorkInv, PaneShape
<1> PICK s \in CallSlot : IsSent(s, "saveAccess", pane.selected)
  BY <1>3
<1>5. AccessInv'
  <2>1. /\ wsCalls[s] = NoCall /\ wsCalls'[s].by = "saveAccess" /\ wsCalls'[s].of = pane.selected
        /\ \A t \in CallSlot \ {s} : wsCalls'[t] = wsCalls[t]
        /\ ~wsPast'.crossed => \A t \in CallSlot : wsCalls[t] = NoCall
    BY DEF IsSent
  <2> QED
    BY <1>1, <1>2, <1>3, <2>1, WorkspaceAssumption DEF WorkInv, AccessInv, InFront, Under, Reading, Orderly,
       PastGoesOn, NoCall, None
<1>6. WritesOnDisplay'
  BY <1>3, WritesStay DEF WorkInv, PastGoesOn
<1> QED
  BY <1>1, <1>4, <1>5, <1>6, FrontKeeps DEF None

LEMMA ResetMfaKeeps ==
  ASSUME WorkInv, resetMfa
  PROVE  WorkInv'
<1>1. workspace' = workspace /\ workspace = "access" /\ Reads("resetMfa", pane.selected)
      /\ pane.selected \in OrNone /\ pane.aside = None /\ pane.selected # None
  BY TheShapes, WorkspaceAssumption DEF resetMfa, InFront, OrNone, None
<1>2. pane' \in PaneRecord /\ pane'.aside = pane.selected /\ pane'.busy = pane.busy
      /\ pane'.loading = pane.loading
  BY <1>1, TheShapes, WorkspaceAssumption DEF resetMfa, PaneRecord, OrNone, InFront, None
<1>3. /\ wsCalls' \in [CallSlot -> WsCall] /\ OneCall' /\ PastShape' /\ PastGoesOn
      /\ wsPast'.astray = wsPast.astray /\ \E s \in CallSlot : IsSent(s, "resetMfa", pane.selected)
  <2>1. "resetMfa" \in Handler
    BY DEF Handler
  <2> QED
    BY <1>1, <2>1, TheShapes, SentRead
<1>4. PaneShape' /\ OneCall'
  BY <1>1, <1>2, <1>3 DEF WorkInv, PaneShape
<1> PICK s \in CallSlot : IsSent(s, "resetMfa", pane.selected)
  BY <1>3
<1>5. AccessInv'
  <2>1. /\ wsCalls[s] = NoCall /\ wsCalls'[s].by = "resetMfa" /\ wsCalls'[s].of = pane.selected
        /\ \A t \in CallSlot \ {s} : wsCalls'[t] = wsCalls[t]
        /\ ~wsPast'.crossed => \A t \in CallSlot : wsCalls[t] = NoCall
    BY DEF IsSent
  <2> QED
    BY <1>1, <1>2, <1>3, <2>1, WorkspaceAssumption DEF WorkInv, AccessInv, InFront, Under, Reading, Orderly,
       PastGoesOn, NoCall, None
<1>6. WritesOnDisplay'
  BY <1>3, WritesStay DEF WorkInv, PastGoesOn
<1> QED
  BY <1>1, <1>4, <1>5, <1>6, FrontKeeps DEF None

LEMMA RefreshReferenceKeeps ==
  ASSUME WorkInv, refreshReference
  PROVE  WorkInv'
<1>1. workspace' = workspace /\ workspace = "reference" /\ Reads("refList", None) /\ None \in OrNone
  BY TheShapes, WorkspaceAssumption DEF refreshReference, InFront, OrNone, None, UnderWay
<1>2. pane' \in PaneRecord /\ pane'.loading /\ ~pane'.busy /\ pane'.aside = None
  BY <1>1, TheShapes, WorkspaceAssumption DEF refreshReference, PaneRecord, OrNone, InFront, None, UnderWay
<1>3. /\ wsCalls' \in [CallSlot -> WsCall] /\ OneCall' /\ PastShape' /\ PastGoesOn
      /\ wsPast'.astray = wsPast.astray /\ \E s \in CallSlot : IsSent(s, "refList", None)
  <2>1. "refList" \in Handler
    BY DEF Handler
  <2> QED
    BY <1>1, <2>1, TheShapes, SentRead
<1>4. PaneShape' /\ OneCall'
  BY <1>1, <1>2, <1>3 DEF WorkInv, PaneShape
<1> PICK s \in CallSlot : IsSent(s, "refList", None)
  BY <1>3
<1>5. ReferenceInv'
  <2>1. /\ wsCalls[s] = NoCall /\ wsCalls'[s].by = "refList" /\ wsCalls'[s].of = None
        /\ \A t \in CallSlot \ {s} : wsCalls'[t] = wsCalls[t]
        /\ ~wsPast'.crossed => \A t \in CallSlot : wsCalls[t] = NoCall
    BY DEF IsSent
  <2> QED
    BY <1>1, <1>2, <1>3, <2>1, WorkspaceAssumption DEF WorkInv, ReferenceInv, InFront, Under, Reading,
       Orderly, PastGoesOn, NoCall, None
<1>6. WritesOnDisplay'
  BY <1>3, WritesStay DEF WorkInv, PastGoesOn
<1> QED
  BY <1>1, <1>4, <1>5, <1>6, FrontKeeps DEF None

LEMMA OpenReferenceKeeps ==
  ASSUME WorkInv, NEW r \in OrNone, openReference(r)
  PROVE  WorkInv'
<1>1. UNCHANGED <<workspace, wsCalls, wsPast>> /\ workspace = "reference"
  BY DEF openReference, InFront
<1>2. pane' \in PaneRecord /\ pane'.aside = pane.aside /\ pane'.loading = pane.loading
      /\ pane'.busy = pane.busy
  BY <1>1, TheShapes DEF openReference, PaneRecord, OrNone
<1>3. PaneShape' /\ OneCall' /\ WritesOnDisplay'
  BY <1>1, <1>2 DEF WorkInv, PaneShape, OneCall, PastShape, WritesOnDisplay
<1>4. ReferenceInv'
  BY <1>1, <1>2, WorkspaceAssumption DEF WorkInv, ReferenceInv, InFront, Under, Reading, Orderly
<1> QED
  BY <1>1, <1>3, <1>4, FrontKeeps DEF None

LEMMA CloseReferenceKeeps ==
  ASSUME WorkInv, closeReference
  PROVE  WorkInv'
<1>1. UNCHANGED <<workspace, wsCalls, wsPast>> /\ workspace = "reference"
  BY DEF closeReference, InFront
<1>2. pane' \in PaneRecord /\ pane'.aside = pane.aside /\ pane'.loading = pane.loading
      /\ pane'.busy = pane.busy
  BY <1>1, TheShapes DEF closeReference, PaneRecord, OrNone
<1>3. PaneShape' /\ OneCall' /\ WritesOnDisplay'
  BY <1>1, <1>2 DEF WorkInv, PaneShape, OneCall, PastShape, WritesOnDisplay
<1>4. ReferenceInv'
  BY <1>1, <1>2, WorkspaceAssumption DEF WorkInv, ReferenceInv, InFront, Under, Reading, Orderly
<1> QED
  BY <1>1, <1>3, <1>4, FrontKeeps DEF None

LEMMA DeactivateKeeps ==
  ASSUME WorkInv, NEW r \in ConsoleRecord, deactivate(r)
  PROVE  WorkInv'
<1>1. workspace' = workspace /\ workspace = "reference" /\ Reads("deactivate", r) /\ r \in OrNone
  BY TheShapes, WorkspaceAssumption DEF deactivate, InFront, OrNone, None, UnderWay
<1>2. pane' \in PaneRecord /\ ~pane'.loading /\ ~pane'.busy /\ pane'.aside = r
  BY <1>1, TheShapes, WorkspaceAssumption DEF deactivate, PaneRecord, OrNone, InFront, None, UnderWay
<1>3. /\ wsCalls' \in [CallSlot -> WsCall] /\ OneCall' /\ PastShape' /\ PastGoesOn
      /\ wsPast'.astray = wsPast.astray /\ \E s \in CallSlot : IsSent(s, "deactivate", r)
  <2>1. "deactivate" \in Handler
    BY DEF Handler
  <2> QED
    BY <1>1, <2>1, TheShapes, SentRead
<1>4. PaneShape' /\ OneCall'
  BY <1>1, <1>2, <1>3 DEF WorkInv, PaneShape
<1> PICK s \in CallSlot : IsSent(s, "deactivate", r)
  BY <1>3
<1>5. ReferenceInv'
  <2>1. /\ wsCalls[s] = NoCall /\ wsCalls'[s].by = "deactivate" /\ wsCalls'[s].of = r
        /\ \A t \in CallSlot \ {s} : wsCalls'[t] = wsCalls[t]
        /\ ~wsPast'.crossed => \A t \in CallSlot : wsCalls[t] = NoCall
    BY DEF IsSent
  <2> QED
    BY <1>1, <1>2, <1>3, <2>1, WorkspaceAssumption DEF WorkInv, ReferenceInv, InFront, Under, Reading,
       Orderly, PastGoesOn, NoCall, None
<1>6. WritesOnDisplay'
  BY <1>3, WritesStay DEF WorkInv, PastGoesOn
<1> QED
  BY <1>1, <1>4, <1>5, <1>6, FrontKeeps DEF None

(* Commercial terms.                                                        *)
LEMMA SelectTermsKeeps ==
  ASSUME WorkInv, NEW r \in ConsoleRecord, selectTerms(r)
  PROVE  WorkInv'
<1>1. workspace' = workspace /\ workspace = "terms" /\ Reads("audit", r) /\ r \in OrNone
  BY TheShapes, WorkspaceAssumption DEF selectTerms, InFront, OrNone, None
<1>2. pane' \in PaneRecord /\ pane'.selected = r /\ pane'.detail = pane.detail
      /\ pane'.loading = pane.loading /\ pane'.busy = pane.busy
  BY <1>1, TheShapes, WorkspaceAssumption DEF selectTerms, PaneRecord, OrNone, InFront, None
<1>3. /\ wsCalls' \in [CallSlot -> WsCall] /\ OneCall' /\ PastShape' /\ PastGoesOn
      /\ wsPast'.astray = wsPast.astray /\ \E s \in CallSlot : IsSent(s, "audit", r)
  <2>1. "audit" \in Handler
    BY DEF Handler
  <2> QED
    BY <1>1, <2>1, TheShapes, SentRead
<1>4. PaneShape' /\ OneCall'
  BY <1>1, <1>2, <1>3 DEF WorkInv, PaneShape
<1> PICK s \in CallSlot : IsSent(s, "audit", r)
  BY <1>3
<1>5. TermsInv'
  <2>1. /\ wsCalls[s] = NoCall /\ wsCalls'[s].by = "audit" /\ wsCalls'[s].of = r
        /\ \A t \in CallSlot \ {s} : wsCalls'[t] = wsCalls[t]
        /\ ~wsPast'.crossed => \A t \in CallSlot : wsCalls[t] = NoCall
    BY DEF IsSent
  <2> QED
    BY <1>1, <1>2, <1>3, <2>1, WorkspaceAssumption DEF WorkInv, TermsInv, InFront, Under, Reading, Orderly,
       PastGoesOn, NoCall, None
<1>6. WritesOnDisplay'
  BY <1>3, WritesStay DEF WorkInv, PastGoesOn
<1> QED
  BY <1>1, <1>4, <1>5, <1>6, FrontKeeps DEF None

LEMMA NewTermsKeeps ==
  ASSUME WorkInv, NewTerms
  PROVE  WorkInv'
<1>1. UNCHANGED <<workspace, wsCalls, wsPast>> /\ workspace = "terms"
  BY DEF NewTerms, InFront
<1>2. pane' \in PaneRecord /\ pane'.selected = None /\ pane'.detail = None /\ pane'.loading = pane.loading
      /\ pane'.busy = pane.busy
  BY <1>1, TheShapes DEF NewTerms, PaneRecord, OrNone
<1>3. PaneShape' /\ OneCall' /\ WritesOnDisplay'
  BY <1>1, <1>2 DEF WorkInv, PaneShape, OneCall, PastShape, WritesOnDisplay
<1>4. TermsInv'
  BY <1>1, <1>2, WorkspaceAssumption DEF WorkInv, TermsInv, InFront, Under, Reading, Orderly
<1> QED
  BY <1>1, <1>3, <1>4, FrontKeeps DEF None

LEMMA EditTermsKeeps ==
  ASSUME WorkInv, EditTerms
  PROVE  WorkInv'
<1>1. UNCHANGED <<workspace, wsCalls, wsPast>> /\ workspace = "terms"
  BY DEF EditTerms, InFront
<1>2. pane' \in PaneRecord /\ pane'.selected = pane.selected /\ pane'.detail = pane.detail
      /\ pane'.loading = pane.loading /\ pane'.busy = pane.busy
  BY <1>1, TheShapes DEF EditTerms, PaneRecord, OrNone
<1>3. PaneShape' /\ OneCall' /\ WritesOnDisplay'
  BY <1>1, <1>2 DEF WorkInv, PaneShape, OneCall, PastShape, WritesOnDisplay
<1>4. TermsInv'
  BY <1>1, <1>2, WorkspaceAssumption DEF WorkInv, TermsInv, InFront, Under, Reading, Orderly
<1> QED
  BY <1>1, <1>3, <1>4, FrontKeeps DEF None

LEMMA RefreshTermsKeeps ==
  ASSUME WorkInv, refreshTerms
  PROVE  WorkInv'
<1>1. workspace' = workspace /\ workspace = "terms" /\ Reads("termsList", None) /\ None \in OrNone
  BY TheShapes, WorkspaceAssumption DEF refreshTerms, InFront, OrNone, None
<1>2. pane' \in PaneRecord /\ pane'.busy /\ pane'.detail = pane.detail /\ pane'.loading = pane.loading
      /\ pane'.selected = pane.selected
  BY <1>1, TheShapes, WorkspaceAssumption DEF refreshTerms, PaneRecord, OrNone, InFront, None
<1>3. /\ wsCalls' \in [CallSlot -> WsCall] /\ OneCall' /\ PastShape' /\ PastGoesOn
      /\ wsPast'.astray = wsPast.astray /\ \E s \in CallSlot : IsSent(s, "termsList", None)
  <2>1. "termsList" \in Handler
    BY DEF Handler
  <2> QED
    BY <1>1, <2>1, TheShapes, SentRead
<1>4. PaneShape' /\ OneCall'
  BY <1>1, <1>2, <1>3 DEF WorkInv, PaneShape
<1> PICK s \in CallSlot : IsSent(s, "termsList", None)
  BY <1>3
<1>5. TermsInv'
  <2>1. /\ wsCalls[s] = NoCall /\ wsCalls'[s].by = "termsList" /\ wsCalls'[s].of = None
        /\ \A t \in CallSlot \ {s} : wsCalls'[t] = wsCalls[t]
        /\ ~wsPast'.crossed => \A t \in CallSlot : wsCalls[t] = NoCall
    BY DEF IsSent
  <2> QED
    BY <1>1, <1>2, <1>3, <2>1, WorkspaceAssumption DEF WorkInv, TermsInv, InFront, Under, Reading, Orderly,
       PastGoesOn, NoCall, None
<1>6. WritesOnDisplay'
  BY <1>3, WritesStay DEF WorkInv, PastGoesOn
<1> QED
  BY <1>1, <1>4, <1>5, <1>6, FrontKeeps DEF None

LEMMA SaveTermsKeeps ==
  ASSUME WorkInv, NEW r \in ConsoleRecord, saveTerms(r)
  PROVE  WorkInv'
<1>1. workspace' = workspace /\ workspace = "terms" /\ Reads("savedTerms", r) /\ r \in OrNone
  BY TheShapes, WorkspaceAssumption DEF saveTerms, InFront, OrNone, None
<1>2. pane' \in PaneRecord /\ pane'.busy /\ pane'.detail = pane.detail /\ pane'.loading = pane.loading
      /\ pane'.selected = pane.selected
  BY <1>1, TheShapes, WorkspaceAssumption DEF saveTerms, PaneRecord, OrNone, InFront, None
<1>3. /\ wsCalls' \in [CallSlot -> WsCall] /\ OneCall' /\ PastShape' /\ PastGoesOn
      /\ wsPast'.astray = wsPast.astray /\ \E s \in CallSlot : IsSent(s, "savedTerms", r)
  <2>1. "savedTerms" \in Handler
    BY DEF Handler
  <2> QED
    BY <1>1, <2>1, TheShapes, SentRead
<1>4. PaneShape' /\ OneCall'
  BY <1>1, <1>2, <1>3 DEF WorkInv, PaneShape
<1> PICK s \in CallSlot : IsSent(s, "savedTerms", r)
  BY <1>3
<1>5. TermsInv'
  <2>1. /\ wsCalls[s] = NoCall /\ wsCalls'[s].by = "savedTerms" /\ wsCalls'[s].of = r
        /\ \A t \in CallSlot \ {s} : wsCalls'[t] = wsCalls[t]
        /\ ~wsPast'.crossed => \A t \in CallSlot : wsCalls[t] = NoCall
    BY DEF IsSent
  <2> QED
    BY <1>1, <1>2, <1>3, <2>1, WorkspaceAssumption DEF WorkInv, TermsInv, InFront, Under, Reading, Orderly,
       PastGoesOn, NoCall, None
<1>6. WritesOnDisplay'
  BY <1>3, WritesStay DEF WorkInv, PastGoesOn
<1> QED
  BY <1>1, <1>4, <1>5, <1>6, FrontKeeps DEF None

LEMMA TransitionTermsKeeps ==
  ASSUME WorkInv, transitionTerms
  PROVE  WorkInv'
<1> DEFINE shown == (IF pane.editing THEN {} ELSE {pane.selected})
<1>1. workspace' = workspace /\ workspace = "terms"
      /\ Writes("transitionTerms", "savedTerms", pane.selected, shown) /\ pane.selected \in OrNone
  BY TheShapes, WorkspaceAssumption DEF transitionTerms, InFront, OrNone, None
<1> HIDE DEF shown
<1>2. pane' \in PaneRecord /\ pane'.busy /\ pane'.detail = pane.detail /\ pane'.loading = pane.loading
      /\ pane'.selected = pane.selected
  BY <1>1, TheShapes, WorkspaceAssumption DEF transitionTerms, PaneRecord, OrNone, InFront, None
<1>3. /\ wsCalls' \in [CallSlot -> WsCall] /\ OneCall' /\ PastShape' /\ PastGoesOn
      /\ wsPast'.astray = (IF shown = {pane.selected} THEN wsPast.astray
         ELSE wsPast.astray \cup {"transitionTerms"})
         /\ \E s \in CallSlot : IsSent(s, "savedTerms", pane.selected)
  <2>1. "savedTerms" \in Handler
    BY DEF Handler
  <2> QED
    BY <1>1, <2>1, TheShapes, SentWrite
<1>4. PaneShape' /\ OneCall'
  BY <1>1, <1>2, <1>3 DEF WorkInv, PaneShape
<1> PICK s \in CallSlot : IsSent(s, "savedTerms", pane.selected)
  BY <1>3
<1>5. TermsInv'
  <2>1. /\ wsCalls[s] = NoCall /\ wsCalls'[s].by = "savedTerms" /\ wsCalls'[s].of = pane.selected
        /\ \A t \in CallSlot \ {s} : wsCalls'[t] = wsCalls[t]
        /\ ~wsPast'.crossed => \A t \in CallSlot : wsCalls[t] = NoCall
    BY DEF IsSent
  <2> QED
    BY <1>1, <1>2, <1>3, <2>1, WorkspaceAssumption DEF WorkInv, TermsInv, InFront, Under, Reading, Orderly,
       PastGoesOn, NoCall, None
<1>6. WritesOnDisplay'
  BY <1>3, WritesStay DEF WorkInv, PastGoesOn, KnownAstray
<1> QED
  BY <1>1, <1>4, <1>5, <1>6, FrontKeeps DEF None

LEMMA SimulateTermsKeeps ==
  ASSUME WorkInv, simulateTerms
  PROVE  WorkInv'
<1>1. workspace' = workspace /\ workspace = "terms" /\ Reads("simulateTerms", None) /\ None \in OrNone
  BY TheShapes, WorkspaceAssumption DEF simulateTerms, InFront, OrNone, None
<1>2. pane' \in PaneRecord /\ pane'.busy /\ pane'.detail = pane.detail /\ pane'.loading = pane.loading
      /\ pane'.selected = pane.selected
  BY <1>1, TheShapes, WorkspaceAssumption DEF simulateTerms, PaneRecord, OrNone, InFront, None
<1>3. /\ wsCalls' \in [CallSlot -> WsCall] /\ OneCall' /\ PastShape' /\ PastGoesOn
      /\ wsPast'.astray = wsPast.astray /\ \E s \in CallSlot : IsSent(s, "simulateTerms", None)
  <2>1. "simulateTerms" \in Handler
    BY DEF Handler
  <2> QED
    BY <1>1, <2>1, TheShapes, SentRead
<1>4. PaneShape' /\ OneCall'
  BY <1>1, <1>2, <1>3 DEF WorkInv, PaneShape
<1> PICK s \in CallSlot : IsSent(s, "simulateTerms", None)
  BY <1>3
<1>5. TermsInv'
  <2>1. /\ wsCalls[s] = NoCall /\ wsCalls'[s].by = "simulateTerms" /\ wsCalls'[s].of = None
        /\ \A t \in CallSlot \ {s} : wsCalls'[t] = wsCalls[t]
        /\ ~wsPast'.crossed => \A t \in CallSlot : wsCalls[t] = NoCall
    BY DEF IsSent
  <2> QED
    BY <1>1, <1>2, <1>3, <2>1, WorkspaceAssumption DEF WorkInv, TermsInv, InFront, Under, Reading, Orderly,
       PastGoesOn, NoCall, None
<1>6. WritesOnDisplay'
  BY <1>3, WritesStay DEF WorkInv, PastGoesOn
<1> QED
  BY <1>1, <1>4, <1>5, <1>6, FrontKeeps DEF None

(* Customers and transactions: the answers.                                 *)
LEMMA LoadDetailKeeps ==
  ASSUME WorkInv, NEW s \in CallSlot, NEW ok \in BOOLEAN, loadDetail(s, ok)
  PROVE  WorkInv'
<1> DEFINE next == NoCall
<1>1. UNCHANGED workspace /\ workspace \in {"customers", "transactions"} /\ wsCalls[s] # NoCall
      /\ wsCalls[s].of \in OrNone /\ wsCalls[s].by = "detail"
  BY TheShapes, WorkspaceAssumption DEF loadDetail, InFront, NoCall, None
<1>2. wsCalls' = [wsCalls EXCEPT ![s] = next] /\ next \in WsCall
  BY <1>1, TheShapes, HandlersNamed, WorkspaceAssumption DEF loadDetail, Fails, Answered, Continues, None,
     WsCall, OrNone
<1>3. wsPast' = (IF ok THEN wsPast ELSE [wsPast EXCEPT !.failed = TRUE])
  BY <1>1, TheShapes DEF loadDetail, Fails, PastShape
<1>4. /\ pane' \in PaneRecord
      /\ (ok => pane'.selected = wsCalls[s].of /\ pane'.detail = wsCalls[s].of)
      /\ (ok /\ workspace = "customers" => pane'.form = wsCalls[s].of)
      /\ (~ok => pane'.selected = pane.selected /\ pane'.detail = pane.detail /\ pane'.form = pane.form)
      /\ (workspace = "transactions" => pane'.form = pane.form)
      /\ ~pane'.loading /\ pane'.aside = pane.aside /\ pane'.busy = pane.busy
  BY <1>1, TheShapes, WorkspaceAssumption DEF loadDetail, PaneRecord, OrNone, InFront, None
<1> HIDE DEF next
<1>5. /\ wsCalls' \in [CallSlot -> WsCall] /\ OneCall' /\ PastShape' /\ IsAnswered(s, next)
      /\ wsPast'.astray = wsPast.astray /\ wsPast'.crossed = wsPast.crossed
      /\ (wsPast.failed => wsPast'.failed) /\ (ok \/ wsPast'.failed)
  BY <1>1, <1>2, <1>3, TheShapes, Settled
<1>6. PaneShape' /\ OneCall' /\ WritesOnDisplay'
  BY <1>1, <1>4, <1>5, WritesStay DEF WorkInv, PaneShape
<1>7. DrawerInv' /\ CustomersInv' /\ TransactionsInv'
  <2>1. wsCalls'[s] = next /\ \A t \in CallSlot \ {s} : wsCalls'[t] = wsCalls[t]
    BY <1>5 DEF IsAnswered
  <2> QED
    BY <1>1, <1>4, <1>5, <2>1, WorkspaceAssumption DEF WorkInv, DrawerInv, CustomersInv, TransactionsInv,
       InFront, Under, Reading, Orderly, OneCall, NoCall, None, next
<1> QED
  BY <1>1, <1>6, <1>7, FrontKeeps DEF None

LEMMA ListLoadedKeeps ==
  ASSUME WorkInv, NEW s \in CallSlot, NEW ok \in BOOLEAN, ListLoaded(s, ok)
  PROVE  WorkInv'
<1> DEFINE next == NoCall
<1>1. UNCHANGED workspace /\ workspace = "transactions" /\ wsCalls[s] # NoCall /\ wsCalls[s].of \in OrNone
      /\ wsCalls[s].by = "list"
  BY TheShapes, WorkspaceAssumption DEF ListLoaded, InFront, NoCall, None
<1>2. wsCalls' = [wsCalls EXCEPT ![s] = next] /\ next \in WsCall
  BY <1>1, TheShapes, HandlersNamed, WorkspaceAssumption DEF ListLoaded, Fails, Answered, Continues, None,
     WsCall, OrNone
<1>3. wsPast' = (IF ok THEN wsPast ELSE [wsPast EXCEPT !.failed = TRUE])
  BY <1>1, TheShapes DEF ListLoaded, Fails, PastShape
<1>4. /\ pane' \in PaneRecord
      /\ (ok => pane'.form = wsCalls[s].of) /\ pane'.selected = pane.selected /\ pane'.detail = pane.detail
      /\ pane'.aside = pane.aside /\ pane'.busy = pane.busy /\ pane'.loading = pane.loading
  BY <1>1, TheShapes, WorkspaceAssumption DEF ListLoaded, PaneRecord, OrNone, InFront, None
<1> HIDE DEF next
<1>5. /\ wsCalls' \in [CallSlot -> WsCall] /\ OneCall' /\ PastShape' /\ IsAnswered(s, next)
      /\ wsPast'.astray = wsPast.astray /\ wsPast'.crossed = wsPast.crossed
      /\ (wsPast.failed => wsPast'.failed) /\ (ok \/ wsPast'.failed)
  BY <1>1, <1>2, <1>3, TheShapes, Settled
<1>6. PaneShape' /\ OneCall' /\ WritesOnDisplay'
  BY <1>1, <1>4, <1>5, WritesStay DEF WorkInv, PaneShape
<1>7. DrawerInv' /\ TransactionsInv'
  <2>1. wsCalls'[s] = next /\ \A t \in CallSlot \ {s} : wsCalls'[t] = wsCalls[t]
    BY <1>5 DEF IsAnswered
  <2> QED
    BY <1>1, <1>4, <1>5, <2>1, WorkspaceAssumption DEF WorkInv, DrawerInv, TransactionsInv, InFront, Under,
       Reading, Orderly, OneCall, NoCall, None, next
<1> QED
  BY <1>1, <1>6, <1>7, FrontKeeps DEF None

LEMMA CustomerSavedKeeps ==
  ASSUME WorkInv, NEW s \in CallSlot, NEW ok \in BOOLEAN, CustomerSaved(s, ok)
  PROVE  WorkInv'
<1> DEFINE next == IF ok THEN [by |-> "detail", of |-> wsCalls[s].of] ELSE NoCall
<1>1. UNCHANGED workspace /\ workspace = "customers" /\ wsCalls[s] # NoCall /\ wsCalls[s].of \in OrNone
      /\ wsCalls[s].by \in {"write", "saveProfile", "saveRouting", "create"}
  BY TheShapes, WorkspaceAssumption DEF CustomerSaved, InFront, NoCall, None
<1>2. wsCalls' = [wsCalls EXCEPT ![s] = next] /\ next \in WsCall
  BY <1>1, TheShapes, HandlersNamed, WorkspaceAssumption DEF CustomerSaved, Fails, Answered, Continues, None,
     WsCall, OrNone
<1>3. wsPast' = (IF ok THEN wsPast ELSE [wsPast EXCEPT !.failed = TRUE])
  BY <1>1, TheShapes DEF CustomerSaved, Fails, PastShape
<1>4. /\ pane' \in PaneRecord
      /\ (pane'.loading = (pane.loading \/ ok)) /\ pane'.selected = pane.selected
      /\ pane'.detail = pane.detail /\ pane'.form = pane.form /\ pane'.busy = pane.busy
  BY <1>1, TheShapes, WorkspaceAssumption DEF CustomerSaved, PaneRecord, OrNone, InFront, None
<1> HIDE DEF next
<1>5. /\ wsCalls' \in [CallSlot -> WsCall] /\ OneCall' /\ PastShape' /\ IsAnswered(s, next)
      /\ wsPast'.astray = wsPast.astray /\ wsPast'.crossed = wsPast.crossed
      /\ (wsPast.failed => wsPast'.failed) /\ (ok \/ wsPast'.failed)
  BY <1>1, <1>2, <1>3, TheShapes, Settled
<1>6. PaneShape' /\ OneCall' /\ WritesOnDisplay'
  BY <1>1, <1>4, <1>5, WritesStay DEF WorkInv, PaneShape
<1>7. DrawerInv' /\ CustomersInv'
  <2>1. wsCalls'[s] = next /\ \A t \in CallSlot \ {s} : wsCalls'[t] = wsCalls[t]
    BY <1>5 DEF IsAnswered
  <2> QED
    BY <1>1, <1>4, <1>5, <2>1, WorkspaceAssumption DEF WorkInv, DrawerInv, CustomersInv, InFront, Under,
       Reading, Orderly, OneCall, NoCall, None, next
<1> QED
  BY <1>1, <1>6, <1>7, FrontKeeps DEF None

(* Identity checks and credit policies: the answers.                        *)
LEMMA CaseAnswersKeeps ==
  ASSUME WorkInv, NEW s \in CallSlot, NEW ok \in BOOLEAN, CaseAnswers(s, ok)
  PROVE  WorkInv'
<1> DEFINE next == IF wsCalls[s].by = (IF ok THEN "upload" ELSE "verify")
    THEN [by |-> "reopen", of |-> wsCalls[s].of] ELSE NoCall
<1>1. UNCHANGED workspace /\ workspace = "kyc" /\ wsCalls[s] # NoCall /\ wsCalls[s].of \in OrNone
  BY TheShapes, WorkspaceAssumption DEF CaseAnswers, InFront, NoCall, None
<1>2. wsCalls' = [wsCalls EXCEPT ![s] = next] /\ next \in WsCall
  BY <1>1, TheShapes, HandlersNamed, WorkspaceAssumption DEF CaseAnswers, Fails, Answered, Continues, None,
     WsCall, OrNone
<1>3. wsPast' = (IF ok THEN wsPast ELSE [wsPast EXCEPT !.failed = TRUE])
  BY <1>1, TheShapes DEF CaseAnswers, Fails, PastShape
<1>4. /\ pane' \in PaneRecord
      /\ ~pane.busy => ~pane'.busy
      /\ ~(wsCalls[s].by = (IF ok THEN "upload" ELSE "verify") \/ wsCalls[s].by = "open") => ~pane'.busy
      /\ pane'.loading = pane.loading
  <2>1. pane \in PaneRecord /\ pane.selected \in OrNone /\ pane.form \in OrNone \cup {"default", "stored"}
        /\ pane.busy \in BOOLEAN
    BY TheShapes DEF PaneRecord
  <2>2. pane' = [pane EXCEPT !.selected
        = (IF ok /\ wsCalls[s].by # "upload" THEN wsCalls[s].of ELSE pane.selected),
        !.form = (IF ok /\ wsCalls[s].by = "decided" THEN None ELSE pane.form),
        !.busy = (pane.busy
        /\ (wsCalls[s].by = (IF ok THEN "upload" ELSE "verify") \/ wsCalls[s].by = "open"))]
    BY DEF CaseAnswers, InFront
  <2>3. pane' \in PaneRecord
    <3> DEFINE selectedNext == (IF ok /\ wsCalls[s].by # "upload" THEN wsCalls[s].of ELSE pane.selected)
               formNext == (IF ok /\ wsCalls[s].by = "decided" THEN None ELSE pane.form)
               busyNext == (pane.busy
                  /\ (wsCalls[s].by = (IF ok THEN "upload" ELSE "verify") \/ wsCalls[s].by = "open"))
    <3>1. selectedNext \in OrNone
      BY <1>1, <2>1 DEF OrNone
    <3>2. formNext \in OrNone \cup {"default", "stored"}
      BY <1>1, <2>1 DEF OrNone
    <3>3. busyNext \in BOOLEAN
      BY <1>1, <2>1 DEF OrNone
    <3> HIDE DEF selectedNext, formNext, busyNext
    <3>4. pane' = [pane EXCEPT !.selected = selectedNext, !.form = formNext, !.busy = busyNext]
      BY <2>2 DEF selectedNext, formNext, busyNext
    <3> QED
      BY <2>1, <3>1, <3>2, <3>3, <3>4 DEF PaneRecord
  <2>4. ~pane.busy => ~pane'.busy
    BY <1>1, <2>1, <2>2 DEF PaneRecord
  <2>5. ~(wsCalls[s].by = (IF ok THEN "upload" ELSE "verify") \/ wsCalls[s].by = "open") => ~pane'.busy
    BY <1>1, <2>1, <2>2 DEF PaneRecord
  <2>6. pane'.loading = pane.loading
    BY <1>1, <2>1, <2>2 DEF PaneRecord
  <2> QED
    BY <2>3, <2>4, <2>5, <2>6
<1> HIDE DEF next
<1>5. /\ wsCalls' \in [CallSlot -> WsCall] /\ OneCall' /\ PastShape' /\ IsAnswered(s, next)
      /\ wsPast'.astray = wsPast.astray /\ wsPast'.crossed = wsPast.crossed
      /\ (wsPast.failed => wsPast'.failed) /\ (ok \/ wsPast'.failed)
  BY <1>1, <1>2, <1>3, TheShapes, Settled
<1>6. PaneShape' /\ OneCall' /\ WritesOnDisplay'
  BY <1>1, <1>4, <1>5, WritesStay DEF WorkInv, PaneShape
<1>7. KycInv'
  <2>1. wsCalls'[s] = next /\ \A t \in CallSlot \ {s} : wsCalls'[t] = wsCalls[t]
    BY <1>5 DEF IsAnswered
  <2> QED
    BY <1>1, <1>4, <1>5, <2>1, WorkspaceAssumption DEF WorkInv, KycInv, InFront, Under, Reading, Orderly,
       OneCall, NoCall, None, next
<1> QED
  BY <1>1, <1>6, <1>7, FrontKeeps DEF None

LEMMA MastersKeep ==
  ASSUME WorkInv, NEW s \in CallSlot, NEW ok \in BOOLEAN, MastersLoad(s, ok)
  PROVE  WorkInv'
<1> DEFINE next == IF ok /\ pane.selected = None THEN [by |-> "rules", of |-> FirstTerms] ELSE NoCall
<1>1. UNCHANGED workspace /\ workspace = "credit" /\ wsCalls[s] # NoCall /\ wsCalls[s].of \in OrNone
      /\ wsCalls[s].by = "masters" /\ FirstTerms \in ConsoleRecord
  BY TheShapes, WorkspaceAssumption DEF MastersLoad, InFront, NoCall, None, FirstTerms
<1>2. wsCalls' = [wsCalls EXCEPT ![s] = next] /\ next \in WsCall
  BY <1>1, TheShapes, HandlersNamed, WorkspaceAssumption DEF MastersLoad, Fails, Answered, Continues, None,
     WsCall, OrNone, FirstTerms
<1>3. wsPast' = (IF ok THEN wsPast ELSE [wsPast EXCEPT !.failed = TRUE])
  BY <1>1, TheShapes DEF MastersLoad, Fails, PastShape, FirstTerms
<1>4. /\ pane' \in PaneRecord
      /\ pane'.selected = (IF ok /\ pane.selected = None THEN FirstTerms ELSE pane.selected) /\ ~pane'.loading
      /\ pane'.busy = pane.busy /\ pane'.detail = pane.detail
  BY <1>1, TheShapes, WorkspaceAssumption DEF MastersLoad, PaneRecord, OrNone, InFront, None, FirstTerms
<1> HIDE DEF next
<1>5. /\ wsCalls' \in [CallSlot -> WsCall] /\ OneCall' /\ PastShape' /\ IsAnswered(s, next)
      /\ wsPast'.astray = wsPast.astray /\ wsPast'.crossed = wsPast.crossed
      /\ (wsPast.failed => wsPast'.failed) /\ (ok \/ wsPast'.failed)
  BY <1>1, <1>2, <1>3, TheShapes, Settled
<1>6. PaneShape' /\ OneCall' /\ WritesOnDisplay'
  BY <1>1, <1>4, <1>5, WritesStay DEF WorkInv, PaneShape
<1>7. PoliciesInv'
  <2>1. wsCalls'[s] = next /\ \A t \in CallSlot \ {s} : wsCalls'[t] = wsCalls[t]
    BY <1>5 DEF IsAnswered
  <2> QED
    BY <1>1, <1>4, <1>5, <2>1, WorkspaceAssumption DEF WorkInv, PoliciesInv, InFront, Under, Reading, Orderly,
       OneCall, NoCall, None, next
<1> QED
  BY <1>1, <1>6, <1>7, FrontKeeps DEF None

LEMMA RulesKeep ==
  ASSUME WorkInv, NEW s \in CallSlot, NEW ok \in BOOLEAN, RulesLoad(s, ok)
  PROVE  WorkInv'
<1> DEFINE next == NoCall
<1>1. UNCHANGED workspace /\ workspace = "credit" /\ wsCalls[s] # NoCall /\ wsCalls[s].of \in OrNone
      /\ wsCalls[s].by = "rules"
  BY TheShapes, WorkspaceAssumption DEF RulesLoad, InFront, NoCall, None
<1>2. wsCalls' = [wsCalls EXCEPT ![s] = next] /\ next \in WsCall
  BY <1>1, TheShapes, HandlersNamed, WorkspaceAssumption DEF RulesLoad, Fails, Answered, Continues, None,
     WsCall, OrNone
<1>3. wsPast' = (IF ok THEN wsPast ELSE [wsPast EXCEPT !.failed = TRUE])
  BY <1>1, TheShapes DEF RulesLoad, Fails, PastShape
<1>4. /\ pane' \in PaneRecord
      /\ (ok => pane'.detail = wsCalls[s].of) /\ pane'.busy = pane.busy /\ pane'.selected = pane.selected
      /\ pane'.loading = pane.loading
  BY <1>1, TheShapes, WorkspaceAssumption DEF RulesLoad, PaneRecord, OrNone, InFront, None
<1> HIDE DEF next
<1>5. /\ wsCalls' \in [CallSlot -> WsCall] /\ OneCall' /\ PastShape' /\ IsAnswered(s, next)
      /\ wsPast'.astray = wsPast.astray /\ wsPast'.crossed = wsPast.crossed
      /\ (wsPast.failed => wsPast'.failed) /\ (ok \/ wsPast'.failed)
  BY <1>1, <1>2, <1>3, TheShapes, Settled
<1>6. PaneShape' /\ OneCall' /\ WritesOnDisplay'
  BY <1>1, <1>4, <1>5, WritesStay DEF WorkInv, PaneShape
<1>7. PoliciesInv'
  <2>1. wsCalls'[s] = next /\ \A t \in CallSlot \ {s} : wsCalls'[t] = wsCalls[t]
    BY <1>5 DEF IsAnswered
  <2> QED
    BY <1>1, <1>4, <1>5, <2>1, WorkspaceAssumption DEF WorkInv, PoliciesInv, InFront, Under, Reading, Orderly,
       OneCall, NoCall, None, next
<1> QED
  BY <1>1, <1>6, <1>7, FrontKeeps DEF None

LEMMA CreditSavedKeeps ==
  ASSUME WorkInv, NEW s \in CallSlot, NEW ok \in BOOLEAN, CreditSaved(s, ok)
  PROVE  WorkInv'
<1> DEFINE next == IF ~ok \/ wsCalls[s].by = "simulate" THEN NoCall
                    ELSE [by |-> IF wsCalls[s].by = "transition" THEN "masters" ELSE "rules",
                       of |-> wsCalls[s].of]
<1>1. UNCHANGED workspace /\ workspace = "credit" /\ wsCalls[s] # NoCall /\ wsCalls[s].of \in OrNone
      /\ wsCalls[s].by \in {"transition", "createRule", "createPolicy", "simulate"}
  BY TheShapes, WorkspaceAssumption DEF CreditSaved, InFront, NoCall, None
<1>2. wsCalls' = [wsCalls EXCEPT ![s] = next] /\ next \in WsCall
  BY <1>1, TheShapes, HandlersNamed, WorkspaceAssumption DEF CreditSaved, Fails, Answered, Continues, None,
     WsCall, OrNone
<1>3. wsPast' = (IF ok THEN wsPast ELSE [wsPast EXCEPT !.failed = TRUE])
  BY <1>1, TheShapes DEF CreditSaved, Fails, PastShape
<1>4. /\ pane' \in PaneRecord
      /\ ~pane.busy => ~pane'.busy
      /\ wsCalls[s].by = "simulate" => ~pane'.busy
      /\ ~pane.loading /\ ~(ok /\ wsCalls[s].by = "transition") => ~pane'.loading
      /\ pane'.selected = (IF ok /\ wsCalls[s].by = "createPolicy" THEN wsCalls[s].of ELSE pane.selected)
      /\ pane'.detail = pane.detail
  <2>1. pane \in PaneRecord /\ pane.busy \in BOOLEAN /\ pane.loading \in BOOLEAN /\ pane.selected \in OrNone
    BY TheShapes DEF PaneRecord
  <2>2. pane' = [pane EXCEPT !.busy = (pane.busy /\ wsCalls[s].by # "simulate"),
        !.loading = (pane.loading \/ (ok /\ wsCalls[s].by = "transition")),
        !.selected = (IF ok /\ wsCalls[s].by = "createPolicy" THEN wsCalls[s].of ELSE pane.selected)]
    BY DEF CreditSaved, InFront
  <2>3. pane' \in PaneRecord
    <3> DEFINE busyNext == (pane.busy /\ wsCalls[s].by # "simulate")
               loadingNext == (pane.loading \/ (ok /\ wsCalls[s].by = "transition"))
               selectedNext == (IF ok /\ wsCalls[s].by = "createPolicy" THEN wsCalls[s].of ELSE pane.selected)
    <3>1. busyNext \in BOOLEAN
      BY <1>1, <2>1 DEF OrNone
    <3>2. loadingNext \in BOOLEAN
      BY <1>1, <2>1 DEF OrNone
    <3>3. selectedNext \in OrNone
      BY <1>1, <2>1 DEF OrNone
    <3> HIDE DEF busyNext, loadingNext, selectedNext
    <3>4. pane' = [pane EXCEPT !.busy = busyNext, !.loading = loadingNext, !.selected = selectedNext]
      BY <2>2 DEF busyNext, loadingNext, selectedNext
    <3> QED
      BY <2>1, <3>1, <3>2, <3>3, <3>4 DEF PaneRecord
  <2>4. ~pane.busy => ~pane'.busy
    BY <1>1, <2>1, <2>2 DEF PaneRecord
  <2>5. wsCalls[s].by = "simulate" => ~pane'.busy
    BY <1>1, <2>1, <2>2 DEF PaneRecord
  <2>6. ~pane.loading /\ ~(ok /\ wsCalls[s].by = "transition") => ~pane'.loading
    BY <1>1, <2>1, <2>2 DEF PaneRecord
  <2>7. pane'.selected = (IF ok /\ wsCalls[s].by = "createPolicy" THEN wsCalls[s].of ELSE pane.selected)
    BY <1>1, <2>1, <2>2 DEF PaneRecord
  <2>8. pane'.detail = pane.detail
    BY <1>1, <2>1, <2>2 DEF PaneRecord
  <2> QED
    BY <2>3, <2>4, <2>5, <2>6, <2>7, <2>8
<1> HIDE DEF next
<1>5. /\ wsCalls' \in [CallSlot -> WsCall] /\ OneCall' /\ PastShape' /\ IsAnswered(s, next)
      /\ wsPast'.astray = wsPast.astray /\ wsPast'.crossed = wsPast.crossed
      /\ (wsPast.failed => wsPast'.failed) /\ (ok \/ wsPast'.failed)
  BY <1>1, <1>2, <1>3, TheShapes, Settled
<1>6. PaneShape' /\ OneCall' /\ WritesOnDisplay'
  BY <1>1, <1>4, <1>5, WritesStay DEF WorkInv, PaneShape
<1>7. PoliciesInv'
  <2>1. wsCalls'[s] = next /\ \A t \in CallSlot \ {s} : wsCalls'[t] = wsCalls[t]
    BY <1>5 DEF IsAnswered
  <2> QED
    BY <1>1, <1>4, <1>5, <2>1, WorkspaceAssumption DEF WorkInv, PoliciesInv, InFront, Under, Reading, Orderly,
       OneCall, NoCall, None, next
<1> QED
  BY <1>1, <1>6, <1>7, FrontKeeps DEF None

(* Alerts, reports and settings: the answers.                               *)
LEMMA AmlReloadsKeep ==
  ASSUME WorkInv, NEW s \in CallSlot, NEW ok \in BOOLEAN, AmlReloads(s, ok)
  PROVE  WorkInv'
<1> DEFINE next == IF ok
    /\ wsCalls[s].by = "decideCase" THEN [by |-> "list", of |-> wsCalls[s].of] ELSE NoCall
<1>1. UNCHANGED workspace /\ workspace = "aml" /\ wsCalls[s] # NoCall /\ wsCalls[s].of \in OrNone
  BY TheShapes, WorkspaceAssumption DEF AmlReloads, InFront, NoCall, None
<1>2. wsCalls' = [wsCalls EXCEPT ![s] = next] /\ next \in WsCall
  BY <1>1, TheShapes, HandlersNamed, WorkspaceAssumption DEF AmlReloads, Fails, Answered, Continues, None,
     WsCall, OrNone
<1>3. wsPast' = (IF ok THEN wsPast ELSE [wsPast EXCEPT !.failed = TRUE])
  BY <1>1, TheShapes DEF AmlReloads, Fails, PastShape
<1>4. /\ pane' \in PaneRecord
      /\ pane' = pane
  BY <1>1, TheShapes, WorkspaceAssumption DEF AmlReloads, PaneRecord, OrNone, InFront, None
<1> HIDE DEF next
<1>5. /\ wsCalls' \in [CallSlot -> WsCall] /\ OneCall' /\ PastShape' /\ IsAnswered(s, next)
      /\ wsPast'.astray = wsPast.astray /\ wsPast'.crossed = wsPast.crossed
      /\ (wsPast.failed => wsPast'.failed) /\ (ok \/ wsPast'.failed)
  BY <1>1, <1>2, <1>3, TheShapes, Settled
<1>6. PaneShape' /\ OneCall' /\ WritesOnDisplay'
  BY <1>1, <1>4, <1>5, WritesStay DEF WorkInv, PaneShape
<1>7. PlainInv'
  <2>1. wsCalls'[s] = next /\ \A t \in CallSlot \ {s} : wsCalls'[t] = wsCalls[t]
    BY <1>5 DEF IsAnswered
  <2> QED
    BY <1>1, <1>4, <1>5, <2>1, WorkspaceAssumption DEF WorkInv, PlainInv, InFront, Under, Reading, Orderly,
       OneCall, NoCall, None, next
<1> QED
  BY <1>1, <1>6, <1>7, FrontKeeps DEF None

LEMMA LoadReportKeeps ==
  ASSUME WorkInv, NEW s \in CallSlot, NEW ok \in BOOLEAN, loadReport(s, ok)
  PROVE  WorkInv'
<1> DEFINE next == NoCall
<1>1. UNCHANGED workspace /\ workspace = "accounting" /\ wsCalls[s] # NoCall /\ wsCalls[s].of \in OrNone
      /\ wsCalls[s].by = "report"
  BY TheShapes, WorkspaceAssumption DEF loadReport, InFront, NoCall, None
<1>2. wsCalls' = [wsCalls EXCEPT ![s] = next] /\ next \in WsCall
  BY <1>1, TheShapes, HandlersNamed, WorkspaceAssumption DEF loadReport, Fails, Answered, Continues, None,
     WsCall, OrNone
<1>3. wsPast' = (IF ok THEN wsPast ELSE [wsPast EXCEPT !.failed = TRUE])
  BY <1>1, TheShapes DEF loadReport, Fails, PastShape
<1>4. /\ pane' \in PaneRecord
      /\ (ok => pane'.detail = wsCalls[s].of) /\ ~pane'.loading /\ pane'.busy = pane.busy
      /\ pane'.selected = pane.selected
  BY <1>1, TheShapes, WorkspaceAssumption DEF loadReport, PaneRecord, OrNone, InFront, None
<1> HIDE DEF next
<1>5. /\ wsCalls' \in [CallSlot -> WsCall] /\ OneCall' /\ PastShape' /\ IsAnswered(s, next)
      /\ wsPast'.astray = wsPast.astray /\ wsPast'.crossed = wsPast.crossed
      /\ (wsPast.failed => wsPast'.failed) /\ (ok \/ wsPast'.failed)
  BY <1>1, <1>2, <1>3, TheShapes, Settled
<1>6. PaneShape' /\ OneCall' /\ WritesOnDisplay'
  BY <1>1, <1>4, <1>5, WritesStay DEF WorkInv, PaneShape
<1>7. ReportsInv'
  <2>1. wsCalls'[s] = next /\ \A t \in CallSlot \ {s} : wsCalls'[t] = wsCalls[t]
    BY <1>5 DEF IsAnswered
  <2> QED
    BY <1>1, <1>4, <1>5, <2>1, WorkspaceAssumption DEF WorkInv, ReportsInv, InFront, Under, Reading, Orderly,
       OneCall, NoCall, None, next
<1> QED
  BY <1>1, <1>6, <1>7, FrontKeeps DEF None

LEMMA SettingsAnswerKeeps ==
  ASSUME WorkInv, NEW s \in CallSlot, NEW ok \in BOOLEAN, SettingsAnswer(s, ok)
  PROVE  WorkInv'
<1> DEFINE next == IF ok /\ wsCalls[s].by = "close" THEN [by |-> "settings", of |-> None] ELSE NoCall
<1>1. UNCHANGED workspace /\ workspace \in {"accounting", "settings"} /\ wsCalls[s] # NoCall
      /\ wsCalls[s].of \in OrNone /\ wsCalls[s].by \in {"settings", "close", "save"}
  BY TheShapes, WorkspaceAssumption DEF SettingsAnswer, InFront, NoCall, None
<1>2. wsCalls' = [wsCalls EXCEPT ![s] = next] /\ next \in WsCall
  BY <1>1, TheShapes, HandlersNamed, WorkspaceAssumption DEF SettingsAnswer, Fails, Answered, Continues, None,
     WsCall, OrNone
<1>3. wsPast' = (IF ok THEN wsPast ELSE [wsPast EXCEPT !.failed = TRUE])
  BY <1>1, TheShapes DEF SettingsAnswer, Fails, PastShape
<1>4. /\ pane' \in PaneRecord
      /\ ~pane.busy => ~pane'.busy
      /\ wsCalls[s].by = "save" => ~pane'.busy
      /\ pane'.form = (IF ok /\ wsCalls[s].by = "settings" THEN "stored" ELSE pane.form)
      /\ pane'.selected = pane.selected /\ pane'.detail = pane.detail
      /\ ~pane.loading => ~pane'.loading
      /\ ~(workspace = "accounting" \/ wsCalls[s].by # "settings") => ~pane'.loading
      /\ (workspace = "accounting" \/ wsCalls[s].by # "settings") => pane'.loading = pane.loading
  <2>1. pane \in PaneRecord /\ pane.form \in OrNone \cup {"default", "stored"} /\ pane.loading \in BOOLEAN
        /\ pane.busy \in BOOLEAN
    BY TheShapes DEF PaneRecord
  <2>2. pane' = [pane EXCEPT !.form = (IF ok /\ wsCalls[s].by = "settings" THEN "stored" ELSE pane.form),
        !.loading = (pane.loading /\ (workspace = "accounting" \/ wsCalls[s].by # "settings")),
        !.busy = (pane.busy /\ wsCalls[s].by # "save")]
    BY DEF SettingsAnswer, InFront
  <2>3. pane' \in PaneRecord
    <3> DEFINE formNext == (IF ok /\ wsCalls[s].by = "settings" THEN "stored" ELSE pane.form)
               loadingNext == (pane.loading /\ (workspace = "accounting" \/ wsCalls[s].by # "settings"))
               busyNext == (pane.busy /\ wsCalls[s].by # "save")
    <3>1. formNext \in OrNone \cup {"default", "stored"}
      BY <1>1, <2>1 DEF OrNone
    <3>2. loadingNext \in BOOLEAN
      BY <1>1, <2>1 DEF OrNone
    <3>3. busyNext \in BOOLEAN
      BY <1>1, <2>1 DEF OrNone
    <3> HIDE DEF formNext, loadingNext, busyNext
    <3>4. pane' = [pane EXCEPT !.form = formNext, !.loading = loadingNext, !.busy = busyNext]
      BY <2>2 DEF formNext, loadingNext, busyNext
    <3> QED
      BY <2>1, <3>1, <3>2, <3>3, <3>4 DEF PaneRecord
  <2>4. ~pane.busy => ~pane'.busy
    BY <1>1, <2>1, <2>2 DEF PaneRecord
  <2>5. wsCalls[s].by = "save" => ~pane'.busy
    BY <1>1, <2>1, <2>2 DEF PaneRecord
  <2>6. pane'.form = (IF ok /\ wsCalls[s].by = "settings" THEN "stored" ELSE pane.form)
    BY <1>1, <2>1, <2>2 DEF PaneRecord
  <2>7. pane'.selected = pane.selected /\ pane'.detail = pane.detail
    BY <1>1, <2>1, <2>2 DEF PaneRecord
  <2>8. ~pane.loading => ~pane'.loading
    BY <1>1, <2>1, <2>2 DEF PaneRecord
  <2>9. ~(workspace = "accounting" \/ wsCalls[s].by # "settings") => ~pane'.loading
    BY <1>1, <2>1, <2>2 DEF PaneRecord
  <2>10. (workspace = "accounting" \/ wsCalls[s].by # "settings") => pane'.loading = pane.loading
    BY <1>1, <2>1, <2>2 DEF PaneRecord
  <2> QED
    BY <2>3, <2>4, <2>5, <2>6, <2>7, <2>8, <2>9, <2>10
<1> HIDE DEF next
<1>5. /\ wsCalls' \in [CallSlot -> WsCall] /\ OneCall' /\ PastShape' /\ IsAnswered(s, next)
      /\ wsPast'.astray = wsPast.astray /\ wsPast'.crossed = wsPast.crossed
      /\ (wsPast.failed => wsPast'.failed) /\ (ok \/ wsPast'.failed)
  BY <1>1, <1>2, <1>3, TheShapes, Settled
<1>6. PaneShape' /\ OneCall' /\ WritesOnDisplay'
  BY <1>1, <1>4, <1>5, WritesStay DEF WorkInv, PaneShape
<1>7. ReportsInv' /\ SettingsInv'
  <2>1. wsCalls'[s] = next /\ \A t \in CallSlot \ {s} : wsCalls'[t] = wsCalls[t]
    BY <1>5 DEF IsAnswered
  <2> QED
    BY <1>1, <1>4, <1>5, <2>1, WorkspaceAssumption DEF WorkInv, ReportsInv, SettingsInv, InFront, Under,
       Reading, Orderly, OneCall, NoCall, None, next
<1> QED
  BY <1>1, <1>6, <1>7, FrontKeeps DEF None

(* Approvals and funding: the answers.                                      *)
LEMMA ReviewLoadedKeeps ==
  ASSUME WorkInv, NEW s \in CallSlot, NEW ok \in BOOLEAN, ReviewLoaded(s, ok)
  PROVE  WorkInv'
<1> DEFINE next == NoCall
<1>1. UNCHANGED workspace /\ workspace = "approvals" /\ wsCalls[s] # NoCall /\ wsCalls[s].of \in OrNone
      /\ wsCalls[s].by = "review"
  BY TheShapes, WorkspaceAssumption DEF ReviewLoaded, InFront, NoCall, None
<1>2. wsCalls' = [wsCalls EXCEPT ![s] = next] /\ next \in WsCall
  BY <1>1, TheShapes, HandlersNamed, WorkspaceAssumption DEF ReviewLoaded, Fails, Answered, Continues, None,
     WsCall, OrNone
<1>3. wsPast' = (IF ok THEN wsPast ELSE [wsPast EXCEPT !.failed = TRUE])
  BY <1>1, TheShapes DEF ReviewLoaded, Fails, PastShape
<1>4. /\ pane' \in PaneRecord
      /\ pane'.detail = (IF ok /\ pane.selected = wsCalls[s].of THEN wsCalls[s].of ELSE pane.detail)
      /\ pane'.selected = (IF ok THEN pane.selected ELSE None) /\ ~pane'.loading /\ pane'.busy = pane.busy
      /\ pane'.form = pane.form
  BY <1>1, TheShapes, WorkspaceAssumption DEF ReviewLoaded, PaneRecord, OrNone, InFront, None
<1> HIDE DEF next
<1>5. /\ wsCalls' \in [CallSlot -> WsCall] /\ OneCall' /\ PastShape' /\ IsAnswered(s, next)
      /\ wsPast'.astray = wsPast.astray /\ wsPast'.crossed = wsPast.crossed
      /\ (wsPast.failed => wsPast'.failed) /\ (ok \/ wsPast'.failed)
  BY <1>1, <1>2, <1>3, TheShapes, Settled
<1>6. PaneShape' /\ OneCall' /\ WritesOnDisplay'
  BY <1>1, <1>4, <1>5, WritesStay DEF WorkInv, PaneShape
<1>7. ApprovalsInv'
  <2>1. wsCalls'[s] = next /\ \A t \in CallSlot \ {s} : wsCalls'[t] = wsCalls[t]
    BY <1>5 DEF IsAnswered
  <2> QED
    BY <1>1, <1>4, <1>5, <2>1, WorkspaceAssumption DEF WorkInv, ApprovalsInv, InFront, Under, Reading,
       Orderly, OneCall, NoCall, None, next
<1> QED
  BY <1>1, <1>6, <1>7, FrontKeeps DEF None

LEMMA RequestDecidedKeeps ==
  ASSUME WorkInv, NEW s \in CallSlot, NEW ok \in BOOLEAN, RequestDecided(s, ok)
  PROVE  WorkInv'
<1> DEFINE next == NoCall
<1>1. UNCHANGED workspace /\ workspace = "approvals" /\ wsCalls[s] # NoCall /\ wsCalls[s].of \in OrNone
      /\ wsCalls[s].by = "decide"
  BY TheShapes, WorkspaceAssumption DEF RequestDecided, InFront, NoCall, None
<1>2. wsCalls' = [wsCalls EXCEPT ![s] = next] /\ next \in WsCall
  BY <1>1, TheShapes, HandlersNamed, WorkspaceAssumption DEF RequestDecided, Fails, Answered, Continues, None,
     WsCall, OrNone
<1>3. wsPast' = (IF ok THEN wsPast ELSE [wsPast EXCEPT !.failed = TRUE])
  BY <1>1, TheShapes DEF RequestDecided, Fails, PastShape
<1>4. /\ pane' \in PaneRecord
      /\ pane'.selected = (IF ok THEN None ELSE pane.selected)
      /\ pane'.form = (IF ok THEN None ELSE pane.form) /\ ~pane'.busy /\ pane'.detail = pane.detail
      /\ pane'.loading = pane.loading
  BY <1>1, TheShapes, WorkspaceAssumption DEF RequestDecided, PaneRecord, OrNone, InFront, None
<1> HIDE DEF next
<1>5. /\ wsCalls' \in [CallSlot -> WsCall] /\ OneCall' /\ PastShape' /\ IsAnswered(s, next)
      /\ wsPast'.astray = wsPast.astray /\ wsPast'.crossed = wsPast.crossed
      /\ (wsPast.failed => wsPast'.failed) /\ (ok \/ wsPast'.failed)
  BY <1>1, <1>2, <1>3, TheShapes, Settled
<1>6. PaneShape' /\ OneCall' /\ WritesOnDisplay'
  BY <1>1, <1>4, <1>5, WritesStay DEF WorkInv, PaneShape
<1>7. ApprovalsInv'
  <2>1. wsCalls'[s] = next /\ \A t \in CallSlot \ {s} : wsCalls'[t] = wsCalls[t]
    BY <1>5 DEF IsAnswered
  <2> QED
    BY <1>1, <1>4, <1>5, <2>1, WorkspaceAssumption DEF WorkInv, ApprovalsInv, InFront, Under, Reading,
       Orderly, OneCall, NoCall, None, next
<1> QED
  BY <1>1, <1>6, <1>7, FrontKeeps DEF None

LEMMA FundingAnswersKeep ==
  ASSUME WorkInv, NEW s \in CallSlot, NEW ok \in BOOLEAN, FundingAnswers(s, ok)
  PROVE  WorkInv'
<1> DEFINE next == IF ((wsCalls[s].by = "upload" /\ ok) \/ (wsCalls[s].by = "request" /\ ~ok))
    THEN [by |-> IF ok THEN "request" ELSE "remove", of |-> wsCalls[s].of] ELSE NoCall
<1>1. UNCHANGED workspace /\ workspace = "funding" /\ wsCalls[s] # NoCall /\ wsCalls[s].of \in OrNone
  BY TheShapes, WorkspaceAssumption DEF FundingAnswers, InFront, NoCall, None
<1>2. wsCalls' = [wsCalls EXCEPT ![s] = next] /\ next \in WsCall
  BY <1>1, TheShapes, HandlersNamed, WorkspaceAssumption DEF FundingAnswers, Fails, Answered, Continues, None,
     WsCall, OrNone
<1>3. wsPast' = (IF (ok \/ wsCalls[s].by = "request") THEN wsPast ELSE [wsPast EXCEPT !.failed = TRUE])
  BY <1>1, TheShapes DEF FundingAnswers, Fails, PastShape
<1>4. /\ pane' \in PaneRecord
      /\ ~pane.busy => ~pane'.busy
      /\ ~((wsCalls[s].by = "upload" /\ ok) \/ (wsCalls[s].by = "request" /\ ~ok)) => ~pane'.busy
      /\ pane'.selected = pane.selected /\ pane'.loading = pane.loading
  <2>1. pane \in PaneRecord /\ pane.busy \in BOOLEAN /\ pane.editing \in BOOLEAN /\ pane.aside \in OrNone
        /\ pane.detail \in OrNone
    BY TheShapes DEF PaneRecord
  <2>2. pane' = [pane EXCEPT !.busy
        = (pane.busy /\ ((wsCalls[s].by = "upload" /\ ok) \/ (wsCalls[s].by = "request" /\ ~ok))),
        !.editing = (pane.editing /\ ~(ok /\ wsCalls[s].by = "request")),
        !.aside = (IF ok /\ wsCalls[s].by = "request" THEN wsCalls[s].of ELSE pane.aside),
        !.detail = (IF ok
        /\ wsCalls[s].by \in {"upload", "remove"} THEN IF wsCalls[s].by = "upload" THEN wsCalls[s].of
           ELSE None ELSE pane.detail)]
    BY DEF FundingAnswers, InFront
  <2>3. pane' \in PaneRecord
    <3> DEFINE busyNext == (pane.busy
        /\ ((wsCalls[s].by = "upload" /\ ok) \/ (wsCalls[s].by = "request" /\ ~ok)))
               editingNext == (pane.editing /\ ~(ok /\ wsCalls[s].by = "request"))
               asideNext == (IF ok /\ wsCalls[s].by = "request" THEN wsCalls[s].of ELSE pane.aside)
               detailNext == (IF ok
                  /\ wsCalls[s].by \in {"upload", "remove"} THEN IF wsCalls[s].by = "upload"
                     THEN wsCalls[s].of ELSE None ELSE pane.detail)
    <3>1. busyNext \in BOOLEAN
      BY <1>1, <2>1 DEF OrNone
    <3>2. editingNext \in BOOLEAN
      BY <1>1, <2>1 DEF OrNone
    <3>3. asideNext \in OrNone
      BY <1>1, <2>1 DEF OrNone
    <3>4. detailNext \in OrNone
      BY <1>1, <2>1 DEF OrNone
    <3> HIDE DEF busyNext, editingNext, asideNext, detailNext
    <3>5. pane' = [pane EXCEPT !.busy = busyNext, !.editing = editingNext, !.aside = asideNext,
          !.detail = detailNext]
      BY <2>2 DEF busyNext, editingNext, asideNext, detailNext
    <3> QED
      BY <2>1, <3>1, <3>2, <3>3, <3>4, <3>5 DEF PaneRecord
  <2>4. ~pane.busy => ~pane'.busy
    BY <1>1, <2>1, <2>2 DEF PaneRecord
  <2>5. ~((wsCalls[s].by = "upload" /\ ok) \/ (wsCalls[s].by = "request" /\ ~ok)) => ~pane'.busy
    BY <1>1, <2>1, <2>2 DEF PaneRecord
  <2>6. pane'.selected = pane.selected /\ pane'.loading = pane.loading
    BY <1>1, <2>1, <2>2 DEF PaneRecord
  <2> QED
    BY <2>3, <2>4, <2>5, <2>6
<1> HIDE DEF next
<1>5. /\ wsCalls' \in [CallSlot -> WsCall] /\ OneCall' /\ PastShape' /\ IsAnswered(s, next)
      /\ wsPast'.astray = wsPast.astray /\ wsPast'.crossed = wsPast.crossed
      /\ (wsPast.failed => wsPast'.failed) /\ ((ok \/ wsCalls[s].by = "request") \/ wsPast'.failed)
  BY <1>1, <1>2, <1>3, TheShapes, Settled
<1>6. PaneShape' /\ OneCall' /\ WritesOnDisplay'
  BY <1>1, <1>4, <1>5, WritesStay DEF WorkInv, PaneShape
<1>7. FundingInv'
  <2>1. wsCalls'[s] = next /\ \A t \in CallSlot \ {s} : wsCalls'[t] = wsCalls[t]
    BY <1>5 DEF IsAnswered
  <2> QED
    BY <1>1, <1>4, <1>5, <2>1, WorkspaceAssumption DEF WorkInv, FundingInv, InFront, Under, Reading, Orderly,
       OneCall, NoCall, None, next
<1> QED
  BY <1>1, <1>6, <1>7, FrontKeeps DEF None

LEMMA FirstStored == FirstTerms \in ConsoleRecord
BY WorkspaceAssumption DEF FirstTerms

(* Commercial terms: the answers, one handler after the other.              *)
LEMMA SavedTermsAnswer ==
  ASSUME WorkInv, NEW s \in CallSlot, NEW ok \in BOOLEAN, TermsAnswers(s, ok), wsCalls[s].by = "savedTerms"
  PROVE  WorkInv'
<1> DEFINE next == IF ok THEN [by |-> "termsList", of |-> wsCalls[s].of] ELSE NoCall
<1>1. UNCHANGED workspace /\ workspace = "terms" /\ wsCalls[s] # NoCall /\ wsCalls[s].of \in OrNone
      /\ wsCalls[s].by = "savedTerms"
  BY TheShapes, WorkspaceAssumption DEF TermsAnswers, InFront, NoCall, None
<1>2. wsCalls' = [wsCalls EXCEPT ![s] = next] /\ next \in WsCall
  BY <1>1, TheShapes, HandlersNamed, WorkspaceAssumption DEF TermsAnswers, Fails, Answered, Continues, None,
     WsCall, OrNone
<1>3. wsPast' = (IF ok THEN wsPast ELSE [wsPast EXCEPT !.failed = TRUE])
  BY <1>1, TheShapes DEF TermsAnswers, Fails, PastShape
<1>4. /\ pane' \in PaneRecord
      /\ ~ok => ~pane'.busy
      /\ pane'.selected = pane.selected /\ pane'.detail = pane.detail /\ pane'.loading = pane.loading
  <2>1. pane \in PaneRecord /\ pane.busy \in BOOLEAN
    BY TheShapes DEF PaneRecord
  <2>2. pane' = [pane EXCEPT !.busy = ok]
    BY <1>1 DEF TermsAnswers, InFront
  <2>3. pane' \in PaneRecord
    <3> DEFINE busyNext == ok
    <3>1. busyNext \in BOOLEAN
      BY <1>1, <2>1, FirstStored DEF OrNone
    <3> HIDE DEF busyNext
    <3>2. pane' = [pane EXCEPT !.busy = busyNext]
      BY <2>2 DEF busyNext
    <3> QED
      BY <2>1, <3>1, <3>2 DEF PaneRecord
  <2>4. ~ok => ~pane'.busy
    BY <1>1, <2>1, <2>2 DEF PaneRecord
  <2>5. pane'.selected = pane.selected /\ pane'.detail = pane.detail /\ pane'.loading = pane.loading
    BY <1>1, <2>1, <2>2 DEF PaneRecord
  <2> QED
    BY <2>3, <2>4, <2>5
<1> HIDE DEF next
<1>5. /\ wsCalls' \in [CallSlot -> WsCall] /\ OneCall' /\ PastShape' /\ IsAnswered(s, next)
      /\ wsPast'.astray = wsPast.astray /\ wsPast'.crossed = wsPast.crossed
      /\ (wsPast.failed => wsPast'.failed) /\ (ok \/ wsPast'.failed)
  BY <1>1, <1>2, <1>3, TheShapes, Settled
<1>6. PaneShape' /\ OneCall' /\ WritesOnDisplay'
  BY <1>1, <1>4, <1>5, WritesStay DEF WorkInv, PaneShape
<1>7. TermsInv'
  <2>1. wsCalls'[s] = next /\ \A t \in CallSlot \ {s} : wsCalls'[t] = wsCalls[t]
    BY <1>5 DEF IsAnswered
  <2> QED
    BY <1>1, <1>4, <1>5, <2>1, WorkspaceAssumption DEF WorkInv, TermsInv, InFront, Under, Reading, Orderly,
       OneCall, NoCall, None, next
<1> QED
  BY <1>1, <1>6, <1>7, FrontKeeps DEF None

LEMMA FirstTrailAnswer ==
  ASSUME WorkInv, NEW s \in CallSlot, NEW ok \in BOOLEAN, TermsAnswers(s, ok), wsCalls[s].by = "firstAudit"
  PROVE  WorkInv'
<1> DEFINE next == IF wsCalls[s].of = None THEN NoCall ELSE [by |-> "lastAudit", of |-> wsCalls[s].of]
<1>1. UNCHANGED workspace /\ workspace = "terms" /\ wsCalls[s] # NoCall /\ wsCalls[s].of \in OrNone
      /\ wsCalls[s].by = "firstAudit"
  BY TheShapes, WorkspaceAssumption DEF TermsAnswers, InFront, NoCall, None, LoadEnds
<1>2. wsCalls' = [wsCalls EXCEPT ![s] = next] /\ next \in WsCall
  BY <1>1, TheShapes, HandlersNamed, WorkspaceAssumption DEF TermsAnswers, Fails, Answered, Continues, None,
     WsCall, OrNone, LoadEnds
<1>3. wsPast' = (IF ok THEN wsPast ELSE [wsPast EXCEPT !.failed = TRUE])
  BY <1>1, TheShapes DEF TermsAnswers, Fails, PastShape, LoadEnds
<1>4. /\ pane' \in PaneRecord
      /\ ~pane'.busy
      /\ pane'.detail = (IF ok THEN FirstTerms ELSE None)
      /\ pane'.selected = (IF wsCalls[s].of = None THEN pane.selected ELSE wsCalls[s].of)
      /\ pane'.loading = pane.loading
  <2>1. pane \in PaneRecord /\ pane.detail \in OrNone /\ pane.busy \in BOOLEAN /\ pane.selected \in OrNone
        /\ pane.editing \in BOOLEAN
    BY TheShapes DEF PaneRecord
  <2>2. pane' = [pane EXCEPT !.detail = (IF ok THEN FirstTerms ELSE None), !.busy = FALSE,
        !.selected = (IF wsCalls[s].of = None THEN pane.selected ELSE wsCalls[s].of),
        !.editing = (IF wsCalls[s].of = None THEN pane.editing ELSE FALSE)]
    BY <1>1 DEF TermsAnswers, InFront, LoadEnds
  <2>3. pane' \in PaneRecord
    <3> DEFINE detailNext == (IF ok THEN FirstTerms ELSE None)
               busyNext == FALSE
               selectedNext == (IF wsCalls[s].of = None THEN pane.selected ELSE wsCalls[s].of)
               editingNext == (IF wsCalls[s].of = None THEN pane.editing ELSE FALSE)
    <3>1. detailNext \in OrNone
      BY <1>1, <2>1, FirstStored DEF OrNone
    <3>2. busyNext \in BOOLEAN
      BY <1>1, <2>1, FirstStored DEF OrNone
    <3>3. selectedNext \in OrNone
      BY <1>1, <2>1, FirstStored DEF OrNone
    <3>4. editingNext \in BOOLEAN
      BY <1>1, <2>1, FirstStored DEF OrNone
    <3> HIDE DEF detailNext, busyNext, selectedNext, editingNext
    <3>5. pane' = [pane EXCEPT !.detail = detailNext, !.busy = busyNext, !.selected = selectedNext,
          !.editing = editingNext]
      BY <2>2 DEF detailNext, busyNext, selectedNext, editingNext
    <3> QED
      BY <2>1, <3>1, <3>2, <3>3, <3>4, <3>5 DEF PaneRecord
  <2>4. ~pane'.busy
    BY <1>1, <2>1, <2>2 DEF PaneRecord
  <2>5. pane'.detail = (IF ok THEN FirstTerms ELSE None)
    BY <1>1, <2>1, <2>2 DEF PaneRecord
  <2>6. pane'.selected = (IF wsCalls[s].of = None THEN pane.selected ELSE wsCalls[s].of)
    BY <1>1, <2>1, <2>2 DEF PaneRecord
  <2>7. pane'.loading = pane.loading
    BY <1>1, <2>1, <2>2 DEF PaneRecord
  <2> QED
    BY <2>3, <2>4, <2>5, <2>6, <2>7
<1> HIDE DEF next
<1>5. /\ wsCalls' \in [CallSlot -> WsCall] /\ OneCall' /\ PastShape' /\ IsAnswered(s, next)
      /\ wsPast'.astray = wsPast.astray /\ wsPast'.crossed = wsPast.crossed
      /\ (wsPast.failed => wsPast'.failed) /\ (ok \/ wsPast'.failed)
  BY <1>1, <1>2, <1>3, TheShapes, Settled
<1>6. PaneShape' /\ OneCall' /\ WritesOnDisplay'
  BY <1>1, <1>4, <1>5, WritesStay DEF WorkInv, PaneShape
<1>7. TermsInv'
  <2>1. wsCalls'[s] = next /\ \A t \in CallSlot \ {s} : wsCalls'[t] = wsCalls[t]
    BY <1>5 DEF IsAnswered
  <2> QED
    BY <1>1, <1>4, <1>5, <2>1, WorkspaceAssumption DEF WorkInv, TermsInv, InFront, Under, Reading, Orderly,
       OneCall, NoCall, None, next
<1> QED
  BY <1>1, <1>6, <1>7, FrontKeeps DEF None

LEMMA TrailAnswer ==
  ASSUME WorkInv, NEW s \in CallSlot, NEW ok \in BOOLEAN, TermsAnswers(s, ok),
         wsCalls[s].by \in {"audit", "lastAudit"}
  PROVE  WorkInv'
<1> DEFINE next == NoCall
<1>1. UNCHANGED workspace /\ workspace = "terms" /\ wsCalls[s] # NoCall /\ wsCalls[s].of \in OrNone
      /\ wsCalls[s].by \in {"audit", "lastAudit"}
  BY TheShapes, WorkspaceAssumption DEF TermsAnswers, InFront, NoCall, None
<1>2. wsCalls' = [wsCalls EXCEPT ![s] = next] /\ next \in WsCall
  BY <1>1, TheShapes, HandlersNamed, WorkspaceAssumption DEF TermsAnswers, Fails, Answered, Continues, None,
     WsCall, OrNone
<1>3. wsPast' = (IF ok THEN wsPast ELSE [wsPast EXCEPT !.failed = TRUE])
  BY <1>1, TheShapes DEF TermsAnswers, Fails, PastShape
<1>4. /\ pane' \in PaneRecord
      /\ ~pane.busy => ~pane'.busy
      /\ wsCalls[s].by # "audit" => ~pane'.busy
      /\ pane'.detail = (IF ok THEN wsCalls[s].of ELSE None)
      /\ pane'.loading = pane.loading /\ pane'.selected = pane.selected
  <2>1. pane \in PaneRecord /\ pane.detail \in OrNone /\ pane.busy \in BOOLEAN
    BY TheShapes DEF PaneRecord
  <2>2. pane' = [pane EXCEPT !.detail = (IF ok THEN wsCalls[s].of ELSE None),
        !.busy = (pane.busy /\ wsCalls[s].by = "audit")]
    BY <1>1 DEF TermsAnswers, InFront
  <2>3. pane' \in PaneRecord
    <3> DEFINE detailNext == (IF ok THEN wsCalls[s].of ELSE None)
               busyNext == (pane.busy /\ wsCalls[s].by = "audit")
    <3>1. detailNext \in OrNone
      BY <1>1, <2>1, FirstStored DEF OrNone
    <3>2. busyNext \in BOOLEAN
      BY <1>1, <2>1, FirstStored DEF OrNone
    <3> HIDE DEF detailNext, busyNext
    <3>3. pane' = [pane EXCEPT !.detail = detailNext, !.busy = busyNext]
      BY <2>2 DEF detailNext, busyNext
    <3> QED
      BY <2>1, <3>1, <3>2, <3>3 DEF PaneRecord
  <2>4. ~pane.busy => ~pane'.busy
    BY <1>1, <2>1, <2>2 DEF PaneRecord
  <2>5. wsCalls[s].by # "audit" => ~pane'.busy
    BY <1>1, <2>1, <2>2 DEF PaneRecord
  <2>6. pane'.detail = (IF ok THEN wsCalls[s].of ELSE None)
    BY <1>1, <2>1, <2>2 DEF PaneRecord
  <2>7. pane'.loading = pane.loading /\ pane'.selected = pane.selected
    BY <1>1, <2>1, <2>2 DEF PaneRecord
  <2> QED
    BY <2>3, <2>4, <2>5, <2>6, <2>7
<1> HIDE DEF next
<1>5. /\ wsCalls' \in [CallSlot -> WsCall] /\ OneCall' /\ PastShape' /\ IsAnswered(s, next)
      /\ wsPast'.astray = wsPast.astray /\ wsPast'.crossed = wsPast.crossed
      /\ (wsPast.failed => wsPast'.failed) /\ (ok \/ wsPast'.failed)
  BY <1>1, <1>2, <1>3, TheShapes, Settled
<1>6. PaneShape' /\ OneCall' /\ WritesOnDisplay'
  BY <1>1, <1>4, <1>5, WritesStay DEF WorkInv, PaneShape
<1>7. TermsInv'
  <2>1. wsCalls'[s] = next /\ \A t \in CallSlot \ {s} : wsCalls'[t] = wsCalls[t]
    BY <1>5 DEF IsAnswered
  <2> QED
    BY <1>1, <1>4, <1>5, <2>1, WorkspaceAssumption DEF WorkInv, TermsInv, InFront, Under, Reading, Orderly,
       OneCall, NoCall, None, next
<1> QED
  BY <1>1, <1>6, <1>7, FrontKeeps DEF None

LEMMA SimulateTermsAnswer ==
  ASSUME WorkInv, NEW s \in CallSlot, NEW ok \in BOOLEAN, TermsAnswers(s, ok), wsCalls[s].by = "simulateTerms"
  PROVE  WorkInv'
<1> DEFINE next == NoCall
<1>1. UNCHANGED workspace /\ workspace = "terms" /\ wsCalls[s] # NoCall /\ wsCalls[s].of \in OrNone
      /\ wsCalls[s].by = "simulateTerms"
  BY TheShapes, WorkspaceAssumption DEF TermsAnswers, InFront, NoCall, None
<1>2. wsCalls' = [wsCalls EXCEPT ![s] = next] /\ next \in WsCall
  BY <1>1, TheShapes, HandlersNamed, WorkspaceAssumption DEF TermsAnswers, Fails, Answered, Continues, None,
     WsCall, OrNone
<1>3. wsPast' = (IF ok THEN wsPast ELSE [wsPast EXCEPT !.failed = TRUE])
  BY <1>1, TheShapes DEF TermsAnswers, Fails, PastShape
<1>4. /\ pane' \in PaneRecord
      /\ ~pane'.busy
      /\ pane'.loading = pane.loading /\ pane'.selected = pane.selected /\ pane'.detail = pane.detail
  <2>1. pane \in PaneRecord /\ pane.busy \in BOOLEAN
    BY TheShapes DEF PaneRecord
  <2>2. pane' = [pane EXCEPT !.busy = FALSE]
    BY <1>1 DEF TermsAnswers, InFront
  <2>3. pane' \in PaneRecord
    <3> DEFINE busyNext == FALSE
    <3>1. busyNext \in BOOLEAN
      BY <1>1, <2>1, FirstStored DEF OrNone
    <3> HIDE DEF busyNext
    <3>2. pane' = [pane EXCEPT !.busy = busyNext]
      BY <2>2 DEF busyNext
    <3> QED
      BY <2>1, <3>1, <3>2 DEF PaneRecord
  <2>4. ~pane'.busy
    BY <1>1, <2>1, <2>2 DEF PaneRecord
  <2>5. pane'.loading = pane.loading /\ pane'.selected = pane.selected /\ pane'.detail = pane.detail
    BY <1>1, <2>1, <2>2 DEF PaneRecord
  <2> QED
    BY <2>3, <2>4, <2>5
<1> HIDE DEF next
<1>5. /\ wsCalls' \in [CallSlot -> WsCall] /\ OneCall' /\ PastShape' /\ IsAnswered(s, next)
      /\ wsPast'.astray = wsPast.astray /\ wsPast'.crossed = wsPast.crossed
      /\ (wsPast.failed => wsPast'.failed) /\ (ok \/ wsPast'.failed)
  BY <1>1, <1>2, <1>3, TheShapes, Settled
<1>6. PaneShape' /\ OneCall' /\ WritesOnDisplay'
  BY <1>1, <1>4, <1>5, WritesStay DEF WorkInv, PaneShape
<1>7. TermsInv'
  <2>1. wsCalls'[s] = next /\ \A t \in CallSlot \ {s} : wsCalls'[t] = wsCalls[t]
    BY <1>5 DEF IsAnswered
  <2> QED
    BY <1>1, <1>4, <1>5, <2>1, WorkspaceAssumption DEF WorkInv, TermsInv, InFront, Under, Reading, Orderly,
       OneCall, NoCall, None, next
<1> QED
  BY <1>1, <1>6, <1>7, FrontKeeps DEF None

LEMMA TermsListAnswer ==
  ASSUME WorkInv, NEW s \in CallSlot, NEW ok \in BOOLEAN, TermsAnswers(s, ok), wsCalls[s].by = "termsList"
  PROVE  WorkInv'
<1> DEFINE next == IF ok THEN [by |-> "firstAudit", of |-> wsCalls[s].of] ELSE IF wsCalls[s].of = None
    THEN NoCall ELSE [by |-> "lastAudit", of |-> wsCalls[s].of]
<1>1. UNCHANGED workspace /\ workspace = "terms" /\ wsCalls[s] # NoCall /\ wsCalls[s].of \in OrNone
      /\ wsCalls[s].by = "termsList"
  BY TheShapes, WorkspaceAssumption DEF TermsAnswers, InFront, NoCall, None, LoadEnds, Selects
<1>2. wsCalls' = [wsCalls EXCEPT ![s] = next] /\ next \in WsCall
  BY <1>1, TheShapes, HandlersNamed, WorkspaceAssumption DEF TermsAnswers, Fails, Answered, Continues, None,
     WsCall, OrNone, LoadEnds, Selects
<1>3. wsPast' = (IF ok THEN wsPast ELSE [wsPast EXCEPT !.failed = TRUE])
  BY <1>1, TheShapes DEF TermsAnswers, Fails, PastShape, LoadEnds, Selects
<1>4. /\ pane' \in PaneRecord
      /\ ~pane.busy => ~pane'.busy
      /\ ~ok => ~pane'.busy
      /\ pane'.selected = (IF ok THEN FirstTerms ELSE IF wsCalls[s].of = None THEN pane.selected
         ELSE wsCalls[s].of)
      /\ pane'.loading = pane.loading /\ pane'.detail = pane.detail
  <2>1. pane \in PaneRecord /\ pane.selected \in OrNone /\ pane.editing \in BOOLEAN
        /\ pane.form \in OrNone \cup {"default", "stored"} /\ pane.busy \in BOOLEAN
    BY TheShapes DEF PaneRecord
  <2>2. pane' = [pane EXCEPT !.selected
        = (IF ok THEN FirstTerms ELSE IF wsCalls[s].of = None THEN pane.selected ELSE wsCalls[s].of),
        !.editing = (~ok /\ wsCalls[s].of = None /\ pane.editing),
        !.form = (IF ok THEN "stored" ELSE pane.form), !.busy = (ok /\ pane.busy)]
    <3>1. /\ ok => pane' = [pane EXCEPT !.selected = FirstTerms, !.editing = FALSE, !.form = "stored"]
          /\ ~ok /\ wsCalls[s].of = None => pane' = [pane EXCEPT !.busy = FALSE]
          /\ ~ok /\ wsCalls[s].of # None =>
               pane' = [pane EXCEPT !.busy = FALSE, !.selected = wsCalls[s].of, !.editing = FALSE]
      BY <1>1 DEF TermsAnswers, LoadEnds, Selects
    <3>2. CASE ok
      BY <2>1, <3>1, <3>2 DEF PaneRecord
    <3>3. CASE ~ok /\ wsCalls[s].of = None
      BY <2>1, <3>1, <3>3 DEF PaneRecord
    <3>4. CASE ~ok /\ wsCalls[s].of # None
      BY <2>1, <3>1, <3>4 DEF PaneRecord
    <3> QED
      BY <3>2, <3>3, <3>4
  <2>3. pane' \in PaneRecord
    <3> DEFINE selectedNext == (IF ok THEN FirstTerms ELSE IF wsCalls[s].of = None THEN pane.selected
        ELSE wsCalls[s].of)
               editingNext == (~ok /\ wsCalls[s].of = None /\ pane.editing)
               formNext == (IF ok THEN "stored" ELSE pane.form)
               busyNext == (ok /\ pane.busy)
    <3>1. selectedNext \in OrNone
      BY <1>1, <2>1, FirstStored DEF OrNone
    <3>2. editingNext \in BOOLEAN
      BY <1>1, <2>1, FirstStored DEF OrNone
    <3>3. formNext \in OrNone \cup {"default", "stored"}
      BY <1>1, <2>1, FirstStored DEF OrNone
    <3>4. busyNext \in BOOLEAN
      BY <1>1, <2>1, FirstStored DEF OrNone
    <3> HIDE DEF selectedNext, editingNext, formNext, busyNext
    <3>5. pane' = [pane EXCEPT !.selected = selectedNext, !.editing = editingNext, !.form = formNext,
          !.busy = busyNext]
      BY <2>2 DEF selectedNext, editingNext, formNext, busyNext
    <3> QED
      BY <2>1, <3>1, <3>2, <3>3, <3>4, <3>5 DEF PaneRecord
  <2>4. ~pane.busy => ~pane'.busy
    BY <1>1, <2>1, <2>2 DEF PaneRecord
  <2>5. ~ok => ~pane'.busy
    BY <1>1, <2>1, <2>2 DEF PaneRecord
  <2>6. pane'.selected = (IF ok THEN FirstTerms ELSE IF wsCalls[s].of = None THEN pane.selected
        ELSE wsCalls[s].of)
    BY <1>1, <2>1, <2>2 DEF PaneRecord
  <2>7. pane'.loading = pane.loading /\ pane'.detail = pane.detail
    BY <1>1, <2>1, <2>2 DEF PaneRecord
  <2> QED
    BY <2>3, <2>4, <2>5, <2>6, <2>7
<1> HIDE DEF next
<1>5. /\ wsCalls' \in [CallSlot -> WsCall] /\ OneCall' /\ PastShape' /\ IsAnswered(s, next)
      /\ wsPast'.astray = wsPast.astray /\ wsPast'.crossed = wsPast.crossed
      /\ (wsPast.failed => wsPast'.failed) /\ (ok \/ wsPast'.failed)
  BY <1>1, <1>2, <1>3, TheShapes, Settled
<1>6. PaneShape' /\ OneCall' /\ WritesOnDisplay'
  BY <1>1, <1>4, <1>5, WritesStay DEF WorkInv, PaneShape
<1>7. TermsInv'
  <2>1. wsCalls'[s] = next /\ \A t \in CallSlot \ {s} : wsCalls'[t] = wsCalls[t]
    BY <1>5 DEF IsAnswered
  <2> QED
    BY <1>1, <1>4, <1>5, <2>1, WorkspaceAssumption DEF WorkInv, TermsInv, InFront, Under, Reading, Orderly,
       OneCall, NoCall, None, next
<1> QED
  BY <1>1, <1>6, <1>7, FrontKeeps DEF None

LEMMA TermsAnswersKeep ==
  ASSUME WorkInv, NEW s \in CallSlot, NEW ok \in BOOLEAN, TermsAnswers(s, ok)
  PROVE  WorkInv'
<1>1. \/ wsCalls[s].by \in {"audit", "lastAudit"}
      \/ wsCalls[s].by = "savedTerms" \/ wsCalls[s].by = "termsList" \/ wsCalls[s].by = "firstAudit"
      \/ wsCalls[s].by = "simulateTerms"
  BY DEF TermsAnswers
<1> QED
  BY <1>1, SavedTermsAnswer, TermsListAnswer, FirstTrailAnswer, TrailAnswer, SimulateTermsAnswer

(* The routing form may be another customer's, the export another report's. *)
LEMMA SaveRoutingKeeps ==
  ASSUME WorkInv, saveRouting
  PROVE  WorkInv'
<1> DEFINE a == IF OnDisplay = {pane.aside} THEN wsPast.astray ELSE wsPast.astray \cup {"saveRouting"}
<1>1. /\ UNCHANGED <<workspace, pane>> /\ workspace = "customers" /\ pane.selected \in OrNone
      /\ Sends("saveRouting", pane.selected, [wsPast EXCEPT !.astray = a])
  BY TheShapes DEF saveRouting, InFront
<1>2. a \subseteq wsPast.astray \cup KnownAstray
  BY DEF KnownAstray
<1> HIDE DEF a
<1>3. "saveRouting" \in Handler
  BY DEF Handler
<1>4. /\ wsCalls' \in [CallSlot -> WsCall] /\ OneCall' /\ PastShape' /\ PastGoesOn
      /\ wsPast'.astray = a /\ \E s \in CallSlot : IsSent(s, "saveRouting", pane.selected)
  BY <1>1, <1>3, TheShapes, Sent
<1>5. PaneShape' /\ OneCall'
  BY <1>1, <1>4 DEF WorkInv, PaneShape
<1> PICK s \in CallSlot : IsSent(s, "saveRouting", pane.selected)
  BY <1>4
<1>6. DrawerInv' /\ CustomersInv'
  <2>1. /\ wsCalls[s] = NoCall /\ wsCalls'[s].by = "saveRouting" /\ wsCalls'[s].of = pane.selected
        /\ \A t \in CallSlot \ {s} : wsCalls'[t] = wsCalls[t]
        /\ ~wsPast'.crossed => \A t \in CallSlot : wsCalls[t] = NoCall
    BY DEF IsSent
  <2> QED
    BY <1>1, <1>4, <2>1, WorkspaceAssumption
       DEF WorkInv, DrawerInv, CustomersInv, InFront, Under, Reading, Orderly, PastGoesOn, NoCall, None
<1>7. WritesOnDisplay'
  BY <1>2, <1>4, WritesStay DEF WorkInv, PastGoesOn
<1> QED
  BY <1>1, <1>5, <1>6, <1>7, FrontKeeps DEF None

LEMMA ExportKeeps ==
  ASSUME WorkInv, exportRows
  PROVE  WorkInv'
<1> DEFINE a == IF pane.detail = pane.selected THEN wsPast.astray ELSE wsPast.astray \cup {"exportRows"}
<1>1. UNCHANGED <<workspace, pane, wsCalls>> /\ workspace = "accounting"
      /\ wsPast' = [wsPast EXCEPT !.astray = a]
  BY DEF exportRows, InFront
<1>2. a \subseteq wsPast.astray \cup KnownAstray
  BY DEF KnownAstray
<1> HIDE DEF a
<1>3. PastShape' /\ wsPast'.astray = a /\ wsPast'.crossed = wsPast.crossed /\ wsPast'.failed = wsPast.failed
  BY <1>1, TheShapes DEF PastShape
<1>4. PaneShape' /\ OneCall' /\ ReportsInv'
  BY <1>1, <1>3 DEF WorkInv, PaneShape, OneCall, ReportsInv, InFront, Under, Orderly
<1>5. WritesOnDisplay'
  BY <1>2, <1>3, WritesStay DEF WorkInv
<1> QED
  BY <1>1, <1>4, <1>5, FrontKeeps DEF None

(* Access: the drawer that shuts forgets its flag with its requests.       *)
LEMMA WithoutEditorShape ==
  ASSUME NEW calls \in [CallSlot -> WsCall]
  PROVE  /\ WithoutEditor(calls) \in [CallSlot -> WsCall]
         /\ \A t \in CallSlot : WithoutEditor(calls)[t] = NoCall <=> calls[t] = NoCall
         /\ \A t \in CallSlot : WithoutEditor(calls)[t].by \notin {"saveAccess", "resetMfa", "resetList"}
<1>1. SUFFICES ASSUME NEW t \in CallSlot
               PROVE  /\ WithoutEditor(calls)[t] \in WsCall
                      /\ WithoutEditor(calls)[t] = NoCall <=> calls[t] = NoCall
                      /\ WithoutEditor(calls)[t].by \notin {"saveAccess", "resetMfa", "resetList"}
  BY DEF WithoutEditor
<1>2. DOMAIN Forgotten = {"saveAccess", "resetMfa", "resetList"} /\ Forgotten["saveAccess"] = "lateSave"
      /\ Forgotten["resetMfa"] = "lateReset" /\ Forgotten["resetList"] = "list"
  BY DEF Forgotten
<1>3. {"lateSave", "lateReset", "list"} \subseteq Handler
  BY DEF Handler
<1>4. CASE calls[t].by \in DOMAIN Forgotten
  <2>1. WithoutEditor(calls)[t] = [calls[t] EXCEPT !.by = Forgotten[calls[t].by]]
    BY <1>4 DEF WithoutEditor
  <2>2. Forgotten[calls[t].by] \in {"lateSave", "lateReset", "list"}
    BY <1>2, <1>4
  <2>3. calls[t] \in [by : Handler, of : OrNone]
    BY <1>2, <1>4 DEF WsCall, NoCall, None
  <2> QED
    BY <1>2, <1>3, <1>4, <2>1, <2>2, <2>3 DEF WsCall, NoCall, None
<1>5. CASE calls[t].by \notin DOMAIN Forgotten
  BY <1>2, <1>5 DEF WithoutEditor
<1> QED
  BY <1>4, <1>5

LEMMA CloseAccessKeeps ==
  ASSUME WorkInv, closeAccess
  PROVE  WorkInv'
<1>1. UNCHANGED <<workspace, wsPast>> /\ workspace = "access" /\ wsCalls' = WithoutEditor(wsCalls)
  BY DEF closeAccess, InFront
<1>2. pane' \in PaneRecord /\ ~pane'.busy /\ pane'.aside = None /\ pane'.loading = pane.loading
  BY TheShapes DEF closeAccess, NoEditor, PaneRecord, OrNone
<1>3. /\ wsCalls' \in [CallSlot -> WsCall] /\ \A t \in CallSlot : wsCalls'[t] = NoCall <=> wsCalls[t] = NoCall
      /\ \A t \in CallSlot : wsCalls'[t].by \notin {"saveAccess", "resetMfa", "resetList"}
  BY <1>1, TheShapes, WithoutEditorShape
<1>4. PaneShape' /\ OneCall' /\ WritesOnDisplay'
  BY <1>1, <1>2, <1>3 DEF WorkInv, PaneShape, PastShape, OneCall, WritesOnDisplay
<1>5. AccessInv'
  BY <1>1, <1>2, <1>3 DEF WorkInv, AccessInv, InFront, Under
<1> QED
  BY <1>1, <1>4, <1>5, FrontKeeps DEF None

LEMMA AccessAnswersKeep ==
  ASSUME WorkInv, NEW s \in CallSlot, NEW ok \in BOOLEAN, AccessAnswers(s, ok)
  PROVE  WorkInv'
<1> DEFINE by == wsCalls[s].by
           shuts == ok /\ by \in {"saveAccess", "lateSave"}
           next == IF ~ok \/ by \in {"list", "resetList"} THEN NoCall
                   ELSE [by |-> IF by = "resetMfa" THEN "resetList" ELSE "list", of |-> None]
           calls == [wsCalls EXCEPT ![s] = next]
           clears == by = "resetList" \/ (by = "resetMfa" /\ ~ok)
           a == IF shuts /\ by = "lateSave"
              /\ pane.editing THEN wsPast.astray \cup {"editorClosed"} ELSE wsPast.astray
<1>1. /\ UNCHANGED workspace /\ workspace = "access" /\ wsCalls[s] # NoCall
      /\ shuts => pane' = NoEditor(pane) /\ wsCalls' = WithoutEditor(calls)
      /\ ~shuts => /\ wsCalls' = calls
                    /\ pane' = [pane EXCEPT !.busy = @ /\ by # "saveAccess",
                       !.aside = IF clears THEN None ELSE @]
      /\ wsPast' = [wsPast EXCEPT !.failed = @ \/ ~ok, !.astray = a]
  BY DEF AccessAnswers, InFront
<1>2. next \in WsCall
  <2>1. "resetList" \in Handler /\ "list" \in Handler
    BY DEF Handler
  <2> QED
    BY <2>1 DEF WsCall, OrNone
<1>3. a \subseteq wsPast.astray \cup KnownAstray
  BY DEF KnownAstray
<1>4. shuts => next = [by |-> "list", of |-> None]
  BY DEF None
<1>5. /\ next = NoCall \/ next.by \in {"resetList", "list"}
      /\ next # NoCall /\ next.by = "resetList" => by = "resetMfa" /\ ~clears
      /\ by = "resetMfa" => clears \/ next.by = "resetList"
  OBVIOUS
<1> HIDE DEF next, a
<1>6. PastShape' /\ wsPast'.astray = a /\ wsPast'.crossed = wsPast.crossed
      /\ (wsPast.failed => wsPast'.failed)
  BY <1>1, TheShapes DEF PastShape
<1>7. WritesOnDisplay'
  BY <1>3, <1>6, WritesStay DEF WorkInv
<1>8. calls \in [CallSlot -> WsCall] /\ calls[s] = next /\ \A t \in CallSlot \ {s} : calls[t] = wsCalls[t]
  BY <1>2, TheShapes
<1> HIDE DEF calls
<1>9. CASE shuts
  <2>1. pane' = NoEditor(pane) /\ wsCalls' = WithoutEditor(calls)
    BY <1>1, <1>9
  <2>2. pane' \in PaneRecord /\ ~pane'.busy /\ pane'.aside = None /\ pane'.loading = pane.loading
    BY <2>1, TheShapes DEF NoEditor, PaneRecord, OrNone
  <2>3. /\ wsCalls' \in [CallSlot -> WsCall] /\ \A t \in CallSlot : wsCalls'[t] = NoCall <=> calls[t] = NoCall
        /\ \A t \in CallSlot : wsCalls'[t].by \notin {"saveAccess", "resetMfa", "resetList"}
    BY <1>8, <2>1, WithoutEditorShape
  <2>4. \A t \in CallSlot : wsCalls'[t] # NoCall => wsCalls[t] # NoCall
    BY <1>1, <1>8, <2>3
  <2>5. PaneShape' /\ OneCall'
    BY <1>1, <1>6, <2>2, <2>3, <2>4 DEF WorkInv, PaneShape, OneCall
  <2>6. AccessInv'
    BY <1>1, <2>2, <2>3 DEF WorkInv, AccessInv, InFront, Under
  <2> QED
    BY <1>1, <1>7, <2>5, <2>6, FrontKeeps DEF None
<1>10. CASE ~shuts
  <2>1. wsCalls' = calls
        /\ pane' = [pane EXCEPT !.busy = @ /\ by # "saveAccess", !.aside = IF clears THEN None ELSE @]
    BY <1>1, <1>10
  <2>2. pane.busy \in BOOLEAN /\ pane.aside \in OrNone
    BY TheShapes DEF PaneRecord
  <2>3. pane' \in PaneRecord
    <3> DEFINE busyNext == pane.busy /\ by # "saveAccess"
               asideNext == IF clears THEN None ELSE pane.aside
    <3>1. busyNext \in BOOLEAN /\ asideNext \in OrNone
      BY <2>2 DEF OrNone
    <3>2. pane' = [pane EXCEPT !.busy = busyNext, !.aside = asideNext]
      BY <2>1
    <3> HIDE DEF busyNext, asideNext
    <3> QED
      BY <3>1, <3>2, TheShapes DEF PaneRecord
  <2>4. by = "saveAccess" => ~pane'.busy
    BY <2>1, <2>2, TheShapes DEF PaneRecord
  <2>5. by # "saveAccess" => pane'.busy = pane.busy
    BY <2>1, <2>2, TheShapes DEF PaneRecord
  <2>6. pane'.aside = (IF clears THEN None ELSE pane.aside) /\ pane'.loading = pane.loading
    BY <2>1, TheShapes DEF PaneRecord
  <2>7. PaneShape' /\ OneCall'
    <3>1. \A t \in CallSlot : wsCalls'[t] # NoCall => wsCalls[t] # NoCall
      BY <1>1, <1>8, <2>1
    <3> QED
      BY <1>1, <1>6, <1>8, <2>1, <2>3, <3>1 DEF WorkInv, PaneShape, OneCall
  <2>8. AccessInv'
    <3>1. wsCalls'[s] = next /\ \A t \in CallSlot \ {s} : wsCalls'[t] = wsCalls[t]
      BY <1>8, <2>1
    <3>2. AccessInv /\ InFront("access")
      BY <1>1 DEF WorkInv, InFront
    <3>3. next.by # "saveAccess" /\ next.by # "resetMfa"
      BY <1>5 DEF NoCall, None
    <3>4. pane'.busy <=> Under({"saveAccess"})'
      BY <2>4, <2>5, <3>1, <3>2, <3>3 DEF AccessInv, Under
    <3>5. (pane'.aside # None) <=> Under({"resetMfa", "resetList"})'
      BY <1>5, <2>6, <3>1, <3>2, <3>3 DEF AccessInv, Under, NoCall, None
    <3>6. \A t, u \in CallSlot :
            \/ wsCalls'[t].by = "saveAccess" /\ wsCalls'[u].by = "saveAccess"
            \/ wsCalls'[t].by \in {"resetMfa", "resetList"} /\ wsCalls'[u].by \in {"resetMfa", "resetList"}
            => t = u
      BY <1>5, <3>1, <3>2, <3>3 DEF AccessInv, NoCall, None
    <3> QED
      BY <2>6, <3>2, <3>4, <3>5, <3>6 DEF AccessInv
  <2> QED
    BY <1>1, <1>7, <2>7, <2>8, FrontKeeps DEF None
<1> QED
  BY <1>9, <1>10

(* Reference data: no form is sent twice while no requests overlapped.      *)
LEMMA SaveReferenceKeeps ==
  ASSUME WorkInv, saveReference
  PROVE  WorkInv'
<1> DEFINE twice == ~wsPast.crossed
                    /\ \E s \in CallSlot : wsCalls[s] = [by |-> "saveReference", of |-> pane.selected]
           a == IF twice THEN wsPast.astray \cup {"sentTwice"} ELSE wsPast.astray
<1>1. /\ UNCHANGED workspace /\ workspace = "reference" /\ ~pane.busy /\ pane.selected \in OrNone
      /\ Sends("saveReference", pane.selected, [wsPast EXCEPT !.astray = a])
  BY TheShapes DEF saveReference, InFront
<1>2. ~twice
  BY <1>1 DEF WorkInv, ReferenceInv, InFront, Under
<1>3. a = wsPast.astray
  BY <1>2
<1> HIDE DEF twice, a
<1>4. pane' \in PaneRecord /\ pane'.busy /\ ~pane'.loading /\ pane'.aside = None
  BY TheShapes DEF saveReference, UnderWay, PaneRecord, OrNone
<1>5. "saveReference" \in Handler
  BY DEF Handler
<1>6. /\ wsCalls' \in [CallSlot -> WsCall] /\ OneCall' /\ PastShape' /\ PastGoesOn
      /\ wsPast'.astray = a /\ \E s \in CallSlot : IsSent(s, "saveReference", pane.selected)
  BY <1>1, <1>5, TheShapes, Sent
<1>7. PaneShape' /\ OneCall'
  BY <1>1, <1>4, <1>6 DEF WorkInv, PaneShape
<1> PICK s \in CallSlot : IsSent(s, "saveReference", pane.selected)
  BY <1>6
<1>8. ReferenceInv'
  <2>1. /\ wsCalls[s] = NoCall /\ wsCalls'[s].by = "saveReference"
        /\ \A t \in CallSlot \ {s} : wsCalls'[t] = wsCalls[t]
        /\ ~wsPast'.crossed => \A t \in CallSlot : wsCalls[t] = NoCall
    BY DEF IsSent
  <2> QED
    BY <1>1, <1>4, <2>1 DEF ReferenceInv, InFront, Under, NoCall, None
<1>9. WritesOnDisplay'
  BY <1>3, <1>6, WritesStay DEF WorkInv, PastGoesOn
<1> QED
  BY <1>1, <1>7, <1>8, <1>9, FrontKeeps DEF None

LEMMA ReferenceAnswersKeep ==
  ASSUME WorkInv, NEW s \in CallSlot, NEW ok \in BOOLEAN, ReferenceAnswers(s, ok)
  PROVE  WorkInv'
<1> DEFINE c == wsCalls[s]
           goesOn == ok /\ c.by # "refList"
           shuts == ok /\ c.by = "saveReference"
           next == IF goesOn THEN [by |-> "refList", of |-> None] ELSE NoCall
           shown == UnderWay(IF goesOn THEN "refList" ELSE None, None)
           a == IF shuts /\ pane.editing /\ pane.selected # c.of THEN wsPast.astray \cup {"editorClosed"}
                ELSE wsPast.astray
<1>1. /\ UNCHANGED workspace /\ workspace = "reference" /\ wsCalls[s] # NoCall
      /\ pane' = IF shuts THEN [shown EXCEPT !.selected = None, !.editing = FALSE] ELSE shown
      /\ IF goesOn THEN Continues(s, "refList", None) ELSE Answered(s)
      /\ wsPast' = [wsPast EXCEPT !.failed = @ \/ ~ok, !.astray = a]
  BY DEF ReferenceAnswers, InFront
<1>2. wsCalls' = [wsCalls EXCEPT ![s] = next]
  BY <1>1 DEF Continues, Answered, None
<1>3. next \in WsCall
  BY HandlersNamed DEF WsCall, OrNone
<1>4. a \subseteq wsPast.astray \cup KnownAstray
  BY DEF KnownAstray
<1>5. shown \in PaneRecord /\ shown.loading = goesOn /\ ~shown.busy /\ shown.aside = None
  <2>1. CASE goesOn
    BY <2>1, TheShapes DEF UnderWay, PaneRecord, OrNone
  <2>2. CASE ~goesOn
    BY <2>2, TheShapes DEF UnderWay, PaneRecord, OrNone, None
  <2> QED
    BY <2>1, <2>2
<1>6. goesOn => next.by = "refList"
  OBVIOUS
<1>7. next = NoCall \/ next.by = "refList"
  OBVIOUS
<1> HIDE DEF next, a, shown, goesOn, shuts
<1>8. pane' \in PaneRecord /\ (pane'.loading => goesOn) /\ ~pane'.busy /\ pane'.aside = None
  <2>1. CASE shuts
    BY <1>1, <1>5, <2>1 DEF PaneRecord, OrNone
  <2>2. CASE ~shuts
    BY <1>1, <1>5, <2>2
  <2> QED
    BY <2>1, <2>2
<1>9. PastShape' /\ wsPast'.astray = a /\ wsPast'.crossed = wsPast.crossed
      /\ (wsPast.failed => wsPast'.failed)
  BY <1>1, TheShapes DEF PastShape
<1>10. wsCalls' \in [CallSlot -> WsCall] /\ OneCall' /\ IsAnswered(s, next)
  BY <1>1, <1>2, <1>3, <1>9, TheShapes, AnswerTaken
<1>11. PaneShape' /\ OneCall' /\ WritesOnDisplay'
  BY <1>1, <1>4, <1>8, <1>9, <1>10, WritesStay DEF WorkInv, PaneShape
<1>12. ReferenceInv'
  <2>1. wsCalls'[s] = next /\ \A t \in CallSlot \ {s} : wsCalls'[t] = wsCalls[t]
    BY <1>10 DEF IsAnswered
  <2>2. ~wsPast'.crossed => \A t \in CallSlot \ {s} : wsCalls'[t] = NoCall
    BY <1>1, <1>9, <2>1 DEF WorkInv, OneCall
  <2> QED
    BY <1>1, <1>6, <1>7, <1>8, <2>1, <2>2 DEF ReferenceInv, InFront, Under, NoCall, None
<1> QED
  BY <1>1, <1>11, <1>12, FrontKeeps DEF None

(* Nothing is mounted, or a workspace has just been.                        *)
LEMMA NothingMounted ==
  ASSUME workspace = None, pane = Empty, wsCalls = [s \in CallSlot |-> NoCall], wsPast = Calm
  PROVE  WorkInv
<1>1. pane \in PaneRecord /\ wsCalls \in [CallSlot -> WsCall] /\ \A s \in CallSlot : wsCalls[s] = NoCall
  BY DEF Empty, PaneRecord, OrNone, WsCall
<1>2. PastShape /\ WritesOnDisplay
  BY DEF Calm, PastShape, WritesOnDisplay
<1> QED
  BY <1>1, <1>2 DEF WorkInv, PaneShape, OneCall, DrawerInv, CustomersInv, TransactionsInv, KycInv,
     PoliciesInv, PlainInv,
     ReportsInv, SettingsInv, ApprovalsInv, FundingInv, AccessInv, ReferenceInv, TermsInv, InFront, None

LEMMA LeaveKeeps == Leave => WorkInv'
<1> SUFFICES ASSUME Leave PROVE WorkInv'
  OBVIOUS
<1>1. pane' \in PaneRecord /\ wsCalls' \in [CallSlot -> WsCall] /\ \A s \in CallSlot : wsCalls'[s] = NoCall
  BY DEF Leave, Empty, PaneRecord, OrNone, WsCall
<1>2. PastShape' /\ WritesOnDisplay'
  BY DEF Leave, Calm, PastShape, WritesOnDisplay
<1>3. workspace' = None /\ pane' = Empty
  BY DEF Leave
<1> QED
  BY <1>1, <1>2, <1>3 DEF WorkInv, PaneShape, OneCall, DrawerInv, CustomersInv, TransactionsInv, KycInv,
     PoliciesInv,
     PlainInv, ReportsInv, SettingsInv, ApprovalsInv, FundingInv, AccessInv, ReferenceInv, TermsInv, InFront,
        None

LEMMA NavigateKeeps ==
  ASSUME WorkInv, NEW w \in Workspaces, Navigate(w)
  PROVE  WorkInv'
<1>1. workspace' = w /\ pane' = FirstPane(w)
      /\ wsCalls' = [s \in CallSlot |-> IF s = 1 THEN FirstCall(w) ELSE NoCall]
      /\ UNCHANGED wsPast
  BY DEF Navigate, Mounts
<1>2. FirstCall(w) \in WsCall
  <2>1. {"settings", "masters", "list", "refList", "termsList"} \subseteq Handler
    BY DEF Handler
  <2>2. w \in DOMAIN FirstCalls => FirstCalls[w] \in {"settings", "masters", "list", "refList", "termsList"}
    BY DEF FirstCalls
  <2> QED
    BY <2>1, <2>2 DEF FirstCall, WsCall, OrNone
<1>3. 1 \in CallSlot
  BY WorkspaceAssumption DEF CallSlot
<1>4. wsCalls' \in [CallSlot -> WsCall] /\ wsCalls'[1] = FirstCall(w)
      /\ \A t \in CallSlot \ {1} : wsCalls'[t] = NoCall
  BY <1>1, <1>2, <1>3 DEF WsCall
<1>5. FirstPane(w) \in PaneRecord
  BY DEF FirstPane, Empty, PaneRecord, OrNone
<1>6. PaneShape' /\ OneCall' /\ WritesOnDisplay'
  BY <1>1, <1>4, <1>5 DEF WorkInv, PaneShape, PastShape, OneCall, WritesOnDisplay
<1>7. CASE w \in {"customers", "transactions", "kyc", "aml", "approvals", "funding", "builder"}
  <2>1. pane' = Empty /\ FirstCall(w) = NoCall
    BY <1>1, <1>7 DEF FirstPane, FirstCall, FirstCalls
  <2>2. \A t \in CallSlot : wsCalls'[t] = NoCall
    BY <1>4, <2>1
  <2> QED
    BY <1>1, <1>6, <1>7, <2>1, <2>2, FrontKeeps
       DEF DrawerInv, CustomersInv, TransactionsInv, KycInv, PlainInv, ApprovalsInv, FundingInv, InFront,
          Empty, NoCall, None
<1>8. CASE w = "credit"
  <2>1. pane' = [Empty EXCEPT !.loading = TRUE] /\ FirstCall(w).by = "masters"
    BY <1>1, <1>8 DEF FirstPane, FirstCall, FirstCalls
  <2>2. PoliciesInv'
    BY <1>1, <1>3, <1>4, <1>8, <2>1 DEF PoliciesInv, InFront, Empty, Under, NoCall, None
  <2> QED
    BY <1>1, <1>6, <1>8, <2>2, FrontKeeps DEF None
<1>9. CASE w = "accounting"
  <2>1. pane' = [Empty EXCEPT !.form = "default", !.loading = FALSE] /\ FirstCall(w).by = "settings"
    BY <1>1, <1>9 DEF FirstPane, FirstCall, FirstCalls
  <2>2. ReportsInv'
    BY <1>1, <1>3, <1>4, <1>9, <2>1 DEF ReportsInv, InFront, Empty, Under, NoCall, None
  <2> QED
    BY <1>1, <1>6, <1>9, <2>2, FrontKeeps DEF None
<1>10. CASE w = "settings"
  <2>1. pane' = [Empty EXCEPT !.form = "default", !.loading = TRUE] /\ FirstCall(w).by = "settings"
    BY <1>1, <1>10 DEF FirstPane, FirstCall, FirstCalls
  <2>2. SettingsInv'
    BY <1>1, <1>3, <1>4, <1>10, <2>1 DEF SettingsInv, InFront, Empty, Under, NoCall, None
  <2> QED
    BY <1>1, <1>6, <1>10, <2>2, FrontKeeps DEF None
<1>11. CASE w = "access"
  <2>1. pane' = Empty /\ FirstCall(w).by = "list"
    BY <1>1, <1>11 DEF FirstPane, FirstCall, FirstCalls
  <2>2. AccessInv'
    BY <1>1, <1>3, <1>4, <1>11, <2>1 DEF AccessInv, InFront, Empty, Under, NoCall, None
  <2> QED
    BY <1>1, <1>6, <1>11, <2>2, FrontKeeps DEF None
<1>12. CASE w = "reference"
  <2>1. pane' = [Empty EXCEPT !.loading = TRUE] /\ FirstCall(w).by = "refList"
    BY <1>1, <1>12 DEF FirstPane, FirstCall, FirstCalls
  <2>2. ReferenceInv'
    BY <1>1, <1>3, <1>4, <1>12, <2>1 DEF ReferenceInv, InFront, Empty, Under, NoCall, None
  <2> QED
    BY <1>1, <1>6, <1>12, <2>2, FrontKeeps DEF None
<1>13. CASE w = "terms"
  <2>1. pane' = [Empty EXCEPT !.form = "default", !.busy = TRUE] /\ FirstCall(w).by = "termsList"
    BY <1>1, <1>13 DEF FirstPane, FirstCall, FirstCalls
  <2>2. TermsInv'
    BY <1>1, <1>3, <1>4, <1>13, <2>1 DEF TermsInv, InFront, Empty, Under, NoCall, None
  <2> QED
    BY <1>1, <1>6, <1>13, <2>2, FrontKeeps DEF None
<1> QED
  BY <1>7, <1>8, <1>9, <1>10, <1>11, <1>12, <1>13 DEF Workspaces

LEMMA WorkStays == WorkInv /\ UNCHANGED <<workspace, pane, wsCalls, wsPast>> => WorkInv'
BY DEF WorkInv, PaneShape, PastShape, OneCall, DrawerInv, CustomersInv, TransactionsInv, KycInv, PoliciesInv,
   PlainInv,
   ReportsInv, SettingsInv, ApprovalsInv, FundingInv, AccessInv, ReferenceInv, TermsInv, WritesOnDisplay,
      InFront, Under,
   Reading, Orderly

(* The three properties of the workspaces, and the types.                   *)
LEMMA WorkKept ==
  ASSUME WorkInv
  PROVE  WritesOnDisplay /\ OneRecordShown /\ ControlsFreed
<1>1. Quiet => /\ \A handlers : None \notin handlers => ~Under(handlers)
               /\ \A by, r : by # None => ~Reading(by, r)
  BY DEF Quiet, Under, Reading, NoCall
<1>2. Quiet => ~pane.busy /\ ~pane.loading
  BY <1>1 DEF WorkInv, PaneShape, DrawerInv, KycInv, PoliciesInv, PlainInv, ReportsInv, SettingsInv,
     ApprovalsInv,
     FundingInv, AccessInv, ReferenceInv, TermsInv, InFront, Workspaces, Empty, None
<1>3. ControlsFreed
  <2>1. InFront("access") => (pane.busy <=> Under({"saveAccess"}))
                             /\ (pane.aside # None <=> Under({"resetMfa", "resetList"}))
    BY DEF WorkInv, AccessInv
  <2>2. InFront("reference") /\ ~wsPast.crossed =>
          (pane.busy <=> Under({"saveReference"})) /\ (pane.aside # None <=> Under({"deactivate"}))
    BY DEF WorkInv, ReferenceInv
  <2> QED
    BY <1>2, <2>1, <2>2 DEF ControlsFreed, Under
<1>4. OneRecordShown
  <2>1. workspace \in {"customers", "transactions", "approvals"} /\ pane.selected # None
        /\ pane.detail # None =>
          pane.detail = pane.selected
    BY DEF WorkInv, DrawerInv, ApprovalsInv, InFront
  <2>2. Quiet /\ Orderly
        /\ workspace \notin {"kyc", "access", "reference"} => pane.selected \in {None, pane.detail}
    <3> SUFFICES ASSUME Quiet, Orderly, workspace \notin {"kyc", "access", "reference"}
                 PROVE  pane.selected \in {None, pane.detail}
      OBVIOUS
    <3>1. CASE workspace \in {"customers", "transactions"}
      BY <1>1, <3>1 DEF WorkInv, DrawerInv, None
    <3>2. CASE workspace \in {"credit", "accounting", "terms"}
      BY <1>1, <3>2 DEF WorkInv, PoliciesInv, ReportsInv, TermsInv, InFront, None
    <3>3. CASE workspace \in {"aml", "builder", None}
      BY <3>3 DEF WorkInv, PlainInv, Empty
    <3>4. CASE workspace \in {"settings", "funding"}
      BY <3>4 DEF WorkInv, SettingsInv, FundingInv, InFront
    <3>5. CASE workspace = "approvals"
      BY <1>2, <3>5 DEF WorkInv, ApprovalsInv, InFront, Orderly
    <3> QED
      BY <3>1, <3>2, <3>3, <3>4, <3>5 DEF WorkInv, PaneShape, Workspaces
  <2>3. Quiet /\ Orderly /\ InFront("transactions") => pane.form = pane.aside
    BY <1>1 DEF WorkInv, TransactionsInv, None
  <2> QED
    BY <2>1, <2>2, <2>3 DEF OneRecordShown, WorkInv, CustomersInv, Orderly
<1> QED
  BY <1>3, <1>4 DEF WorkInv

LEMMA WorkStart == WorkspaceInit => WorkInv
BY NothingMounted DEF WorkspaceInit

(* The steps of the workspaces, all together.                               *)
LEMMA PaneStep1 ==
  ASSUME WorkInv,
         \/ CloseDrawer \/ CustomerTabs \/ changeCustomer \/ addCurrencyWallet \/ saveProfile \/ saveRouting
         \/ TypeReason \/ decideIdentity
  PROVE  WorkInv'
BY CloseDrawerKeeps, CustomerTabsKeeps, ChangeCustomerKeeps, AddWalletKeeps, SaveProfileKeeps,
   SaveRoutingKeeps,
   TypeReasonKeeps, DecideIdentityKeeps

LEMMA PaneStep2 ==
  ASSUME WorkInv,
         \/ transitionPolicy \/ createRule \/ simulatePolicy \/ exportRows \/ runClose \/ saveSchedule
         \/ saveSettings \/ CloseReview \/ TypeComment \/ openFunding
  PROVE  WorkInv'
BY TransitionPolicyKeeps, CreateRuleKeeps, SimulatePolicyKeeps, ExportKeeps, RunCloseKeeps, SaveScheduleKeeps,
   SaveSettingsKeeps, CloseReviewKeeps, TypeCommentKeeps, OpenFundingKeeps

LEMMA PaneStep3 ==
  ASSUME WorkInv,
         \/ closeAccess \/ saveAccess \/ resetMfa \/ refreshReference \/ closeReference \/ saveReference
         \/ NewTerms \/ EditTerms \/ refreshTerms \/ transitionTerms \/ simulateTerms
  PROVE  WorkInv'
BY CloseAccessKeeps, SaveAccessKeeps, ResetMfaKeeps, RefreshReferenceKeeps, CloseReferenceKeeps,
   SaveReferenceKeeps, NewTermsKeeps, EditTermsKeeps, RefreshTermsKeeps, TransitionTermsKeeps,
   SimulateTermsKeeps

LEMMA RecordStep ==
  ASSUME WorkInv, NEW r \in ConsoleRecord,
         \/ openCustomer(r) \/ openTransaction(r) \/ createCustomer(r) \/ openCase(r) \/ createCase(r)
         \/ selectPolicy(r) \/ createPolicy(r) \/ decideCase(r) \/ changeFilter(r) \/ openReview(r)
         \/ submitFunding(r) \/ searchTransactions(r) \/ deactivate(r) \/ selectTerms(r) \/ saveTerms(r)
  PROVE  WorkInv'
BY OpenCustomerKeeps, OpenTransactionKeeps, CreateCustomerKeeps, OpenCaseKeeps, CreateCaseKeeps,
   SelectPolicyKeeps, CreatePolicyKeeps, DecideCaseKeeps, ChangeFilterKeeps, OpenReviewKeeps,
   SubmitFundingKeeps, SearchKeeps, DeactivateKeeps, SelectTermsKeeps, SaveTermsKeeps

LEMMA AnswerStep ==
  ASSUME WorkInv, NEW s \in CallSlot, NEW ok \in BOOLEAN,
         \/ loadDetail(s, ok) \/ ListLoaded(s, ok) \/ CustomerSaved(s, ok) \/ CaseAnswers(s, ok)
         \/ MastersLoad(s, ok) \/ RulesLoad(s, ok) \/ CreditSaved(s, ok) \/ AmlReloads(s, ok)
         \/ loadReport(s, ok) \/ SettingsAnswer(s, ok) \/ ReviewLoaded(s, ok) \/ RequestDecided(s, ok)
         \/ FundingAnswers(s, ok) \/ AccessAnswers(s, ok) \/ ReferenceAnswers(s, ok) \/ TermsAnswers(s, ok)
  PROVE  WorkInv'
BY LoadDetailKeeps, ListLoadedKeeps, CustomerSavedKeeps, CaseAnswersKeeps, MastersKeep, RulesKeep,
   CreditSavedKeeps, AmlReloadsKeep, LoadReportKeeps, SettingsAnswerKeeps, ReviewLoadedKeeps,
   RequestDecidedKeeps, FundingAnswersKeep, AccessAnswersKeep, ReferenceAnswersKeep, TermsAnswersKeep

LEMMA ChoiceStep ==
  ASSUME WorkInv, NEW r \in OrNone, changeView(r) \/ openAccess(r) \/ openReference(r)
  PROVE  WorkInv'
<1>1. r # None => r \in ConsoleRecord
  BY DEF OrNone
<1> QED
  BY <1>1, ViewKeeps, NoViewKeeps, OpenAccessKeeps, OpenReferenceKeeps

LEMMA WorkStep == WorkInv /\ [WorkspaceNext]_workspaceVars => WorkInv'
<1> SUFFICES ASSUME WorkInv, [WorkspaceNext]_workspaceVars PROVE WorkInv'
  OBVIOUS
<1>1. CASE PaneNext
  BY <1>1, PaneStep1, PaneStep2, PaneStep3, RecordStep, AnswerStep, ChoiceStep, UploadKeeps, VerifyKeeps,
     ApproveKeeps, RejectKeeps DEF PaneNext
<1>2. CASE BuilderNext
  <2>1. UNCHANGED <<workspace, pane, wsCalls, wsPast>>
    BY <1>2 DEF BuilderNext, Stays, BatchSent, ReadConfigs, loadReferenceData, submitBatch, SendNext,
       OthersAct
  <2> QED
    BY <2>1, WorkStays
<1>3. CASE UNCHANGED workspaceVars
  BY <1>3, WorkStays DEF workspaceVars
<1> QED
  BY <1>1, <1>2, <1>3, LeaveKeeps, NavigateKeeps DEF WorkspaceNext


-----------------------------------------------------------------------------
(* A batch of AML limits.                                                   *)
LimitOrNone == LimitSet \cup {None}

BatchShape ==
  batch \in [rows : [ConsoleRecord -> LimitOrNone], beyond : SUBSET ConsoleRecord,
             waiting : [ConsoleRecord -> LimitOrNone], known : [ConsoleRecord -> LimitOrNone],
             shown : SUBSET ConsoleRecord, ready : BOOLEAN, reading : SUBSET {"configs", "pending"},
             phase : {"idle", "sending", "closing"}, limits : LimitOrNone, asked : SUBSET ConsoleRecord,
             todo : SUBSET ConsoleRecord, creates : SUBSET ConsoleRecord, fresh : SUBSET ConsoleRecord,
             accepted : SUBSET ConsoleRecord, failed : SUBSET ConsoleRecord, refused : SUBSET ConsoleRecord,
             others : BOOLEAN, disturbed : BOOLEAN]

(* Of a record the page had right, the request is one the service accepts.  *)
FreshAccepted ==
  \A c \in batch.todo \cap batch.fresh :
    /\ (c \in batch.creates) <=> (batch.rows[c] = None)
    /\ batch.rows[c] # batch.limits /\ batch.waiting[c] = None

(* Every request that was sent has an outcome.                              *)
BatchCounted ==
  /\ batch.asked \ batch.todo \subseteq batch.accepted \cup batch.failed
  /\ batch.accepted \subseteq batch.asked /\ batch.todo \subseteq batch.asked
  /\ batch.refused \cap batch.fresh = {}
  /\ batch.phase = "idle" => /\ batch.asked = {} /\ batch.accepted = {} /\ batch.refused = {}
                                /\ batch.failed = {}

(* What was read is what the server holds.                                  *)
BatchRead ==
  ~batch.disturbed =>
    /\ "configs" \notin batch.reading
       => \A c \in ConsoleRecord \ batch.beyond : batch.known[c] = batch.rows[c]
    /\ batch.phase = "idle" /\ "pending" \notin batch.reading =>
         batch.shown = {c \in ConsoleRecord : batch.waiting[c] # None}

BatchInv == BatchShape /\ FreshAccepted /\ BatchCounted /\ BatchRead

LEMMA FirstBatchInv ==
  ASSUME NEW rows \in [ConsoleRecord -> LimitOrNone], NEW beyond \in SUBSET ConsoleRecord,
         batch = FirstBatch(rows, beyond)
  PROVE  BatchInv
<1>1. BatchShape
  BY DEF BatchShape, FirstBatch, NoOne, LimitOrNone
<1>2. FreshAccepted /\ BatchCounted /\ BatchRead
  BY DEF FreshAccepted, BatchCounted, BatchRead, FirstBatch
<1> QED
  BY <1>1, <1>2 DEF BatchInv

LEMMA BatchStart == WorkspaceInit => BatchInv
<1> SUFFICES ASSUME WorkspaceInit PROVE BatchInv
  OBVIOUS
<1>1. NoOne \in [ConsoleRecord -> LimitOrNone] /\ batch = FirstBatch(NoOne, {})
  BY DEF NoOne, LimitOrNone, WorkspaceInit, NoBatch
<1> QED
  BY <1>1, FirstBatchInv

(* A workspace mounts with nothing read of the server.                      *)
LEMMA MountedBatch ==
  ASSUME \E rows \in [ConsoleRecord -> LimitOrNone],
         beyond \in SUBSET ConsoleRecord : batch' = FirstBatch(rows, beyond)
  PROVE  BatchInv'
<1>1. PICK rows \in [ConsoleRecord -> LimitOrNone],
      beyond \in SUBSET ConsoleRecord : batch' = FirstBatch(rows, beyond)
  OBVIOUS
<1>2. BatchShape'
  BY <1>1 DEF BatchShape, FirstBatch, NoOne, LimitOrNone
<1>3. FreshAccepted' /\ BatchCounted' /\ BatchRead'
  BY <1>1 DEF FreshAccepted, BatchCounted, BatchRead, FirstBatch
<1> QED
  BY <1>2, <1>3 DEF BatchInv

LEMMA ReadConfigsKeeps ==
  ASSUME BatchInv, NEW ok \in BOOLEAN, ReadConfigs(ok)
  PROVE  BatchInv'
<1> DEFINE seen == [c \in ConsoleRecord |-> IF c \in batch.beyond THEN None ELSE batch.rows[c]]
           left == (batch.reading \ {"configs"}) \cup (IF batch.phase = "closing" THEN {"pending"} ELSE {})
<1>1. seen \in [ConsoleRecord -> LimitOrNone]
      /\ \A c \in ConsoleRecord \ batch.beyond : seen[c] = batch.rows[c]
  BY DEF BatchInv, BatchShape, LimitOrNone
<1>2. left \in SUBSET {"configs", "pending"} /\ "configs" \notin left
      /\ (batch.phase # "closing" => ("pending" \in left <=> "pending" \in batch.reading))
  BY DEF BatchInv, BatchShape
<1>3. batch' = [batch EXCEPT !.known = IF ok THEN seen ELSE @, !.disturbed = @ \/ ~ok, !.reading = left]
  BY DEF ReadConfigs
<1> HIDE DEF seen, left
<1>4. BatchShape'
  BY <1>1, <1>2, <1>3 DEF BatchInv, BatchShape
<1>5. /\ batch'.rows = batch.rows /\ batch'.beyond = batch.beyond /\ batch'.waiting = batch.waiting
      /\ batch'.phase = batch.phase /\ batch'.limits = batch.limits /\ batch'.asked = batch.asked
      /\ batch'.todo = batch.todo /\ batch'.creates = batch.creates /\ batch'.fresh = batch.fresh
      /\ batch'.accepted = batch.accepted /\ batch'.failed = batch.failed /\ batch'.refused = batch.refused
      /\ batch'.shown = batch.shown
  BY <1>3 DEF BatchInv, BatchShape
<1>6. batch'.reading = left /\ batch'.disturbed = (batch.disturbed \/ ~ok) /\ (ok => batch'.known = seen)
  BY <1>3 DEF BatchInv, BatchShape
<1>7. FreshAccepted' /\ BatchCounted'
  BY <1>5 DEF BatchInv, FreshAccepted, BatchCounted
<1>8. BatchRead'
  <2> SUFFICES ASSUME ~batch'.disturbed
               PROVE  /\ \A c \in ConsoleRecord \ batch.beyond : batch'.known[c] = batch.rows[c]
                      /\ batch.phase = "idle" /\ "pending" \notin left =>
                           batch.shown = {c \in ConsoleRecord : batch.waiting[c] # None}
    BY <1>5, <1>6 DEF BatchRead
  <2>1. ok /\ ~batch.disturbed
    BY <1>6
  <2>2. \A c \in ConsoleRecord \ batch.beyond : batch'.known[c] = batch.rows[c]
    BY <1>1, <1>6, <2>1
  <2>3. batch.phase = "idle" /\ "pending" \notin left => "pending" \notin batch.reading
    BY <1>2
  <2> QED
    BY <2>1, <2>2, <2>3 DEF BatchInv, BatchRead
<1> QED
  BY <1>4, <1>7, <1>8 DEF BatchInv

LEMMA LoadPendingKeeps ==
  ASSUME BatchInv, NEW ok \in BOOLEAN, loadReferenceData(ok)
  PROVE  BatchInv'
<1> DEFINE now == {c \in ConsoleRecord : batch.waiting[c] # None}
           read == [batch EXCEPT !.shown = IF ok THEN now ELSE @, !.ready = @ \/ ok,
                                 !.reading = @ \ {"pending"}, !.disturbed = @ \/ ~ok]
<1>1. batch' = IF batch.phase = "closing" THEN Resting(read) ELSE read
  BY DEF loadReferenceData
<1>2. now \in SUBSET ConsoleRecord
  OBVIOUS
<1> HIDE DEF now
<1>3. /\ read.rows = batch.rows /\ read.beyond = batch.beyond /\ read.waiting = batch.waiting
      /\ read.phase = batch.phase /\ read.limits = batch.limits /\ read.asked = batch.asked
      /\ read.todo = batch.todo /\ read.creates = batch.creates /\ read.fresh = batch.fresh
      /\ read.accepted = batch.accepted /\ read.failed = batch.failed /\ read.refused = batch.refused
      /\ read.known = batch.known /\ read.reading = batch.reading \ {"pending"}
      /\ read.disturbed = (batch.disturbed \/ ~ok) /\ (ok => read.shown = now)
  BY DEF BatchInv, BatchShape
<1>4. read \in [rows : [ConsoleRecord -> LimitOrNone], beyond : SUBSET ConsoleRecord,
             waiting : [ConsoleRecord -> LimitOrNone], known : [ConsoleRecord -> LimitOrNone],
             shown : SUBSET ConsoleRecord, ready : BOOLEAN, reading : SUBSET {"configs", "pending"},
             phase : {"idle", "sending", "closing"}, limits : LimitOrNone, asked : SUBSET ConsoleRecord,
             todo : SUBSET ConsoleRecord, creates : SUBSET ConsoleRecord, fresh : SUBSET ConsoleRecord,
             accepted : SUBSET ConsoleRecord, failed : SUBSET ConsoleRecord, refused : SUBSET ConsoleRecord,
             others : BOOLEAN, disturbed : BOOLEAN]
  BY <1>2 DEF BatchInv, BatchShape
<1> HIDE DEF read
<1>5. CASE batch.phase = "closing"
  <2>1. batch' = Resting(read)
    BY <1>1, <1>5
  <2>2. BatchShape'
    BY <1>4, <2>1 DEF BatchShape, Resting, LimitOrNone
  <2>3. /\ batch'.todo = {} /\ batch'.fresh = {} /\ batch'.asked = {} /\ batch'.accepted = {}
        /\ batch'.refused = {} /\ batch'.failed = {}
        /\ batch'.rows = batch.rows /\ batch'.beyond = batch.beyond /\ batch'.waiting = batch.waiting
        /\ batch'.known = batch.known /\ batch'.reading = batch.reading \ {"pending"}
        /\ batch'.disturbed = (batch.disturbed \/ ~ok) /\ (ok => batch'.shown = now)
    BY <1>3, <1>4, <2>1 DEF Resting
  <2>4. FreshAccepted' /\ BatchCounted'
    BY <2>3 DEF FreshAccepted, BatchCounted
  <2>5. BatchRead'
    BY <2>3 DEF BatchInv, BatchRead, now
  <2> QED
    BY <2>2, <2>4, <2>5 DEF BatchInv
<1>6. CASE batch.phase # "closing"
  <2>1. batch' = read
    BY <1>1, <1>6
  <2>2. BatchShape'
    BY <1>4, <2>1 DEF BatchShape
  <2>3. FreshAccepted' /\ BatchCounted'
    BY <1>3, <2>1 DEF BatchInv, FreshAccepted, BatchCounted
  <2>4. BatchRead'
    BY <1>3, <2>1 DEF BatchInv, BatchRead, now
  <2> QED
    BY <2>2, <2>3, <2>4 DEF BatchInv
<1> QED
  BY <1>5, <1>6

LEMMA SubmitKeeps ==
  ASSUME BatchInv, NEW chosen \in SUBSET ConsoleRecord, NEW limits \in LimitSet, submitBatch(chosen, limits)
  PROVE  BatchInv'
<1> DEFINE asked == actionableCombinations(chosen, limits)
           creates == {c \in asked : batch.known[c] = None}
           fresh == {c \in asked : InSync(c)}
<1>1. asked \in SUBSET ConsoleRecord /\ \A c \in asked : batch.known[c] # limits
  BY DEF actionableCombinations
<1>2. /\ batch.phase = "idle" /\ blockedCombinations(asked) = {}
      /\ batch' = [batch EXCEPT !.phase = "sending", !.limits = limits, !.asked = asked, !.todo = asked,
                                !.creates = creates, !.fresh = fresh, !.disturbed = @
                                   \/ "configs" \in batch.reading]
  BY DEF submitBatch
<1>3. creates \in SUBSET ConsoleRecord /\ fresh \in SUBSET ConsoleRecord
  BY <1>1
<1>4. \A c \in fresh : /\ batch.known[c] = batch.rows[c] /\ batch.waiting[c] = None /\ batch.rows[c] # limits
                       /\ (c \in creates) <=> (batch.rows[c] = None)
  BY <1>1, <1>2 DEF InSync, blockedCombinations
<1> HIDE DEF asked, creates, fresh
<1>5. BatchShape'
  BY <1>1, <1>2, <1>3 DEF BatchInv, BatchShape, LimitOrNone
<1>6. /\ batch'.rows = batch.rows /\ batch'.waiting = batch.waiting /\ batch'.limits = limits
      /\ batch'.asked = asked /\ batch'.todo = asked /\ batch'.creates = creates /\ batch'.fresh = fresh
      /\ batch'.beyond = batch.beyond /\ batch'.known = batch.known /\ batch'.reading = batch.reading
      /\ batch'.accepted = batch.accepted /\ batch'.failed = batch.failed /\ batch'.refused = batch.refused
      /\ batch'.phase = "sending" /\ batch'.disturbed = (batch.disturbed \/ "configs" \in batch.reading)
  BY <1>2 DEF BatchInv, BatchShape
<1>7. FreshAccepted'
  BY <1>4, <1>6 DEF FreshAccepted
<1>8. BatchCounted'
  BY <1>2, <1>6 DEF BatchInv, BatchCounted
<1>9. BatchRead'
  BY <1>6 DEF BatchInv, BatchRead
<1> QED
  BY <1>5, <1>7, <1>8, <1>9 DEF BatchInv

LEMMA SendKeeps ==
  ASSUME BatchInv, NEW c \in ConsoleRecord, NEW fate \in {"answered", "lost", "answer lost"},
         SendNext(c, fate)
  PROVE  BatchInv'
<1> DEFINE accepts == /\ (c \in batch.creates) <=> (batch.rows[c] = None)
                      /\ batch.rows[c] # batch.limits /\ batch.waiting[c] = None
           taken == accepts /\ fate # "lost"
<1>1. /\ batch.phase = "sending" /\ c \in batch.todo
      /\ batch' = [batch EXCEPT
           !.todo = @ \ {c}, !.waiting[c] = IF taken THEN batch.limits ELSE @,
           !.accepted = IF taken THEN @ \cup {c} ELSE @,
           !.failed = IF taken /\ fate = "answered" THEN @ ELSE @ \cup {c},
           !.refused = IF accepts THEN @ ELSE @ \cup {c}, !.disturbed = @ \/ fate # "answered"]
  BY DEF SendNext
<1>2. c \in batch.fresh => accepts
  BY <1>1 DEF BatchInv, FreshAccepted
<1>3. taken \in BOOLEAN /\ accepts \in BOOLEAN /\ (taken => accepts)
  OBVIOUS
<1> HIDE DEF accepts, taken
<1>4. BatchShape'
  BY <1>1 DEF BatchInv, BatchShape
<1>5. /\ batch'.rows = batch.rows /\ batch'.limits = batch.limits
      /\ batch'.asked = batch.asked /\ batch'.todo = batch.todo \ {c} /\ batch'.creates = batch.creates
      /\ batch'.fresh = batch.fresh
      /\ batch'.beyond = batch.beyond /\ batch'.known = batch.known /\ batch'.reading = batch.reading
      /\ batch'.phase = "sending" /\ batch'.disturbed = (batch.disturbed \/ fate # "answered")
      /\ batch'.accepted = (IF taken THEN batch.accepted \cup {c} ELSE batch.accepted)
      /\ batch'.failed = (IF taken /\ fate = "answered" THEN batch.failed ELSE batch.failed \cup {c})
      /\ batch'.refused = (IF accepts THEN batch.refused ELSE batch.refused \cup {c})
  BY <1>1 DEF BatchInv, BatchShape
<1>6. batch'.waiting = [batch.waiting EXCEPT ![c] = IF taken THEN batch.limits ELSE @]
  BY <1>1 DEF BatchInv, BatchShape
<1>7. \A d \in ConsoleRecord \ {c} : batch'.waiting[d] = batch.waiting[d]
  BY <1>6 DEF BatchInv, BatchShape
<1>8. FreshAccepted'
  <2>1. batch.todo \subseteq ConsoleRecord
    BY DEF BatchInv, BatchShape
  <2> QED
    BY <1>5, <1>7, <2>1 DEF BatchInv, FreshAccepted
<1>9. BatchCounted'
  <2>1. batch'.asked \ batch'.todo \subseteq batch'.accepted \cup batch'.failed
    BY <1>5 DEF BatchInv, BatchCounted
  <2>2. batch'.accepted \subseteq batch'.asked /\ batch'.todo \subseteq batch'.asked
    <3>1. batch.accepted \subseteq batch.asked /\ batch.todo \subseteq batch.asked /\ c \in batch.asked
      BY <1>1 DEF BatchInv, BatchCounted
    <3>2. batch'.accepted \subseteq batch.accepted \cup {c}
      BY <1>5
    <3> QED
      BY <1>5, <3>1, <3>2
  <2>3. batch'.refused \cap batch'.fresh = {}
    BY <1>2, <1>5 DEF BatchInv, BatchCounted
  <2> QED
    BY <1>5, <2>1, <2>2, <2>3 DEF BatchCounted
<1>10. BatchRead'
  BY <1>5 DEF BatchInv, BatchRead
<1> QED
  BY <1>4, <1>8, <1>9, <1>10 DEF BatchInv

LEMMA BatchSentKeeps ==
  ASSUME BatchInv, BatchSent
  PROVE  BatchInv'
<1>1. batch.phase = "sending" /\ batch' = [batch EXCEPT !.phase = "closing", !.reading = @ \cup {"configs"}]
  BY DEF BatchSent
<1>2. BatchShape'
  BY <1>1 DEF BatchInv, BatchShape
<1>3. /\ batch'.rows = batch.rows /\ batch'.limits = batch.limits /\ batch'.waiting = batch.waiting
      /\ batch'.asked = batch.asked /\ batch'.todo = batch.todo /\ batch'.creates = batch.creates
      /\ batch'.fresh = batch.fresh
      /\ batch'.accepted = batch.accepted /\ batch'.failed = batch.failed /\ batch'.refused = batch.refused
      /\ batch'.phase = "closing" /\ "configs" \in batch'.reading
  BY <1>1 DEF BatchInv, BatchShape
<1>4. FreshAccepted' /\ BatchCounted'
  BY <1>3 DEF BatchInv, FreshAccepted, BatchCounted
<1>5. BatchRead'
  BY <1>3 DEF BatchRead
<1> QED
  BY <1>2, <1>4, <1>5 DEF BatchInv

LEMMA OthersKeep ==
  ASSUME BatchInv, NEW c \in ConsoleRecord, OthersAct(c)
  PROVE  BatchInv'
<1> DEFINE acted == [batch EXCEPT !.fresh = @ \ {c}, !.others = TRUE, !.disturbed = TRUE]
           limits == batch.waiting[c]
<1>1. \/ batch' = [acted EXCEPT !.rows[c] = limits, !.waiting[c] = None]
      \/ batch' = [acted EXCEPT !.waiting[c] = None]
      \/ \E l \in LimitSet \ {batch.rows[c]} : batch' = [acted EXCEPT !.waiting[c] = l]
  BY DEF OthersAct
<1>2. limits \in LimitOrNone /\ LimitSet \subseteq LimitOrNone /\ None \in LimitOrNone
  BY DEF BatchInv, BatchShape, LimitOrNone
<1>3. PICK l \in LimitOrNone, m \in LimitOrNone : 
        batch' = [batch EXCEPT !.fresh = @ \ {c}, !.others = TRUE, !.disturbed = TRUE, !.rows[c] = l,
           !.waiting[c] = m]
  <2>1. CASE batch' = [acted EXCEPT !.rows[c] = limits, !.waiting[c] = None]
    BY <1>2, <2>1
  <2>2. batch.rows[c] \in LimitOrNone /\ [batch.rows EXCEPT ![c] = batch.rows[c]] = batch.rows
    BY DEF BatchInv, BatchShape
  <2>3. ASSUME NEW m \in LimitOrNone, batch' = [acted EXCEPT !.waiting[c] = m]
        PROVE  batch' = [batch EXCEPT !.fresh = @ \ {c}, !.others = TRUE, !.disturbed = TRUE,
                                      !.rows[c] = batch.rows[c], !.waiting[c] = m]
    BY <2>2, <2>3 DEF BatchInv, BatchShape
  <2> HIDE DEF acted
  <2> QED
    BY <1>1, <1>2, <2>1, <2>2, <2>3
<1>4. BatchShape'
  BY <1>3 DEF BatchInv, BatchShape
<1>5. /\ batch'.rows = [batch.rows EXCEPT ![c] = l] /\ batch'.waiting = [batch.waiting EXCEPT ![c] = m]
      /\ batch'.limits = batch.limits /\ batch'.fresh = batch.fresh \ {c} /\ batch'.disturbed = TRUE
      /\ batch'.asked = batch.asked /\ batch'.todo = batch.todo /\ batch'.creates = batch.creates
      /\ batch'.accepted = batch.accepted /\ batch'.failed = batch.failed /\ batch'.refused = batch.refused
      /\ batch'.phase = batch.phase
  BY <1>3 DEF BatchInv, BatchShape
<1>6. \A d \in ConsoleRecord \ {c} : batch'.rows[d] = batch.rows[d] /\ batch'.waiting[d] = batch.waiting[d]
  BY <1>5 DEF BatchInv, BatchShape
<1>7. batch.todo \subseteq ConsoleRecord
  BY DEF BatchInv, BatchShape
<1>8. FreshAccepted'
  BY <1>5, <1>6, <1>7 DEF BatchInv, FreshAccepted
<1>9. BatchCounted'
  BY <1>5 DEF BatchInv, BatchCounted
<1>10. BatchRead'
  BY <1>5 DEF BatchRead
<1> QED
  BY <1>4, <1>8, <1>9, <1>10 DEF BatchInv

LEMMA BatchStep ==
  ASSUME BatchInv, [WorkspaceNext]_workspaceVars
  PROVE  BatchInv'
<1>1. CASE UNCHANGED batch
  BY <1>1 DEF BatchInv, BatchShape, FreshAccepted, BatchCounted, BatchRead
<1>2. CASE Leave \/ \E w \in Workspaces : Navigate(w)
  <2>1. NoOne \in [ConsoleRecord -> LimitOrNone]
    BY DEF NoOne, LimitOrNone
  <2>2. [ConsoleRecord -> {None, "a"}] \subseteq [ConsoleRecord -> LimitOrNone]
    BY DEF LimitOrNone, LimitSet
  <2>3. batch' = FirstBatch(NoOne, {})
          \/ \E rows \in [ConsoleRecord -> {None, "a"}] :
               \E beyond \in SUBSET {c \in ConsoleRecord : rows[c] # None} : batch' = FirstBatch(rows, beyond)
    BY <1>2 DEF Leave, Navigate, Mounted, NoBatch
  <2>4. \E rows \in [ConsoleRecord -> LimitOrNone],
        beyond \in SUBSET ConsoleRecord : batch' = FirstBatch(rows, beyond)
    BY <2>1, <2>2, <2>3
  <2> QED
    BY <2>4, MountedBatch
<1>3. CASE BuilderNext
  BY <1>3, BatchSentKeeps, ReadConfigsKeeps, LoadPendingKeeps, SubmitKeeps, OthersKeep, SendKeeps
     DEF BuilderNext
<1> QED
  BY <1>1, <1>2, <1>3 DEF WorkspaceNext, workspaceVars

LEMMA BatchKept == BatchInv => BatchesSound
<1> SUFFICES ASSUME BatchInv PROVE BatchesSound
  OBVIOUS
<1>1. batch.todo = {} /\ batch.failed = {} => batch.accepted = batch.asked
  BY DEF BatchInv, BatchCounted
<1>2. ASSUME batch.phase = "idle", batch.reading = {}, ~batch.disturbed
             PROVE \A c \in ConsoleRecord \ batch.beyond : InSync(c)
  BY <1>2 DEF BatchInv, BatchRead, InSync
<1> QED
  BY <1>1, <1>2 DEF BatchInv, BatchCounted, BatchesSound

-----------------------------------------------------------------------------
(* The AML simulator.                                                       *)
(* The first of five checks that fails, and the nested conditions.          *)
LEMMA FirstFailure ==
  ASSUME NEW u \in [1..5 -> Int], NEW m \in [1..5 -> Int], NEW code,
         NEW failed, failed = {i \in 1..5 : u[i] > m[i]}
  PROVE  (IF failed = {} THEN "PASS" ELSE code[CHOOSE i \in failed : \A j \in failed : i <= j])
         = IF u[1] > m[1] THEN code[1] ELSE IF u[2] > m[2] THEN code[2] ELSE IF u[3] > m[3] THEN code[3]
           ELSE IF u[4] > m[4] THEN code[4] ELSE IF u[5] > m[5] THEN code[5] ELSE "PASS"
<1> DEFINE least == CHOOSE i \in failed : \A j \in failed : i <= j
<1>1. ASSUME NEW k \in 1..5, u[k] > m[k], \A j \in 1..5 : j < k => ~(u[j] > m[j])
      PROVE  least = k /\ failed # {}
  <2>1. k \in failed /\ \A j \in failed : k <= j
    BY <1>1
  <2>2. \A i \in failed : (\A j \in failed : i <= j) => i = k
    BY <2>1
  <2> QED
    BY <2>1, <2>2
<1> HIDE DEF least
<1>2. CASE u[1] > m[1]
  <2>1. least = 1 /\ failed # {}
    BY <1>1, <1>2
  <2> QED
    BY <1>2, <2>1 DEF least
<1>3. CASE ~(u[1] > m[1]) /\ u[2] > m[2]
  <2>1. least = 2 /\ failed # {}
    BY <1>1, <1>3
  <2> QED
    BY <1>3, <2>1 DEF least
<1>4. CASE ~(u[1] > m[1]) /\ ~(u[2] > m[2]) /\ u[3] > m[3]
  <2>1. least = 3 /\ failed # {}
    BY <1>1, <1>4
  <2> QED
    BY <1>4, <2>1 DEF least
<1>5. CASE ~(u[1] > m[1]) /\ ~(u[2] > m[2]) /\ ~(u[3] > m[3]) /\ u[4] > m[4]
  <2>1. least = 4 /\ failed # {}
    BY <1>1, <1>5
  <2> QED
    BY <1>5, <2>1 DEF least
<1>6. CASE ~(u[1] > m[1]) /\ ~(u[2] > m[2]) /\ ~(u[3] > m[3]) /\ ~(u[4] > m[4]) /\ u[5] > m[5]
  <2>1. least = 5 /\ failed # {}
    BY <1>1, <1>6
  <2> QED
    BY <1>6, <2>1 DEF least
<1>7. CASE ~(u[1] > m[1]) /\ ~(u[2] > m[2]) /\ ~(u[3] > m[3]) /\ ~(u[4] > m[4]) /\ ~(u[5] > m[5])
  <2>1. failed = {}
    BY <1>7
  <2> QED
    BY <1>7, <2>1
<1> QED
  BY <1>2, <1>3, <1>4, <1>5, <1>6, <1>7

LEMMA SimulatorKept == SimulatorAgrees
<1> SUFFICES ASSUME NEW l \in AmlLimit, NEW use \in AmlUse, NEW amount \in Limit
             PROVE  simulateAmlConfiguration(l, use, amount) = ReserveAnswers(l, use, amount)
  BY DEF SimulatorAgrees
<1> DEFINE checks == <<[code |-> "MAX_TRANSACTION", used |-> amount, limit |-> l.max],
                       [code |-> "DAILY_AMOUNT", used |-> use.daily + amount, limit |-> l.daily],
                       [code |-> "DAILY_COUNT", used |-> use.dailyCount + 1, limit |-> l.dailyCount],
                       [code |-> "MONTHLY_AMOUNT", used |-> use.monthly + amount, limit |-> l.monthly],
                       [code |-> "MONTHLY_COUNT", used |-> use.monthlyCount + 1, limit |-> l.monthlyCount]>>
           failed == {i \in DOMAIN checks : checks[i].used > checks[i].limit}
           u == [i \in 1..5 |-> checks[i].used]
           m == [i \in 1..5 |-> checks[i].limit]
           code == [i \in 1..5 |-> checks[i].code]
<1>1. /\ l.max \in Int /\ l.daily \in Int /\ l.dailyCount \in Int /\ l.monthly \in Int
      /\ l.monthlyCount \in Int
      /\ use.daily \in Int /\ use.dailyCount \in Int /\ use.monthly \in Int /\ use.monthlyCount \in Int
      /\ amount \in Int
  <2>1. /\ l.max \in Limit \cup {0} /\ l.daily \in Limit /\ l.dailyCount \in Limit /\ l.monthly \in Limit
        /\ l.monthlyCount \in Limit
    BY DEF AmlLimit
  <2>2. /\ use.daily \in Limit \cup {0} /\ use.dailyCount \in Limit \cup {0} /\ use.monthly \in Limit \cup {0}
        /\ use.monthlyCount \in {0, 1}
    BY DEF AmlUse
  <2>3. \A x \in Limit \cup {0, 1} : x \in Int
    BY ReferenceAssumption
  <2> QED
    BY <2>1, <2>2, <2>3
<1>2. DOMAIN checks = 1..5
  OBVIOUS
<1>3. /\ u[1] = amount /\ u[2] = use.daily + amount /\ u[3] = use.dailyCount + 1
      /\ u[4] = use.monthly + amount /\ u[5] = use.monthlyCount + 1
  OBVIOUS
<1>4. m[1] = l.max /\ m[2] = l.daily /\ m[3] = l.dailyCount /\ m[4] = l.monthly /\ m[5] = l.monthlyCount
  OBVIOUS
<1>5. code[1] = "MAX_TRANSACTION" /\ code[2] = "DAILY_AMOUNT" /\ code[3] = "DAILY_COUNT"
      /\ code[4] = "MONTHLY_AMOUNT"
      /\ code[5] = "MONTHLY_COUNT"
  OBVIOUS
<1>6. failed = {i \in 1..5 : u[i] > m[i]}
  BY <1>2
<1>7. simulateAmlConfiguration(l, use, amount)
        = IF failed = {} THEN "PASS" ELSE code[CHOOSE i \in failed : \A j \in failed : i <= j]
  <2>1. failed # {} => (CHOOSE i \in failed : \A j \in failed : i <= j) \in 1..5
    <3> SUFFICES ASSUME failed # {} PROVE \E i \in failed : \A j \in failed : i <= j
      BY <1>2
    <3> QED
      BY <1>6
  <2>2. simulateAmlConfiguration(l, use, amount)
        = IF failed = {} THEN "PASS" ELSE checks[CHOOSE i \in failed : \A j \in failed : i <= j].code
    BY DEF simulateAmlConfiguration
  <2> HIDE DEF failed, checks
  <2> QED
    BY <2>1, <2>2
<1>8. u \in [1..5 -> Int] /\ m \in [1..5 -> Int]
  <2>1. \A i \in 1..5 : i = 1 \/ i = 2 \/ i = 3 \/ i = 4 \/ i = 5
    OBVIOUS
  <2>2. \A i \in 1..5 : u[i] \in Int
    <3> HIDE DEF checks, u
    <3> QED
      BY <1>1, <1>3, <2>1
  <2>3. \A i \in 1..5 : m[i] \in Int
    <3> HIDE DEF checks, m
    <3> QED
      BY <1>1, <1>4, <2>1
  <2> HIDE DEF checks
  <2> QED
    BY <2>2, <2>3
<1> HIDE DEF checks, failed, u, m, code
<1>9. (IF failed = {} THEN "PASS" ELSE code[CHOOSE i \in failed : \A j \in failed : i <= j])
         = IF u[1] > m[1] THEN code[1] ELSE IF u[2] > m[2] THEN code[2] ELSE IF u[3] > m[3] THEN code[3]
           ELSE IF u[4] > m[4] THEN code[4] ELSE IF u[5] > m[5] THEN code[5] ELSE "PASS"
  BY <1>6, <1>8, FirstFailure
<1>10. ReserveAnswers(l, use, amount)
         = IF u[1] > m[1] THEN code[1] ELSE IF u[2] > m[2] THEN code[2] ELSE IF u[3] > m[3] THEN code[3]
           ELSE IF u[4] > m[4] THEN code[4] ELSE IF u[5] > m[5] THEN code[5] ELSE "PASS"
  BY <1>3, <1>4, <1>5 DEF ReserveAnswers
<1> QED
  BY <1>7, <1>9, <1>10
=============================================================================
