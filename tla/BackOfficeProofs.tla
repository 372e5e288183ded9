--------------------------- MODULE BackOfficeProofs ---------------------------
(***************************************************************************)
(* Proofs about the books, and about who somebody is.                      *)
(*                                                                         *)
(* EodClose, for every number of currencies, processes, operators, days,   *)
(* requests, errors and kills: a day is closed once, and its snapshot stays*)
(* whole.  The invariant follows a posting and a close at once: a job only *)
(* ever works on days that are due, and due days are over; what readiness  *)
(* found settled stays settled; and no posting in progress is dated on a   *)
(* closed day.                                                             *)
(*                                                                         *)
(* AccountingConfig: the approved configurations are a chain whose last    *)
(* row alone is open.  Treasury: a review holds one pending movement of    *)
(* somebody else, and an approval adds one movement's effect to the sum    *)
(* over all of them.                                                       *)
(*                                                                         *)
(* Identity: administrators and their second factor, customers with their  *)
(* wallets and identity cases, merchants and the secret of their callbacks,*)
(* the sanctions lists customers are screened against, and the journey that*)
(* leads a customer to a wallet, for every number of each, of overlapping  *)
(* handlers and of delays.                                                 *)
(***************************************************************************)
EXTENDS EodClose, AccountingConfig, Treasury, AdminMfa, AdminAccounts, CustomerAccounts, IntegrationConfig,
        SanctionsLists, OnboardingJourney, SumProofs, FiniteSetTheorems, WellFoundedInduction, TLAPS

JobRow ==
  [pc : {"idle", "currency", "check", "close"}, dry : BOOLEAN,
   todo : SUBSET Currency, cur : Currency \cup {"none"},
   next : Nat, last : 0..LastDay, upto : 0..LastDay]

JobSound(j) ==
  /\ j.pc # "idle" => j.upto \in 1..due
  /\ j.pc \in {"check", "close"} => j.cur \in Currency /\ j.next \in 1..j.last /\ j.last <= j.upto
  /\ j.pc = "close" => j.dry \/ Ready(j.cur, j.next)

JobsSound == \A p \in Closer : JobSound(job[p])

DueIsOver == due < today

FirstClosed == \A c \in Currency : Closed(c, 1)

(* A posting is dated on the day of its request or later.                   *)
PostedLater ==
  \A c \in Currency, d \in Day :
    /\ work[c][d] = "pending" => d <= today
    /\ work[c][d] = "posting" => d <= workDay[c][d]

ClosedIsSettled ==
  \A c \in Currency, d \in Day : Closed(c, d) =>
    /\ d <= due
    /\ \A e \in Day : work[c][e] = "posting" => workDay[c][e] # d

EodInv ==
  /\ EodTypeOK /\ DueIsOver /\ FirstClosed /\ JobsSound /\ PostedLater
  /\ ClosedIsSettled /\ ClosedOnce /\ ClosedDayWhole

USE EodAssumption DEF EodAssumption

-----------------------------------------------------------------------------
(* A set of days that is not empty has a latest one.                        *)
Below == {ss \in Nat \X Nat : ss[1] < ss[2]}

LEMMA BelowWellFounded == IsWellFoundedOn(Below, Nat)
BY NatLessThanWellFounded DEF OpToRel, Below

LEMMA LeastExists == \A T \in SUBSET Nat : T # {} => \E x \in T : \A y \in T : x <= y
<1> SUFFICES ASSUME NEW T \in SUBSET Nat, T # {} PROVE \E x \in T : \A y \in T : x <= y
  OBVIOUS
<1>1. PICK x \in T : \A y \in T : ~(<<y, x>> \in Below)
  BY BelowWellFounded, WFMin
<1>2. ASSUME NEW y \in T PROVE x <= y
  <2>1. x \in Nat /\ y \in Nat /\ ~(<<y, x>> \in Below)
    BY <1>1
  <2>2. <<y, x>> \in Nat \X Nat => (y < x => <<y, x>> \in Below)
    BY DEF Below
  <2> QED BY <2>1, <2>2
<1> QED BY <1>2

LEMMA GreatestExists ==
  \A n \in Nat : \A T \in SUBSET (1..n) : T # {} => \E x \in T : \A y \in T : y <= x
<1> SUFFICES ASSUME NEW n \in Nat, NEW T \in SUBSET (1..n), NEW t \in T
             PROVE  \E x \in T : \A y \in T : y <= x
  OBVIOUS
<1> DEFINE U == {u \in Nat : \A y \in T : y <= u}
<1>1. PICK m \in U : \A u \in U : m <= u
  <2>1. n \in U /\ U \in SUBSET Nat
    OBVIOUS
  <2> HIDE DEF U
  <2> QED BY <2>1, LeastExists
<1>2. m \in T
  <2> SUFFICES ASSUME m \notin T PROVE FALSE
    OBVIOUS
  <2>1. m \in Nat /\ \A y \in T : y \in Nat /\ 1 <= y /\ y < m
    BY <1>1
  <2>2. m - 1 \in Nat /\ \A y \in T : y <= m - 1
    BY <2>1
  <2> QED BY <1>1, <2>1, <2>2
<1> QED BY <1>1, <1>2

LEMMA FirstOverdueIsADay ==
  ASSUME EodInv, NEW c \in Currency, NEW d \in Day PROVE FirstOverdue(c, d) \in Nat \ {0}
<1>1. ClosedUpTo(c, d) \in SUBSET (1..d) /\ 1 \in ClosedUpTo(c, d)
  BY DEF ClosedUpTo, EodInv, FirstClosed, Day
<1>2. \E x \in ClosedUpTo(c, d) : \A y \in ClosedUpTo(c, d) : y <= x
  <2>1. d \in Nat
    BY DEF Day
  <2>2. ClosedUpTo(c, d) # {}
    BY <1>1
  <2> QED BY <1>1, <2>1, <2>2, GreatestExists, Zenon
<1>3. Latest(ClosedUpTo(c, d)) \in 1..d
  BY <1>1, <1>2 DEF Latest
<1> QED BY <1>1, <1>3 DEF FirstOverdue, Day

-----------------------------------------------------------------------------
LEMMA ScopeBounds ==
  ASSUME scope \in Scopes PROVE scope.errors \in Nat /\ scope.days \in 1..LastDay
OBVIOUS

LEMMA EodStart == EodInit => EodInv
<1> SUFFICES ASSUME EodInit PROVE EodInv
  OBVIOUS
<1>1. IdleJob \in JobRow /\ IdleJob.pc = "idle"
  BY DEF IdleJob, JobRow
<1>2. EodTypeOK
  <2>1. job \in [Closer -> JobRow]
    BY <1>1 DEF EodInit
  <2>2. fault \in [Currency -> [Day -> BOOLEAN]]
    BY DEF EodInit
  <2>0. today \in Date /\ due \in 1..LastDay
    BY DEF EodInit, Date
  <2>3. /\ lease \in Instance \cup {"nobody"} /\ leaseLive \in BOOLEAN
        /\ scope \in Scopes /\ errors = 0
    BY DEF EodInit
  <2>6. errors \in 0..scope.errors
    BY <2>3, ScopeBounds
  <2>4. /\ period \in [Currency -> [Day -> {"NONE", "OPEN", "CLOSED", "FAILED"}]]
        /\ closedBy \in [Currency -> [Day -> {"nobody", "SCHEDULER", "OPERATOR"}]]
        /\ closes \in [Currency -> [Day -> Nat]] /\ counted \in [Currency -> [Day -> Nat]]
    BY DEF EodInit
  <2>5. /\ journals \in [Currency -> [Date -> Nat]]
        /\ work \in [Currency -> [Day -> {"none", "pending", "posting", "done"}]]
        /\ workDay \in [Currency -> [Day -> Date]]
    BY DEF EodInit, Date
  <2> QED BY <2>0, <2>1, <2>2, <2>3, <2>4, <2>5, <2>6 DEF EodTypeOK, JobRow
<1>3. JobsSound
  BY <1>1 DEF EodInit, JobsSound, JobSound
<1> QED BY <1>2, <1>3 DEF EodInit, EodInv, DueIsOver, FirstClosed, PostedLater, ClosedIsSettled,
           ClosedOnce, ClosedDayWhole, Closed, Day, Date

BooksTypes ==
  /\ period \in [Currency -> [Day -> {"NONE", "OPEN", "CLOSED", "FAILED"}]]
  /\ closedBy \in [Currency -> [Day -> {"nobody", "SCHEDULER", "OPERATOR"}]]
  /\ closes \in [Currency -> [Day -> Nat]] /\ counted \in [Currency -> [Day -> Nat]]

BooksSound == BooksTypes /\ FirstClosed /\ ClosedIsSettled /\ ClosedOnce /\ ClosedDayWhole

LEMMA BooksStill == EodInv /\ UNCHANGED <<calendar, books, ledger>> => BooksSound /\ BooksSound'
BY DEF EodInv, EodTypeOK, BooksSound, BooksTypes, FirstClosed, ClosedIsSettled, ClosedOnce,
       ClosedDayWhole, Closed, calendar, books, ledger

(* A process goes on to its next step.                                      *)
LEMMA JobStep ==
  ASSUME EodInv, NEW p \in Closer, NEW j \in JobRow, JobSound(j), UpdateJob(p, j),
         UNCHANGED <<calendar, ledger, scope>>, BooksSound',
         lease' \in Instance \cup {"nobody"}, leaseLive' \in BOOLEAN, errors' \in 0..scope.errors
  PROVE  EodInv'
<1>1. job \in [Closer -> JobRow]
  BY DEF EodInv, EodTypeOK, JobRow
<1>2. job' \in [Closer -> JobRow] /\ \A q \in Closer : job'[q] = IF q = p THEN j ELSE job[q]
  BY <1>1 DEF UpdateJob
<1>3. EodTypeOK'
  BY <1>2 DEF EodInv, EodTypeOK, BooksSound, BooksTypes, JobRow, calendar, ledger
<1>4. JobsSound'
  <2>1. due' = due /\ \A c, d : Ready(c, d)' <=> Ready(c, d)
    BY DEF Ready, calendar, ledger
  <2>2. \A i \in JobRow : JobSound(i) => JobSound(i)'
    BY <2>1 DEF JobSound
  <2> QED BY <1>1, <1>2, <2>2 DEF EodInv, JobsSound
<1> QED BY <1>3, <1>4 DEF EodInv, DueIsOver, PostedLater, BooksSound, calendar, ledger

(* Steps of the calendar and the ledger.                                    *)
LEMMA TickStep == EodInv /\ Tick => EodInv'
<1> SUFFICES ASSUME EodInv, Tick PROVE EodInv'
  OBVIOUS
<1>1. /\ today' \in Date /\ due' \in 1..LastDay /\ due' < today'
      /\ due <= due' /\ today <= today' /\ today \in Nat /\ due \in Nat /\ today' \in Nat
      /\ UNCHANGED <<leaseVars, books, ledger, job, errors, scope>>
  BY ScopeBounds DEF Tick, EodInv, EodTypeOK, DueIsOver, Date
<1>2. EodTypeOK'
  BY <1>1 DEF EodInv, EodTypeOK, leaseVars, books, ledger
<1>3. JobsSound'
  <2>1. \A j \in JobRow : JobSound(j) => JobSound(j)'
    BY <1>1 DEF JobSound, JobRow, Ready, ledger
  <2> QED BY <1>1, <2>1 DEF EodInv, EodTypeOK, JobRow, JobsSound
<1>4. PostedLater'
  BY <1>1 DEF EodInv, PostedLater, ledger, Day
<1>5. ClosedIsSettled'
  BY <1>1 DEF EodInv, ClosedIsSettled, Closed, books, ledger, Day
<1> QED BY <1>1, <1>2, <1>3, <1>4, <1>5 DEF EodInv, DueIsOver, FirstClosed, ClosedOnce, ClosedDayWhole,
           Closed, books, ledger

(* What a step of the ledger has to keep.                                   *)
LEMMA LedgerFrame ==
  ASSUME EodInv, EodTypeOK', UNCHANGED <<calendar, leaseVars, books, job, errors, scope>>,
         \A c \in Currency, d \in 1..due : Ready(c, d) => Ready(c, d)',
         PostedLater', ClosedIsSettled', ClosedDayWhole'
  PROVE  EodInv'
<1>1. due' = due /\ job' = job /\ due \in Day
  BY DEF calendar, EodInv, EodTypeOK, Day
<1>2. \A j \in JobRow : JobSound(j) => JobSound(j)'
  <2> SUFFICES ASSUME NEW j \in JobRow, JobSound(j) PROVE JobSound(j)'
    OBVIOUS
  <2>1. CASE j.pc = "close"
    <3>1. j.cur \in Currency /\ j.next \in 1..due
      BY <1>1, <2>1 DEF JobSound, JobRow, Day
    <3>2. Ready(j.cur, j.next) => Ready(j.cur, j.next)'
      BY <3>1
    <3> QED BY <1>1, <3>2 DEF JobSound
  <2>2. CASE j.pc # "close"
    BY <1>1, <2>2 DEF JobSound
  <2> QED BY <2>1, <2>2
<1>3. JobsSound'
  BY <1>1, <1>2 DEF EodInv, EodTypeOK, JobRow, JobsSound
<1> QED BY <1>3 DEF EodInv, DueIsOver, FirstClosed, ClosedOnce, Closed, calendar, books

LEMMA LedgerTypes ==
  ASSUME EodInv
  PROVE  /\ work \in [Currency -> [Day -> {"none", "pending", "posting", "done"}]]
         /\ workDay \in [Currency -> [Day -> Date]] /\ journals \in [Currency -> [Date -> Nat]]
         /\ counted \in [Currency -> [Day -> Nat]]
         /\ today \in Date /\ today \in Nat /\ due \in Nat /\ due < today /\ due <= LastDay
<1>1. today \in Date /\ due \in 1..LastDay /\ due < today
  BY DEF EodInv, EodTypeOK, DueIsOver
<1>2. today \in Nat /\ due \in Nat /\ due <= LastDay
  BY <1>1 DEF Date
<1> QED BY <1>1, <1>2 DEF EodInv, EodTypeOK

LEMMA AcceptStep == ASSUME EodInv, NEW c \in Currency, AcceptRequest(c) PROVE EodInv'
<1>0. /\ work \in [Currency -> [Day -> {"none", "pending", "posting", "done"}]]
      /\ workDay \in [Currency -> [Day -> Date]] /\ journals \in [Currency -> [Date -> Nat]]
      /\ today \in Nat /\ today \in Date /\ due \in Nat /\ due < today /\ due <= LastDay
  BY LedgerTypes
<1>a. PostedLater /\ ClosedIsSettled
  BY DEF EodInv
<1>1. /\ work' \in [Currency -> [Day -> {"none", "pending", "posting", "done"}]]
      /\ \A x \in Currency, e \in Day : work'[x][e] # work[x][e] => e = today /\ work'[x][e] = "pending"
      /\ UNCHANGED <<calendar, leaseVars, books, journals, workDay, fault, job, errors, scope>>
  BY <1>0 DEF AcceptRequest
<1>2. EodTypeOK'
  BY <1>1 DEF EodInv, EodTypeOK, calendar, leaseVars, books
<1>3. \A x \in Currency, n \in 1..due : Ready(x, n) => Ready(x, n)'
  <2> SUFFICES ASSUME NEW x \in Currency, NEW n \in 1..due, Ready(x, n), NEW e \in 1..n
               PROVE  work'[x][e] \notin {"pending", "posting"}
    BY DEF Ready
  <2>1. e \in Day /\ e \in Nat /\ e < today /\ work[x][e] \notin {"pending", "posting"}
    BY <1>0 DEF Ready, Day
  <2> QED BY <1>0, <1>1, <2>1
<1>4. PostedLater'
  <2> SUFFICES ASSUME NEW x \in Currency, NEW e \in Day
               PROVE  /\ work'[x][e] = "pending" => e <= today'
                      /\ work'[x][e] = "posting" => e <= workDay'[x][e]
    BY DEF PostedLater
  <2>1. /\ work[x][e] = "pending" => e <= today
        /\ work[x][e] = "posting" => e <= workDay[x][e]
    BY <1>a DEF PostedLater
  <2>2. today' = today /\ today <= today
    BY <1>0, <1>1 DEF calendar
  <2> QED BY <1>0, <1>1, <2>1, <2>2
<1>5. ClosedIsSettled'
  <2> SUFFICES ASSUME NEW x \in Currency, NEW n \in Day, Closed(x, n)
               PROVE  n <= due /\ \A e \in Day : work'[x][e] = "posting" => workDay'[x][e] # n
    BY <1>1 DEF ClosedIsSettled, Closed, calendar, books
  <2>1. n <= due /\ \A e \in Day : work[x][e] = "posting" => workDay[x][e] # n
    BY <1>a DEF ClosedIsSettled
  <2>2. n # today
    BY <1>0, <2>1 DEF Day
  <2> QED BY <1>0, <1>1, <2>1, <2>2
<1>6. ClosedDayWhole'
  BY <1>1 DEF EodInv, ClosedDayWhole, Closed, books
<1> QED BY <1>1, <1>2, <1>3, <1>4, <1>5, <1>6, LedgerFrame

(* A posting takes its date from the day it begins on, which no close has   *)
(* reached.                                                                 *)
LEMMA PostingBegins == ASSUME EodInv, NEW c \in Currency, NEW d \in Day, BeginPosting(c, d) PROVE EodInv'
<1>0. /\ work \in [Currency -> [Day -> {"none", "pending", "posting", "done"}]]
      /\ workDay \in [Currency -> [Day -> Date]] /\ journals \in [Currency -> [Date -> Nat]]
      /\ today \in Nat /\ today \in Date /\ due \in Nat /\ due < today /\ due <= LastDay
  BY LedgerTypes
<1>a. PostedLater /\ ClosedIsSettled
  BY DEF EodInv
<1>1. /\ work' \in [Currency -> [Day -> {"none", "pending", "posting", "done"}]]
      /\ workDay' \in [Currency -> [Day -> Date]]
      /\ work[c][d] = "pending"
      /\ \A x \in Currency, e \in Day :
           IF x = c /\ e = d THEN work'[x][e] = "posting" /\ workDay'[x][e] = today
           ELSE work'[x][e] = work[x][e] /\ workDay'[x][e] = workDay[x][e]
      /\ UNCHANGED <<calendar, leaseVars, books, journals, fault, job, errors, scope>>
  BY <1>0 DEF BeginPosting
<1>2. EodTypeOK'
  BY <1>1 DEF EodInv, EodTypeOK, calendar, leaseVars, books
<1>3. \A x \in Currency, n \in 1..due : Ready(x, n) => Ready(x, n)'
  <2> SUFFICES ASSUME NEW x \in Currency, NEW n \in 1..due, Ready(x, n), NEW e \in 1..n
               PROVE  work'[x][e] \notin {"pending", "posting"}
    BY DEF Ready
  <2>1. e \in Day /\ e \in Nat /\ e < today /\ work[x][e] \notin {"pending", "posting"}
    BY <1>0 DEF Ready, Day
  <2> QED BY <1>0, <1>1, <2>1
<1>4. PostedLater'
  <2> SUFFICES ASSUME NEW x \in Currency, NEW e \in Day
               PROVE  /\ work'[x][e] = "pending" => e <= today'
                      /\ work'[x][e] = "posting" => e <= workDay'[x][e]
    BY DEF PostedLater
  <2>1. /\ work[x][e] = "pending" => e <= today
        /\ work[x][e] = "posting" => e <= workDay[x][e]
    BY <1>a DEF PostedLater
  <2>2. today' = today /\ today <= today
    BY <1>0, <1>1 DEF calendar
  <2> QED BY <1>0, <1>1, <2>1, <2>2
<1>5. ClosedIsSettled'
  <2> SUFFICES ASSUME NEW x \in Currency, NEW n \in Day, Closed(x, n)
               PROVE  n <= due /\ \A e \in Day : work'[x][e] = "posting" => workDay'[x][e] # n
    BY <1>1 DEF ClosedIsSettled, Closed, calendar, books
  <2>1. n <= due /\ \A e \in Day : work[x][e] = "posting" => workDay[x][e] # n
    BY <1>a DEF ClosedIsSettled
  <2>2. n # today
    BY <1>0, <2>1 DEF Day
  <2> QED BY <1>0, <1>1, <2>1, <2>2
<1>6. ClosedDayWhole'
  BY <1>1 DEF EodInv, ClosedDayWhole, Closed, books
<1> QED BY <1>1, <1>2, <1>3, <1>4, <1>5, <1>6, LedgerFrame

LEMMA EndStep == ASSUME EodInv, NEW c \in Currency, NEW d \in Day, EndPosting(c, d) PROVE EodInv'
<1>0. /\ work \in [Currency -> [Day -> {"none", "pending", "posting", "done"}]]
      /\ workDay \in [Currency -> [Day -> Date]] /\ journals \in [Currency -> [Date -> Nat]]
      /\ today \in Nat /\ today \in Date /\ due \in Nat /\ due < today /\ due <= LastDay
  BY LedgerTypes
<1>a. PostedLater /\ ClosedIsSettled
  BY DEF EodInv
<1>1. /\ work' \in [Currency -> [Day -> {"none", "pending", "posting", "done"}]]
      /\ workDay' \in [Currency -> [Day -> Date]]
      /\ work[c][d] = "posting" /\ workDay[c][d] \in Date
      /\ \A x \in Currency, e \in Day :
           IF x = c /\ e = d THEN work'[x][e] = "done"
           ELSE work'[x][e] = work[x][e] /\ workDay'[x][e] = workDay[x][e]
      /\ UNCHANGED <<calendar, leaseVars, books, fault, job, errors, scope>>
  BY <1>0 DEF EndPosting, Date
<1>2. /\ journals' \in [Currency -> [Date -> Nat]]
      /\ \A x \in Currency, e \in Date : journals'[x][e] # journals[x][e] => x = c /\ e = workDay[c][d]
  BY <1>0, <1>1 DEF EndPosting
<1>3. EodTypeOK'
  BY <1>1, <1>2 DEF EodInv, EodTypeOK, calendar, leaseVars, books
<1>4. \A x \in Currency, n \in 1..due : Ready(x, n) => Ready(x, n)'
  <2> SUFFICES ASSUME NEW x \in Currency, NEW n \in 1..due, Ready(x, n), NEW e \in 1..n
               PROVE  work'[x][e] \notin {"pending", "posting"}
    BY DEF Ready
  <2>1. e \in Day /\ e \in Nat /\ e < today /\ work[x][e] \notin {"pending", "posting"}
    BY <1>0 DEF Ready, Day
  <2> QED BY <1>0, <1>1, <2>1
<1>5. PostedLater'
  BY <1>0, <1>a, <1>1 DEF PostedLater, calendar
<1>6. ClosedIsSettled'
  <2> SUFFICES ASSUME NEW x \in Currency, NEW n \in Day, Closed(x, n)
               PROVE  n <= due /\ \A e \in Day : work'[x][e] = "posting" => workDay'[x][e] # n
    BY <1>1 DEF ClosedIsSettled, Closed, calendar, books
  <2>1. n <= due /\ \A e \in Day : work[x][e] = "posting" => workDay[x][e] # n
    BY <1>a DEF ClosedIsSettled
  <2>2. n # today
    BY <1>0, <2>1 DEF Day
  <2> QED BY <1>0, <1>1, <2>1, <2>2
<1>7. ClosedDayWhole'
  <2> SUFFICES ASSUME NEW x \in Currency, NEW e \in Day, Closed(x, e)' PROVE (counted[x][e] = journals[x][e])'
    BY DEF ClosedDayWhole
  <2>1. Closed(x, e) /\ counted' = counted /\ e \in Date
    BY <1>1 DEF Closed, books, Day, Date
  <2>2. counted[x][e] = journals[x][e] /\ (x = c => workDay[c][d] # e)
    BY <1>1, <2>1 DEF EodInv, ClosedDayWhole, ClosedIsSettled
  <2> QED BY <1>2, <2>1, <2>2
<1> QED BY <1>1, <1>3, <1>4, <1>5, <1>6, <1>7, LedgerFrame

LEMMA RepairStep == ASSUME EodInv, NEW c \in Currency, NEW d \in Day, Repair(c, d) PROVE EodInv'
<1>1. /\ fault' \in [Currency -> [Day -> BOOLEAN]]
      /\ UNCHANGED <<calendar, leaseVars, books, journals, work, workDay, job, errors, scope>>
  BY DEF Repair, EodInv, EodTypeOK
<1>2. EodTypeOK'
  BY <1>1 DEF EodInv, EodTypeOK, calendar, leaseVars, books
<1>3. PostedLater' /\ ClosedIsSettled' /\ ClosedDayWhole' /\ \A x \in Currency, n \in 1..due : Ready(x, n) => Ready(x, n)'
  BY <1>1 DEF EodInv, PostedLater, ClosedIsSettled, ClosedDayWhole, Closed, Ready, calendar, books
<1> QED BY <1>1, <1>2, <1>3, LedgerFrame

-----------------------------------------------------------------------------
(* The scheduler and the manual routes.                                     *)
LEMMA ARow == ASSUME EodInv, NEW p \in Closer PROVE job[p] \in JobRow /\ JobSound(job[p])
BY DEF EodInv, EodTypeOK, JobRow, JobsSound

LEMMA Bounds ==
  ASSUME EodInv
  PROVE  /\ lease \in Instance \cup {"nobody"} /\ leaseLive \in BOOLEAN /\ errors \in 0..scope.errors
         /\ due \in 1..LastDay /\ scope.errors \in Nat /\ errors \in Nat
<1>1. /\ lease \in Instance \cup {"nobody"} /\ leaseLive \in BOOLEAN /\ errors \in 0..scope.errors
      /\ due \in 1..LastDay /\ scope \in Scopes
  BY DEF EodInv, EodTypeOK
<1>2. scope.errors \in Nat
  BY <1>1, ScopeBounds
<1> QED BY <1>1, <1>2

(* The rows a process moves on to.                                          *)
LEMMA Idle == IdleJob \in JobRow /\ JobSound(IdleJob)
BY DEF IdleJob, JobRow, JobSound

LEMMA StartedRow ==
  ASSUME NEW row \in JobRow, NEW S \in SUBSET Currency, NEW d \in 0..LastDay, NEW dry \in BOOLEAN
  PROVE  /\ [row EXCEPT !.pc = "currency", !.todo = S, !.upto = d, !.dry = dry] \in JobRow
         /\ [row EXCEPT !.pc = "currency", !.todo = S, !.upto = d] \in JobRow
BY Zenon DEF JobRow

LEMMA RunStarted ==
  ASSUME EodInv, NEW S \in SUBSET Currency, NEW d \in 1..due, NEW dry \in BOOLEAN
  PROVE  LET j == [IdleJob EXCEPT !.pc = "currency", !.todo = S, !.upto = d, !.dry = dry]
             k == [IdleJob EXCEPT !.pc = "currency", !.todo = S, !.upto = d]
         IN  j \in JobRow /\ JobSound(j) /\ k \in JobRow /\ JobSound(k)
<1>1. d \in 0..LastDay
  BY Bounds
<1>2. /\ [IdleJob EXCEPT !.pc = "currency", !.todo = S, !.upto = d, !.dry = dry] \in JobRow
      /\ [IdleJob EXCEPT !.pc = "currency", !.todo = S, !.upto = d] \in JobRow
  BY <1>1, Idle, StartedRow
<1>3. /\ JobSound([IdleJob EXCEPT !.pc = "currency", !.todo = S, !.upto = d, !.dry = dry])
      /\ JobSound([IdleJob EXCEPT !.pc = "currency", !.todo = S, !.upto = d])
  BY DEF IdleJob, JobSound
<1> QED BY <1>2, <1>3

LEMMA RunEnded ==
  ASSUME NEW j \in JobRow, JobSound(j), j.pc # "idle"
  PROVE  EndCurrency(j) \in JobRow /\ JobSound(EndCurrency(j))
<1>1. 1 \in Nat /\ 0 \in 0..LastDay
  OBVIOUS
<1>2. EndCurrency(j) \in JobRow
  BY <1>1, Zenon DEF EndCurrency, JobRow
<1>3. EndCurrency(j).pc = "currency" /\ EndCurrency(j).upto = j.upto
  BY DEF EndCurrency, JobRow
<1> QED BY <1>2, <1>3 DEF JobSound

LEMMA MovedOn == ASSUME NEW j \in JobRow, NEW n \in Nat PROVE [j EXCEPT !.pc = "check", !.next = n] \in JobRow
BY Zenon DEF JobRow

LEMMA WentOn ==
  ASSUME NEW j \in JobRow, JobSound(j), j.pc \in {"check", "close"}
  PROVE  Succeeded(j) \in JobRow /\ JobSound(Succeeded(j))
<1>1. CASE j.next < j.last
  <2>1. NextDay(j) \in JobRow
    <3>1. j.next + 1 \in Nat
      BY DEF JobRow
    <3>2. [j EXCEPT !.pc = "check", !.next = j.next + 1] \in JobRow
      BY <3>1, MovedOn
    <3> QED BY <3>2 DEF NextDay
  <2>2. JobSound(NextDay(j))
    BY <1>1 DEF NextDay, JobRow, JobSound
  <2> QED BY <1>1, <2>1, <2>2 DEF Succeeded
<1>2. CASE ~(j.next < j.last)
  BY <1>2, RunEnded DEF Succeeded
<1> QED BY <1>1, <1>2

LEMMA Passed ==
  ASSUME NEW j \in JobRow, JobSound(j), j.pc = "check", j.dry \/ Ready(j.cur, j.next)
  PROVE  [j EXCEPT !.pc = "close"] \in JobRow /\ JobSound([j EXCEPT !.pc = "close"])
BY DEF JobRow, JobSound

LEMMA ChosenRow ==
  ASSUME NEW row \in JobRow, NEW c \in Currency, NEW todo \in SUBSET Currency,
         NEW first \in Nat, NEW last \in 0..LastDay
  PROVE  /\ [row EXCEPT !.pc = "check", !.cur = c, !.next = first, !.last = last] \in JobRow
         /\ [row EXCEPT !.todo = todo, !.cur = c, !.pc = "check", !.next = first, !.last = last] \in JobRow
BY Zenon DEF JobRow

LEMMA ChosenSound ==
  ASSUME NEW k \in JobRow, k.pc = "check", k.cur \in Currency, k.upto \in 1..due,
         k.next \in 1..k.last, k.last <= k.upto
  PROVE  JobSound(k)
BY DEF JobSound

LEMMA Skipped ==
  ASSUME NEW j \in JobRow, JobSound(j), j.pc = "currency", NEW c
  PROVE  [j EXCEPT !.todo = @ \ {c}] \in JobRow /\ JobSound([j EXCEPT !.todo = @ \ {c}])
BY DEF JobRow, JobSound

LEMMA LeaseStep == EodInv /\ LeaseExpires => EodInv'
<1> SUFFICES ASSUME EodInv, LeaseExpires PROVE EodInv'
  OBVIOUS
<1>1. EodTypeOK'
  BY DEF LeaseExpires, EodInv, EodTypeOK, calendar, books, ledger
<1>2. JobsSound'
  BY DEF LeaseExpires, EodInv, JobsSound, JobSound, Ready, calendar, ledger
<1>3. BooksSound'
  BY BooksStill DEF LeaseExpires
<1> QED BY <1>1, <1>2, <1>3 DEF LeaseExpires, EodInv, DueIsOver, PostedLater, BooksSound, calendar, ledger

LEMMA AcquireStep == ASSUME EodInv, NEW i \in Instance, AcquireSchedule(i) PROVE EodInv'
<1> DEFINE j == [IdleJob EXCEPT !.pc = "currency", !.todo = Currency, !.upto = due]
<1>1. i \in Closer /\ UpdateJob(i, j) /\ UNCHANGED <<calendar, ledger, scope>> /\ BooksSound'
  BY BooksStill DEF AcquireSchedule, Closer
<1>3. due \in 1..due /\ Currency \in SUBSET Currency /\ FALSE \in BOOLEAN
  BY Bounds
<1>4. j \in JobRow /\ JobSound(j)
  BY <1>3, RunStarted
<1>5. lease' \in Instance \cup {"nobody"} /\ leaseLive' \in BOOLEAN /\ errors' \in 0..scope.errors
  BY Bounds DEF AcquireSchedule
<1> HIDE DEF j
<1> QED BY <1>1, <1>4, <1>5, JobStep

LEMMA OverdueStep == ASSUME EodInv, NEW i \in Instance, OverdueDates(i) PROVE EodInv'
<1>1. /\ i \in Closer /\ UNCHANGED <<calendar, ledger, scope>> /\ BooksSound'
      /\ lease' \in Instance \cup {"nobody"} /\ leaseLive' \in BOOLEAN /\ errors' \in 0..scope.errors
  BY BooksStill, Bounds DEF OverdueDates, Closer, leaseVars
<1>2. job[i] \in JobRow /\ JobSound(job[i]) /\ job[i].pc = "currency" /\ job[i].upto \in 1..due
  BY <1>1, ARow DEF OverdueDates, At, JobSound
<1>3. PICK c \in job[i].todo :
        LET first == FirstOverdue(c, job[i].upto)
            last  == LesserOf(job[i].upto, first + MaxDaysPerTick - 1)
            j     == [job[i] EXCEPT !.todo = @ \ {c}]
        IN UpdateJob(i, IF first > last THEN j
                        ELSE [j EXCEPT !.pc = "check", !.cur = c, !.next = first, !.last = last])
  BY DEF OverdueDates
<1> DEFINE first == FirstOverdue(c, job[i].upto)
           last  == LesserOf(job[i].upto, first + MaxDaysPerTick - 1)
           j     == [job[i] EXCEPT !.todo = @ \ {c}]
           k     == [j EXCEPT !.pc = "check", !.cur = c, !.next = first, !.last = last]
<1>4. c \in Currency
  BY <1>2 DEF JobRow
<1>5. j \in JobRow /\ JobSound(j) /\ j.upto = job[i].upto
  BY <1>2, Skipped DEF JobRow
<1>6. job[i].upto \in Day /\ job[i].upto \in Nat /\ first \in Nat \ {0}
  <2>1. job[i].upto \in Day /\ job[i].upto \in Nat
    BY <1>2, Bounds DEF Day
  <2> QED BY <1>4, <2>1, FirstOverdueIsADay
<1>7. CASE first > last
  <2> HIDE DEF first, last, j
  <2> QED BY <1>1, <1>3, <1>5, <1>7, JobStep DEF first, last, j
<1>8. CASE ~(first > last)
  <2>1. last \in Nat /\ last <= job[i].upto /\ first <= last
    <3> HIDE DEF first
    <3> QED BY <1>6, <1>8 DEF LesserOf
  <2>2. last \in 0..LastDay
    BY <1>6, <2>1 DEF Day
  <2> HIDE DEF first, last, j
  <2>3. k \in JobRow
    BY <1>4, <1>5, <1>6, <2>2, ChosenRow
  <2>4. k.pc = "check" /\ k.cur = c /\ k.next = first /\ k.last = last /\ k.upto = j.upto
    BY <1>5 DEF JobRow
  <2>5. JobSound(k)
    <3> HIDE DEF k
    <3> QED BY <1>2, <1>4, <1>5, <1>6, <2>1, <2>3, <2>4, ChosenSound
  <2>6. UpdateJob(i, k)
    BY <1>3, <1>8 DEF first, last, j
  <2> HIDE DEF k
  <2> QED BY <1>1, <2>3, <2>5, <2>6, JobStep
<1> QED BY <1>7, <1>8

LEMMA ToIdle ==
  ASSUME EodInv, NEW p \in Closer, UpdateJob(p, IdleJob), UNCHANGED <<calendar, books, ledger, scope>>,
         lease' \in Instance \cup {"nobody"}, leaseLive' \in BOOLEAN, errors' \in 0..scope.errors
  PROVE  EodInv'
BY Idle, BooksStill, JobStep

LEMMA StopSteps ==
  ASSUME EodInv, NEW p \in Closer, ReleaseSchedule(p) \/ FinishManual(p) \/ Killed(p) PROVE EodInv'
<1>1. CASE ReleaseSchedule(p)
  BY <1>1, Bounds, ToIdle DEF ReleaseSchedule, leaseVars
<1>2. CASE FinishManual(p)
  BY <1>2, Bounds, ToIdle DEF FinishManual, leaseVars
<1>3. CASE Killed(p)
  <2>1. errors' \in 0..scope.errors
    BY <1>3, Bounds DEF Killed
  <2> QED BY <1>3, <2>1, Bounds, ToIdle DEF Killed
<1> QED BY <1>1, <1>2, <1>3

LEMMA ManualRunStep == ASSUME EodInv, NEW o \in Operator, ManualRun(o) PROVE EodInv'
<1>1. /\ o \in Closer /\ UNCHANGED <<calendar, ledger, scope>> /\ BooksSound'
      /\ lease' \in Instance \cup {"nobody"} /\ leaseLive' \in BOOLEAN /\ errors' \in 0..scope.errors
  BY BooksStill, Bounds DEF ManualRun, Closer, leaseVars
<1>2. PICK d \in ManualDays, dry \in BOOLEAN, S \in {Currency} \cup {{c} : c \in Currency} :
        /\ d <= due
        /\ UpdateJob(o, [IdleJob EXCEPT !.pc = "currency", !.todo = S, !.upto = d, !.dry = dry])
  BY DEF ManualRun
<1>3. d \in 1..due /\ S \in SUBSET Currency
  BY <1>2, Bounds
<1> DEFINE j == [IdleJob EXCEPT !.pc = "currency", !.todo = S, !.upto = d, !.dry = dry]
<1>4. j \in JobRow /\ JobSound(j)
  BY <1>3, RunStarted
<1> HIDE DEF j
<1> QED BY <1>1, <1>2, <1>4, JobStep DEF j

LEMMA NextCurrencyStep == ASSUME EodInv, NEW o \in Closer, NextCurrency(o) PROVE EodInv'
<1>1. /\ UNCHANGED <<calendar, ledger, scope>> /\ BooksSound'
      /\ lease' \in Instance \cup {"nobody"} /\ leaseLive' \in BOOLEAN /\ errors' \in 0..scope.errors
  BY BooksStill, Bounds DEF NextCurrency, leaseVars
<1>2. job[o] \in JobRow /\ JobSound(job[o]) /\ job[o].upto \in 1..due
  BY ARow DEF NextCurrency, At, JobSound
<1>3. PICK c \in job[o].todo :
        UpdateJob(o, [job[o] EXCEPT !.todo = @ \ {c}, !.cur = c, !.pc = "check",
                                    !.next = job[o].upto, !.last = job[o].upto])
  BY DEF NextCurrency
<1> DEFINE k == [job[o] EXCEPT !.todo = job[o].todo \ {c}, !.cur = c, !.pc = "check",
                               !.next = job[o].upto, !.last = job[o].upto]
<1>4. /\ c \in Currency /\ job[o].todo \ {c} \in SUBSET Currency
      /\ job[o].upto \in Nat /\ job[o].upto \in 0..LastDay
  BY <1>2 DEF JobRow
<1>5. k \in JobRow
  BY <1>2, <1>4, ChosenRow
<1>6. k.pc = "check" /\ k.cur = c /\ k.next = job[o].upto /\ k.last = job[o].upto /\ k.upto = job[o].upto
  BY <1>2 DEF JobRow
<1>7. UpdateJob(o, k)
  BY <1>3
<1> HIDE DEF k
<1>8. JobSound(k)
  BY <1>2, <1>4, <1>5, <1>6, ChosenSound
<1> QED BY <1>1, <1>5, <1>7, <1>8, JobStep

LEMMA CheckStep == ASSUME EodInv, NEW p \in Closer, CheckReadiness(p) PROVE EodInv'
<1>1. /\ UNCHANGED <<calendar, ledger, scope>> /\ BooksSound'
      /\ lease' \in Instance \cup {"nobody"} /\ leaseLive' \in BOOLEAN /\ errors' \in 0..scope.errors
  BY BooksStill, Bounds DEF CheckReadiness, leaseVars
<1>2. job[p] \in JobRow /\ JobSound(job[p]) /\ job[p].pc = "check"
  BY ARow DEF CheckReadiness, At
<1>3. CASE Ready(job[p].cur, job[p].next) \/ job[p].dry
  <2>1. UpdateJob(p, [job[p] EXCEPT !.pc = "close"])
    BY <1>3 DEF CheckReadiness
  <2> QED BY <1>1, <1>2, <1>3, <2>1, Passed, JobStep
<1>4. CASE ~(Ready(job[p].cur, job[p].next) \/ job[p].dry)
  <2>1. UpdateJob(p, EndCurrency(job[p]))
    BY <1>4 DEF CheckReadiness, Blocked
  <2> QED BY <1>1, <1>2, <2>1, RunEnded, JobStep
<1> QED BY <1>3, <1>4

(* The close procedure, on a due day whose requests are settled or in a dry *)
(* run.                                                                     *)
LEMMA CloseBooks ==
  ASSUME EodInv, NEW p \in Closer, NEW c \in Currency, NEW d \in 1..due, NEW dry \in BOOLEAN,
         dry \/ Ready(c, d), CloseProcedure(p, c, d, dry), UNCHANGED <<calendar, ledger>>
  PROVE  BooksSound'
<1>0. /\ BooksTypes /\ FirstClosed /\ ClosedIsSettled /\ ClosedOnce /\ ClosedDayWhole /\ PostedLater
      /\ d \in Day /\ d \in Nat /\ d \in Date /\ d <= due /\ due' = due
      /\ UNCHANGED <<journals, work, workDay, fault>>
  <2>1. d \in Day /\ d \in Nat /\ d \in Date /\ d <= due
    BY Bounds DEF Day, Date
  <2> QED BY <2>1 DEF EodInv, EodTypeOK, BooksTypes, calendar, ledger
<1>t. /\ work \in [Currency -> [Day -> {"none", "pending", "posting", "done"}]]
      /\ workDay \in [Currency -> [Day -> Date]] /\ journals \in [Currency -> [Date -> Nat]]
  BY LedgerTypes
<1>1. CASE UNCHANGED books
  BY <1>1, BooksStill
<1>2. CASE ~dry /\ ~AlreadyClosed(c, d) /\ ~fault[c][d]
  <2>1. /\ period' = [period EXCEPT ![c][d] = "CLOSED"]
        /\ closedBy' = [closedBy EXCEPT ![c][d] = RequestedBy(p)]
        /\ closes' = [closes EXCEPT ![c][d] = @ + 1]
        /\ counted' = [counted EXCEPT ![c][d] = journals[c][d]]
    BY <1>2 DEF CloseProcedure, PeriodAfter
  <2>2. closes[c][d] = 0
    BY <1>0, <1>2 DEF AlreadyClosed, BooksTypes
  <2>3. journals[c][d] \in Nat /\ RequestedBy(p) \in {"nobody", "SCHEDULER", "OPERATOR"}
    BY <1>0, <1>t DEF RequestedBy
  <2>4. BooksTypes'
    BY <1>0, <2>1, <2>2, <2>3 DEF BooksTypes
  <2>5. \A x \in Currency, e \in Day :
          IF x = c /\ e = d
          THEN period'[x][e] = "CLOSED" /\ closes'[x][e] = 1 /\ counted'[x][e] = journals[c][d]
          ELSE /\ period'[x][e] = period[x][e] /\ closes'[x][e] = closes[x][e]
               /\ counted'[x][e] = counted[x][e]
    BY <1>0, <2>1, <2>2 DEF BooksTypes
  <2>6. \A e \in Day : work[c][e] = "posting" => workDay[c][e] # d
    <3> SUFFICES ASSUME NEW e \in Day, work[c][e] = "posting", workDay[c][e] = d PROVE FALSE
      OBVIOUS
    <3>1. e <= d
      BY <1>0 DEF PostedLater
    <3>2. e \in 1..d
      BY <1>0, <3>1 DEF Day
    <3> QED BY <1>2, <3>2 DEF Ready
  <2>7. FirstClosed'
    BY <1>0, <2>5 DEF FirstClosed, Closed, Day
  <2>8. ClosedIsSettled'
    BY <1>0, <2>5, <2>6 DEF ClosedIsSettled, Closed
  <2>9. ClosedOnce' /\ ClosedDayWhole'
    BY <1>0, <2>5 DEF ClosedOnce, ClosedDayWhole, Closed
  <2> QED BY <2>4, <2>7, <2>8, <2>9 DEF BooksSound
<1>3. CASE /\ period' = [period EXCEPT ![c][d] = PeriodAfter(c, d, dry, ~fault[c][d])]
           /\ UNCHANGED <<closedBy, closes, counted>> /\ (dry \/ (~AlreadyClosed(c, d) /\ fault[c][d]))
  <2>1. period[c][d] \in {"NONE", "OPEN", "CLOSED", "FAILED"}
    BY <1>0 DEF BooksTypes
  <2>2. /\ PeriodAfter(c, d, dry, ~fault[c][d]) \in {"NONE", "OPEN", "CLOSED", "FAILED"}
        /\ PeriodAfter(c, d, dry, ~fault[c][d]) = "CLOSED" <=> period[c][d] = "CLOSED"
    <3>1. CASE dry
      BY <2>1, <3>1 DEF PeriodAfter
    <3>2. CASE ~dry
      <4>1. PeriodAfter(c, d, dry, ~fault[c][d]) = "FAILED" /\ ~AlreadyClosed(c, d)
        BY <1>3, <3>2 DEF PeriodAfter
      <4>2. period[c][d] # "CLOSED"
        BY <1>0, <4>1 DEF AlreadyClosed, ClosedOnce, Closed
      <4> QED BY <4>1, <4>2
    <3> QED BY <3>1, <3>2
  <2>3. /\ BooksTypes' /\ \A x \in Currency, e \in Day : Closed(x, e)' <=> Closed(x, e)
    BY <1>0, <1>3, <2>2 DEF BooksTypes, Closed
  <2>4. FirstClosed' /\ ClosedIsSettled' /\ ClosedOnce' /\ ClosedDayWhole'
    BY <1>0, <1>3, <2>3, Bounds DEF FirstClosed, ClosedIsSettled, ClosedOnce, ClosedDayWhole, Day
  <2> QED BY <2>3, <2>4 DEF BooksSound
<1> QED BY <1>1, <1>2, <1>3 DEF CloseProcedure, books

LEMMA CloseStep == ASSUME EodInv, NEW p \in Closer, CloseDay(p) PROVE EodInv'
<1>1. job[p] \in JobRow /\ JobSound(job[p]) /\ job[p].pc = "close"
  BY ARow DEF CloseDay, At
<1>2. /\ job[p].cur \in Currency /\ job[p].next \in 1..due /\ job[p].dry \in BOOLEAN
      /\ job[p].dry \/ Ready(job[p].cur, job[p].next)
  BY <1>1, Bounds DEF JobSound, JobRow
<1>3. /\ UNCHANGED <<calendar, ledger, scope>>
      /\ lease' \in Instance \cup {"nobody"} /\ leaseLive' \in BOOLEAN /\ errors' \in 0..scope.errors
      /\ CloseProcedure(p, job[p].cur, job[p].next, job[p].dry)
  BY Bounds DEF CloseDay, leaseVars
<1>4. BooksSound'
  BY <1>2, <1>3, CloseBooks
<1>5. UpdateJob(p, Succeeded(job[p])) \/ UpdateJob(p, EndCurrency(job[p]))
  BY DEF CloseDay, Blocked
<1> QED BY <1>1, <1>3, <1>4, <1>5, WentOn, RunEnded, JobStep

LEMMA ThrowStep == ASSUME EodInv, NEW p \in Closer, CallThrows(p) PROVE EodInv'
<1>1. job[p] \in JobRow /\ JobSound(job[p]) /\ job[p].pc \in {"check", "close"}
  BY ARow DEF CallThrows, At
<1>2. /\ UNCHANGED <<calendar, ledger, scope>>
      /\ lease' \in Instance \cup {"nobody"} /\ leaseLive' \in BOOLEAN
      /\ UpdateJob(p, EndCurrency(job[p]))
  BY Bounds DEF CallThrows, leaseVars, Blocked
<1>3. errors' \in 0..scope.errors
  BY Bounds DEF CallThrows
<1>4. BooksSound'
  <2>1. CASE UNCHANGED books
    BY <1>2, <2>1, BooksStill
  <2>2. CASE job[p].pc = "close" /\ CloseProcedure(p, job[p].cur, job[p].next, job[p].dry)
    <3>1. /\ job[p].cur \in Currency /\ job[p].next \in 1..due /\ job[p].dry \in BOOLEAN
          /\ job[p].dry \/ Ready(job[p].cur, job[p].next)
      BY <1>1, <2>2, Bounds DEF JobSound, JobRow
    <3> QED BY <1>2, <2>2, <3>1, CloseBooks
  <2> QED BY <2>1, <2>2 DEF CallThrows, At
<1> QED BY <1>1, <1>2, <1>3, <1>4, RunEnded, JobStep

LEMMA EodStep == EodInv /\ [EodNext]_eodVars => EodInv'
<1> SUFFICES ASSUME EodInv, [EodNext]_eodVars PROVE EodInv'
  OBVIOUS
<1>1. CASE Tick
  BY <1>1, TickStep
<1>2. CASE LedgerStep
  BY <1>2, AcceptStep, PostingBegins, EndStep, RepairStep DEF LedgerStep
<1>3. CASE LeaseExpires
  BY <1>3, LeaseStep
<1>4. ASSUME NEW i \in Instance, AcquireSchedule(i) \/ SchedulerStep(i) PROVE EodInv'
  <2>1. i \in Closer
    BY DEF Closer
  <2> QED BY <1>4, <2>1, AcquireStep, OverdueStep, StopSteps, CheckStep, CloseStep DEF SchedulerStep, RunOneStep
<1>5. ASSUME NEW o \in Operator, ManualRun(o) \/ ManualStep(o) PROVE EodInv'
  <2>1. o \in Closer
    BY DEF Closer
  <2> QED BY <1>5, <2>1, ManualRunStep, NextCurrencyStep, StopSteps, CheckStep, CloseStep DEF ManualStep, RunOneStep
<1>6. ASSUME NEW p \in Closer, CallThrows(p) \/ Killed(p) PROVE EodInv'
  BY <1>6, ThrowStep, StopSteps
<1>7. CASE UNCHANGED eodVars
  <2>1. UNCHANGED <<calendar, books, ledger, leaseVars, job, errors, scope>>
    BY <1>7 DEF eodVars
  <2>2. BooksSound' /\ EodTypeOK'
    BY <2>1, BooksStill DEF EodInv, EodTypeOK, calendar, books, ledger, leaseVars
  <2>3. JobsSound'
    BY <2>1 DEF EodInv, JobsSound, JobSound, Ready, calendar, ledger
  <2> QED BY <2>1, <2>2, <2>3 DEF EodInv, DueIsOver, PostedLater, BooksSound, calendar, ledger
<1> QED BY <1>1, <1>2, <1>3, <1>4, <1>5, <1>6, <1>7 DEF EodNext

(* However scheduler instances, operators, kills, expired leases and lost   *)
(* answers interleave with transactions that are accepted on a day and      *)
(* posted later, a business day is closed by one run and its snapshot holds *)
(* every journal that is ever dated on it.                                  *)
THEOREM DaysClosedWhole == EodSpec => [](EodTypeOK /\ ClosedOnce /\ ClosedDayWhole)
<1>1. EodInv => EodTypeOK /\ ClosedOnce /\ ClosedDayWhole
  BY DEF EodInv
<1> QED BY EodStart, EodStep, <1>1, PTL DEF EodSpec
-----------------------------------------------------------------------------
(* The accounting configurations of a currency.  Its rows follow each      *)
(* other without a gap, and the last one is open-ended: that is why a       *)
(* provisioning that found no open row may only insert into an empty table.*)
Precedes(c, d) == c.to # OpenEnded /\ c.to < d.from

RowsInOrder(rows) ==
  /\ IsFiniteSet(rows) /\ rows \subseteq [from : EffectiveDate, to : 0..LastDate]
  /\ \A c \in rows : ValidPeriod(c)
  /\ \A c, d \in rows : c = d \/ Precedes(c, d) \/ Precedes(d, c)
  /\ \A c \in rows : OpenRow(c) \/ \E d \in rows : d.from = c.to + 1

(* A transaction past its UPDATE has the open row for itself.               *)
OpenRowHeld ==
  \A r \in ConfigRequest : request[r].pc = "insert" /\ request[r].closes # NoRow =>
    /\ request[r].closes \in configs /\ OpenRow(request[r].closes)
    /\ \A s \in ConfigRequest \ {r} : request[s].pc = "insert" => request[s].closes # request[r].closes

RequestsShaped ==
  /\ request \in [ConfigRequest -> [kind : {"none", "provision", "create"}, pc : {"none", "update", "insert"},
                                    from : 0..LastDate, closes : ConfigRow]]
  /\ \A r \in ConfigRequest :
       /\ request[r].pc = "insert" => request[r].from \in EffectiveDate
       /\ request[r].pc = "update" =>
            request[r].closes # NoRow /\ OpenRow(request[r].closes) /\ request[r].from \in EffectiveDate

AccountingInv ==
  /\ RowsInOrder(configs) /\ (configs # {} => OpenRows # {})
  /\ OpenRowHeld /\ RequestsShaped

LEMMA AccountingStart == AccountingInit => AccountingInv
<1> SUFFICES ASSUME AccountingInit PROVE AccountingInv
  OBVIOUS
<1> USE AccountingAssumption DEF AccountingAssumption, AccountingInit, EffectiveDate, OpenEnded
<1>1. IsFiniteSet(configs)
  <2>1. configs = {} \/ configs = {[from |-> 1, to |-> 0]}
    OBVIOUS
  <2>2. IsFiniteSet({}) /\ \A x : IsFiniteSet({x})
    BY FS_EmptySet, FS_Singleton
  <2> QED
    BY <2>1, <2>2
<1>2. RowsInOrder(configs)
  BY <1>1 DEF RowsInOrder, ValidPeriod, OpenRow
<1>3. configs # {} => OpenRows # {}
  BY DEF OpenRows, OpenRow
<1>4. OpenRowHeld /\ RequestsShaped
  BY DEF OpenRowHeld, RequestsShaped, NoRequest, NoRow, ConfigRow
<1> QED
  BY <1>2, <1>3, <1>4 DEF AccountingInv

(* Two open rows are one.                                                   *)
LEMMA OpenIsOne ==
  ASSUME NEW rows, IsFiniteSet(rows), OneOpenRow(rows), NEW c \in rows, NEW d \in rows, OpenRow(c), OpenRow(d)
  PROVE  c = d
<1> DEFINE open == {x \in rows : OpenRow(x)}
<1>1. IsFiniteSet(open) /\ Cardinality(open) <= 1
  BY FS_Subset DEF OneOpenRow
<1>2. open # {} /\ Cardinality(open) \in Nat /\ (Cardinality(open) = 0 <=> open = {})
  BY <1>1, FS_CardinalityType, FS_EmptySet
<1>3. Cardinality(open) = 1
  BY <1>1, <1>2
<1>4. PICK x : open = {x}
  BY <1>1, <1>3, FS_Singleton
<1> QED
  BY <1>4

(* In order, there is one open row.                                         *)
LEMMA OpenIsLast ==
  ASSUME RowsInOrder(configs), NEW c \in configs, NEW d \in configs, OpenRow(c)
  PROVE  d = c \/ (~OpenRow(d) /\ d.to < c.from)
BY DEF RowsInOrder, Precedes, OpenRow

(* What the statements before the commit leave in a transaction.            *)
NextStatement(r, q) ==
  \/ q = NoRequest
  \/ /\ q \in [kind : {"provision", "create"}, pc : {"insert"}, from : EffectiveDate, closes : {NoRow}]
  \/ /\ q \in [kind : {"provision", "create"}, pc : {"update"}, from : EffectiveDate, closes : OpenRows]
  \/ /\ request[r].pc = "update" /\ RowLockedBy(request[r].closes) = {}
     /\ q = [request[r] EXCEPT !.pc = "insert", !.closes = IF request[r].closes \in configs THEN @ ELSE NoRow]

LEMMA StatementMade ==
  ASSUME NEW r \in ConfigRequest,
         \/ \E from \in EffectiveDate : beginProvision(r, from) \/ beginCreate(r, from)
         \/ lockOpenRow(r) \/ rollbackConfiguration(r)
  PROVE  UNCHANGED configs /\ \E q : request' = [request EXCEPT ![r] = q] /\ NextStatement(r, q)
<1>1. CASE \E from \in EffectiveDate : beginProvision(r, from)
  BY <1>1 DEF beginProvision, Step, NextStatement
<1>2. ASSUME NEW from \in EffectiveDate, beginCreate(r, from)
      PROVE  UNCHANGED configs /\ \E q : request' = [request EXCEPT ![r] = q] /\ NextStatement(r, q)
  <2>1. PICK c \in IF OpenRows = {} THEN {NoRow} ELSE OpenRows :
          Step(r, [kind |-> "create", pc |-> IF c = NoRow THEN "insert" ELSE "update",
                   from |-> from, closes |-> c])
    BY <1>2 DEF beginCreate
  <2>2. c = NoRow \/ (c # NoRow /\ c \in OpenRows)
    BY <2>1
  <2> DEFINE q == [kind |-> "create", pc |-> IF c = NoRow THEN "insert" ELSE "update",
                   from |-> from, closes |-> c]
  <2>3. NextStatement(r, q)
    BY <2>2 DEF NextStatement
  <2> QED
    BY <2>1, <2>3, <1>2 DEF Step, beginCreate
<1>3. CASE lockOpenRow(r)
  BY <1>3 DEF lockOpenRow, Step, NextStatement
<1>4. CASE rollbackConfiguration(r)
  BY <1>4 DEF rollbackConfiguration, Step, NextStatement
<1> QED
  BY <1>1, <1>2, <1>3, <1>4

LEMMA RequestSteps ==
  ASSUME AccountingInv, UNCHANGED configs, NEW r \in ConfigRequest, NEW q,
         request' = [request EXCEPT ![r] = q], NextStatement(r, q)
  PROVE  AccountingInv'
<1> USE AccountingAssumption DEF AccountingAssumption, OpenEnded
<1>1. RowsInOrder(configs)' /\ (configs # {} => OpenRows # {})'
  BY DEF AccountingInv, RowsInOrder, Precedes, ValidPeriod, OpenRow, OpenRows
<1>2. NoRow \in ConfigRow /\ NoRow \notin configs /\ \A c \in configs : c \in ConfigRow
  BY DEF AccountingInv, RowsInOrder, NoRow, ConfigRow, EffectiveDate
<1>3. q \in [kind : {"none", "provision", "create"}, pc : {"none", "update", "insert"},
             from : 0..LastDate, closes : ConfigRow]
  <2>1. NoRequest.closes \in ConfigRow
    BY <1>2 DEF NoRequest
  <2>2. CASE q = NoRequest
    BY <2>1, <2>2 DEF NoRequest
  <2>3. CASE request[r].pc = "update" /\ q = [request[r] EXCEPT !.pc = "insert",
                 !.closes = IF request[r].closes \in configs THEN @ ELSE NoRow]
    <3> DEFINE new == IF request[r].closes \in configs THEN request[r].closes ELSE NoRow
    <3>1. new \in ConfigRow
      BY <1>2
    <3>2. q = [request[r] EXCEPT !.pc = "insert", !.closes = new]
      BY <2>3
    <3> HIDE DEF new
    <3> QED
      BY <3>1, <3>2 DEF AccountingInv, RequestsShaped
  <2>4. CASE q \in [kind : {"provision", "create"}, pc : {"insert"}, from : EffectiveDate, closes : {NoRow}]
    BY <1>2, <2>4 DEF EffectiveDate
  <2>5. CASE q \in [kind : {"provision", "create"}, pc : {"update"}, from : EffectiveDate, closes : OpenRows]
    BY <1>2, <2>5 DEF EffectiveDate, OpenRows
  <2> QED
    BY <2>2, <2>3, <2>4, <2>5 DEF NextStatement
<1>4. /\ q.pc = "insert" => q.from \in EffectiveDate
      /\ q.pc = "update" => q.closes # NoRow /\ OpenRow(q.closes) /\ q.from \in EffectiveDate
  <2>1. CASE q = NoRequest
    BY <2>1 DEF NoRequest
  <2>2. CASE request[r].pc = "update" /\ q = [request[r] EXCEPT !.pc = "insert",
                 !.closes = IF request[r].closes \in configs THEN @ ELSE NoRow]
    BY <2>2 DEF AccountingInv, RequestsShaped
  <2>3. CASE q \in [kind : {"provision", "create"}, pc : {"insert"}, from : EffectiveDate, closes : {NoRow}]
    BY <2>3
  <2>4. CASE q \in [kind : {"provision", "create"}, pc : {"update"}, from : EffectiveDate, closes : OpenRows]
    BY <1>2, <2>4 DEF OpenRows
  <2> QED
    BY <2>1, <2>2, <2>3, <2>4 DEF NextStatement
<1>5. request' \in [ConfigRequest -> [kind : {"none", "provision", "create"}, pc : {"none", "update", "insert"},
                                     from : 0..LastDate, closes : ConfigRow]]
  BY <1>3 DEF AccountingInv, RequestsShaped
<1>6. \A s \in ConfigRequest : request'[s] = IF s = r THEN q ELSE request[s]
  BY DEF AccountingInv, RequestsShaped
<1>7. RequestsShaped'
  BY <1>4, <1>5, <1>6 DEF AccountingInv, RequestsShaped, OpenRow
<1>8. q.pc = "insert" /\ q.closes # NoRow =>
        /\ q.closes \in configs /\ OpenRow(q.closes)
        /\ \A s \in ConfigRequest : request[s].pc = "insert" => request[s].closes # q.closes
  <2> SUFFICES ASSUME q.pc = "insert", q.closes # NoRow PROVE <1>8!2
    OBVIOUS
  <2>1. request[r].pc = "update" /\ RowLockedBy(request[r].closes) = {}
        /\ q = [request[r] EXCEPT !.pc = "insert", !.closes = IF request[r].closes \in configs THEN @ ELSE NoRow]
    BY DEF NextStatement, NoRequest
  <2>2. q.closes = request[r].closes /\ q.closes \in configs
    BY <2>1 DEF AccountingInv, RequestsShaped
  <2> QED
    BY <2>1, <2>2 DEF AccountingInv, RequestsShaped, RowLockedBy
<1>9. OpenRowHeld'
  BY <1>6, <1>8 DEF AccountingInv, OpenRowHeld, OpenRow
<1> QED
  BY <1>1, <1>7, <1>9 DEF AccountingInv

(* The commit of a transaction that closes no row finds none.               *)
LEMMA FirstRow ==
  ASSUME AccountingInv, NEW r \in ConfigRequest, request[r].pc = "insert", Permits(request[r]),
         request[r].closes = NoRow
  PROVE  configs = {} /\ RowsAfter(request[r]) = {[from |-> request[r].from, to |-> OpenEnded]}
<1> DEFINE q == request[r]
           new == [from |-> q.from, to |-> OpenEnded]
           rows == RowsAfter(q)
<1>1. rows = configs \cup {new}
  <2>1. NoRow \notin configs
    BY AccountingAssumption DEF AccountingInv, RowsInOrder, NoRow, EffectiveDate, AccountingAssumption
  <2> QED
    BY <2>1 DEF RowsAfter
<1>2. IsFiniteSet(rows) /\ IsFiniteSet(configs)
  <2>1. IsFiniteSet(configs)
    BY DEF AccountingInv, RowsInOrder
  <2>2. IsFiniteSet(configs \cup {new})
    BY <2>1, FS_AddElement
  <2> QED
    BY <1>1, <2>1, <2>2
<1>3. new \notin configs
  <2> SUFFICES ASSUME new \in configs PROVE FALSE
    OBVIOUS
  <2>1. rows = configs /\ Cardinality(configs) \in Nat
    BY <1>1, <1>2, FS_CardinalityType
  <2> QED
    BY <2>1 DEF Permits
<1>4. ASSUME configs # {} PROVE FALSE
  <2>1. PICK c \in configs : OpenRow(c)
    BY <1>4 DEF AccountingInv, OpenRows
  <2>2. c = new
    <3>1. OneOpenRow(rows) /\ c \in rows /\ new \in rows /\ OpenRow(new)
      BY <1>1, <2>1 DEF Permits, OpenRow
    <3> HIDE DEF new, rows
    <3> QED
      BY <1>2, <2>1, <3>1, OpenIsOne
  <2> QED
    BY <1>3, <2>2
<1> QED
  BY <1>1, <1>4

(* The commit of one that closes a row ends it before the new one begins.   *)
LEMMA RowSucceeded ==
  ASSUME AccountingInv, NEW r \in ConfigRequest, request[r].pc = "insert", Permits(request[r]),
         request[r].closes # NoRow
  PROVE  /\ request[r].from > request[r].closes.from
         /\ RowsInOrder(RowsAfter(request[r]))
<1> USE AccountingAssumption DEF AccountingAssumption, OpenEnded, EffectiveDate
<1> DEFINE q == request[r]
           c == q.closes
           new == [from |-> q.from, to |-> OpenEnded]
           ended == [from |-> c.from, to |-> q.from - 1]
           rows == RowsAfter(q)
<1>1. /\ c \in configs /\ c \in [from : EffectiveDate, to : 0..LastDate] /\ OpenRow(c)
      /\ q.from \in EffectiveDate /\ RowsInOrder(configs)
  BY DEF AccountingInv, OpenRowHeld, RequestsShaped, RowsInOrder
<1>2. EndedBefore(c, q.from) = ended /\ ended \in [from : EffectiveDate, to : 0..LastDate]
  BY <1>1 DEF EndedBefore
<1>3. rows = (configs \ {c}) \cup {new} \cup {ended}
  BY <1>2 DEF RowsAfter
<1>4. IsFiniteSet(rows) /\ Cardinality(configs) \in Nat
  <2>1. IsFiniteSet(configs \ {c})
    BY <1>1, FS_RemoveElement DEF RowsInOrder
  <2>2. IsFiniteSet((configs \ {c}) \cup {new})
    BY <2>1, FS_AddElement
  <2> DEFINE more == (configs \ {c}) \cup {new}
  <2>3. IsFiniteSet(more \cup {ended})
    <3> HIDE DEF ended, more
    <3> QED
      BY <2>2, FS_AddElement DEF more
  <2>4. Cardinality(configs) \in Nat
    BY <1>1, FS_CardinalityType DEF RowsInOrder
  <2> QED
    BY <1>3, <2>3, <2>4
<1>5. q.from > 1
  <2> SUFFICES ASSUME q.from = 1 PROVE FALSE
    BY <1>1
  <2>1. OpenRow(ended) /\ OpenRow(new)
    BY DEF OpenRow
  <2>2. ended = new
    <3>1. OneOpenRow(rows) /\ ended \in rows /\ new \in rows
      BY <1>3 DEF Permits
    <3> HIDE DEF ended, new, rows
    <3> QED
      BY <1>4, <2>1, <3>1, OpenIsOne
  <2>3. c.from = 1 /\ c.to = 0
    BY <1>1, <2>2 DEF OpenRow
  <2>4. c = new
    BY <1>1, <2>3
  <2>5. rows = configs
    BY <1>1, <1>3, <2>2, <2>4
  <2> QED
    BY <1>4, <2>5 DEF Permits
<1>6. c.from < q.from /\ ended.to >= ended.from /\ ~OpenRow(ended) /\ ended.to + 1 = q.from
  <2>1. ValidPeriod(ended)
    BY <1>3 DEF Permits
  <2> QED
    BY <1>1, <1>5, <2>1 DEF ValidPeriod, OpenRow
<1>7. \A d \in configs \ {c} : ~OpenRow(d) /\ d.to < c.from /\ d \in [from : EffectiveDate, to : 0..LastDate]
  BY <1>1, OpenIsLast DEF RowsInOrder
<1>8. /\ Precedes(ended, new)
      /\ \A d \in configs \ {c} : Precedes(d, ended) /\ Precedes(d, new)
  BY <1>1, <1>6, <1>7 DEF Precedes, OpenRow
<1>9. \A a, b \in rows : a = b \/ Precedes(a, b) \/ Precedes(b, a)
  <2>1. \A a, b \in configs \ {c} : a = b \/ Precedes(a, b) \/ Precedes(b, a)
    BY <1>1 DEF RowsInOrder
  <2> HIDE DEF new, ended, c, rows
  <2> QED
    BY <1>3, <1>8, <2>1
<1>10. \A a \in rows : OpenRow(a) \/ \E b \in rows : b.from = a.to + 1
  <2>1. OpenRow(new) /\ new.from = ended.to + 1
    BY <1>6 DEF OpenRow
  <2>2. ASSUME NEW a \in configs \ {c} PROVE \E b \in rows : b.from = a.to + 1
    <3>1. PICK b \in configs : b.from = a.to + 1
      BY <1>1, <1>7 DEF RowsInOrder
    <3>2. CASE b = c
      <4>1. ended.from = a.to + 1
        BY <3>1, <3>2
      <4> QED
        BY <1>3, <4>1
    <3> QED
      BY <1>3, <3>1, <3>2
  <2> HIDE DEF new, ended, c, rows
  <2> QED
    BY <1>3, <2>1, <2>2
<1>11. \A a \in rows : ValidPeriod(a) /\ a \in [from : EffectiveDate, to : 0..LastDate]
  <2>1. new \in [from : EffectiveDate, to : 0..LastDate]
    BY <1>1
  <2> HIDE DEF new, ended, c
  <2> QED
    BY <1>2, <1>3, <1>7, <2>1 DEF Permits
<1> HIDE DEF new, ended, rows, c
<1>12. RowsInOrder(rows)
  BY <1>4, <1>9, <1>10, <1>11 DEF RowsInOrder
<1> QED
  BY <1>6, <1>12 DEF c, rows

LEMMA CommitStep ==
  ASSUME AccountingInv, NEW r \in ConfigRequest, commitConfiguration(r) PROVE AccountingInv'
<1> USE AccountingAssumption DEF AccountingAssumption, OpenEnded, EffectiveDate
<1> DEFINE q == request[r]
           new == [from |-> q.from, to |-> OpenEnded]
<1>1. request[r].pc = "insert" /\ Permits(request[r]) /\ configs' = RowsAfter(request[r])
      /\ request' = [request EXCEPT ![r] = NoRequest]
  BY DEF commitConfiguration, Step
<1>2. RowsInOrder(RowsAfter(request[r]))
  <2>1. CASE request[r].closes = NoRow
    <3>1. RowsAfter(request[r]) = {new} /\ new \in [from : EffectiveDate, to : 0..LastDate]
      BY <1>1, <2>1, FirstRow DEF AccountingInv, RequestsShaped
    <3>2. IsFiniteSet({new})
      BY FS_Singleton
    <3>3. OpenRow(new)
      BY DEF OpenRow
    <3> QED
      BY <3>1, <3>2, <3>3 DEF RowsInOrder, ValidPeriod
  <2> QED
    BY <1>1, <2>1, RowSucceeded
<1>3. RowsInOrder(configs)'
  BY <1>1, <1>2 DEF RowsInOrder, Precedes, ValidPeriod, OpenRow
<1>4. OpenRows' # {}
  <2>1. new \in configs' /\ OpenRow(new)
    BY <1>1 DEF RowsAfter, OpenRow
  <2> QED
    BY <2>1 DEF OpenRows, OpenRow
<1>5. RequestsShaped' /\ \A s \in ConfigRequest : request'[s] = IF s = r THEN NoRequest ELSE request[s]
  <2>1. NoRequest \in [kind : {"none", "provision", "create"}, pc : {"none", "update", "insert"},
                       from : 0..LastDate, closes : ConfigRow]
    BY DEF NoRequest, ConfigRow, NoRow
  <2> QED
    BY <1>1, <2>1 DEF AccountingInv, RequestsShaped, NoRequest, OpenRow
<1>6. ASSUME NEW s \in ConfigRequest, request'[s].pc = "insert", request'[s].closes # NoRow
      PROVE  /\ request[s].closes \in configs' /\ OpenRow(request[s].closes)
             /\ \A x \in ConfigRequest \ {s} : request'[x].pc = "insert" => request'[x].closes # request[s].closes
  <2>1. s # r /\ request'[s] = request[s] /\ request[s].closes \in configs /\ OpenRow(request[s].closes)
        /\ request[s].pc = "insert"
    BY <1>5, <1>6 DEF AccountingInv, OpenRowHeld, NoRequest
  <2>2. request[r].closes # NoRow
    BY <1>1, <2>1, FirstRow
  <2>3. request[s].closes = request[r].closes
    BY <1>1, <2>1, <2>2, OpenIsLast DEF AccountingInv, OpenRowHeld
  <2>4. FALSE
    BY <1>1, <2>1, <2>2, <2>3 DEF AccountingInv, OpenRowHeld
  <2> QED
    BY <2>4
<1>7. OpenRowHeld'
  BY <1>5, <1>6 DEF OpenRowHeld, OpenRow, NoRequest
<1> QED
  BY <1>3, <1>4, <1>5, <1>7 DEF AccountingInv

LEMMA AccountingStep == AccountingInv /\ [AccountingNext]_accountingVars => AccountingInv'
<1> SUFFICES ASSUME AccountingInv, [AccountingNext]_accountingVars PROVE AccountingInv'
  OBVIOUS
<1>1. CASE UNCHANGED accountingVars
  BY <1>1 DEF AccountingInv, RowsInOrder, Precedes, ValidPeriod, OpenRow, OpenRows, OpenRowHeld,
     RequestsShaped, accountingVars
<1>2. ASSUME NEW r \in ConfigRequest,
             \/ \E from \in EffectiveDate : beginProvision(r, from) \/ beginCreate(r, from)
             \/ lockOpenRow(r) \/ rollbackConfiguration(r)
      PROVE  AccountingInv'
  <2>1. UNCHANGED configs /\ \E q : request' = [request EXCEPT ![r] = q] /\ NextStatement(r, q)
    BY <1>2, StatementMade
  <2> QED
    BY <2>1, RequestSteps
<1>3. CASE \E r \in ConfigRequest : commitConfiguration(r)
  BY <1>3, CommitStep
<1> QED
  BY <1>1, <1>2, <1>3 DEF AccountingNext

(* Rows in order leave no date out: the last row that has begun on a date   *)
(* has not ended, for its successor would have begun too.                   *)
LEMMA DatesCovered == AccountingInv => OneConfiguration
<1> SUFFICES ASSUME AccountingInv, NEW d \in EffectiveDate, \E c \in configs : c.from <= d
             PROVE  Cardinality({c \in configs : Covers(c, d)}) = 1
  BY DEF OneConfiguration
<1> USE AccountingAssumption DEF AccountingAssumption, OpenEnded, EffectiveDate
<1>1. RowsInOrder(configs)
  BY DEF AccountingInv
<1> DEFINE begun == {c \in configs : c.from <= d}
           ages == {d - c.from : c \in begun}
<1>2. ages \in SUBSET Nat /\ ages # {}
  <2>1. \A c \in begun : d - c.from \in Nat
    BY <1>1 DEF RowsInOrder
  <2>2. begun # {}
    OBVIOUS
  <2> HIDE DEF begun
  <2> QED
    BY <2>1, <2>2
<1>3. PICK least \in ages : \A y \in ages : least <= y
  BY <1>2, LeastExists
<1>4. PICK c \in begun : least = d - c.from
  BY <1>3
<1>5. ASSUME NEW x \in begun PROVE x.from <= c.from
  <2>1. d - x.from \in ages
    BY <1>5
  <2>2. d - c.from <= d - x.from
    BY <1>3, <1>4, <2>1
  <2> QED
    BY <1>1, <2>2 DEF RowsInOrder
<1>6. Covers(c, d)
  <2> SUFFICES ASSUME ~OpenRow(c), c.to < d PROVE FALSE
    BY <1>1, <1>4 DEF Covers, RowsInOrder
  <2>1. PICK x \in configs : x.from = c.to + 1
    BY <1>1, <1>4 DEF RowsInOrder
  <2>2. x \in begun /\ x.from > c.from
    BY <1>1, <1>4, <2>1 DEF RowsInOrder, ValidPeriod
  <2> QED
    BY <1>1, <1>4, <1>5, <2>2 DEF RowsInOrder
<1>7. ASSUME NEW x \in configs, Covers(x, d) PROVE x = c
  BY <1>1, <1>4, <1>6, <1>7 DEF RowsInOrder, Precedes, Covers, OpenRow
<1>8. {x \in configs : Covers(x, d)} = {c}
  BY <1>4, <1>6, <1>7
<1> QED
  BY <1>8, FS_Singleton

LEMMA AccountingKept == AccountingInv => AccountingTypeOK /\ OneConfiguration
<1>1. AccountingInv => AccountingTypeOK
  BY DEF AccountingInv, AccountingTypeOK, RequestsShaped, RowsInOrder, ConfigRow, EffectiveDate
<1> QED
  BY <1>1, DatesCovered

(* OneConfiguration: from the first effective date on every date has one    *)
(* configuration, for any number of requests, dates and rows.               *)
THEOREM EveryDateConfigured == AccountingSpec => [](AccountingTypeOK /\ OneConfiguration)
BY AccountingKept, AccountingStart, AccountingStep, PTL DEF AccountingSpec

-----------------------------------------------------------------------------
(* Treasury.                                                                *)
OperationName == {"ADD_SAFEGUARDING", "ADD_COMMISSION_FUNDING", "WITHDRAW_SAFEGUARDING", "WITHDRAW_CHARGE_REVENUE"}
ContraName == {"OWNER_INVESTMENT", "CUSTOMER_FUNDS", "BANK_PREFUNDING"}
FundRow ==
  [status : {"PENDING", "APPROVED", "REJECTED"}, op : OperationName, class : ContraName \cup {"NOT_APPLICABLE"},
   maker : Administrator, checker : Administrator \cup {"none"}, document : Document \cup {"none"}]
DocumentRow == [status : {"none", "UPLOADED", "ATTACHED", "deleted"}, owner : Administrator \cup {"none"}]

TreasuryShape ==
  /\ fund \in [Reference -> FundRow \cup {NoFund}]
  /\ money \in [Account -> Nat] /\ posted \in [Account -> Int]
  /\ document \in [Document -> DocumentRow]
  /\ stored \subseteq Document /\ orphaned \subseteq Document
  /\ desk \in [Administrator -> Reference \cup {"none"}]

(* A document that exists has its object, or broke off; a movement's        *)
(* document is attached, so that nobody removes it.                         *)
DocumentsHeld ==
  /\ \A d \in Document : document[d].status \in {"UPLOADED", "ATTACHED"} => d \in stored \cup orphaned
  /\ \A r \in Reference : fund[r].document # "none" => document[fund[r].document].status = "ATTACHED"

(* A review locks one pending movement of somebody else.                    *)
ReviewsLocked ==
  \A a \in Administrator : desk[a] # "none" =>
    /\ fund[desk[a]].status = "PENDING" /\ fund[desk[a]].maker # a
    /\ \A b \in Administrator : desk[b] = desk[a] => b = a

TreasuryInv == TreasuryShape /\ DocumentsHeld /\ ReviewsLocked /\ TreasuryBooks

LEMMA Operations ==
  /\ DOMAIN Operation = OperationName /\ DOMAIN Contra = ContraName
  /\ \A op \in OperationName : Operation[op].sign \in {-1, 1} /\ Operation[op].account \in Account
  /\ \A class \in ContraName : Contra[class] \in Account
  /\ \A op \in OperationName : Classification(op) \subseteq ContraName \cup {"NOT_APPLICABLE"}
  /\ "NOT_APPLICABLE" \notin ContraName
<1>1. DOMAIN Operation = OperationName /\ DOMAIN Contra = ContraName /\ "NOT_APPLICABLE" \notin ContraName
  BY DEF Operation, Contra, OperationName, ContraName
<1>2. \A op \in OperationName : Operation[op].sign \in {-1, 1} /\ Operation[op].account \in Account
  BY DEF Operation, OperationName, Account
<1>3. \A class \in ContraName : Contra[class] \in Account
  BY DEF Contra, ContraName, Account
<1>4. \A op \in OperationName : Classification(op) \subseteq ContraName \cup {"NOT_APPLICABLE"}
  BY <1>1 DEF Classification
<1> QED
  BY <1>1, <1>2, <1>3, <1>4

LEMMA SumsAgree == ASSUME NEW f, NEW S PROVE SumFunctionOnSet(f, S) = SumOver(f, S)
BY DEF SumFunctionOnSet, SumOver

LEMMA TotalIsSum == ASSUME NEW x PROVE ApprovedTotal(x) = SumOver(Effects(x), ApprovedFunds)
BY SumsAgree DEF ApprovedTotal

LEMMA EffectMoves ==
  ASSUME NEW f \in FundRow, NEW x \in Account
  PROVE  Effect(f, x) = IF x \in Reached(f) THEN Operation[f.op].sign ELSE 0
<1>1. f.op \in OperationName /\ Operation[f.op].sign \in {-1, 1}
  BY Operations DEF FundRow
<1>2. CASE Operation[f.op].account = x
  BY <1>1, <1>2 DEF Effect, Reached
<1>3. CASE Operation[f.op].account # x
  BY <1>1, <1>3 DEF Effect, Reached
<1> QED
  BY <1>2, <1>3

LEMMA EffectsSummable ==
  ASSUME TreasuryInv, NEW x \in Account
  PROVE  Summable(Effects(x), ApprovedFunds) /\ IsFiniteSet(ApprovedFunds)
<1>1. \A r \in ApprovedFunds : fund[r] \in FundRow
  BY DEF TreasuryInv, TreasuryShape, ApprovedFunds, NoFund
<1>2. \A f \in FundRow : Effect(f, x) \in Int
  BY EffectMoves, Operations DEF FundRow
<1>3. IsFiniteSet(ApprovedFunds)
  BY FS_Subset, TreasuryAssumption DEF ApprovedFunds, TreasuryAssumption
<1> QED
  BY <1>1, <1>2, <1>3 DEF Effects, Summable

(* A step that leaves the approved movements alone.                         *)
LEMMA TotalKept ==
  ASSUME ApprovedFunds' = ApprovedFunds, \A r \in ApprovedFunds : fund'[r] = fund[r], NEW x
  PROVE  ApprovedTotal(x)' = ApprovedTotal(x)
<1>1. Effects(x)' = Effects(x)
  <2>1. \A r \in ApprovedFunds : Effect(fund'[r], x) = Effect(fund[r], x)
    OBVIOUS
  <2> HIDE DEF Effect
  <2> QED
    BY <2>1 DEF Effects
<1> QED
  BY <1>1 DEF ApprovedTotal

(* An approval.                                                             *)
LEMMA TotalRaised ==
  ASSUME TreasuryInv, NEW r \in Reference, r \notin ApprovedFunds, NEW f \in FundRow, f.status = "APPROVED",
         fund' = [fund EXCEPT ![r] = f], NEW x \in Account
  PROVE  ApprovedTotal(x)' = ApprovedTotal(x) + Effect(f, x)
<1> DEFINE before == ApprovedFunds
           e == Effects(x)
           all == before \cup {r}
           after == [s \in all |-> IF s = r THEN Effect(f, x) ELSE Effect(fund[s], x)]
<1>1. fund \in [Reference -> FundRow \cup {NoFund}]
  BY DEF TreasuryInv, TreasuryShape
<1>2. \A s \in Reference : fund'[s] = IF s = r THEN f ELSE fund[s]
  BY <1>1
<1>3. ApprovedFunds' = all
  BY <1>2 DEF ApprovedFunds
<1>4. Effects(x)' = after
  <2>1. \A s \in all : s \in Reference
    BY DEF ApprovedFunds
  <2> HIDE DEF all
  <2>2. \A s \in all : Effect(fund'[s], x) = IF s = r THEN Effect(f, x) ELSE Effect(fund[s], x)
    BY <1>2, <2>1
  <2> QED
    BY <1>3, <2>2 DEF Effects
<1>5. IsFiniteSet(before) /\ Summable(e, before) /\ Effect(f, x) \in Int
  BY EffectsSummable, EffectMoves, Operations DEF FundRow
<1>6. SumOver(after, all) = SumOver(after, before) + Effect(f, x)
  <2>1. Summable(after, before) /\ r \notin before /\ after[r] = Effect(f, x)
    BY <1>5 DEF Summable, Effects
  <2> HIDE DEF after, before
  <2> QED
    BY <1>5, <2>1, SumWith
<1>7. SumOver(after, before) = SumOver(e, before)
  <2>1. \A s \in before : after[s] = e[s]
    BY DEF Effects
  <2> HIDE DEF after, before, e
  <2> QED
    BY <1>5, <2>1, SumAlike
<1>8. ApprovedTotal(x)' = SumOver(after, all)
  <2>1. ApprovedTotal(x)' = SumOver(Effects(x)', ApprovedFunds')
    BY SumsAgree DEF ApprovedTotal
  <2> QED
    BY <1>3, <1>4, <2>1
<1> HIDE DEF after, before, e, all
<1> QED
  BY <1>6, <1>7, <1>8, TotalIsSum DEF before, e

LEMMA TreasuryStart == TreasuryInit => TreasuryInv
<1> SUFFICES ASSUME TreasuryInit PROVE TreasuryInv
  OBVIOUS
<1> USE TreasuryAssumption DEF TreasuryAssumption
<1>1. TreasuryShape
  BY DEF TreasuryInit, TreasuryShape, DocumentRow
<1>2. \A r \in Reference : fund[r] = NoFund /\ fund[r].status = "none" /\ fund[r].checker = "none" /\ fund[r].document = "none"
  BY DEF TreasuryInit, NoFund
<1>3. ApprovedFunds = {}
  BY <1>2 DEF ApprovedFunds
<1>4. \A x \in Account : ApprovedTotal(x) = 0
  BY <1>3, TotalIsSum, SumEmpty
<1>5. TreasuryBooks
  BY <1>2, <1>4 DEF TreasuryInit, TreasuryBooks
<1>6. DocumentsHeld /\ ReviewsLocked
  BY <1>2 DEF TreasuryInit, DocumentsHeld, ReviewsLocked
<1> QED
  BY <1>1, <1>5, <1>6 DEF TreasuryInv

-----------------------------------------------------------------------------
(* The steps: what each of them leaves alone, and what it disturbs.         *)
LEMMA BooksKept ==
  ASSUME TreasuryInv, UNCHANGED <<fund, money, posted>>
  PROVE  TreasuryBooks'
<1>1. \A x \in Account : ApprovedTotal(x)' = ApprovedTotal(x)
  BY TotalKept DEF ApprovedFunds
<1> QED
  BY <1>1 DEF TreasuryInv, TreasuryBooks

LEMMA ReviewsKept ==
  ASSUME TreasuryInv, UNCHANGED <<fund, desk>>
  PROVE  ReviewsLocked'
BY DEF TreasuryInv, ReviewsLocked

LEMMA UploadStep ==
  ASSUME TreasuryInv, NEW a \in Administrator, NEW d \in Document, Upload(a, d)
  PROVE  TreasuryInv'
<1>1. TreasuryBooks' /\ ReviewsLocked'
  BY BooksKept, ReviewsKept DEF Upload
<1>2. TreasuryShape'
  <2>1. [status |-> "UPLOADED", owner |-> a] \in DocumentRow
    BY DEF DocumentRow
  <2> QED
    BY <2>1 DEF TreasuryInv, TreasuryShape, Upload
<1>3. DocumentsHeld'
  BY DEF TreasuryInv, TreasuryShape, DocumentsHeld, Upload
<1> QED
  BY <1>1, <1>2, <1>3 DEF TreasuryInv

LEMMA RemoveStep ==
  ASSUME TreasuryInv, NEW a \in Administrator, NEW d \in Document, RemoveUnattached(a, d)
  PROVE  TreasuryInv'
<1>1. TreasuryBooks' /\ ReviewsLocked'
  BY BooksKept, ReviewsKept DEF RemoveUnattached
<1>2. TreasuryShape'
  <2>1. [status |-> "deleted", owner |-> "none"] \in DocumentRow
    BY DEF DocumentRow
  <2> QED
    BY <2>1 DEF TreasuryInv, TreasuryShape, RemoveUnattached
<1>3. DocumentsHeld'
  <2>1. document[d].status = "UPLOADED" /\ fund' = fund /\ stored' = stored \ {d}
    BY DEF RemoveUnattached, Removable
  <2>2. CASE orphaned' = orphaned \cup {d} /\ document' = document
    BY <2>1, <2>2 DEF TreasuryInv, DocumentsHeld
  <2>3. CASE orphaned' = orphaned /\ document' = [document EXCEPT ![d] = [status |-> "deleted", owner |-> "none"]]
    <3>1. \A e \in Document : e # d => document'[e] = document[e]
      BY <2>3 DEF TreasuryInv, TreasuryShape
    <3>2. document'[d].status = "deleted"
      BY <2>3 DEF TreasuryInv, TreasuryShape
    <3>3. \A s \in Reference : fund[s].document # "none" => fund[s].document \in Document /\ fund[s].document # d
      BY <2>1 DEF TreasuryInv, TreasuryShape, DocumentsHeld, FundRow, NoFund
    <3> QED
      BY <2>1, <2>3, <3>1, <3>2, <3>3 DEF TreasuryInv, DocumentsHeld
  <2> QED
    BY <2>2, <2>3 DEF RemoveUnattached
<1> QED
  BY <1>1, <1>2, <1>3 DEF TreasuryInv

LEMMA FundCreated ==
  ASSUME TreasuryInv, NEW a \in Administrator, NEW r \in Reference, CreateFunding(a, r)
  PROVE  TreasuryInv'
<1> USE TreasuryAssumption DEF TreasuryAssumption
<1>a. PICK op \in DOMAIN Operation : \E class \in Classification(op), d \in {x \in Document : Removable(a, x)} \cup {"none"} :
      /\ fund' = [fund EXCEPT ![r] = [status |-> "PENDING", op |-> op, class |-> class, maker |-> a,
                                      checker |-> "none", document |-> d]]
      /\ document' = IF d = "none" THEN document ELSE [document EXCEPT ![d].status = "ATTACHED"]
  BY DEF CreateFunding
<1>b. PICK class \in Classification(op), d \in {x \in Document : Removable(a, x)} \cup {"none"} :
      /\ fund' = [fund EXCEPT ![r] = [status |-> "PENDING", op |-> op, class |-> class, maker |-> a,
                                      checker |-> "none", document |-> d]]
      /\ document' = IF d = "none" THEN document ELSE [document EXCEPT ![d].status = "ATTACHED"]
  BY <1>a
<1> DEFINE f == [status |-> "PENDING", op |-> op, class |-> class, maker |-> a, checker |-> "none", document |-> d]
<1>1. f \in FundRow /\ f.status = "PENDING" /\ f.checker = "none" /\ f.document = d
  BY Operations DEF FundRow
<1>2. fund' = [fund EXCEPT ![r] = f]
  BY <1>b
<1> HIDE DEF f
<1>3. fund[r] = NoFund /\ fund[r].status = "none" /\ UNCHANGED <<money, posted, stored, orphaned, desk>>
  BY DEF CreateFunding, NoFund
<1>4. \A s \in Reference : fund'[s] = IF s = r THEN f ELSE fund[s]
  BY <1>2 DEF TreasuryInv, TreasuryShape
<1>5. TreasuryBooks'
  <2>1. ApprovedFunds' = ApprovedFunds /\ \A s \in ApprovedFunds : fund'[s] = fund[s]
    BY <1>1, <1>3, <1>4 DEF ApprovedFunds
  <2>2. \A x \in Account : ApprovedTotal(x)' = ApprovedTotal(x)
    BY <2>1, TotalKept
  <2> QED
    BY <1>1, <1>3, <1>4, <2>2 DEF TreasuryInv, TreasuryBooks
<1>6. ReviewsLocked'
  BY <1>3, <1>4 DEF TreasuryInv, TreasuryShape, ReviewsLocked
<1>7. \A e \in Document : document'[e] = IF e = d THEN [document[e] EXCEPT !.status = "ATTACHED"] ELSE document[e]
  BY <1>b DEF TreasuryInv, TreasuryShape
<1>8. \A e \in Document : document'[e] \in DocumentRow /\ document'[e].status = IF e = d THEN "ATTACHED" ELSE document[e].status
  <2>1. ASSUME NEW row \in DocumentRow
        PROVE  [row EXCEPT !.status = "ATTACHED"] \in DocumentRow /\ [row EXCEPT !.status = "ATTACHED"].status = "ATTACHED"
    BY DEF DocumentRow
  <2>2. \A e \in Document : document[e] \in DocumentRow
    BY DEF TreasuryInv, TreasuryShape
  <2> QED
    BY <1>7, <2>1, <2>2
<1>9. TreasuryShape'
  <2>1. document' \in [Document -> DocumentRow]
    <3>1. document' = [e \in Document |-> document'[e]]
      BY <1>b DEF TreasuryInv, TreasuryShape
    <3> QED
      BY <1>8, <3>1
  <2>2. fund' \in [Reference -> FundRow \cup {NoFund}]
    BY <1>1, <1>2 DEF TreasuryInv, TreasuryShape
  <2> QED
    BY <1>3, <2>1, <2>2 DEF TreasuryInv, TreasuryShape
<1>10. DocumentsHeld'
  <2>1. d # "none" => d \in Document /\ document[d].status = "UPLOADED"
    BY DEF Removable
  <2>2. \A e \in Document : document'[e].status \in {"UPLOADED", "ATTACHED"} => document[e].status \in {"UPLOADED", "ATTACHED"}
    BY <1>8, <2>1
  <2>3. \A s \in Reference : fund[s].document # "none" => fund[s].document \in Document
    BY DEF TreasuryInv, TreasuryShape, FundRow, NoFund
  <2>4. \A s \in Reference : fund'[s].document # "none" => document'[fund'[s].document].status = "ATTACHED"
    BY <1>1, <1>4, <1>8, <2>1, <2>3 DEF TreasuryInv, DocumentsHeld
  <2> QED
    BY <1>3, <2>2, <2>4 DEF TreasuryInv, DocumentsHeld
<1> QED
  BY <1>5, <1>6, <1>9, <1>10 DEF TreasuryInv

LEMMA ReviewStep ==
  ASSUME TreasuryInv, NEW a \in Administrator, NEW r \in Reference, BeginReview(a, r)
  PROVE  TreasuryInv'
<1>1. TreasuryBooks'
  BY BooksKept DEF BeginReview
<1>2. TreasuryShape' /\ DocumentsHeld'
  BY DEF TreasuryInv, TreasuryShape, DocumentsHeld, BeginReview
<1>3. ReviewsLocked'
  BY DEF TreasuryInv, TreasuryShape, ReviewsLocked, BeginReview, RowFree
<1> QED
  BY <1>1, <1>2, <1>3 DEF TreasuryInv

LEMMA RollBackStep ==
  ASSUME TreasuryInv, NEW a \in Administrator, RollBack(a)
  PROVE  TreasuryInv'
<1>1. TreasuryBooks'
  BY BooksKept DEF RollBack
<1>2. TreasuryShape' /\ DocumentsHeld'
  BY DEF TreasuryInv, TreasuryShape, DocumentsHeld, RollBack
<1>3. ReviewsLocked'
  BY DEF TreasuryInv, TreasuryShape, ReviewsLocked, RollBack
<1> QED
  BY <1>1, <1>2, <1>3 DEF TreasuryInv

(* A decision: the row it leaves, and what every other row and desk keep.   *)
LEMMA FundDecided ==
  ASSUME TreasuryInv, NEW a \in Administrator, NEW status \in {"APPROVED", "REJECTED"}, desk[a] # "none", Decide(a, status),
         UNCHANGED <<document, stored, orphaned>>
  PROVE  \E r \in Reference, f \in FundRow :
           /\ r = desk[a] /\ fund[r] \in FundRow /\ fund[r].status = "PENDING" /\ fund' = [fund EXCEPT ![r] = f]
           /\ f.status = status /\ f.op = fund[r].op /\ f.class = fund[r].class
           /\ \A s \in Reference : fund'[s].checker # "none" => fund'[s].checker # fund'[s].maker
           /\ fund' \in [Reference -> FundRow \cup {NoFund}] /\ desk' \in [Administrator -> Reference \cup {"none"}]
           /\ DocumentsHeld' /\ ReviewsLocked'
<1> DEFINE r == desk[a]
           f == [fund[r] EXCEPT !.status = status, !.checker = a]
<1>1. /\ fund \in [Reference -> FundRow \cup {NoFund}] /\ desk \in [Administrator -> Reference \cup {"none"}]
  BY DEF TreasuryInv, TreasuryShape
<1>2. r \in Reference /\ fund[r].status = "PENDING" /\ fund[r].maker # a
  BY <1>1 DEF TreasuryInv, ReviewsLocked
<1>3. fund[r] \in FundRow
  BY <1>1, <1>2 DEF NoFund
<1>4. /\ f \in FundRow /\ f.status = status /\ f.op = fund[r].op /\ f.class = fund[r].class
      /\ f.checker = a /\ f.maker = fund[r].maker /\ f.document = fund[r].document
  BY <1>3 DEF FundRow
<1>5. fund' = [fund EXCEPT ![r] = f] /\ desk' = [desk EXCEPT ![a] = "none"]
  BY <1>1, <1>2 DEF Decide
<1> HIDE DEF f
<1>6. fund' \in [Reference -> FundRow \cup {NoFund}] /\ desk' \in [Administrator -> Reference \cup {"none"}]
  BY <1>1, <1>2, <1>4, <1>5
<1>7. /\ \A s \in Reference : fund'[s] = IF s = r THEN f ELSE fund[s]
      /\ \A b \in Administrator : desk'[b] = IF b = a THEN "none" ELSE desk[b]
  BY <1>1, <1>2, <1>5
<1>8. \A s \in Reference : fund'[s].checker # "none" => fund'[s].checker # fund'[s].maker
  BY <1>2, <1>4, <1>7 DEF TreasuryInv, TreasuryBooks
<1>9. DocumentsHeld'
  <2>1. \A s \in Reference : fund'[s].document = fund[s].document
    BY <1>4, <1>7
  <2> QED
    BY <2>1 DEF TreasuryInv, DocumentsHeld
<1>10. ReviewsLocked'
  <2>1. \A b \in Administrator : desk'[b] # "none" => b # a /\ desk'[b] = desk[b] /\ desk[b] # r /\ desk[b] \in Reference
    BY <1>1, <1>2, <1>7 DEF TreasuryInv, ReviewsLocked
  <2>2. \A b \in Administrator : desk'[b] # "none" => fund'[desk'[b]] = fund[desk[b]]
    BY <1>7, <2>1
  <2> HIDE DEF r
  <2> QED
    BY <1>7, <2>1, <2>2 DEF TreasuryInv, ReviewsLocked
<1> HIDE DEF r
<1>11. r = desk[a]
  BY DEF r
<1> QED
  BY <1>2, <1>3, <1>4, <1>5, <1>6, <1>8, <1>9, <1>10, <1>11

LEMMA RejectStep ==
  ASSUME TreasuryInv, NEW a \in Administrator, Reject(a)
  PROVE  TreasuryInv'
<1>1. PICK r \in Reference, f \in FundRow :
           /\ r = desk[a] /\ fund[r] \in FundRow /\ fund[r].status = "PENDING" /\ fund' = [fund EXCEPT ![r] = f]
           /\ f.status = "REJECTED" /\ f.op = fund[r].op /\ f.class = fund[r].class
           /\ \A s \in Reference : fund'[s].checker # "none" => fund'[s].checker # fund'[s].maker
           /\ fund' \in [Reference -> FundRow \cup {NoFund}] /\ desk' \in [Administrator -> Reference \cup {"none"}]
           /\ DocumentsHeld' /\ ReviewsLocked'
  BY FundDecided DEF Reject
<1>2. TreasuryShape'
  BY <1>1 DEF TreasuryInv, TreasuryShape, Reject
<1>3. ApprovedFunds' = ApprovedFunds /\ \A s \in ApprovedFunds : fund'[s] = fund[s]
  BY <1>1 DEF ApprovedFunds, TreasuryInv, TreasuryShape
<1>4. \A x \in Account : ApprovedTotal(x)' = ApprovedTotal(x)
  BY <1>3, TotalKept
<1>5. TreasuryBooks'
  BY <1>1, <1>4 DEF TreasuryInv, TreasuryBooks, Reject
<1> QED
  BY <1>1, <1>2, <1>5 DEF TreasuryInv

LEMMA ApproveStep ==
  ASSUME TreasuryInv, NEW a \in Administrator, Approve(a)
  PROVE  TreasuryInv'
<1>1. PICK r \in Reference, f \in FundRow :
           /\ r = desk[a] /\ fund[r] \in FundRow /\ fund[r].status = "PENDING" /\ fund' = [fund EXCEPT ![r] = f]
           /\ f.status = "APPROVED" /\ f.op = fund[r].op /\ f.class = fund[r].class
           /\ \A s \in Reference : fund'[s].checker # "none" => fund'[s].checker # fund'[s].maker
           /\ fund' \in [Reference -> FundRow \cup {NoFund}] /\ desk' \in [Administrator -> Reference \cup {"none"}]
           /\ DocumentsHeld' /\ ReviewsLocked'
  BY FundDecided DEF Approve
<1>2. Operation[f.op].sign \in {-1, 1} /\ Reached(f) = Reached(fund[r])
  BY <1>1, Operations DEF FundRow, Reached
<1>3. \A x \in Account : money[x] \in Nat /\ posted[x] \in Int
  BY DEF TreasuryInv, TreasuryShape
<1>4. \A x \in Account : money'[x] = money[x] + Effect(f, x) /\ money'[x] >= 0
  <2>1. \A x \in Account : money'[x] = Moved(fund[r])[x] /\ money'[x] >= 0
    BY <1>1 DEF Approve, Sufficient
  <2>2. \A x \in Account : Moved(fund[r])[x] = IF x \in Reached(f) THEN money[x] + Operation[f.op].sign ELSE money[x]
    BY <1>1, <1>2 DEF Moved
  <2>3. \A x \in Account : Effect(f, x) = IF x \in Reached(f) THEN Operation[f.op].sign ELSE 0
    BY EffectMoves
  <2> QED
    BY <1>2, <1>3, <2>1, <2>2, <2>3
<1>5. money' \in [Account -> Nat]
  <2>1. \A x \in Account : Effect(f, x) \in Int
    BY <1>2, EffectMoves
  <2>2. \A x \in Account : money'[x] \in Nat
    BY <1>3, <1>4, <2>1
  <2>3. money' = [x \in Account |-> Moved(fund[r])[x]]
    BY <1>1 DEF Approve, Moved
  <2> QED
    BY <2>2, <2>3
<1>6. TreasuryShape'
  BY <1>1, <1>5 DEF TreasuryInv, TreasuryShape, Approve
<1>7. \A x \in Account : ApprovedTotal(x)' = ApprovedTotal(x) + Effect(f, x)
  BY <1>1, TotalRaised DEF ApprovedFunds
<1>8. \A x \in Account : ApprovedTotal(x) \in Int /\ Effect(f, x) \in Int
  <2>1. \A x \in Account : ApprovedTotal(x) \in Int
    BY EffectsSummable, TotalIsSum, SumIsInt
  <2> QED
    BY <1>2, <2>1, EffectMoves
<1>9. TreasuryBooks'
  <2>1. \A x \in Account : money[x] = Opening + posted[x] + ApprovedTotal(x) /\ posted'[x] = posted[x]
    BY DEF TreasuryInv, TreasuryBooks, Approve
  <2>2. \A x \in Account : money'[x] = Opening + posted'[x] + ApprovedTotal(x)'
    BY <1>3, <1>4, <1>7, <1>8, <2>1, TreasuryAssumption DEF TreasuryAssumption
  <2> QED
    BY <1>1, <2>2 DEF TreasuryBooks
<1> QED
  BY <1>1, <1>6, <1>9 DEF TreasuryInv

LEMMA PostingStep ==
  ASSUME TreasuryInv, NEW x \in Account, NEW n \in {-1, 1}, PostingMoves(x, n)
  PROVE  TreasuryInv'
<1>1. \A y \in Account : money[y] \in Nat /\ posted[y] \in Int
  BY DEF TreasuryInv, TreasuryShape
<1>2. \A y \in Account : /\ money'[y] = IF y = x THEN money[y] + n ELSE money[y]
                         /\ posted'[y] = IF y = x THEN posted[y] + n ELSE posted[y]
  BY DEF TreasuryInv, TreasuryShape, PostingMoves
<1>3. TreasuryShape'
  BY <1>1 DEF TreasuryInv, TreasuryShape, PostingMoves
<1>4. DocumentsHeld' /\ ReviewsLocked'
  BY DEF TreasuryInv, DocumentsHeld, ReviewsLocked, PostingMoves
<1>5. \A y \in Account : ApprovedTotal(y)' = ApprovedTotal(y) /\ ApprovedTotal(y) \in Int
  BY TotalKept, EffectsSummable, TotalIsSum, SumIsInt DEF ApprovedFunds, PostingMoves
<1>6. TreasuryBooks'
  <2>1. \A y \in Account : money'[y] = Opening + posted'[y] + ApprovedTotal(y)'
    BY <1>1, <1>2, <1>5, TreasuryAssumption DEF TreasuryAssumption, TreasuryInv, TreasuryBooks
  <2> QED
    BY <2>1 DEF TreasuryInv, TreasuryBooks, PostingMoves
<1> QED
  BY <1>3, <1>4, <1>6 DEF TreasuryInv

LEMMA TreasuryStep ==
  TreasuryInv /\ [TreasuryNext]_treasuryVars => TreasuryInv'
<1> SUFFICES ASSUME TreasuryInv, [TreasuryNext]_treasuryVars PROVE TreasuryInv'
  OBVIOUS
<1>1. CASE UNCHANGED treasuryVars
  <2>1. TreasuryBooks'
    BY <1>1, BooksKept DEF treasuryVars
  <2> QED
    BY <1>1, <2>1 DEF treasuryVars, TreasuryInv, TreasuryShape, DocumentsHeld, ReviewsLocked
<1>2. CASE TreasuryNext
  <2>1. "commission" \in Account /\ "charge" \in Account
    BY DEF Account
  <2> QED
    BY <1>2, <2>1, UploadStep, RemoveStep, FundCreated, ReviewStep, RollBackStep, RejectStep, ApproveStep, PostingStep
       DEF TreasuryNext
<1> QED
  BY <1>1, <1>2

LEMMA TreasuryKept == TreasuryInv => TreasuryTypeOK /\ TreasuryBooks /\ EvidenceKept
<1> SUFFICES ASSUME TreasuryInv PROVE TreasuryTypeOK /\ TreasuryBooks /\ EvidenceKept
  OBVIOUS
<1>1. \A r \in Reference : fund[r] \in FundRow \cup {NoFund}
  BY DEF TreasuryInv, TreasuryShape
<1>2. \A r \in Reference :
       /\ fund[r].status \in {"none", "PENDING", "APPROVED", "REJECTED"}
       /\ {fund[r].maker, fund[r].checker} \subseteq Administrator \cup {"none"}
       /\ fund[r].document \in Document \cup {"none"}
  BY <1>1 DEF FundRow, NoFund
<1>3. TreasuryTypeOK
  BY <1>2 DEF TreasuryInv, TreasuryShape, TreasuryTypeOK
<1>4. EvidenceKept
  BY <1>2 DEF TreasuryInv, DocumentsHeld, EvidenceKept
<1> QED
  BY <1>3, <1>4 DEF TreasuryInv

-----------------------------------------------------------------------------
(* The second factor: a code passes one login and a recovery PIN opens one  *)
(* enrollment.  That needs more than the two histories: a secret is drawn   *)
(* for one challenge, is in use by at most one authenticator, and before it *)
(* is in use nothing has been spent of it; the codes spent of one in use    *)
(* are not later than its last slot; and a challenge that was answered is   *)
(* consumed.                                                                *)
AuthenticatorRow ==
  [enabled : BOOLEAN, secret : 0..MaxSecrets, last : 0..(LastSlot + 1), pinUsed : BOOLEAN,
   failed : Nat, locked : BOOLEAN]

ChallengeRow ==
  [user : MfaAdmin \cup {"noone"}, pending : 0..MaxSecrets, attempts : 0..AttemptLimit,
   consumed : BOOLEAN, purpose : {"NONE", "LOGIN", "ENROLLMENT", "RECOVERY_ENROLLMENT", "EXPIRED"}]

Belongs == \A c \in MfaChallenge : challenges[c].purpose # "NONE" => challenges[c].user \in MfaAdmin

(* The numbers of secrets that are not drawn yet are nowhere.               *)
Drawn ==
  /\ \A a \in MfaAdmin : authenticator[a].secret <= secretsDrawn
  /\ \A a \in MfaAdmin : authenticator[a].enabled => authenticator[a].secret # 0
  /\ \A c \in MfaChallenge : challenges[c].pending <= secretsDrawn
  /\ \A x \in spentCodes : x.secret <= secretsDrawn
  /\ \A x \in spentPins : x.pin <= secretsDrawn

Waiting(c) == challenges[c].pending # 0 /\ ~challenges[c].consumed

(* A secret waits in one challenge, and while it waits nothing knows it.    *)
WaitingUnused ==
  \A c \in MfaChallenge : Waiting(c) =>
    /\ \A d \in MfaChallenge \ {c} : challenges[d].pending # challenges[c].pending
    /\ \A a \in MfaAdmin : authenticator[a].secret # challenges[c].pending
    /\ \A x \in spentCodes : x.secret # challenges[c].pending
    /\ \A x \in spentPins : x.pin # challenges[c].pending

OwnSecret ==
  \A a, b \in MfaAdmin : authenticator[a].secret = authenticator[b].secret /\ a # b =>
    authenticator[a].secret = 0

SpentOfCurrent ==
  \A a \in MfaAdmin :
    /\ \A x \in spentCodes : x.secret = authenticator[a].secret => x.slot <= authenticator[a].last
    /\ \A x \in spentPins : x.pin = authenticator[a].secret => authenticator[a].pinUsed

AnsweredConsumed == \A x \in spentCodes : challenges[x.challenge].consumed

MfaInv ==
  /\ MfaTypeOK /\ Belongs /\ Drawn /\ WaitingUnused /\ OwnSecret
  /\ SpentOfCurrent /\ AnsweredConsumed /\ SecondFactorOnce

USE MfaAssumption DEF MfaAssumption

LEMMA MfaTypes ==
  MfaTypeOK <=>
    /\ authenticator \in [MfaAdmin -> AuthenticatorRow]
    /\ challenges \in [MfaChallenge -> ChallengeRow]
    /\ otpSlot \in 1..LastSlot /\ secretsDrawn \in 0..MaxSecrets
    /\ spentCodes \subseteq [secret : 1..MaxSecrets, slot : 1..(LastSlot + 1), challenge : MfaChallenge]
    /\ spentPins \subseteq [pin : 1..MaxSecrets, challenge : MfaChallenge]
BY DEF MfaTypeOK, AuthenticatorRow, ChallengeRow

(* Rows that change in some fields are still rows.                          *)
LEMMA Renamed ==
  ASSUME NEW row \in ChallengeRow, NEW n \in 0..MaxSecrets,
         NEW p \in {"ENROLLMENT", "RECOVERY_ENROLLMENT"}
  PROVE  [row EXCEPT !.pending = n, !.purpose = p] \in ChallengeRow
BY DEF ChallengeRow

LEMMA Recovered ==
  ASSUME NEW row \in ChallengeRow, NEW n \in 0..AttemptLimit
  PROVE  [row EXCEPT !.purpose = "RECOVERY_ENROLLMENT", !.attempts = n] \in ChallengeRow
BY DEF ChallengeRow

LEMMA Enabled ==
  ASSUME NEW row \in AuthenticatorRow, NEW s \in 0..(LastSlot + 1), NEW secret \in 0..MaxSecrets
  PROVE  [row EXCEPT !.enabled = TRUE, !.secret = secret, !.last = s] \in AuthenticatorRow
BY DEF AuthenticatorRow

LEMMA MfaStart == MfaInit => MfaInv
<1> SUFFICES ASSUME MfaInit PROVE MfaInv
  OBVIOUS
<1>1. NoAuthenticator \in AuthenticatorRow /\ NoMfaChallenge \in ChallengeRow
  BY DEF NoAuthenticator, NoMfaChallenge, AuthenticatorRow, ChallengeRow
<1>2. MfaTypeOK
  BY <1>1, MfaTypes DEF MfaInit
<1> QED
  BY <1>2 DEF MfaInit, MfaInv, NoAuthenticator, NoMfaChallenge, Belongs, Drawn, WaitingUnused, Waiting,
     OwnSecret, SpentOfCurrent, AnsweredConsumed, SecondFactorOnce

(* Counters, locks and purposes: what the invariant relates stays as it is. *)
LEMMA CountersMove ==
  ASSUME MfaInv,
         authenticator' \in [MfaAdmin -> AuthenticatorRow], challenges' \in [MfaChallenge -> ChallengeRow],
         \A a \in MfaAdmin :
           /\ authenticator'[a].secret = authenticator[a].secret
           /\ authenticator'[a].last = authenticator[a].last
           /\ authenticator'[a].pinUsed = authenticator[a].pinUsed
           /\ authenticator'[a].enabled = authenticator[a].enabled,
         \A c \in MfaChallenge :
           /\ challenges'[c].pending = challenges[c].pending
           /\ challenges'[c].consumed = challenges[c].consumed
           /\ challenges'[c].purpose # "NONE" => challenges'[c].user \in MfaAdmin,
         otpSlot' \in 1..LastSlot, UNCHANGED <<secretsDrawn, spentCodes, spentPins>>
  PROVE  MfaInv'
<1>1. MfaTypeOK'
  BY DEF MfaInv, MfaTypeOK, AuthenticatorRow, ChallengeRow
<1>2. Belongs' /\ Drawn' /\ WaitingUnused' /\ OwnSecret' /\ SpentOfCurrent' /\ SecondFactorOnce'
  BY DEF MfaInv, Belongs, Drawn, WaitingUnused, Waiting, OwnSecret, SpentOfCurrent, SecondFactorOnce
<1>3. AnsweredConsumed'
  BY MfaTypes DEF MfaInv, AnsweredConsumed
<1> QED BY <1>1, <1>2, <1>3 DEF MfaInv

LEMMA BeginStep ==
  ASSUME MfaInv, NEW a \in MfaAdmin, NEW c \in MfaChallenge, beginLogin(a, c) PROVE MfaInv'
<1>0. NoMfaChallenge \in ChallengeRow
  BY DEF NoMfaChallenge, ChallengeRow
<1>1. [NoMfaChallenge EXCEPT !.user = a, !.purpose = "LOGIN"] \in ChallengeRow
  BY <1>0 DEF ChallengeRow
<1> QED BY <1>1, MfaTypes, CountersMove DEF beginLogin, MfaInv, Belongs, NoMfaChallenge

LEMMA TimeSteps ==
  ASSUME MfaInv,
         \/ SlotPasses
         \/ \E a \in MfaAdmin : LockEnds(a)
         \/ \E c \in MfaChallenge : ChallengeExpires(c)
  PROVE  MfaInv'
<1>1. CASE SlotPasses
  BY <1>1, MfaTypes, CountersMove DEF SlotPasses, MfaInv, Belongs
<1>2. ASSUME NEW a \in MfaAdmin, LockEnds(a) PROVE MfaInv'
  BY <1>2, MfaTypes, CountersMove DEF LockEnds, MfaInv, Belongs, AuthenticatorRow
<1>3. ASSUME NEW c \in MfaChallenge, ChallengeExpires(c) PROVE MfaInv'
  BY <1>3, MfaTypes, CountersMove DEF ChallengeExpires, MfaInv, Belongs, ChallengeRow
<1> QED BY <1>1, <1>2, <1>3

(* The answers that fail.                                                   *)
LEMMA WrongAnswer ==
  ASSUME MfaInv, NEW c \in MfaChallenge, NEW purposes, Open(c, purposes), FailChallenge(c)
  PROVE  /\ challenges' \in [MfaChallenge -> ChallengeRow]
         /\ \A d \in MfaChallenge :
              /\ challenges'[d].pending = challenges[d].pending
              /\ challenges'[d].consumed = challenges[d].consumed
              /\ challenges'[d].purpose # "NONE" => challenges'[d].user \in MfaAdmin
BY MfaTypes DEF Open, FailChallenge, MfaInv, Belongs, ChallengeRow

(* A new secret is one nothing knows.                                       *)
LEMMA StartStep ==
  ASSUME MfaInv, NEW c \in MfaChallenge, startEnrollment(c) PROVE MfaInv'
<1> DEFINE n == secretsDrawn + 1
<1>1. /\ challenges \in [MfaChallenge -> ChallengeRow] /\ secretsDrawn \in 0..MaxSecrets
      /\ n \in 1..MaxSecrets /\ secretsDrawn' = n /\ ~challenges[c].consumed
      /\ challenges[c].purpose \in {"LOGIN", "RECOVERY_ENROLLMENT"}
      /\ UNCHANGED <<authenticator, otpSlot, spentCodes, spentPins>>
  BY MfaTypes DEF startEnrollment, Open, MfaInv
<1>2. /\ challenges' \in [MfaChallenge -> ChallengeRow]
      /\ \A d \in MfaChallenge : /\ challenges'[d].pending = IF d = c THEN n ELSE challenges[d].pending
                                 /\ challenges'[d].consumed = challenges[d].consumed
                                 /\ challenges'[d].user = challenges[d].user
                                 /\ challenges'[d].purpose # "NONE" => challenges[d].purpose # "NONE"
  <2> DEFINE purpose == IF challenges[c].purpose = "LOGIN" THEN "ENROLLMENT" ELSE challenges[c].purpose
             row == [challenges[c] EXCEPT !.pending = n, !.purpose = purpose]
  <2>1. challenges' = [challenges EXCEPT ![c] = row]
    BY <1>1 DEF startEnrollment, ChallengeRow
  <2>0. challenges[c] \in ChallengeRow /\ purpose \in {"ENROLLMENT", "RECOVERY_ENROLLMENT"}
    BY <1>1
  <2>2. row \in ChallengeRow
    <3>1. n \in 0..MaxSecrets
      BY <1>1
    <3> HIDE DEF n, purpose
    <3> QED BY <2>0, <3>1, Renamed
  <2>3. /\ row.pending = n /\ row.consumed = challenges[c].consumed
        /\ row.user = challenges[c].user /\ challenges[c].purpose # "NONE"
    BY <1>1 DEF ChallengeRow
  <2> HIDE DEF row
  <2>5. challenges' \in [MfaChallenge -> ChallengeRow]
    BY <1>1, <2>1, <2>2
  <2>6. \A d \in MfaChallenge : d # c => challenges'[d] = challenges[d]
    BY <1>1, <2>1
  <2>7. challenges'[c] = row
    BY <1>1, <2>1
  <2> QED BY <2>3, <2>5, <2>6, <2>7
<1>3. MfaTypeOK'
  BY <1>1, <1>2 DEF MfaInv, MfaTypeOK, ChallengeRow
<1>4. /\ \A d \in MfaChallenge : challenges[d].pending \in Nat /\ challenges[d].pending < n
      /\ \A a \in MfaAdmin : authenticator[a].secret \in Nat /\ authenticator[a].secret < n
      /\ \A x \in spentCodes : x.secret \in Nat /\ x.secret < n
      /\ \A x \in spentPins : x.pin \in Nat /\ x.pin < n
  BY <1>1, MfaTypes DEF MfaInv, Drawn, ChallengeRow, AuthenticatorRow
<1>5. Drawn'
  BY <1>1, <1>2, <1>4 DEF MfaInv, Drawn
<1>6. WaitingUnused'
  BY <1>1, <1>2, <1>4 DEF MfaInv, WaitingUnused, Waiting
<1>7. Belongs' /\ OwnSecret' /\ SpentOfCurrent' /\ SecondFactorOnce'
  BY <1>1, <1>2 DEF MfaInv, Belongs, OwnSecret, SpentOfCurrent, SecondFactorOnce
<1>8. AnsweredConsumed'
  BY <1>1, <1>2, MfaTypes DEF MfaInv, AnsweredConsumed
<1> QED BY <1>3, <1>5, <1>6, <1>7, <1>8 DEF MfaInv

(* A code is accepted: the challenge is consumed, and the code is new.      *)
LEMMA Accepted ==
  ASSUME MfaInv, NEW c \in MfaChallenge, ~challenges[c].consumed,
         challenges' = [challenges EXCEPT ![c].consumed = TRUE],
         NEW code \in [secret : 1..MaxSecrets, slot : 1..(LastSlot + 1), challenge : MfaChallenge],
         code.challenge = c, spentCodes' = spentCodes \cup {code},
         \A x \in spentCodes : ~(x.secret = code.secret /\ x.slot = code.slot),
         spentPins' = spentPins
  PROVE  /\ challenges' \in [MfaChallenge -> ChallengeRow]
         /\ spentCodes' \subseteq [secret : 1..MaxSecrets, slot : 1..(LastSlot + 1), challenge : MfaChallenge]
         /\ AnsweredConsumed' /\ SecondFactorOnce' /\ Belongs'
         /\ \A d \in MfaChallenge : /\ challenges'[d].pending = challenges[d].pending
                                    /\ challenges'[d].consumed <=> challenges[d].consumed \/ d = c
<1>1. /\ challenges \in [MfaChallenge -> ChallengeRow]
      /\ spentCodes \subseteq [secret : 1..MaxSecrets, slot : 1..(LastSlot + 1), challenge : MfaChallenge]
  BY MfaTypes DEF MfaInv
<1>2. /\ challenges' \in [MfaChallenge -> ChallengeRow]
      /\ \A d \in MfaChallenge : /\ challenges'[d].pending = challenges[d].pending
                                 /\ challenges'[d].consumed <=> challenges[d].consumed \/ d = c
                                 /\ challenges'[d].purpose = challenges[d].purpose
                                 /\ challenges'[d].user = challenges[d].user
  <2> DEFINE row == [challenges[c] EXCEPT !.consumed = TRUE]
  <2>1. challenges[c] \in ChallengeRow /\ challenges' = [challenges EXCEPT ![c] = row]
    BY <1>1
  <2>2. row \in ChallengeRow
    BY <2>1 DEF ChallengeRow
  <2>3. /\ row.consumed /\ row.pending = challenges[c].pending
        /\ row.purpose = challenges[c].purpose /\ row.user = challenges[c].user
    BY <2>1 DEF ChallengeRow
  <2> HIDE DEF row
  <2>4. \A d \in MfaChallenge : challenges'[d] = IF d = c THEN row ELSE challenges[d]
    BY <1>1, <2>1
  <2>5. challenges' \in [MfaChallenge -> ChallengeRow]
    BY <1>1, <2>1, <2>2
  <2> QED BY <2>3, <2>4, <2>5
<1>3. spentCodes' \subseteq [secret : 1..MaxSecrets, slot : 1..(LastSlot + 1), challenge : MfaChallenge]
  BY <1>1
<1>4. AnsweredConsumed' /\ Belongs'
  BY <1>1, <1>2 DEF MfaInv, AnsweredConsumed, Belongs
<1>5. \A x \in spentCodes : x.challenge # c
  BY <1>1 DEF MfaInv, AnsweredConsumed
<1>6. SecondFactorOnce'
  BY <1>5 DEF MfaInv, SecondFactorOnce
<1> QED BY <1>2, <1>3, <1>4, <1>6

LEMMA ConfirmStep ==
  ASSUME MfaInv, NEW c \in MfaChallenge, NEW s \in CodeSlots, confirmEnrollment(c, s) PROVE MfaInv'
<1> DEFINE a == challenges[c].user
           secret == challenges[c].pending
           row == [NoAuthenticator EXCEPT !.enabled = TRUE, !.secret = secret, !.last = s]
<1>1. /\ challenges \in [MfaChallenge -> ChallengeRow] /\ authenticator \in [MfaAdmin -> AuthenticatorRow]
      /\ Waiting(c) /\ a \in MfaAdmin /\ secret \in 1..MaxSecrets
      /\ UNCHANGED <<otpSlot, secretsDrawn, spentPins>>
  BY MfaTypes DEF confirmEnrollment, Open, MfaInv, Belongs, Waiting, ChallengeRow
<1>2. CASE s = NoSlot
  BY <1>1, <1>2, WrongAnswer, CountersMove DEF confirmEnrollment, MfaInv, MfaTypeOK
<1>3. CASE s # NoSlot
  <2>1. s \in 1..(LastSlot + 1)
    BY <1>3 DEF CodeSlots, NoSlot, MfaInv, MfaTypeOK
  <2>2. /\ authenticator' = [authenticator EXCEPT ![a] = row]
        /\ challenges' = [challenges EXCEPT ![c].consumed = TRUE]
        /\ spentCodes' = spentCodes \cup {[secret |-> secret, slot |-> s, challenge |-> c]}
    BY <1>3 DEF confirmEnrollment
  <2>3. /\ \A d \in MfaChallenge \ {c} : challenges[d].pending # secret
        /\ \A b \in MfaAdmin : authenticator[b].secret # secret
        /\ \A x \in spentCodes : x.secret # secret
        /\ \A x \in spentPins : x.pin # secret
    BY <1>1 DEF MfaInv, WaitingUnused
  <2>4. /\ challenges' \in [MfaChallenge -> ChallengeRow]
        /\ spentCodes' \subseteq [secret : 1..MaxSecrets, slot : 1..(LastSlot + 1), challenge : MfaChallenge]
        /\ AnsweredConsumed' /\ SecondFactorOnce' /\ Belongs'
        /\ \A d \in MfaChallenge : /\ challenges'[d].pending = challenges[d].pending
                                   /\ challenges'[d].consumed <=> challenges[d].consumed \/ d = c
    <3>1. ~challenges[c].consumed /\ \A x \in spentCodes : x.secret = secret => x.slot # s
      BY <1>1, <2>3 DEF Waiting
    <3> DEFINE code == [secret |-> secret, slot |-> s, challenge |-> c]
    <3>2. /\ ~challenges[c].consumed /\ spentPins' = spentPins
          /\ code \in [secret : 1..MaxSecrets, slot : 1..(LastSlot + 1), challenge : MfaChallenge]
      BY <1>1, <2>1 DEF Waiting
    <3>3. code.challenge = c /\ code.secret = secret /\ code.slot = s /\ spentCodes' = spentCodes \cup {code}
      BY <2>2
    <3> HIDE DEF secret, code
    <3>4. \A x \in spentCodes : ~(x.secret = code.secret /\ x.slot = code.slot)
      BY <3>1, <3>3
    <3> QED BY <2>2, <3>2, <3>3, <3>4, Accepted
  <2>5. row \in AuthenticatorRow /\ row.secret = secret /\ row.last = s /\ row.enabled
    <3>1. NoAuthenticator \in AuthenticatorRow
      BY DEF NoAuthenticator, AuthenticatorRow
    <3>2. s \in 0..(LastSlot + 1) /\ secret \in 0..MaxSecrets
      BY <1>1, <2>1
    <3> HIDE DEF secret
    <3>3. row \in AuthenticatorRow
      BY <3>1, <3>2, Enabled
    <3> QED BY <3>1, <3>3 DEF AuthenticatorRow
  <2>6. /\ authenticator' \in [MfaAdmin -> AuthenticatorRow]
        /\ \A b \in MfaAdmin : authenticator'[b] = IF b = a THEN row ELSE authenticator[b]
    BY <1>1, <2>2, <2>5
  <2>7. MfaTypeOK'
    BY <1>1, <2>4, <2>6, MfaTypes DEF MfaInv, MfaTypeOK, AuthenticatorRow, ChallengeRow
  <2> HIDE DEF row
  <2>8. Drawn'
    BY <1>1, <2>2, <2>4, <2>5, <2>6 DEF MfaInv, Drawn
  <2>9. WaitingUnused'
    BY <1>1, <2>2, <2>3, <2>4, <2>5, <2>6 DEF MfaInv, WaitingUnused, Waiting
  <2>10. OwnSecret'
    BY <2>3, <2>5, <2>6 DEF MfaInv, OwnSecret
  <2>11. SpentOfCurrent'
    BY <1>1, <2>1, <2>2, <2>3, <2>5, <2>6 DEF MfaInv, SpentOfCurrent
  <2> QED BY <2>4, <2>7, <2>8, <2>9, <2>10, <2>11 DEF MfaInv
<1> QED BY <1>2, <1>3

LEMMA VerifyStep ==
  ASSUME MfaInv, NEW c \in MfaChallenge, NEW s \in CodeSlots, verify(c, s) PROVE MfaInv'
<1> DEFINE a == challenges[c].user
           secret == authenticator[a].secret
<1>1. /\ challenges \in [MfaChallenge -> ChallengeRow] /\ authenticator \in [MfaAdmin -> AuthenticatorRow]
      /\ ~challenges[c].consumed /\ a \in MfaAdmin /\ secret \in 1..MaxSecrets
      /\ Open(c, {"LOGIN"}) /\ UNCHANGED <<otpSlot, secretsDrawn, spentPins>>
  BY MfaTypes DEF verify, Open, MfaInv, Belongs, Drawn, AuthenticatorRow
<1>2. CASE ~FreshSlot(a, s)
  <2>1. authenticator' \in [MfaAdmin -> AuthenticatorRow]
    BY <1>1, <1>2 DEF verify, AuthenticatorRow
  <2>2. \A b \in MfaAdmin :
          /\ authenticator'[b].secret = authenticator[b].secret
          /\ authenticator'[b].last = authenticator[b].last
          /\ authenticator'[b].pinUsed = authenticator[b].pinUsed
          /\ authenticator'[b].enabled = authenticator[b].enabled
    BY <1>1, <1>2 DEF verify, AuthenticatorRow
  <2>3. FailChallenge(c) /\ UNCHANGED spentCodes /\ otpSlot' \in 1..LastSlot
    BY <1>1, <1>2 DEF verify, MfaInv, MfaTypeOK
  <2> QED BY <1>1, <2>1, <2>2, <2>3, WrongAnswer, CountersMove
<1>3. CASE FreshSlot(a, s)
  <2>1. s \in 1..(LastSlot + 1) /\ s > authenticator[a].last
    BY <1>3 DEF FreshSlot, CodeSlots, NoSlot, MfaInv, MfaTypeOK
  <2>2. /\ authenticator' = [authenticator EXCEPT ![a].last = s, ![a].failed = 0, ![a].locked = FALSE]
        /\ challenges' = [challenges EXCEPT ![c].consumed = TRUE]
        /\ spentCodes' = spentCodes \cup {[secret |-> secret, slot |-> s, challenge |-> c]}
    BY <1>3 DEF verify
  <2>3. /\ \A x \in spentCodes : x.slot \in Nat /\ (x.secret = secret => x.slot < s)
        /\ authenticator[a].last \in Nat
    BY <1>1, <2>1, MfaTypes DEF MfaInv, SpentOfCurrent, AuthenticatorRow
  <2>4. /\ challenges' \in [MfaChallenge -> ChallengeRow]
        /\ spentCodes' \subseteq [secret : 1..MaxSecrets, slot : 1..(LastSlot + 1), challenge : MfaChallenge]
        /\ AnsweredConsumed' /\ SecondFactorOnce' /\ Belongs'
        /\ \A d \in MfaChallenge : /\ challenges'[d].pending = challenges[d].pending
                                   /\ challenges'[d].consumed <=> challenges[d].consumed \/ d = c
    <3>1. \A x \in spentCodes : x.secret = secret => x.slot # s
      BY <2>1, <2>3
    <3> DEFINE code == [secret |-> secret, slot |-> s, challenge |-> c]
    <3>2. /\ ~challenges[c].consumed /\ spentPins' = spentPins
          /\ code \in [secret : 1..MaxSecrets, slot : 1..(LastSlot + 1), challenge : MfaChallenge]
      BY <1>1, <2>1 DEF Waiting
    <3>3. code.challenge = c /\ code.secret = secret /\ code.slot = s /\ spentCodes' = spentCodes \cup {code}
      BY <2>2
    <3> HIDE DEF secret, code
    <3>4. \A x \in spentCodes : ~(x.secret = code.secret /\ x.slot = code.slot)
      BY <3>1, <3>3
    <3> QED BY <2>2, <3>2, <3>3, <3>4, Accepted
  <2>5. /\ authenticator' \in [MfaAdmin -> AuthenticatorRow]
        /\ \A b \in MfaAdmin : /\ authenticator'[b].secret = authenticator[b].secret
                               /\ authenticator'[b].last = IF b = a THEN s ELSE authenticator[b].last
                               /\ authenticator'[b].pinUsed = authenticator[b].pinUsed
                               /\ authenticator'[b].enabled = authenticator[b].enabled
    BY <1>1, <2>1, <2>2 DEF AuthenticatorRow
  <2>6. MfaTypeOK'
    BY <1>1, <2>4, <2>5, MfaTypes DEF MfaInv, MfaTypeOK, AuthenticatorRow, ChallengeRow
  <2>7. Drawn' /\ OwnSecret'
    <3>1. secret <= secretsDrawn /\ \A x \in spentCodes' : x \in spentCodes \/ x.secret = secret
      BY <1>1, <2>2 DEF MfaInv, Drawn
    <3>2. Drawn'
      BY <1>1, <2>4, <2>5, <3>1 DEF MfaInv, Drawn
    <3>3. OwnSecret'
      BY <2>5 DEF MfaInv, OwnSecret
    <3> QED BY <3>2, <3>3
  <2>8. WaitingUnused'
    BY <1>1, <2>2, <2>4, <2>5 DEF MfaInv, WaitingUnused, Waiting
  <2>9. SpentOfCurrent'
    <3>1. \A b \in MfaAdmin : authenticator[b].secret = secret => b = a
      BY <1>1 DEF MfaInv, OwnSecret
    <3> QED BY <1>1, <2>1, <2>2, <2>3, <2>5, <3>1 DEF MfaInv, SpentOfCurrent
  <2> QED BY <2>4, <2>6, <2>7, <2>8, <2>9 DEF MfaInv
<1> QED BY <1>2, <1>3

(* A recovery PIN is accepted once: the profile says it was used.           *)
LEMMA RecoverStep ==
  ASSUME MfaInv, NEW c \in MfaChallenge, NEW right \in BOOLEAN, recover(c, right) PROVE MfaInv'
<1> DEFINE a == challenges[c].user
           valid == right /\ authenticator[a].enabled /\ ~authenticator[a].pinUsed
<1>1. /\ challenges \in [MfaChallenge -> ChallengeRow] /\ authenticator \in [MfaAdmin -> AuthenticatorRow]
      /\ a \in MfaAdmin /\ Open(c, {"LOGIN"}) /\ UNCHANGED <<otpSlot, secretsDrawn, spentCodes>>
  BY MfaTypes DEF recover, Open, MfaInv, Belongs
<1>2. CASE ~valid
  BY <1>1, <1>2, WrongAnswer, CountersMove DEF recover, MfaInv, MfaTypeOK
<1>3. CASE valid
  <2> DEFINE secret == authenticator[a].secret
  <2>1. /\ authenticator' = [authenticator EXCEPT ![a].pinUsed = TRUE]
        /\ challenges' = [challenges EXCEPT ![c].purpose = "RECOVERY_ENROLLMENT", ![c].attempts = 0]
        /\ spentPins' = spentPins \cup {[pin |-> secret, challenge |-> c]}
    BY <1>3 DEF recover
  <2>2. secret \in 1..MaxSecrets /\ \A x \in spentPins : x.pin # secret
    BY <1>1, <1>3, MfaTypes DEF MfaInv, Drawn, SpentOfCurrent, AuthenticatorRow
  <2>3. /\ challenges' \in [MfaChallenge -> ChallengeRow]
        /\ \A d \in MfaChallenge : /\ challenges'[d].pending = challenges[d].pending
                                   /\ challenges'[d].consumed = challenges[d].consumed
                                   /\ challenges'[d].user = challenges[d].user
                                   /\ d # c => challenges'[d].purpose = challenges[d].purpose
    <3> DEFINE row == [challenges[c] EXCEPT !.purpose = "RECOVERY_ENROLLMENT", !.attempts = 0]
    <3>1. challenges' = [challenges EXCEPT ![c] = row]
      BY <1>1, <2>1 DEF ChallengeRow
    <3>0. challenges[c] \in ChallengeRow /\ 0 \in 0..AttemptLimit
      BY <1>1
    <3>2. row \in ChallengeRow
      BY <3>0, Recovered
    <3>3. /\ row.pending = challenges[c].pending /\ row.consumed = challenges[c].consumed
          /\ row.user = challenges[c].user
      BY <1>1 DEF ChallengeRow
    <3> HIDE DEF row
    <3> QED BY <1>1, <3>1, <3>2, <3>3
  <2>4. /\ authenticator' \in [MfaAdmin -> AuthenticatorRow]
        /\ \A b \in MfaAdmin : /\ authenticator'[b].secret = authenticator[b].secret
                               /\ authenticator'[b].last = authenticator[b].last
                               /\ authenticator'[b].pinUsed = (authenticator[b].pinUsed \/ b = a)
                               /\ authenticator'[b].enabled = authenticator[b].enabled
    <3> DEFINE row == [authenticator[a] EXCEPT !.pinUsed = TRUE]
    <3>1. authenticator' = [authenticator EXCEPT ![a] = row]
      BY <1>1, <2>1
    <3>2. authenticator[a] \in AuthenticatorRow
      BY <1>1
    <3>3. /\ row \in AuthenticatorRow /\ row.secret = authenticator[a].secret
          /\ row.last = authenticator[a].last /\ row.pinUsed /\ row.enabled = authenticator[a].enabled
      BY <3>2 DEF AuthenticatorRow
    <3>4. \A b \in MfaAdmin : /\ authenticator[b].pinUsed \in BOOLEAN
                               /\ authenticator'[b] = IF b = a THEN row ELSE authenticator[b]
      BY <1>1, <3>1 DEF AuthenticatorRow
    <3>5. authenticator' \in [MfaAdmin -> AuthenticatorRow]
      BY <1>1, <3>1, <3>3
    <3>6. authenticator[a].pinUsed = FALSE /\ row.pinUsed = TRUE
      BY <1>1, <1>3, <3>4
    <3> HIDE DEF row
    <3> QED BY <1>1, <3>3, <3>4, <3>5, <3>6
  <2>5. MfaTypeOK'
    BY <1>1, <2>1, <2>2, <2>3, <2>4, MfaTypes DEF MfaInv, MfaTypeOK, AuthenticatorRow, ChallengeRow
  <2>6. Belongs' /\ Drawn' /\ OwnSecret'
    BY <1>1, <2>1, <2>3, <2>4 DEF MfaInv, Belongs, Drawn, OwnSecret
  <2>7. WaitingUnused'
    BY <1>1, <2>1, <2>3, <2>4 DEF MfaInv, WaitingUnused, Waiting
  <2>8. SpentOfCurrent'
    <3>1. \A b \in MfaAdmin : authenticator[b].secret = secret => b = a
      BY <1>1, <2>2 DEF MfaInv, OwnSecret
    <3> QED BY <1>1, <2>1, <2>4, <3>1 DEF MfaInv, SpentOfCurrent
  <2>9. AnsweredConsumed'
    BY <1>1, <2>3, MfaTypes DEF MfaInv, AnsweredConsumed
  <2>10. SecondFactorOnce'
    BY <1>1, <2>1, <2>2 DEF MfaInv, SecondFactorOnce
  <2> QED BY <2>5, <2>6, <2>7, <2>8, <2>9, <2>10 DEF MfaInv
<1> QED BY <1>2, <1>3

LEMMA ResetStep ==
  ASSUME MfaInv, NEW a \in MfaAdmin, reset(a) PROVE MfaInv'
<1>1. /\ authenticator \in [MfaAdmin -> AuthenticatorRow]
      /\ UNCHANGED <<challenges, otpSlot, secretsDrawn, spentCodes, spentPins>>
      /\ NoAuthenticator \in AuthenticatorRow /\ NoAuthenticator.secret = 0
      /\ ~NoAuthenticator.enabled
  BY MfaTypes DEF reset, MfaInv, NoAuthenticator, AuthenticatorRow
<1>2. /\ authenticator' \in [MfaAdmin -> AuthenticatorRow]
      /\ \A b \in MfaAdmin : authenticator'[b] = IF b = a THEN NoAuthenticator ELSE authenticator[b]
  BY <1>1 DEF reset
<1>3. MfaTypeOK'
  BY <1>1, <1>2, MfaTypes DEF MfaInv, MfaTypeOK, AuthenticatorRow, ChallengeRow
<1>4. Belongs' /\ Drawn' /\ AnsweredConsumed' /\ SecondFactorOnce'
  BY <1>1, <1>2, MfaTypes DEF MfaInv, Belongs, Drawn, AnsweredConsumed, SecondFactorOnce
<1>5. WaitingUnused' /\ OwnSecret'
  BY <1>1, <1>2 DEF MfaInv, WaitingUnused, Waiting, OwnSecret
<1>6. \A x \in spentCodes : x.secret # 0
  BY MfaTypes DEF MfaInv
<1>7. \A x \in spentPins : x.pin # 0
  BY MfaTypes DEF MfaInv
<1>8. SpentOfCurrent'
  BY <1>1, <1>2, <1>6, <1>7 DEF MfaInv, SpentOfCurrent
<1> QED BY <1>3, <1>4, <1>5, <1>8 DEF MfaInv

LEMMA MfaStep == MfaInv /\ [MfaNext]_mfaVars => MfaInv'
<1> SUFFICES ASSUME MfaInv, [MfaNext]_mfaVars PROVE MfaInv'
  OBVIOUS
<1>1. CASE MfaNext
  BY <1>1, TimeSteps, ResetStep, BeginStep, StartStep, ConfirmStep, VerifyStep, RecoverStep DEF MfaNext
<1>2. CASE UNCHANGED mfaVars
  BY <1>2, MfaTypes, CountersMove DEF mfaVars, MfaInv, Belongs
<1> QED BY <1>1, <1>2

(* Whatever logins, enrollments, recoveries and resets of whichever         *)
(* administrators interleave, and however long the challenges wait, no code *)
(* passes two logins, no login is passed twice, and no recovery PIN opens   *)
(* two enrollments.                                                         *)
THEOREM SecondFactorAlwaysOnce == MfaSpec => [](MfaTypeOK /\ SecondFactorOnce)
<1>1. MfaInv => MfaTypeOK /\ SecondFactorOnce
  BY DEF MfaInv
<1> QED BY MfaStart, MfaStep, <1>1, PTL DEF MfaSpec
-----------------------------------------------------------------------------

IntegrationRow ==
  [version : 0..MaxVersion, channel : {"none", "API", "KAFKA"}, active : BOOLEAN,
   auth : {"NONE", "API_KEY", "HMAC"}, secret : Secret \cup {"none"}]

UpdateRow ==
  [channel : {"none", "API", "KAFKA"}, active : BOOLEAN, auth : {"NONE", "API_KEY", "HMAC"},
   secret : Secret \cup {"none"}, read : IntegrationRow]

IntegrationShape ==
  /\ integration \in IntegrationRow
  /\ history \in [1..MaxVersion -> {"none", "API", "KAFKA"}]
  /\ updating \in [IntegrationEditor -> UpdateRow]
  /\ supplied \in Secret \cup {"none"}

OneUpdate ==
  \A e, f \in IntegrationEditor : updating[e] # NoUpdate /\ updating[f] # NoUpdate => e = f

(* What an update in progress read is still the row, and there is room for  *)
(* one more version.                                                        *)
ReadHolds ==
  \A e \in IntegrationEditor : updating[e] # NoUpdate =>
    /\ updating[e].read = integration /\ integration.version < MaxVersion
    /\ updating[e].channel # "none"

IntegrationInv == IntegrationShape /\ OneUpdate /\ ReadHolds /\ SecretsKept

LEMMA IntegrationStart == IntegrationInit => IntegrationInv
BY IntegrationAssumption DEF IntegrationInit, IntegrationInv, IntegrationShape, OneUpdate, ReadHolds,
   SecretsKept, NoIntegration, NoUpdate, IntegrationRow, UpdateRow, IntegrationAssumption

LEMMA IntegrationStep == IntegrationInv /\ [IntegrationNext]_integrationVars => IntegrationInv'
<1> SUFFICES ASSUME IntegrationInv, [IntegrationNext]_integrationVars PROVE IntegrationInv'
  OBVIOUS
<1> USE IntegrationAssumption DEF IntegrationAssumption, IntegrationInv, IntegrationShape
<1>1. ASSUME NEW e \in IntegrationEditor, NEW u \in Update, beginUpsert(e, u) PROVE IntegrationInv'
  <2>1. IntegrationShape'
    BY <1>1 DEF beginUpsert, Update, IntegrationRow, UpdateRow
  <2>2. OneUpdate' /\ ReadHolds'
    BY <1>1 DEF beginUpsert, MerchantFree, Update, OneUpdate, ReadHolds
  <2>3. SecretsKept'
    BY <1>1 DEF beginUpsert, SecretsKept
  <2> QED BY <2>1, <2>2, <2>3
<1>2. ASSUME NEW e \in IntegrationEditor, commitUpsert(e) PROVE IntegrationInv'
  <2> DEFINE u == updating[e]
  <2>1. /\ u \in UpdateRow /\ u.read = integration /\ u # NoUpdate
        /\ integration.version \in 0..MaxVersion /\ integration.version < MaxVersion
        /\ u.channel \in {"API", "KAFKA"}
    BY <1>2 DEF commitUpsert, ReadHolds, UpdateRow, IntegrationRow
  <2>2. /\ integration' = [version |-> integration.version + 1, channel |-> u.channel,
                           active |-> u.active, auth |-> u.auth, secret |-> Carried(u)]
        /\ history' = [history EXCEPT ![integration.version + 1] = u.channel]
        /\ updating' = [updating EXCEPT ![e] = NoUpdate]
        /\ supplied' = IF u.secret # "none" THEN u.secret ELSE supplied
    BY <1>2, <2>1 DEF commitUpsert
  <2>3. Carried(u) = supplied' /\ supplied' \in Secret \cup {"none"}
    BY <2>1, <2>2 DEF Carried, SecretsKept, UpdateRow
  <2>4. NoUpdate \in UpdateRow
    BY DEF NoUpdate, UpdateRow, NoIntegration, IntegrationRow
  <2>5. IntegrationShape'
    BY <2>1, <2>2, <2>3, <2>4 DEF IntegrationRow, UpdateRow
  <2>6. \A f \in IntegrationEditor : updating'[f] = NoUpdate
    BY <2>1, <2>2 DEF OneUpdate
  <2>7. integration'.channel # "none" /\ integration'.secret = supplied'
    BY <2>1, <2>2, <2>3
  <2>8. history'[integration'.version] = integration'.channel
    BY <2>1, <2>2
  <2>9. ASSUME NEW v \in 1..MaxVersion PROVE (history'[v] # "none") = (v <= integration'.version)
    <3>1. (history[v] # "none") = (v <= integration.version)
      BY DEF SecretsKept
    <3>2. integration'.version = integration.version + 1 /\ u.channel # "none" /\ history \in [1..MaxVersion -> {"none", "API", "KAFKA"}]
      BY <2>1, <2>2
    <3>3. history'[v] = IF v = integration.version + 1 THEN u.channel ELSE history[v]
      BY <2>2, <3>2
    <3> HIDE DEF u, IntegrationInv
    <3>4. CASE v = integration.version + 1
      BY <2>1, <3>2, <3>3, <3>4
    <3>5. CASE v # integration.version + 1
      BY <2>1, <3>1, <3>2, <3>3, <3>5
    <3> QED
      BY <3>4, <3>5
  <2>10. SecretsKept'
    BY <2>7, <2>8, <2>9 DEF SecretsKept
  <2> QED BY <2>5, <2>6, <2>10 DEF OneUpdate, ReadHolds
<1>3. ASSUME NEW e \in IntegrationEditor, abandonUpsert(e) PROVE IntegrationInv'
  <2>1. NoUpdate \in UpdateRow
    BY DEF NoUpdate, UpdateRow, NoIntegration, IntegrationRow
  <2>2. \A f \in IntegrationEditor : updating'[f] # NoUpdate => updating'[f] = updating[f]
    BY <1>3 DEF abandonUpsert
  <2>3. IntegrationShape'
    BY <1>3, <2>1 DEF abandonUpsert
  <2> QED BY <1>3, <2>2, <2>3 DEF abandonUpsert, OneUpdate, ReadHolds, SecretsKept
<1>4. ASSUME NEW active \in BOOLEAN, setActive(active) PROVE IntegrationInv'
  <2>1. /\ \A f \in IntegrationEditor : updating'[f] = NoUpdate
        /\ integration'.version = integration.version /\ integration'.channel = integration.channel
        /\ integration'.secret = integration.secret /\ integration' \in IntegrationRow
    BY <1>4 DEF setActive, MerchantFree, IntegrationRow
  <2> QED BY <1>4, <2>1 DEF setActive, OneUpdate, ReadHolds, SecretsKept
<1>5. ASSUME UNCHANGED integrationVars PROVE IntegrationInv'
  BY <1>5 DEF integrationVars, OneUpdate, ReadHolds, SecretsKept
<1> QED BY <1>1, <1>2, <1>3, <1>4, <1>5 DEF IntegrationNext

(* However many administrators update a merchant's integration, with or     *)
(* without a secret, and switch it on and off, the callbacks are checked    *)
(* against the last secret anybody supplied, and the history is complete.   *)
THEOREM SecretsAlwaysKept == IntegrationSpec => [](IntegrationTypeOK /\ SecretsKept)
<1>1. IntegrationInv => IntegrationTypeOK /\ SecretsKept
  BY DEF IntegrationInv, IntegrationShape, IntegrationTypeOK, IntegrationRow
<1> QED BY IntegrationStart, IntegrationStep, <1>1, PTL DEF IntegrationSpec

-----------------------------------------------------------------------------
(* Sanctions lists.                                                         *)

ListJob ==
  [pc : {"idle", "started", "replacing", "applied"}, mode : {"none", "REPLACE", "MERGE"},
   lists : SUBSET ListName, names : SUBSET Sanctioned, deleted : SUBSET (ListName \X Sanctioned)]

ListsShape ==
  /\ records \in [ListName -> SUBSET Sanctioned] /\ published \in [ListName -> SUBSET Sanctioned]
  /\ listJob \in [ListOfficer -> ListJob]

LockHeld == \A o \in ListOfficer : listJob[o] # NoListJob => listLock = {o}

(* An operation takes both official lists and replaces them, or one other.  *)
ListsAsked ==
  \A o \in ListOfficer : listJob[o] # NoListJob =>
    \/ listJob[o].lists = OfficialList /\ listJob[o].mode = "REPLACE"
    \/ \E s \in ListName \ OfficialList :
         listJob[o].lists = {s} /\ listJob[o].mode \in {"REPLACE", "MERGE"}

(* What the delete took away is still all there is to take away.            *)
DeletedStands ==
  \A o \in ListOfficer : listJob[o].pc = "replacing" =>
    \A s \in listJob[o].lists, n \in Sanctioned :
      <<s, n>> \in listJob[o].deleted <=> listJob[o].mode = "REPLACE" /\ n \in records[s]

ListsInv == ListsShape /\ LockHeld /\ ListsAsked /\ DeletedStands /\ ListsWhole

LEMMA ListsStart == SanctionsInit => ListsInv
BY SanctionsAssumption DEF SanctionsInit, ListsInv, ListsShape, LockHeld, ListsAsked, DeletedStands,
   ListsWhole, NoListJob, ListJob, SanctionsAssumption

(* The jobs that remain, when one ends.                                     *)
LEMMA JobEnds ==
  ASSUME ListsInv, NEW o \in ListOfficer, listJob' = [listJob EXCEPT ![o] = NoListJob],
         listJob[o] # NoListJob, UNCHANGED <<records, published>>
  PROVE  ListsInv'
<1> USE DEF ListsInv
<1>1. \A p \in ListOfficer : listJob'[p] = NoListJob
  BY DEF LockHeld, ListsShape
<1>2. NoListJob \in ListJob /\ NoListJob.pc # "replacing"
  BY DEF NoListJob, ListJob
<1> QED BY <1>1, <1>2 DEF ListsShape, LockHeld, ListsAsked, DeletedStands, ListsWhole

LEMMA ListsStep == ListsInv /\ [SanctionsNext]_sanctionsVars => ListsInv'
<1> SUFFICES ASSUME ListsInv, [SanctionsNext]_sanctionsVars PROVE ListsInv'
  OBVIOUS
<1> USE SanctionsAssumption DEF SanctionsAssumption, ListsInv
<1>1. ASSUME NEW o \in ListOfficer, NEW mode \in {"REPLACE", "MERGE"},
             NEW lists \in SUBSET ListName, NEW names \in SUBSET Sanctioned,
             \/ lists = OfficialList /\ mode = "REPLACE"
             \/ \E s \in ListName \ OfficialList : lists = {s},
             startRun(o, mode, lists, names)
      PROVE  ListsInv'
  <2> DEFINE j == [pc |-> "started", mode |-> mode, lists |-> lists, names |-> names, deleted |-> {}]
  <2>1. j \in ListJob /\ j.pc # "replacing"
    BY DEF ListJob
  <2>2. /\ listJob' = [listJob EXCEPT ![o] = j] /\ listLock' = {o}
        /\ \A p \in ListOfficer : listJob[p] = NoListJob
        /\ UNCHANGED <<records, published>>
    BY <1>1 DEF startRun, LockFree, LockHeld
  <2>3. \A p \in ListOfficer : listJob'[p] = IF p = o THEN j ELSE NoListJob
    BY <2>2 DEF ListsShape
  <2>4. NoListJob.pc # "replacing"
    BY DEF NoListJob
  <2>5. ListsShape' /\ ListsWhole'
    BY <2>1, <2>2 DEF ListsShape, ListsWhole
  <2>6. LockHeld' /\ DeletedStands'
    BY <2>1, <2>2, <2>3, <2>4 DEF LockHeld, DeletedStands
  <2>7. ListsAsked'
    BY <1>1, <2>3 DEF ListsAsked
  <2> QED BY <2>5, <2>6, <2>7
<1>2. ASSUME NEW o \in ListOfficer, beginReplace(o) PROVE ListsInv'
  <2> DEFINE gone == IF listJob[o].mode = "REPLACE"
                     THEN {r \in listJob[o].lists \X Sanctioned : r[2] \in records[r[1]]} ELSE {}
             j == [listJob[o] EXCEPT !.pc = "replacing", !.deleted = gone]
  <2>1. listJob[o] \in ListJob /\ gone \in SUBSET (ListName \X Sanctioned)
    BY DEF ListsShape, ListJob
  <2>2. /\ j \in ListJob /\ j.lists = listJob[o].lists /\ j.mode = listJob[o].mode
        /\ j.deleted = gone
    BY <2>1 DEF ListJob
  <2>3. /\ listJob' = [listJob EXCEPT ![o] = j] /\ listJob[o] # NoListJob
        /\ UNCHANGED <<records, listLock, published>>
    <3>1. listJob[o].pc = "started" /\ NoListJob.pc = "idle"
      BY <1>2 DEF beginReplace, NoListJob
    <3>2. listJob' = [listJob EXCEPT ![o] = j]
      BY <1>2, <2>1 DEF beginReplace, ListJob, ListsShape
    <3> QED BY <1>2, <3>1, <3>2 DEF beginReplace
  <2>4. \A s \in j.lists, n \in Sanctioned :
          <<s, n>> \in gone <=> j.mode = "REPLACE" /\ n \in records[s]
    BY <2>2
  <2>5. ListsShape' /\ ListsWhole'
    BY <2>2, <2>3 DEF ListsShape, ListsWhole
  <2>6. LockHeld' /\ ListsAsked'
    BY <2>2, <2>3 DEF ListsShape, LockHeld, ListsAsked
  <2>7. DeletedStands'
    <3>1. \A p \in ListOfficer : listJob'[p] = IF p = o THEN j ELSE listJob[p]
      BY <2>3 DEF ListsShape
    <3>2. j.deleted = gone /\ j.lists = listJob[o].lists /\ j.mode = listJob[o].mode
      BY <2>2
    <3> HIDE DEF gone, j
    <3> SUFFICES ASSUME NEW p \in ListOfficer, listJob'[p].pc = "replacing",
                        NEW s \in listJob'[p].lists, NEW n \in Sanctioned
                 PROVE  <<s, n>> \in listJob'[p].deleted
                          <=> listJob'[p].mode = "REPLACE" /\ n \in records'[s]
      BY DEF DeletedStands
    <3>3. CASE p = o
      BY <2>3, <2>4, <3>1, <3>2, <3>3
    <3>4. CASE p # o
      BY <2>3, <3>1, <3>4 DEF DeletedStands
    <3> QED BY <3>3, <3>4
  <2> QED BY <2>5, <2>6, <2>7
<1>3. ASSUME NEW o \in ListOfficer, commitReplace(o) PROVE ListsInv'
  <2> DEFINE j == listJob[o]
             new(s) == {n \in records[s] : <<s, n>> \notin j.deleted} \cup j.names
  <2>1. j \in ListJob /\ j.pc = "replacing" /\ j # NoListJob
    BY <1>3 DEF commitReplace, ListsShape, NoListJob
  <2>2. /\ records' = [s \in ListName |-> IF s \in j.lists THEN new(s) ELSE records[s]]
        /\ listJob' = [listJob EXCEPT ![o].pc = "applied"] /\ UNCHANGED listLock
    BY <1>3 DEF commitReplace
  <2>3. \A s \in j.lists : new(s) = IF j.mode = "REPLACE" THEN j.names ELSE published[s] \cup j.names
    <3> SUFFICES ASSUME NEW s \in j.lists
                 PROVE  new(s) = IF j.mode = "REPLACE" THEN j.names ELSE published[s] \cup j.names
      OBVIOUS
    <3>1. s \in ListName /\ records[s] \subseteq Sanctioned /\ records[s] = published[s]
      BY <2>1 DEF ListJob, ListsShape, ListsWhole
    <3>2. CASE j.mode = "REPLACE"
      <4>1. {n \in records[s] : <<s, n>> \notin j.deleted} = {}
        BY <2>1, <3>1, <3>2 DEF DeletedStands
      <4> QED BY <3>2, <4>1
    <3>3. CASE j.mode # "REPLACE"
      <4>1. {n \in records[s] : <<s, n>> \notin j.deleted} = records[s]
        BY <2>1, <3>1, <3>3 DEF DeletedStands
      <4> QED BY <3>1, <3>3, <4>1
    <3> QED BY <3>2, <3>3
  <2>4. published' = records'
    <3> DEFINE after(s) == IF j.mode = "REPLACE" THEN j.names ELSE published[s] \cup j.names
    <3>1. published' = [s \in ListName |-> IF s \in j.lists THEN after(s) ELSE published[s]]
      BY <1>3 DEF commitReplace
    <3>2. \A s \in ListName : (IF s \in j.lists THEN new(s) ELSE records[s])
                                 = IF s \in j.lists THEN after(s) ELSE published[s]
      BY <2>3 DEF ListsWhole
    <3> HIDE DEF j, new, after
    <3> QED BY <2>2, <3>1, <3>2
  <2>5. \A s, t \in OfficialList : records'[s] = records'[t]
    <3>1. CASE j.lists = OfficialList /\ j.mode = "REPLACE"
      BY <2>2, <2>3, <3>1
    <3>2. CASE \E s \in ListName \ OfficialList : j.lists = {s}
      BY <2>2, <3>2 DEF ListsWhole
    <3> QED BY <2>1, <3>1, <3>2 DEF ListsAsked
  <2>6. records' \in [ListName -> SUBSET Sanctioned]
    BY <2>1, <2>2 DEF ListsShape, ListJob
  <2>7. /\ listJob' \in [ListOfficer -> ListJob]
        /\ \A p \in ListOfficer \ {o} : listJob'[p] = listJob[p] /\ listJob[p] = NoListJob
        /\ listJob'[o].pc = "applied" /\ listJob'[o].lists = j.lists /\ listJob'[o].mode = j.mode
    BY <2>1, <2>2 DEF ListsShape, ListJob, LockHeld
  <2>8. ListsShape' /\ ListsWhole'
    BY <2>4, <2>5, <2>6, <2>7 DEF ListsShape, ListsWhole
  <2>9. LockHeld' /\ ListsAsked'
    BY <2>1, <2>2, <2>7 DEF LockHeld, ListsAsked
  <2>10. DeletedStands'
    <3>1. \A p \in ListOfficer : listJob'[p].pc # "replacing"
      BY <2>7 DEF NoListJob
    <3> QED BY <3>1 DEF DeletedStands
  <2> QED BY <2>8, <2>9, <2>10
<1>4. ASSUME NEW o \in ListOfficer, completeRun(o) \/ failRun(o) \/ officerLost(o) PROVE ListsInv'
  <2>1. listJob[o] # NoListJob
    BY <1>4 DEF completeRun, failRun, officerLost, NoListJob
  <2> QED BY <1>4, <2>1, JobEnds DEF completeRun, failRun, officerLost, EndRun
<1>5. ASSUME UNCHANGED sanctionsVars PROVE ListsInv'
  BY <1>5 DEF sanctionsVars, ListsShape, LockHeld, ListsAsked, DeletedStands, ListsWhole
<1>6. ASSUME NEW o \in ListOfficer, NEW names \in SUBSET Sanctioned, syncOfficial(o, names)
      PROVE  ListsInv'
  BY <1>1, <1>6 DEF syncOfficial
<1>7. ASSUME NEW o \in ListOfficer, NEW mode \in {"REPLACE", "MERGE"}, NEW s \in ListName,
             NEW names \in SUBSET Sanctioned, uploadManual(o, mode, s, names)
      PROVE  ListsInv'
  BY <1>1, <1>7 DEF uploadManual
<1> QED BY <1>2, <1>3, <1>4, <1>5, <1>6, <1>7 DEF SanctionsNext

(* Downloads, uploads, failures and lost connections, in any number and     *)
(* order, leave whole lists: the table is what the last operation of each   *)
(* list published, and the two official lists are of one download.          *)
THEOREM ListsAlwaysWhole == SanctionsSpec => []ListsWhole
<1>1. ListsInv => ListsWhole
  BY DEF ListsInv
<1> QED BY ListsStart, ListsStep, <1>1, PTL DEF SanctionsSpec
-----------------------------------------------------------------------------
USE AdminAssumption DEF AdminAssumption

LoginCall    == [kind : {"login"}, user : AdminUser, status : {"active", "locked"}, failed : 0..MaxFailedLogins]
CompleteCall == [kind : {"complete"}, user : AdminUser, claim : BOOLEAN, raced : BOOLEAN]
RefreshCall  == [kind : {"refresh"}, user : AdminUser, session : AdminSession, claim : BOOLEAN, raced : BOOLEAN]
UpdateCall   == [kind : {"update"}, user : AdminUser, reset : BOOLEAN, removes : BOOLEAN,
                 after : [status : {"active", "disabled", "locked"}, super : BOOLEAN]]
AdminCall    == LoginCall \cup CompleteCall \cup RefreshCall \cup UpdateCall

AccountRow == [status : {"none", "active", "disabled", "locked"}, super : BOOLEAN,
               failed : 0..MaxFailedLogins, barred : BOOLEAN]
SessionRow == [user : AdminUser, claim : BOOLEAN, raced : BOOLEAN]

AdminShape ==
  /\ accounts \in [AdminUser -> AccountRow]
  /\ sessions \in [AdminSession -> SessionRow \cup {NoSession}]
  /\ adminCalls \subseteq AdminCall /\ IsFiniteSet(adminCalls) /\ Cardinality(adminCalls) <= MaxAdminCalls
  /\ overlapped \in BOOLEAN
  /\ \A a \in AdminUser : ~Exists(a) => ~accounts[a].super

(* Only an account that exists is in a handler's hands.                     *)
CallsOfAccounts == \A c \in adminCalls : Exists(c.user)

(* A change holds its row, so what it decided about the account holds until *)
(* it commits.                                                              *)
UpdatesHold ==
  \A c \in adminCalls : c.kind = "update" =>
    /\ accounts[c.user].super => c.removes \/ (c.after.super /\ c.after.status = "active")
    /\ \A d \in adminCalls : d.kind = "update" /\ d.user = c.user => d = c

Governs(a) == accounts[a].super /\ accounts[a].status # "disabled"

(* While one change takes a super administrator away, no other does, and    *)
(* somebody else remains.                                                   *)
OneRemoves ==
  ~overlapped =>
    \A c \in adminCalls : Removes(c) =>
      /\ \E b \in AdminUser \ {c.user} : Governs(b)
      /\ \A d \in adminCalls : Removes(d) => d = c

(* What a token says, or will say, was true of its holder when it was read, *)
(* and a change since then has revoked or marked it.                        *)
ClaimHolds(x) == x.claim /\ ~x.raced => accounts[x.user].super
ClaimsHold ==
  /\ \A s \in AdminSession : sessions[s] # NoSession => ClaimHolds(sessions[s])
  /\ \A c \in adminCalls : c.kind \in {"complete", "refresh"} => ClaimHolds(c)

AdminInv == AdminShape /\ CallsOfAccounts /\ UpdatesHold /\ OneRemoves /\ SuperRemains /\ ClaimsHold

LEMMA AdminStart == AdminInit => AdminInv
<1> SUFFICES ASSUME AdminInit PROVE AdminInv
  OBVIOUS
<1> USE DEF AdminInit
<1>1. NoAccount \in AccountRow /\ NoAccount.status = "none" /\ NoAccount.super = FALSE
  BY DEF NoAccount, AccountRow
<1>2. IsFiniteSet(adminCalls) /\ Cardinality(adminCalls) = 0
  BY FS_EmptySet
<1>3. AdminShape
  <2>1. MaxAdminCalls \in Nat
    OBVIOUS
  <2>2. Cardinality(adminCalls) <= MaxAdminCalls
    BY <1>2, <2>1
  <2>3. accounts \in [AdminUser -> AccountRow] /\ \A a \in AdminUser : ~accounts[a].super
    BY <1>1
  <2>4. sessions \in [AdminSession -> SessionRow \cup {NoSession}] /\ adminCalls \subseteq AdminCall
        /\ overlapped \in BOOLEAN
    OBVIOUS
  <2> QED
    BY <1>2, <2>2, <2>3, <2>4 DEF AdminShape
<1> QED
  BY <1>1, <1>3 DEF AdminInv, CallsOfAccounts, UpdatesHold, OneRemoves, SuperRemains, ClaimsHold, Exists

(* A handler that begins.                                                   *)
LEMMA CallAdded ==
  ASSUME AdminInv, NEW call \in AdminCall, Began(call)
  PROVE  /\ adminCalls' \subseteq AdminCall /\ IsFiniteSet(adminCalls') /\ Cardinality(adminCalls') <= MaxAdminCalls
         /\ adminCalls' = adminCalls \cup {call} /\ ~overlapped
<1>1. IsFiniteSet(adminCalls) /\ Cardinality(adminCalls) \in Nat /\ Cardinality(adminCalls) < MaxAdminCalls
  BY FS_CardinalityType DEF AdminInv, AdminShape, Began
<1>2. IsFiniteSet(adminCalls \cup {call})
      /\ Cardinality(adminCalls \cup {call}) <= Cardinality(adminCalls) + 1
  <2>1. IsFiniteSet(adminCalls \cup {call})
        /\ Cardinality(adminCalls \cup {call}) = IF call \in adminCalls THEN Cardinality(adminCalls)
                                                 ELSE Cardinality(adminCalls) + 1
    BY <1>1, FS_AddElement
  <2> QED
    BY <1>1, <2>1
<1>3. Cardinality(adminCalls \cup {call}) \in Nat
  BY <1>2, FS_CardinalityType
<1> QED
  BY <1>1, <1>2, <1>3 DEF Began, AdminInv, AdminShape

(* A handler that ends.                                                     *)
LEMMA CallRemoved ==
  ASSUME AdminInv, NEW call, Ended(call)
  PROVE  /\ adminCalls' \subseteq adminCalls /\ IsFiniteSet(adminCalls')
         /\ Cardinality(adminCalls') <= MaxAdminCalls
<1>1. IsFiniteSet(adminCalls) /\ Cardinality(adminCalls) <= MaxAdminCalls /\ adminCalls' \in SUBSET adminCalls
  BY DEF AdminInv, AdminShape, Ended
<1>2. IsFiniteSet(adminCalls') /\ Cardinality(adminCalls') <= Cardinality(adminCalls)
  BY <1>1, FS_Subset
<1>3. Cardinality(adminCalls) \in Nat /\ Cardinality(adminCalls') \in Nat
  BY <1>1, <1>2, FS_CardinalityType
<1> QED
  BY <1>1, <1>2, <1>3

(* An account that is saved without a change of its roles, and not disabled.*)
LEMMA AccountSaved ==
  ASSUME AdminInv, NEW a \in AdminUser, NEW row \in AccountRow, Exists(a), row.super = accounts[a].super,
         row.status \in {"active", "locked"} \/ row.status = accounts[a].status,
         accounts' = [accounts EXCEPT ![a] = row]
  PROVE  /\ accounts' \in [AdminUser -> AccountRow]
         /\ \A b \in AdminUser : accounts'[b].super = accounts[b].super
         /\ \A b \in AdminUser : Exists(b)' <=> Exists(b)
         /\ \A b \in AdminUser : Governs(b) => Governs(b)'
<1>1. accounts \in [AdminUser -> AccountRow]
  BY DEF AdminInv, AdminShape
<1>2. \A b \in AdminUser : accounts'[b] = IF b = a THEN row ELSE accounts[b]
  BY <1>1
<1> QED
  BY <1>1, <1>2 DEF Exists, Governs

(* What follows for a handler's step that saves an account so, and at most  *)
(* opens or changes one session to a claim that holds.                      *)
LEMMA QuietStep ==
  ASSUME AdminInv, overlapped' = overlapped,
         accounts' \in [AdminUser -> AccountRow],
         \A b \in AdminUser : accounts'[b].super = accounts[b].super,
         \A b \in AdminUser : Exists(b)' <=> Exists(b),
         \A b \in AdminUser : Governs(b) => Governs(b)',
         adminCalls' \subseteq AdminCall, IsFiniteSet(adminCalls'), Cardinality(adminCalls') <= MaxAdminCalls,
         \A c \in adminCalls' : c.kind # "update" => c \in adminCalls \/ (c.kind # "login" => ClaimHolds(c)),
         \A c \in adminCalls' : c \in adminCalls \/ (c.kind # "update" /\ Exists(c.user)),
         sessions' \in [AdminSession -> SessionRow \cup {NoSession}],
         \A s \in AdminSession : sessions'[s] \in {NoSession, sessions[s]} \/ ClaimHolds(sessions'[s])
  PROVE  AdminInv'
<1>1. AdminShape'
  BY DEF AdminInv, AdminShape
<1>2. UpdatesHold'
  <2>0. \A d \in adminCalls' : d.kind = "update" => d \in adminCalls
    OBVIOUS
  <2> SUFFICES ASSUME NEW c \in adminCalls', c.kind = "update"
               PROVE  /\ accounts'[c.user].super => c.removes \/ (c.after.super /\ c.after.status = "active")
                      /\ \A d \in adminCalls' : d.kind = "update" /\ d.user = c.user => d = c
    BY DEF UpdatesHold
  <2>1. c \in adminCalls /\ c.user \in AdminUser
    BY <2>0 DEF AdminCall, LoginCall, CompleteCall, RefreshCall, UpdateCall
  <2> QED
    BY <2>0, <2>1 DEF AdminInv, UpdatesHold
<1>3. OneRemoves'
  <2> SUFFICES ASSUME ~overlapped, NEW c \in adminCalls', Removes(c)
               PROVE  /\ \E b \in AdminUser \ {c.user} : Governs(b)'
                      /\ \A d \in adminCalls' : Removes(d) => d = c
    BY DEF OneRemoves, Removes, Governs
  <2>1. c \in adminCalls /\ \A d \in adminCalls' : Removes(d) => d \in adminCalls
    BY DEF Removes
  <2> QED
    BY <2>1 DEF AdminInv, OneRemoves
<1>4. SuperRemains'
  BY DEF AdminInv, SuperRemains, Governs
<1>5. ClaimsHold'
  <2>1. ASSUME NEW x, x.user \in AdminUser, ClaimHolds(x) PROVE x.claim /\ ~x.raced => accounts'[x.user].super
    BY <2>1 DEF ClaimHolds
  <2>2. ASSUME NEW s \in AdminSession, sessions'[s] # NoSession
        PROVE  sessions'[s].claim /\ ~sessions'[s].raced => accounts'[sessions'[s].user].super
    <3>1. sessions'[s] \in SessionRow /\ sessions'[s].user \in AdminUser
      BY <2>2 DEF SessionRow
    <3>2. ClaimHolds(sessions'[s])
      BY <2>2 DEF AdminInv, ClaimsHold
    <3> QED
      BY <3>1, <3>2, <2>1
  <2>3. ASSUME NEW c \in adminCalls', c.kind \in {"complete", "refresh"}
        PROVE  c.claim /\ ~c.raced => accounts'[c.user].super
    <3>1. c.user \in AdminUser /\ c.kind # "update" /\ c.kind # "login"
      BY <2>3 DEF AdminCall, LoginCall, CompleteCall, RefreshCall, UpdateCall
    <3>2. ClaimHolds(c)
      BY <2>3, <3>1 DEF AdminInv, ClaimsHold
    <3> QED
      BY <3>1, <3>2, <2>1
  <2> QED
    BY <2>2, <2>3 DEF ClaimsHold, ClaimHolds
<1>6. CallsOfAccounts'
  <2> SUFFICES ASSUME NEW c \in adminCalls' PROVE Exists(c.user)'
    BY DEF CallsOfAccounts, Exists
  <2>1. c.user \in AdminUser
    BY DEF AdminCall, LoginCall, CompleteCall, RefreshCall, UpdateCall
  <2> QED
    BY <2>1 DEF AdminInv, CallsOfAccounts
<1> QED
  BY <1>1, <1>2, <1>3, <1>4, <1>5, <1>6 DEF AdminInv

LEMMA CallTypes ==
  ASSUME AdminInv, NEW c \in adminCalls
  PROVE  /\ c.user \in AdminUser /\ c \in AdminCall
         /\ c.kind = "login" => c \in LoginCall
         /\ c.kind = "complete" => c \in CompleteCall
         /\ c.kind = "refresh" => c \in RefreshCall
         /\ c.kind = "update" => c \in UpdateCall
BY DEF AdminInv, AdminShape, AdminCall, LoginCall, CompleteCall, RefreshCall, UpdateCall

LEMMA BeginSteps ==
  ASSUME AdminInv, UNCHANGED <<accounts, sessions, overlapped>>, NEW call \in AdminCall, Began(call),
         call.kind # "update", Exists(call.user), call.kind # "login" => ClaimHolds(call)
  PROVE  AdminInv'
<1>1. /\ adminCalls' \subseteq AdminCall /\ IsFiniteSet(adminCalls') /\ Cardinality(adminCalls') <= MaxAdminCalls
      /\ adminCalls' = adminCalls \cup {call}
  BY CallAdded
<1>2. /\ accounts' \in [AdminUser -> AccountRow]
      /\ sessions' \in [AdminSession -> SessionRow \cup {NoSession}]
      /\ \A s \in AdminSession : sessions'[s] = sessions[s]
      /\ \A b \in AdminUser : accounts'[b].super = accounts[b].super
      /\ \A b \in AdminUser : Exists(b)' <=> Exists(b)
      /\ \A b \in AdminUser : Governs(b) => Governs(b)'
  BY DEF AdminInv, AdminShape, Exists, Governs
<1> HIDE DEF Began
<1> QED
  BY <1>1, <1>2, QuietStep

LEMMA LoginBegins == ASSUME AdminInv, NEW a \in AdminUser, login(a) PROVE AdminInv'
<1> DEFINE call == [kind |-> "login", user |-> a, status |-> accounts[a].status, failed |-> accounts[a].failed]
<1>1. call \in AdminCall /\ call.kind = "login" /\ Exists(call.user)
  BY DEF Exists, login, AdminCall, LoginCall, AdminInv, AdminShape, AccountRow
<1>2. Began(call) /\ UNCHANGED <<accounts, sessions, overlapped>>
  BY DEF login
<1> HIDE DEF call
<1> QED
  BY <1>1, <1>2, BeginSteps

LEMMA CompleteBegins == ASSUME AdminInv, NEW a \in AdminUser, completeMfaLogin(a) PROVE AdminInv'
<1> DEFINE call == [kind |-> "complete", user |-> a, claim |-> accounts[a].super, raced |-> FALSE]
<1>1. call \in AdminCall /\ call.kind = "complete" /\ ClaimHolds(call) /\ Exists(call.user)
  BY DEF Exists, completeMfaLogin, AdminCall, CompleteCall, AdminInv, AdminShape, AccountRow, ClaimHolds
<1>2. Began(call) /\ UNCHANGED <<accounts, sessions, overlapped>>
  BY DEF completeMfaLogin
<1> HIDE DEF call
<1> QED
  BY <1>1, <1>2, BeginSteps

LEMMA RefreshBegins == ASSUME AdminInv, NEW s \in AdminSession, refresh(s) PROVE AdminInv'
<1> DEFINE a == sessions[s].user
           call == [kind |-> "refresh", user |-> a, session |-> s, claim |-> accounts[a].super,
                    raced |-> sessions[s].raced]
<1>1. sessions[s] \in SessionRow /\ a \in AdminUser /\ accounts[a] \in AccountRow
  BY DEF refresh, Authenticated, AdminInv, AdminShape, SessionRow
<1>2. call \in AdminCall /\ call.kind = "refresh" /\ ClaimHolds(call) /\ Exists(call.user)
  BY <1>1 DEF Exists, refresh, Authenticated, AdminCall, RefreshCall, AccountRow, SessionRow, ClaimHolds
<1>3. Began(call) /\ UNCHANGED <<accounts, sessions, overlapped>>
  BY DEF refresh
<1> HIDE DEF call
<1> QED
  BY <1>2, <1>3, BeginSteps

(* A handler ends, saves its account and leaves the sessions or opens one.  *)
LEMMA EndSteps ==
  ASSUME AdminInv, overlapped' = overlapped, NEW call, Ended(call), NEW a \in AdminUser, NEW row \in AccountRow,
         Exists(a), row.super = accounts[a].super,
         row.status \in {"active", "locked"} \/ row.status = accounts[a].status,
         accounts' = [accounts EXCEPT ![a] = row],
         sessions' \in [AdminSession -> SessionRow \cup {NoSession}],
         \A s \in AdminSession : sessions'[s] \in {NoSession, sessions[s]} \/ ClaimHolds(sessions'[s])
  PROVE  AdminInv'
<1>1. /\ accounts' \in [AdminUser -> AccountRow]
      /\ \A b \in AdminUser : accounts'[b].super = accounts[b].super
      /\ \A b \in AdminUser : Exists(b)' <=> Exists(b)
      /\ \A b \in AdminUser : Governs(b) => Governs(b)'
  BY AccountSaved
<1>2. adminCalls' \subseteq adminCalls /\ IsFiniteSet(adminCalls') /\ Cardinality(adminCalls') <= MaxAdminCalls
  BY CallRemoved
<1>3. adminCalls' \subseteq AdminCall
  BY <1>2 DEF AdminInv, AdminShape
<1> QED
  BY <1>1, <1>2, <1>3, QuietStep

LEMMA Unlocked ==
  ASSUME NEW old \in AccountRow
  PROVE  LET row == [old EXCEPT !.status = "active", !.failed = 0, !.barred = FALSE]
         IN  row \in AccountRow /\ row.super = old.super /\ row.status = "active"
<1>1. 0 \in 0..MaxFailedLogins
  OBVIOUS
<1> QED
  BY <1>1 DEF AccountRow

LEMMA PasswordSteps ==
  ASSUME AdminInv, NEW call \in adminCalls, PasswordMatches(call) \/ recordFailedLogin(call) PROVE AdminInv'
<1> DEFINE a == call.user
<1>1. a \in AdminUser /\ Exists(a) /\ accounts[a] \in AccountRow /\ call \in LoginCall
  BY CallTypes DEF AdminInv, AdminShape, CallsOfAccounts, PasswordMatches, recordFailedLogin
<1>2. Ended(call) /\ UNCHANGED <<sessions, overlapped>>
  BY DEF PasswordMatches, recordFailedLogin
<1>3. sessions' \in [AdminSession -> SessionRow \cup {NoSession}]
      /\ \A s \in AdminSession : sessions'[s] \in {NoSession, sessions[s]} \/ ClaimHolds(sessions'[s])
  BY <1>2 DEF AdminInv, AdminShape
<1>4. CASE PasswordMatches(call)
  <2> DEFINE row == [accounts[a] EXCEPT !.status = "active", !.failed = 0, !.barred = FALSE]
  <2>1. row \in AccountRow /\ row.super = accounts[a].super /\ row.status = "active"
    BY <1>1, Unlocked
  <2>2. accounts' = [accounts EXCEPT ![a] = row]
    BY <1>1, <1>4 DEF PasswordMatches, AdminInv, AdminShape, AccountRow
  <2> HIDE DEF row
  <2> QED
    BY <1>1, <1>2, <1>3, <2>1, <2>2, EndSteps
<1>5. CASE recordFailedLogin(call)
  <2> DEFINE failures == IF call.failed = MaxFailedLogins THEN MaxFailedLogins ELSE call.failed + 1
             locks == failures = MaxFailedLogins
             row == [accounts[a] EXCEPT !.failed = failures, !.status = IF locks THEN "locked" ELSE call.status,
                                        !.barred = locks]
  <2>1. failures \in 0..MaxFailedLogins /\ locks \in BOOLEAN
        /\ (IF locks THEN "locked" ELSE call.status) \in {"active", "locked"}
    BY <1>1 DEF LoginCall
  <2>2. accounts' = [accounts EXCEPT ![a] = row]
    BY <1>1, <1>5 DEF recordFailedLogin, AdminInv, AdminShape, AccountRow
  <2> HIDE DEF failures, locks
  <2>3. row \in AccountRow /\ row.super = accounts[a].super /\ row.status \in {"active", "locked"}
    BY <1>1, <2>1 DEF AccountRow
  <2> HIDE DEF row
  <2> QED
    BY <1>1, <1>2, <1>3, <2>2, <2>3, EndSteps
<1> QED
  BY <1>4, <1>5

LEMMA LockoutStep == ASSUME AdminInv, NEW a \in AdminUser, LockoutEnds(a) PROVE AdminInv'
<1>1. /\ accounts' \in [AdminUser -> AccountRow]
      /\ \A b \in AdminUser : accounts'[b].super = accounts[b].super /\ accounts'[b].status = accounts[b].status
  BY DEF LockoutEnds, AdminInv, AdminShape, AccountRow
<1>2. UNCHANGED <<sessions, adminCalls, overlapped>>
  BY DEF LockoutEnds
<1> QED
  BY <1>1, <1>2, QuietStep DEF AdminInv, AdminShape, Exists, Governs

LEMMA SessionSteps ==
  ASSUME AdminInv, \/ \E s \in AdminSession : logout(s)
                   \/ \E call \in adminCalls : SaveRefreshed(call)
  PROVE  AdminInv'
<1>1. UNCHANGED <<accounts, overlapped>>
  BY DEF logout, SaveRefreshed
<1>2. /\ accounts' \in [AdminUser -> AccountRow]
      /\ \A b \in AdminUser : accounts'[b].super = accounts[b].super
      /\ \A b \in AdminUser : Exists(b)' <=> Exists(b)
      /\ \A b \in AdminUser : Governs(b) => Governs(b)'
  BY <1>1 DEF AdminInv, AdminShape, Exists, Governs
<1>3. ASSUME NEW s \in AdminSession, logout(s) PROVE AdminInv'
  <2>1. /\ sessions' \in [AdminSession -> SessionRow \cup {NoSession}]
        /\ \A x \in AdminSession : sessions'[x] \in {NoSession, sessions[x]}
        /\ UNCHANGED adminCalls
    BY <1>3 DEF logout, AdminInv, AdminShape
  <2> QED
    BY <1>1, <1>2, <2>1, QuietStep DEF AdminInv, AdminShape
<1>4. ASSUME NEW call \in adminCalls, SaveRefreshed(call) PROVE AdminInv'
  <2> DEFINE row == [user |-> call.user, claim |-> call.claim, raced |-> call.raced]
  <2>1. call \in RefreshCall /\ ClaimHolds(call) /\ Ended(call)
    BY <1>4, CallTypes DEF SaveRefreshed, AdminInv, ClaimsHold
  <2>2. row \in SessionRow /\ ClaimHolds(row)
    BY <2>1 DEF RefreshCall, SessionRow, ClaimHolds
  <2>3. sessions' = [sessions EXCEPT ![call.session] = row]
    BY <1>4 DEF SaveRefreshed
  <2> HIDE DEF row
  <2>4. /\ sessions' \in [AdminSession -> SessionRow \cup {NoSession}]
        /\ \A x \in AdminSession : sessions'[x] \in {NoSession, sessions[x]} \/ ClaimHolds(sessions'[x])
    BY <2>1, <2>2, <2>3 DEF AdminInv, AdminShape, RefreshCall
  <2>5. adminCalls' \subseteq adminCalls /\ IsFiniteSet(adminCalls') /\ Cardinality(adminCalls') <= MaxAdminCalls
    BY <2>1, CallRemoved
  <2>6. adminCalls' \subseteq AdminCall
    BY <2>5 DEF AdminInv, AdminShape
  <2> QED
    BY <1>1, <1>2, <2>4, <2>5, <2>6, QuietStep
<1> QED
  BY <1>3, <1>4

LEMMA SessionOpened ==
  ASSUME AdminInv, NEW s \in AdminSession, NEW a \in AdminUser, NEW claim \in BOOLEAN, NEW raced \in BOOLEAN,
         OpenSession(s, a, claim, raced)
  PROVE  /\ sessions' \in [AdminSession -> SessionRow \cup {NoSession}]
         /\ \A x \in AdminSession : sessions'[x] = IF x = s THEN [user |-> a, claim |-> claim, raced |-> raced]
                                                   ELSE sessions[x]
BY DEF OpenSession, AdminInv, AdminShape, SessionRow

LEMMA SessionCreated ==
  ASSUME AdminInv, NEW call \in adminCalls, NEW s \in AdminSession, createSession(call, s) PROVE AdminInv'
<1> DEFINE a == call.user
           row == [accounts[a] EXCEPT !.status = "active", !.failed = 0, !.barred = FALSE]
           opened == [user |-> a, claim |-> call.claim, raced |-> call.raced]
<1>1. /\ a \in AdminUser /\ Exists(a) /\ accounts[a] \in AccountRow /\ call \in CompleteCall /\ ClaimHolds(call)
      /\ Ended(call) /\ UNCHANGED overlapped
  BY CallTypes DEF AdminInv, AdminShape, CallsOfAccounts, createSession, ClaimsHold
<1>2. row \in AccountRow /\ row.super = accounts[a].super /\ row.status = "active"
  BY <1>1, Unlocked
<1>3. accounts' = [accounts EXCEPT ![a] = row]
  BY <1>1 DEF createSession, AdminInv, AdminShape, AccountRow
<1>4. ClaimHolds(opened)
  BY <1>1 DEF ClaimHolds
<1>5. /\ sessions' \in [AdminSession -> SessionRow \cup {NoSession}]
      /\ \A x \in AdminSession : sessions'[x] = IF x = s THEN opened ELSE sessions[x]
  BY <1>1, SessionOpened DEF createSession, CompleteCall
<1> HIDE DEF row, opened
<1> QED
  BY <1>1, <1>2, <1>3, <1>4, <1>5, EndSteps

(* A new account, the first one or one a super administrator created.       *)
LEMMA AccountCreated ==
  ASSUME AdminInv, NEW a \in AdminUser, NEW super \in BOOLEAN, ~Exists(a),
         UNCHANGED <<adminCalls, overlapped>>,
         accounts' = [accounts EXCEPT ![a] = [NoAccount EXCEPT !.status = "active", !.super = super]],
         (\E b \in AdminUser : Exists(b)) \/ super,
         sessions' \in [AdminSession -> SessionRow \cup {NoSession}],
         \A s \in AdminSession : sessions'[s] = sessions[s] \/ (sessions'[s].user = a /\ super)
  PROVE  AdminInv'
<1> DEFINE row == [NoAccount EXCEPT !.status = "active", !.super = super]
<1>1. row \in AccountRow /\ row.super = super /\ row.status = "active"
  <2>1. NoAccount \in AccountRow
    BY DEF NoAccount, AccountRow
  <2> QED
    BY <2>1 DEF AccountRow
<1> HIDE DEF row
<1>2. /\ accounts' \in [AdminUser -> AccountRow]
      /\ \A b \in AdminUser : accounts'[b] = IF b = a THEN row ELSE accounts[b]
  BY <1>1 DEF AdminInv, AdminShape, row
<1>3. ~accounts[a].super /\ a \notin {c.user : c \in adminCalls}
  BY DEF AdminInv, AdminShape, CallsOfAccounts
<1>4. \A b \in AdminUser : accounts[b].super => accounts'[b] = accounts[b]
  BY <1>2, <1>3
<1>5. \A b \in AdminUser : (Governs(b) => Governs(b)') /\ (Exists(b) => Exists(b)')
  BY <1>1, <1>2, <1>4 DEF Governs, Exists
<1>6. AdminShape'
  BY <1>1, <1>2 DEF AdminInv, AdminShape, Exists
<1>7. \A c \in adminCalls : c.user \in AdminUser /\ accounts'[c.user] = accounts[c.user]
  BY <1>2, <1>3, CallTypes
<1>8. CallsOfAccounts' /\ UpdatesHold'
  BY <1>7 DEF AdminInv, CallsOfAccounts, UpdatesHold, Exists
<1>9. OneRemoves'
  BY <1>5 DEF AdminInv, OneRemoves, Governs, Removes
<1>10. SuperRemains'
  BY <1>1, <1>2, <1>5 DEF AdminInv, SuperRemains, Governs, Exists
<1>11. ClaimsHold'
  <2>1. ASSUME NEW s \in AdminSession, sessions'[s] # NoSession PROVE ClaimHolds(sessions[s])' 
    <3>1. CASE sessions'[s] = sessions[s]
      <4>1. sessions[s].user \in AdminUser /\ ClaimHolds(sessions[s])
        BY <2>1, <3>1 DEF AdminInv, AdminShape, SessionRow, ClaimsHold
      <4> QED
        BY <3>1, <4>1, <1>4 DEF ClaimHolds
    <3>2. CASE sessions'[s].user = a /\ super
      BY <3>2, <1>1, <1>2 DEF ClaimHolds
    <3> QED
      BY <3>1, <3>2
  <2>2. ASSUME NEW c \in adminCalls, c.kind \in {"complete", "refresh"}
        PROVE  c.claim /\ ~c.raced => accounts'[c.user].super
    BY <2>2, <1>7 DEF AdminInv, ClaimsHold, ClaimHolds
  <2> QED
    BY <2>1, <2>2 DEF ClaimsHold, ClaimHolds
<1> QED
  BY <1>6, <1>8, <1>9, <1>10, <1>11 DEF AdminInv

LEMMA CreateSteps ==
  ASSUME AdminInv, NEW a \in AdminUser, NEW s \in AdminSession,
         initialize(a, s) \/ \E super \in BOOLEAN : createUser(s, a, super)
  PROVE  AdminInv'
<1>1. CASE initialize(a, s)
  <2>1. /\ sessions' \in [AdminSession -> SessionRow \cup {NoSession}]
        /\ \A x \in AdminSession : sessions'[x] = IF x = s THEN [user |-> a, claim |-> TRUE, raced |-> FALSE]
                                                  ELSE sessions[x]
    BY <1>1, SessionOpened DEF initialize
  <2>2. ~Exists(a) /\ UNCHANGED <<adminCalls, overlapped>>
        /\ accounts' = [accounts EXCEPT ![a] = [NoAccount EXCEPT !.status = "active", !.super = TRUE]]
    BY <1>1 DEF initialize
  <2>3. \A x \in AdminSession : sessions'[x] = sessions[x] \/ (sessions'[x].user = a /\ TRUE)
    BY <2>1
  <2>4. TRUE \in BOOLEAN /\ ((\E b \in AdminUser : Exists(b)) \/ TRUE)
    OBVIOUS
  <2> QED
    BY <2>1, <2>2, <2>3, <2>4, AccountCreated
<1>2. ASSUME NEW super \in BOOLEAN, createUser(s, a, super) PROVE AdminInv'
  <2>1. /\ ~Exists(a) /\ UNCHANGED <<sessions, adminCalls, overlapped>>
        /\ accounts' = [accounts EXCEPT ![a] = [NoAccount EXCEPT !.status = "active", !.super = super]]
        /\ SuperActor(s)
    BY <1>2 DEF createUser
  <2>2. sessions[s].user \in AdminUser /\ Exists(sessions[s].user)
    BY <2>1 DEF SuperActor, Authenticated, Exists, AdminInv, AdminShape, SessionRow
  <2>3. sessions' \in [AdminSession -> SessionRow \cup {NoSession}] /\ \A x \in AdminSession : sessions'[x] = sessions[x]
    BY <2>1 DEF AdminInv, AdminShape
  <2> QED
    BY <2>1, <2>2, <2>3, AccountCreated
<1> QED
  BY <1>1, <1>2

(* A change of an account that reads it.                                    *)
LEMMA UpdateBegins ==
  ASSUME AdminInv, NEW s \in AdminSession, NEW a \in AdminUser,
         NEW status \in {Unchanged, "active", "disabled", "locked"}, NEW super \in {Unchanged, "super", "other"},
         updateUser(s, a, status, super)
  PROVE  AdminInv'
<1> DEFINE after == [status |-> IF status = Unchanged THEN accounts[a].status ELSE status,
                     super |-> IF super = Unchanged THEN accounts[a].super ELSE super = "super"]
           removes == accounts[a].super /\ ~(after.super /\ after.status = "active")
           call == [kind |-> "update", user |-> a, after |-> after, reset |-> status = "active", removes |-> removes]
<1>1. /\ SuperActor(s) /\ Exists(a) /\ ~RowLocked(a) /\ (removes => AnotherActiveSuper(a)) /\ Began(call)
      /\ overlapped' = (overlapped \/ (removes /\ \E c \in adminCalls : Removes(c)))
      /\ UNCHANGED <<accounts, sessions>>
  BY DEF updateUser
<1>2. after \in [status : {"active", "disabled", "locked"}, super : BOOLEAN]
  BY <1>1 DEF AdminInv, AdminShape, AccountRow, Exists, Unchanged
<1>3. removes \in BOOLEAN /\ (accounts[a].super => removes \/ (after.super /\ after.status = "active"))
  BY <1>2 DEF AdminInv, AdminShape, AccountRow
<1> HIDE DEF after, removes
<1>4. call \in AdminCall /\ call.kind = "update" /\ call.user = a /\ (Removes(call) <=> removes)
  BY <1>2, <1>3 DEF AdminCall, UpdateCall, Removes
<1>5. /\ adminCalls' \subseteq AdminCall /\ IsFiniteSet(adminCalls') /\ Cardinality(adminCalls') <= MaxAdminCalls
      /\ adminCalls' = adminCalls \cup {call} /\ ~overlapped
  BY <1>1, <1>4, CallAdded
<1>6. CallsOfAccounts' /\ UpdatesHold'
  <2>1. call.after = after /\ call.removes = removes
    OBVIOUS
  <2>2. \A c \in adminCalls : c.kind = "update" => c.user # a
    BY <1>1 DEF RowLocked
  <2> HIDE DEF call
  <2> QED
    BY <1>1, <1>3, <1>4, <1>5, <2>1, <2>2 DEF AdminInv, CallsOfAccounts, UpdatesHold, Exists
<1>7. removes => \E b \in AdminUser \ {a} : Governs(b)
  BY <1>1 DEF AnotherActiveSuper, Governs
<1> HIDE DEF call
<1>8. OneRemoves'
  <2> SUFFICES ASSUME ~overlapped', NEW c \in adminCalls', Removes(c)
               PROVE  /\ \E b \in AdminUser \ {c.user} : Governs(b)
                      /\ \A d \in adminCalls' : Removes(d) => d = c
    BY <1>1 DEF OneRemoves, Removes, Governs
  <2>1. CASE removes
    <3>1. \A d \in adminCalls' : Removes(d) => d = call
      BY <1>1, <1>5, <2>1
    <3> QED
      BY <1>4, <1>7, <2>1, <3>1
  <2>2. CASE ~removes
    <3>1. \A d \in adminCalls' : Removes(d) => d \in adminCalls
      BY <1>4, <1>5, <2>2
    <3> QED
      BY <1>5, <3>1 DEF AdminInv, OneRemoves
  <2> QED
    BY <2>1, <2>2
<1>9. ClaimsHold'
  BY <1>1, <1>4, <1>5 DEF AdminInv, ClaimsHold, ClaimHolds
<1>10. AdminShape'
  <2>1. overlapped' \in BOOLEAN
    BY <1>1, <1>3
  <2> QED
    BY <1>1, <1>5, <2>1 DEF AdminInv, AdminShape, Exists
<1>11. SuperRemains'
  <2>1. overlapped' \/ ~overlapped
    BY <1>5
  <2> QED
    BY <1>1, <1>5 DEF AdminInv, SuperRemains, Exists
<1> QED
  BY <1>6, <1>8, <1>9, <1>10, <1>11 DEF AdminInv

(* The commit.  It marks the handlers of the account; their number is no    *)
(* larger than before.                                                      *)
Marked(c, a) == IF c.user = a /\ c.kind \in {"complete", "refresh"} THEN [c EXCEPT !.raced = TRUE] ELSE c

OthersMarked(call, a) == {Marked(c, a) : c \in adminCalls \ {call}}

LEMMA MarkedCalls ==
  ASSUME AdminInv, NEW call \in adminCalls, NEW a
  PROVE  /\ IsFiniteSet(OthersMarked(call, a))
         /\ Cardinality(OthersMarked(call, a)) <= MaxAdminCalls
         /\ OthersMarked(call, a) \subseteq AdminCall
<1> DEFINE rest == adminCalls \ {call}
           marked == OthersMarked(call, a)
           f == [c \in rest |-> Marked(c, a)]
<1>1. IsFiniteSet(rest) /\ Cardinality(rest) <= MaxAdminCalls /\ Cardinality(rest) \in Nat
  <2>1. IsFiniteSet(adminCalls) /\ Cardinality(adminCalls) <= MaxAdminCalls /\ rest \in SUBSET adminCalls
    BY DEF AdminInv, AdminShape
  <2>2. IsFiniteSet(rest) /\ Cardinality(rest) <= Cardinality(adminCalls)
    BY <2>1, FS_Subset
  <2> QED
    BY <2>1, <2>2, FS_CardinalityType
<1>2. f \in Surjection(rest, marked)
  BY DEF Surjection, OthersMarked
<1> HIDE DEF f, rest, marked
<1>3. IsFiniteSet(marked) /\ Cardinality(marked) <= Cardinality(rest)
  BY <1>1, <1>2, FS_Surjection
<1>4. Cardinality(marked) \in Nat
  BY <1>3, FS_CardinalityType
<1>5. \A c \in adminCalls : Marked(c, a) \in AdminCall
  <2> SUFFICES ASSUME NEW c \in adminCalls, c.kind \in {"complete", "refresh"} PROVE [c EXCEPT !.raced = TRUE] \in AdminCall
    BY CallTypes DEF Marked
  <2>1. c \in CompleteCall => [c EXCEPT !.raced = TRUE] \in CompleteCall
    BY DEF CompleteCall
  <2>2. c \in RefreshCall => [c EXCEPT !.raced = TRUE] \in RefreshCall
    BY DEF RefreshCall
  <2> QED
    BY <2>1, <2>2, CallTypes DEF AdminCall
<1>6. marked \subseteq AdminCall
  BY <1>5 DEF marked, OthersMarked
<1>7. Cardinality(marked) <= MaxAdminCalls
  BY <1>1, <1>3, <1>4 DEF AdminInv, AdminShape
<1> QED
  BY <1>3, <1>6, <1>7 DEF marked

LEMMA CommitUserStep == ASSUME AdminInv, NEW call \in adminCalls, CommitUser(call) PROVE AdminInv'
<1> DEFINE a == call.user
           row == [accounts[a] EXCEPT !.status = call.after.status, !.super = call.after.super,
                     !.failed = IF call.reset THEN 0 ELSE @, !.barred = IF call.reset THEN FALSE ELSE @]
<1>1. /\ call.kind = "update" /\ call \in UpdateCall /\ a \in AdminUser /\ accounts[a] \in AccountRow /\ Exists(a)
      /\ accounts[a].super => call.removes \/ (call.after.super /\ call.after.status = "active")
      /\ \A d \in adminCalls : d.kind = "update" /\ d.user = a => d = call
  BY CallTypes DEF CommitUser, AdminInv, AdminShape, CallsOfAccounts, UpdatesHold
<1>2. /\ accounts' = [accounts EXCEPT ![a] = row]
      /\ sessions' = RevokeAll(a)
      /\ adminCalls' = OthersMarked(call, a)
      /\ UNCHANGED overlapped
  <2>1. accounts' = [accounts EXCEPT ![a] = row]
    BY <1>1 DEF CommitUser, AdminInv, AdminShape, AccountRow
  <2> QED
    BY <2>1 DEF CommitUser, Marked, OthersMarked
<1>3. row \in AccountRow /\ row.status = call.after.status /\ row.super = call.after.super /\ row.status # "none"
  <2>1. (IF call.reset THEN 0 ELSE accounts[a].failed) \in 0..MaxFailedLogins
        /\ (IF call.reset THEN FALSE ELSE accounts[a].barred) \in BOOLEAN
    <3>1. 0 \in 0..MaxFailedLogins /\ accounts[a].failed \in 0..MaxFailedLogins /\ accounts[a].barred \in BOOLEAN
      BY <1>1 DEF AccountRow
    <3> QED
      BY <3>1
  <2>2. call.after.status \in {"active", "disabled", "locked"} /\ call.after.super \in BOOLEAN
    BY <1>1 DEF UpdateCall
  <2> QED
    BY <1>1, <2>1, <2>2 DEF AccountRow
<1> HIDE DEF row
<1>4. /\ accounts' \in [AdminUser -> AccountRow]
      /\ \A b \in AdminUser : accounts'[b] = IF b = a THEN row ELSE accounts[b]
  BY <1>1, <1>2, <1>3 DEF AdminInv, AdminShape
<1>5. \A b \in AdminUser : Exists(b)' <=> Exists(b)
  BY <1>1, <1>3, <1>4 DEF Exists
<1>6. IsFiniteSet(adminCalls') /\ Cardinality(adminCalls') <= MaxAdminCalls /\ adminCalls' \subseteq AdminCall
  BY <1>2, MarkedCalls
<1>7. sessions' \in [AdminSession -> SessionRow \cup {NoSession}]
      /\ \A s \in AdminSession : sessions'[s] # NoSession => sessions'[s] = sessions[s] /\ sessions[s].user # a
  BY <1>2 DEF RevokeAll, AdminInv, AdminShape
<1>8. AdminShape'
  <2>1. overlapped' \in BOOLEAN
    BY <1>2 DEF AdminInv, AdminShape
  <2>2. \A b \in AdminUser : ~Exists(b)' => ~accounts'[b].super
    BY <1>1, <1>4, <1>5 DEF AdminInv, AdminShape
  <2> QED
    BY <1>4, <1>6, <1>7, <2>1, <2>2 DEF AdminShape
<1>9. ASSUME NEW d \in adminCalls'
      PROVE  \E c \in adminCalls \ {call} :
               /\ d.kind = c.kind /\ d.user = c.user /\ c.user \in AdminUser
               /\ c.kind = "update" => d = c
               /\ c.kind \in {"complete", "refresh"} => d.claim = c.claim /\ (d.raced = TRUE \/ (d = c /\ c.user # a))
  <2>1. PICK c \in adminCalls \ {call} : d = Marked(c, a)
    BY <1>2 DEF OthersMarked
  <2>2. c.user \in AdminUser /\ (c.kind = "complete" => c \in CompleteCall) /\ (c.kind = "refresh" => c \in RefreshCall)
    BY CallTypes
  <2> QED
    BY <2>1, <2>2 DEF Marked, CompleteCall, RefreshCall
<1>10. CallsOfAccounts'
  <2> SUFFICES ASSUME NEW d \in adminCalls' PROVE Exists(d.user)'
    BY DEF CallsOfAccounts, Exists
  <2>1. PICK c \in adminCalls : d.user = c.user /\ c.user \in AdminUser
    BY <1>9
  <2> QED
    BY <1>5, <2>1 DEF AdminInv, CallsOfAccounts
<1>11. \A d \in adminCalls' : d.kind = "update" => d \in adminCalls /\ d # call /\ d.user \in AdminUser /\ d.user # a
  <2> SUFFICES ASSUME NEW d \in adminCalls', d.kind = "update"
               PROVE  d \in adminCalls /\ d # call /\ d.user \in AdminUser /\ d.user # a
    OBVIOUS
  <2>1. PICK c \in adminCalls \ {call} : d = Marked(c, a)
    BY <1>2 DEF OthersMarked
  <2>2. d = c /\ c.user \in AdminUser
    BY <2>1, CallTypes DEF Marked, CompleteCall, RefreshCall
  <2> QED
    BY <1>1, <2>1, <2>2
<1>12. UpdatesHold'
  <2>1. ASSUME NEW d \in adminCalls', d.kind = "update"
        PROVE  /\ accounts'[d.user].super => d.removes \/ (d.after.super /\ d.after.status = "active")
               /\ \A x \in adminCalls' : x.kind = "update" /\ x.user = d.user => x = d
    <3>1. d \in adminCalls /\ d.user \in AdminUser /\ accounts'[d.user] = accounts[d.user]
      BY <2>1, <1>4, <1>11
    <3> QED
      BY <2>1, <3>1, <1>11 DEF AdminInv, UpdatesHold
  <2> QED
    BY <2>1 DEF UpdatesHold
<1>13. ASSUME NEW b \in AdminUser, Governs(b), b # a \/ ~Removes(call) PROVE Governs(b)'
  <2>1. CASE b # a
    BY <1>4, <1>13, <2>1 DEF Governs
  <2>2. CASE b = a
    <3>1. call.after.super /\ call.after.status = "active"
      BY <1>1, <1>13, <2>2 DEF Governs, Removes
    <3> QED
      BY <1>3, <1>4, <2>2, <3>1 DEF Governs
  <2> QED
    BY <2>1, <2>2
<1>14. OneRemoves'
  <2> SUFFICES ASSUME ~overlapped, NEW c \in adminCalls', Removes(c)
               PROVE  /\ \E b \in AdminUser \ {c.user} : Governs(b)'
                      /\ \A d \in adminCalls' : Removes(d) => d = c
    BY <1>2 DEF OneRemoves, Removes, Governs
  <2>1. c \in adminCalls /\ c # call /\ \A d \in adminCalls' : Removes(d) => d \in adminCalls
    BY <1>11 DEF Removes
  <2>2. /\ \E b \in AdminUser \ {c.user} : Governs(b)
        /\ \A d \in adminCalls : Removes(d) => d = c
    BY <2>1 DEF AdminInv, OneRemoves
  <2>3. ~Removes(call)
    BY <2>1, <2>2
  <2> QED
    BY <1>13, <2>1, <2>2, <2>3
<1>15. SuperRemains'
  <2> SUFFICES ASSUME \E b \in AdminUser : Exists(b)', ~overlapped PROVE \E b \in AdminUser : Governs(b)'
    BY <1>2 DEF SuperRemains, Governs, Exists
  <2>1. CASE Removes(call)
    <3>1. \E b \in AdminUser \ {a} : Governs(b)
      BY <2>1 DEF AdminInv, OneRemoves
    <3> QED
      BY <1>13, <3>1
  <2>2. CASE ~Removes(call)
    <3>1. \E b \in AdminUser : Governs(b)
      BY <1>5 DEF AdminInv, SuperRemains, Governs
    <3> QED
      BY <1>13, <2>2, <3>1
  <2> QED
    BY <2>1, <2>2
<1>16. ClaimsHold'
  <2>1. ASSUME NEW s \in AdminSession, sessions'[s] # NoSession
        PROVE  sessions'[s].claim /\ ~sessions'[s].raced => accounts'[sessions'[s].user].super
    <3>1. sessions'[s] = sessions[s] /\ sessions[s].user # a /\ sessions[s].user \in AdminUser
      BY <1>7, <2>1 DEF AdminInv, AdminShape, SessionRow
    <3>2. ClaimHolds(sessions[s])
      BY <2>1, <3>1 DEF AdminInv, ClaimsHold
    <3> QED
      BY <1>4, <3>1, <3>2 DEF ClaimHolds
  <2>2. ASSUME NEW d \in adminCalls', d.kind \in {"complete", "refresh"}
        PROVE  d.claim /\ ~d.raced => accounts'[d.user].super
    <3>1. PICK c \in adminCalls : /\ d.kind = c.kind /\ d.user = c.user /\ c.user \in AdminUser
                                 /\ d.claim = c.claim /\ (d.raced = TRUE \/ (d = c /\ c.user # a))
      BY <1>9, <2>2
    <3>2. ClaimHolds(c)
      BY <2>2, <3>1 DEF AdminInv, ClaimsHold
    <3> QED
      BY <1>4, <3>1, <3>2 DEF ClaimHolds
  <2> QED
    BY <2>1, <2>2 DEF ClaimsHold, ClaimHolds
<1> QED
  BY <1>8, <1>10, <1>12, <1>14, <1>15, <1>16 DEF AdminInv

LEMMA AdminStep == AdminInv /\ [AdminNext]_adminVars => AdminInv'
<1> SUFFICES ASSUME AdminInv, [AdminNext]_adminVars PROVE AdminInv'
  OBVIOUS
<1>1. CASE UNCHANGED adminVars
  BY <1>1 DEF adminVars, AdminInv, AdminShape, CallsOfAccounts, UpdatesHold, OneRemoves, SuperRemains, ClaimsHold,
     Exists, Governs, Removes, ClaimHolds
<1>2. ASSUME NEW a \in AdminUser, login(a) \/ LockoutEnds(a) \/ completeMfaLogin(a) PROVE AdminInv'
  BY <1>2, LoginBegins, LockoutStep, CompleteBegins
<1>3. ASSUME NEW a \in AdminUser, NEW s \in AdminSession,
             \/ initialize(a, s)
             \/ \E super \in BOOLEAN : createUser(s, a, super)
             \/ \E status \in {Unchanged, "active", "disabled", "locked"}, super \in {Unchanged, "super", "other"} :
                  updateUser(s, a, status, super)
      PROVE  AdminInv'
  BY <1>3, CreateSteps, UpdateBegins
<1>4. ASSUME NEW s \in AdminSession, refresh(s) \/ logout(s) PROVE AdminInv'
  BY <1>4, RefreshBegins, SessionSteps
<1>5. ASSUME NEW call \in adminCalls,
             \/ PasswordMatches(call) \/ recordFailedLogin(call) \/ SaveRefreshed(call) \/ CommitUser(call)
             \/ \E s \in AdminSession : createSession(call, s)
      PROVE  AdminInv'
  BY <1>5, PasswordSteps, SessionSteps, CommitUserStep, SessionCreated
<1> QED
  BY <1>1, <1>2, <1>3, <1>4, <1>5 DEF AdminNext

LEMMA AdminKept == AdminInv => AdminTypeOK /\ SuperRemains /\ ClaimsCurrent
<1> SUFFICES ASSUME AdminInv PROVE AdminTypeOK /\ ClaimsCurrent
  BY DEF AdminInv
<1>1. AdminTypeOK
  <2>1. SessionRow \subseteq [user : AdminUser \cup {"noone"}, claim : BOOLEAN, raced : BOOLEAN]
    BY DEF SessionRow
  <2>2. NoSession \in [user : AdminUser \cup {"noone"}, claim : BOOLEAN, raced : BOOLEAN]
    BY DEF NoSession
  <2> QED
    BY <2>1, <2>2 DEF AdminInv, AdminShape, AdminTypeOK, AccountRow
<1>2. ClaimsCurrent
  BY DEF AdminInv, ClaimsHold, ClaimHolds, ClaimsCurrent, SuperActor, Authenticated
<1> QED
  BY <1>1, <1>2

-----------------------------------------------------------------------------
CaseStatus ==
  {"NONE", "DRAFT", "PROCESSING", "MANUAL_REVIEW", "FAILED", "APPROVED", "REJECTED", "RESUBMISSION_REQUIRED"}
WalletRow == [kind : WalletKind, currency : WalletCurrency, status : {"ACTIVE", "SUSPENDED", "CLOSED"}, main : BOOLEAN]
ReviewRow == [case : 1..LastCase, action : {"APPROVE", "REJECT", "REQUEST_RESUBMISSION"}, approved : BOOLEAN]

CustomerShape ==
  /\ profile \in [exists : BOOLEAN, status : {"ACTIVE", "SUSPENDED"}, kyc : 0..2]
  /\ kycCases \in [1..LastCase -> [status : CaseStatus, clear : BOOLEAN]]
  /\ opening \in [status : {"NONE", "PENDING_KYC", "READY_TO_OPEN", "KYC_REJECTED", "OPENED"},
                  kind : WalletKind \cup {"none"}, currency : WalletCurrency \cup {"none"}]
  /\ opening.status # "NONE" => opening.kind \in WalletKind /\ opening.currency \in WalletCurrency
  /\ wallets \in [WalletId -> WalletRow \cup {NoWallet}]
  /\ reviews \subseteq ReviewRow
  /\ answering \subseteq 1..LastCase /\ kycRaced \in BOOLEAN

(* The customer's own number is the first wallet: no main wallet is opened  *)
(* beside another.                                                          *)
OwnNumberFirst == \A w \in WalletId : wallets[w] # NoWallet => wallets[OwnNumber] # NoWallet

(* A review holds its case where it found it.                               *)
CasesHeld ==
  \A r \in reviews : kycCases[r.case].status = "MANUAL_REVIEW" /\ \A q \in reviews : q.case = r.case => q = r

(* A review that runs alone knows whether there is an approved case.        *)
ReviewsAware ==
  ~kycRaced => \A r \in reviews :
    /\ r.approved <=> r.action = "APPROVE" \/ ApprovedCases # {}
    /\ \A q \in reviews : q = r

CustomerInv ==
  CustomerShape /\ OwnNumberFirst /\ MainWalletUsable /\ CasesHeld /\ ReviewsAware /\ KycAgrees

LEMMA CustomerStart == CustomerInit => CustomerInv
<1> SUFFICES ASSUME CustomerInit PROVE CustomerInv
  OBVIOUS
<1>1. CustomerShape
  <2>1. [status |-> "NONE", clear |-> FALSE] \in [status : CaseStatus, clear : BOOLEAN]
    BY DEF CaseStatus
  <2>2. kycCases \in [1..LastCase -> [status : CaseStatus, clear : BOOLEAN]]
    BY <2>1 DEF CustomerInit
  <2>3. profile \in [exists : BOOLEAN, status : {"ACTIVE", "SUSPENDED"}, kyc : 0..2]
    BY DEF CustomerInit
  <2>4. /\ opening \in [status : {"NONE", "PENDING_KYC", "READY_TO_OPEN", "KYC_REJECTED", "OPENED"},
                         kind : WalletKind \cup {"none"}, currency : WalletCurrency \cup {"none"}]
        /\ opening.status = "NONE"
    BY DEF CustomerInit
  <2>5. /\ wallets \in [WalletId -> WalletRow \cup {NoWallet}] /\ reviews \subseteq ReviewRow
        /\ answering \subseteq 1..LastCase /\ kycRaced \in BOOLEAN
    BY DEF CustomerInit
  <2> QED
    BY <2>2, <2>3, <2>4, <2>5 DEF CustomerShape
<1>2. \A w \in WalletId : wallets[w] = NoWallet
  BY DEF CustomerInit
<1>3. ApprovedCases = {} /\ profile.kyc = 0 /\ opening.status = "NONE" /\ reviews = {}
  BY DEF CustomerInit, ApprovedCases
<1> QED
  BY <1>1, <1>2, <1>3 DEF CustomerInv, OwnNumberFirst, MainWalletUsable, CasesHeld, ReviewsAware, KycAgrees, NoWallet

(* The case a new identity check takes is free.                             *)
LEMMA FirstFreeCase ==
  ASSUME FreeCases # {}
  PROVE  (CHOOSE k \in FreeCases : \A j \in FreeCases : k <= j) \in FreeCases
<1> DEFINE Before == {ss \in Nat \X Nat : ss[1] < ss[2]}
<1>1. IsWellFoundedOn(Before, Nat)
  BY NatLessThanWellFounded DEF OpToRel
<1>2. FreeCases \in SUBSET Nat
  BY CustomerAssumption DEF FreeCases, CustomerAssumption
<1> HIDE DEF Before
<1>3. PICK k \in FreeCases : \A j \in FreeCases : ~(<<j, k>> \in Before)
  BY <1>1, <1>2, WFMin
<1>4. ASSUME NEW j \in FreeCases PROVE k <= j
  <2>1. <<j, k>> \in Nat \X Nat => (j < k => <<j, k>> \in Before)
    BY DEF Before
  <2> QED
    BY <1>2, <1>3, <2>1
<1> QED
  BY <1>4

(* The wallets.                                                             *)
WalletsSound == wallets \in [WalletId -> WalletRow \cup {NoWallet}] /\ OwnNumberFirst /\ MainWalletUsable

LEMMA NoMainOfNone == NoWallet.main = FALSE /\ NoWallet.status = "none" /\ NoWallet.kind = "none"
BY DEF NoWallet

LEMMA DefaultWallet ==
  ASSUME CustomerInv, NEW kind \in WalletKind, NEW currency \in WalletCurrency,
         insertDefaultWallet(kind, currency), wallets[OwnNumber] = NoWallet
  PROVE  /\ WalletsSound'
         /\ \A w \in WalletId : wallets'[w].kind = "restricted" => kind = "restricted"
<1> DEFINE row == [kind |-> kind, currency |-> currency, status |-> "ACTIVE", main |-> TRUE]
<1>1. /\ wallets' = [wallets EXCEPT ![OwnNumber] = row] /\ OwnNumber \in WalletId
      /\ wallets \in [WalletId -> WalletRow \cup {NoWallet}]
      /\ \A w \in WalletId : wallets[w] = NoWallet
  BY CustomerAssumption
     DEF insertDefaultWallet, CustomerInv, CustomerShape, OwnNumberFirst, CustomerAssumption
<1>2. row \in WalletRow /\ row # NoWallet /\ row.main = TRUE /\ row.status = "ACTIVE" /\ row.kind = kind
  BY DEF WalletRow, NoWallet
<1> HIDE DEF row
<1>3. wallets' \in [WalletId -> WalletRow \cup {NoWallet}]
      /\ \A w \in WalletId : wallets'[w] = IF w = OwnNumber THEN row ELSE NoWallet
  BY <1>1, <1>2
<1>4. MainWallets' = {OwnNumber} /\ wallets'[OwnNumber].status = "ACTIVE"
  BY <1>1, <1>2, <1>3, NoMainOfNone DEF MainWallets
<1> QED
  BY <1>1, <1>2, <1>3, <1>4, NoMainOfNone DEF WalletsSound, OwnNumberFirst, MainWalletUsable

LEMMA AdditionalWallet ==
  ASSUME CustomerInv, NEW w \in WalletId, NEW kind \in WalletKind, NEW currency \in WalletCurrency,
         createAdditional(w, kind, currency)
  PROVE  WalletsSound' /\ \A v \in WalletId : wallets'[v].kind = IF v = w THEN kind ELSE wallets[v].kind
<1> DEFINE row == [kind |-> kind, currency |-> currency, status |-> "ACTIVE", main |-> FALSE]
<1>1. /\ wallets' = [wallets EXCEPT ![w] = row] /\ w # OwnNumber /\ wallets[w] = NoWallet
      /\ wallets \in [WalletId -> WalletRow \cup {NoWallet}]
      /\ MainWallets # {}
  BY DEF createAdditional, CustomerInv, CustomerShape
<1>2. row \in WalletRow /\ row # NoWallet /\ row.main = FALSE /\ row.kind = kind
  BY DEF WalletRow, NoWallet
<1> HIDE DEF row
<1>3. wallets' \in [WalletId -> WalletRow \cup {NoWallet}]
      /\ \A v \in WalletId : wallets'[v] = IF v = w THEN row ELSE wallets[v]
  BY <1>1, <1>2
<1>4. PICK m \in MainWallets : wallets[m] # NoWallet
  BY <1>1, NoMainOfNone DEF MainWallets
<1>5. PICK x \in WalletId : MainWallets = {x} /\ wallets[x].status = "ACTIVE"
  BY <1>4 DEF CustomerInv, MainWalletUsable, MainWallets
<1>6. x # w
  BY <1>1, <1>5, NoMainOfNone
<1>7. MainWallets' = MainWallets
  BY <1>1, <1>2, <1>3, NoMainOfNone DEF MainWallets
<1>8. wallets[OwnNumber] # NoWallet /\ OwnNumber \in WalletId
  BY <1>4, CustomerAssumption DEF CustomerInv, OwnNumberFirst, MainWallets, CustomerAssumption
<1> QED
  BY <1>1, <1>2, <1>3, <1>5, <1>6, <1>7, <1>8 DEF WalletsSound, OwnNumberFirst, MainWalletUsable

LEMMA DefaultSet ==
  ASSUME CustomerInv, NEW w \in WalletId, setDefault(w)
  PROVE  WalletsSound' /\ \A v \in WalletId : wallets'[v].kind = wallets[v].kind
<1>1. /\ wallets' = [v \in WalletId |-> [wallets[v] EXCEPT !.main = (v = w)]]
      /\ wallets \in [WalletId -> WalletRow \cup {NoWallet}] /\ wallets[w].status = "ACTIVE" /\ wallets[w] # NoWallet
  BY NoMainOfNone DEF setDefault, CustomerInv, CustomerShape
<1>2. ASSUME NEW v \in WalletId
      PROVE  /\ wallets'[v] \in WalletRow \cup {NoWallet} /\ (wallets'[v] # NoWallet <=> wallets[v] # NoWallet)
             /\ wallets'[v].kind = wallets[v].kind /\ wallets'[v].status = wallets[v].status
             /\ wallets'[v].main <=> v = w
  <2>1. CASE wallets[v] = NoWallet
    <3>1. v # w
      BY <1>1, <2>1
    <3>2. wallets'[v] = NoWallet
      <4>1. wallets'[v] = [NoWallet EXCEPT !.main = (v = w)] /\ (v = w) = FALSE
        BY <1>1, <2>1, <3>1
      <4>2. NoWallet \in [kind : {"none"}, currency : {"none"}, status : {"none"}, main : BOOLEAN]
        BY DEF NoWallet
      <4>3. ASSUME NEW b, b = FALSE PROVE [NoWallet EXCEPT !.main = b] = NoWallet
        BY <4>2, <4>3, NoMainOfNone
      <4> QED
        BY <4>1, <4>3
    <3> QED
      BY <2>1, <3>1, <3>2, NoMainOfNone
  <2>2. CASE wallets[v] \in WalletRow
    <3>1. wallets'[v] = [wallets[v] EXCEPT !.main = (v = w)]
      BY <1>1
    <3>2. wallets'[v] \in WalletRow /\ wallets'[v].kind = wallets[v].kind /\ wallets'[v].status = wallets[v].status
          /\ wallets'[v].main = (v = w) /\ wallets'[v].status # "none" /\ wallets[v].status # "none"
      BY <2>2, <3>1 DEF WalletRow
    <3> QED
      BY <3>2, NoMainOfNone
  <2> QED
    BY <1>1, <2>1, <2>2
<1>3. MainWallets' = {w}
  BY <1>2 DEF MainWallets
<1>4. wallets' \in [WalletId -> WalletRow \cup {NoWallet}]
  BY <1>1, <1>2
<1> QED
  BY <1>1, <1>2, <1>3, <1>4, CustomerAssumption
     DEF WalletsSound, OwnNumberFirst, MainWalletUsable, CustomerInv, CustomerAssumption

LEMMA StatusChanged ==
  ASSUME CustomerInv, NEW w \in WalletId, NEW status \in {"ACTIVE", "SUSPENDED", "CLOSED"}, changeStatus(w, status)
  PROVE  WalletsSound' /\ \A v \in WalletId : wallets'[v].kind = wallets[v].kind
<1> DEFINE row == [wallets[w] EXCEPT !.status = status]
<1>1. /\ wallets' = [wallets EXCEPT ![w] = row] /\ wallets[w] \in WalletRow /\ MayBecome(w, status)
      /\ wallets \in [WalletId -> WalletRow \cup {NoWallet}] /\ wallets[w] # NoWallet
  BY DEF changeStatus, CustomerInv, CustomerShape
<1>2. row \in WalletRow /\ row # NoWallet /\ row.main = wallets[w].main /\ row.kind = wallets[w].kind
      /\ (row.main => row.status = "ACTIVE")
  BY <1>1, NoMainOfNone DEF WalletRow, MayBecome
<1> HIDE DEF row
<1>3. wallets' \in [WalletId -> WalletRow \cup {NoWallet}]
      /\ \A v \in WalletId : wallets'[v] = IF v = w THEN row ELSE wallets[v]
  BY <1>1, <1>2
<1>4. MainWallets' = MainWallets
  BY <1>2, <1>3 DEF MainWallets
<1>5. PICK x \in WalletId : MainWallets = {x} /\ wallets[x].status = "ACTIVE"
  BY <1>1 DEF CustomerInv, MainWalletUsable
<1>6. wallets'[x].status = "ACTIVE"
  BY <1>2, <1>3, <1>5 DEF MainWallets
<1>7. OwnNumberFirst'
  BY <1>1, <1>2, <1>3, CustomerAssumption DEF OwnNumberFirst, CustomerInv, CustomerAssumption
<1> QED
  BY <1>2, <1>3, <1>4, <1>5, <1>6, <1>7 DEF WalletsSound, MainWalletUsable

(* Operations that leave the identity cases and their reviews alone.        *)
LEMMA WalletSteps ==
  ASSUME CustomerInv, WalletsSound', UNCHANGED <<kycCases, reviews, answering, kycRaced>>,
         profile' \in [exists : BOOLEAN, status : {"ACTIVE", "SUSPENDED"}, kyc : 0..2],
         opening' \in [status : {"NONE", "PENDING_KYC", "READY_TO_OPEN", "KYC_REJECTED", "OPENED"},
                       kind : WalletKind \cup {"none"}, currency : WalletCurrency \cup {"none"}],
         opening'.status # "NONE" => opening'.kind \in WalletKind /\ opening'.currency \in WalletCurrency,
         profile'.kyc = profile.kyc \/ (profile'.kyc = 1 /\ ApprovedCases # {}),
         opening'.status = "READY_TO_OPEN" => opening.status = "READY_TO_OPEN",
         \A w \in WalletId : wallets'[w].kind = "restricted" =>
           ApprovedCases # {} \/ \E v \in WalletId : wallets[v].kind = "restricted"
  PROVE  CustomerInv'
<1>1. CustomerShape'
  BY DEF CustomerInv, CustomerShape, WalletsSound
<1>2. ApprovedCases' = ApprovedCases
  BY DEF ApprovedCases
<1>3. CasesHeld' /\ ReviewsAware'
  BY <1>2 DEF CustomerInv, CasesHeld, ReviewsAware
<1>4. KycAgrees'
  BY <1>2 DEF CustomerInv, KycAgrees
<1> QED
  BY <1>1, <1>3, <1>4 DEF CustomerInv, WalletsSound

(* Operations on identity cases that decide none and touch none a review    *)
(* holds.                                                                   *)
LEMMA CaseSteps ==
  ASSUME CustomerInv, UNCHANGED <<profile, opening, wallets, reviews>>, answering' \subseteq 1..LastCase,
         kycCases' \in [1..LastCase -> [status : CaseStatus, clear : BOOLEAN]],
         \A r \in reviews : kycCases'[r.case] = kycCases[r.case],
         (kycRaced' = kycRaced /\ ApprovedCases' = ApprovedCases) \/ kycRaced' = TRUE
  PROVE  CustomerInv'
<1>1. CustomerShape'
  BY DEF CustomerInv, CustomerShape
<1>2. OwnNumberFirst' /\ MainWalletUsable'
  BY DEF CustomerInv, OwnNumberFirst, MainWalletUsable, MainWallets
<1>3. CasesHeld'
  BY DEF CustomerInv, CasesHeld
<1>4. ReviewsAware' /\ KycAgrees'
  BY DEF CustomerInv, ReviewsAware, KycAgrees
<1> QED
  BY <1>1, <1>2, <1>3, <1>4 DEF CustomerInv

LEMMA CaseMoved ==
  ASSUME CustomerInv, NEW k \in 1..LastCase, NEW row \in [status : CaseStatus, clear : BOOLEAN],
         kycCases' = [kycCases EXCEPT ![k] = row]
  PROVE  /\ kycCases' \in [1..LastCase -> [status : CaseStatus, clear : BOOLEAN]]
         /\ kycCases[k].status # "APPROVED" /\ row.status # "APPROVED" => ApprovedCases' = ApprovedCases
         /\ kycCases[k].status # "MANUAL_REVIEW" \/ ~UnderReview(k) =>
              \A r \in reviews : kycCases'[r.case] = kycCases[r.case]
<1>1. kycCases \in [1..LastCase -> [status : CaseStatus, clear : BOOLEAN]]
      /\ \A r \in reviews : r.case \in 1..LastCase /\ kycCases[r.case].status = "MANUAL_REVIEW"
  BY DEF CustomerInv, CustomerShape, CasesHeld, ReviewRow
<1>2. kycCases' \in [1..LastCase -> [status : CaseStatus, clear : BOOLEAN]]
      /\ \A j \in 1..LastCase : kycCases'[j] = IF j = k THEN row ELSE kycCases[j]
  BY <1>1
<1>3. kycCases[k].status # "APPROVED" /\ row.status # "APPROVED" => ApprovedCases' = ApprovedCases
  BY <1>2 DEF ApprovedCases
<1> QED
  BY <1>1, <1>2, <1>3 DEF UnderReview

LEMMA CaseCreated ==
  ASSUME CustomerInv, FreeCases # {}, NewCase
  PROVE  /\ kycCases' \in [1..LastCase -> [status : CaseStatus, clear : BOOLEAN]]
         /\ ApprovedCases' = ApprovedCases
         /\ \A r \in reviews : kycCases'[r.case] = kycCases[r.case]
<1> DEFINE k == CHOOSE k \in FreeCases : \A j \in FreeCases : k <= j
           row == [kycCases[k] EXCEPT !.status = "DRAFT"]
<1>1. k \in 1..LastCase /\ kycCases[k].status = "NONE"
  BY FirstFreeCase DEF FreeCases
<1>2. kycCases' = [kycCases EXCEPT ![k].status = "DRAFT"]
  BY DEF NewCase
<1> HIDE DEF k
<1>3. kycCases[k] \in [status : CaseStatus, clear : BOOLEAN]
  BY <1>1 DEF CustomerInv, CustomerShape
<1>4. row \in [status : CaseStatus, clear : BOOLEAN] /\ row.status = "DRAFT"
  BY <1>3 DEF CaseStatus
<1>5. kycCases' = [kycCases EXCEPT ![k] = row]
  BY <1>2
<1> HIDE DEF row
<1> QED
  BY <1>1, <1>4, <1>5, CaseMoved

LEMMA VerificationSteps ==
  ASSUME CustomerInv, NEW k \in 1..LastCase,
         \/ SubmitKyc(k) \/ VerificationFails(k) \/ AnswerRead(k) \/ AnswerFails(k)
         \/ \E clear \in BOOLEAN : StoreResult(k, clear)
  PROVE  CustomerInv'
<1>1. kycCases[k] \in [status : CaseStatus, clear : BOOLEAN] /\ answering \subseteq 1..LastCase /\ kycRaced \in BOOLEAN
  BY DEF CustomerInv, CustomerShape
<1>2. \A status \in CaseStatus : [kycCases[k] EXCEPT !.status = status] \in [status : CaseStatus, clear : BOOLEAN]
        /\ [kycCases[k] EXCEPT !.status = status].status = status
  BY <1>1
<1>3. CASE SubmitKyc(k)
  <2>1. kycCases' = [kycCases EXCEPT ![k] = [kycCases[k] EXCEPT !.status = "PROCESSING"]] /\ "PROCESSING" \in CaseStatus
    BY <1>3 DEF SubmitKyc, CaseStatus
  <2>2. kycCases[k].status # "MANUAL_REVIEW" /\ kycCases[k].status # "APPROVED"
        /\ UNCHANGED <<profile, opening, wallets, reviews, answering, kycRaced>>
    BY <1>3 DEF SubmitKyc
  <2> QED
    BY <1>1, <1>2, <2>1, <2>2, CaseMoved, CaseSteps
<1>4. CASE VerificationFails(k)
  <2>1. kycCases' = [kycCases EXCEPT ![k] = [kycCases[k] EXCEPT !.status = "FAILED"]] /\ "FAILED" \in CaseStatus
    BY <1>4 DEF VerificationFails, CaseStatus
  <2>2. kycCases[k].status # "MANUAL_REVIEW" /\ kycCases[k].status # "APPROVED"
        /\ UNCHANGED <<profile, opening, wallets, reviews, answering, kycRaced>>
    BY <1>4 DEF VerificationFails
  <2> QED
    BY <1>1, <1>2, <2>1, <2>2, CaseMoved, CaseSteps
<1>5. CASE AnswerRead(k)
  <2>1. UNCHANGED <<profile, kycCases, opening, wallets, reviews, kycRaced>> /\ answering' \subseteq 1..LastCase
    BY <1>1, <1>5 DEF AnswerRead
  <2>2. ApprovedCases' = ApprovedCases /\ kycCases \in [1..LastCase -> [status : CaseStatus, clear : BOOLEAN]]
    BY <2>1 DEF ApprovedCases, CustomerInv, CustomerShape
  <2> QED
    BY <2>1, <2>2, CaseSteps
<1>6. CASE AnswerFails(k)
  <2>1. kycCases' = [kycCases EXCEPT ![k] = [kycCases[k] EXCEPT !.status = "FAILED"]] /\ "FAILED" \in CaseStatus
    BY <1>6 DEF AnswerFails, CaseStatus
  <2>2. ~UnderReview(k) /\ kycRaced' = TRUE /\ UNCHANGED <<profile, opening, wallets, reviews>>
        /\ answering' \subseteq 1..LastCase
    BY <1>1, <1>6 DEF AnswerFails
  <2> QED
    BY <1>2, <2>1, <2>2, CaseMoved, CaseSteps
<1>7. ASSUME NEW clear \in BOOLEAN, StoreResult(k, clear) PROVE CustomerInv'
  <2> DEFINE row == [status |-> "MANUAL_REVIEW", clear |-> clear]
  <2>1. kycCases' = [kycCases EXCEPT ![k] = row] /\ kycCases[k].status = "PROCESSING"
        /\ UNCHANGED <<profile, opening, wallets, reviews, kycRaced>> /\ answering' \subseteq 1..LastCase
    BY <1>1, <1>7 DEF StoreResult
  <2>2. row \in [status : CaseStatus, clear : BOOLEAN] /\ row.status = "MANUAL_REVIEW"
    BY DEF CaseStatus
  <2> HIDE DEF row
  <2> QED
    BY <1>1, <2>1, <2>2, CaseMoved, CaseSteps
<1> QED
  BY <1>3, <1>4, <1>5, <1>6, <1>7

LEMMA OpenStep ==
  ASSUME CustomerInv, NEW kind \in WalletKind, NEW currency \in WalletCurrency, createCustomerOpen(kind, currency)
  PROVE  CustomerInv'
<1>1. /\ wallets[OwnNumber] = NoWallet /\ KycSatisfied(kind) /\ insertDefaultWallet(kind, currency)
      /\ opening' = [status |-> "OPENED", kind |-> kind, currency |-> currency]
      /\ profile' = [profile EXCEPT !.exists = TRUE, !.kyc = IF kind = "restricted" THEN 1 ELSE @]
      /\ UNCHANGED <<kycCases, reviews, answering, kycRaced>>
  BY DEF createCustomerOpen
<1>2. profile \in [exists : BOOLEAN, status : {"ACTIVE", "SUSPENDED"}, kyc : 0..2]
  BY DEF CustomerInv, CustomerShape
<1>3. profile' \in [exists : BOOLEAN, status : {"ACTIVE", "SUSPENDED"}, kyc : 0..2]
      /\ profile'.kyc = IF kind = "restricted" THEN 1 ELSE profile.kyc
  <2> DEFINE kyc == IF kind = "restricted" THEN 1 ELSE profile.kyc
  <2>1. kyc \in 0..2
    BY <1>2
  <2>2. profile' = [profile EXCEPT !.exists = TRUE, !.kyc = kyc]
    BY <1>1, <1>2
  <2> HIDE DEF kyc
  <2>3. profile' \in [exists : BOOLEAN, status : {"ACTIVE", "SUSPENDED"}, kyc : 0..2] /\ profile'.kyc = kyc
    BY <1>2, <2>1, <2>2
  <2> QED
    BY <2>3 DEF kyc
<1>4. kind = "restricted" => ApprovedCases # {}
  BY <1>1 DEF KycSatisfied
<1>5. /\ opening' \in [status : {"NONE", "PENDING_KYC", "READY_TO_OPEN", "KYC_REJECTED", "OPENED"},
                       kind : WalletKind \cup {"none"}, currency : WalletCurrency \cup {"none"}]
      /\ opening'.kind \in WalletKind /\ opening'.currency \in WalletCurrency /\ opening'.status = "OPENED"
  BY <1>1
<1>6. WalletsSound' /\ \A w \in WalletId : wallets'[w].kind = "restricted" => kind = "restricted"
  BY <1>1, DefaultWallet
<1> QED
  BY <1>1, <1>3, <1>4, <1>5, <1>6, WalletSteps

LEMMA CompleteStep == ASSUME CustomerInv, completeCustomerAccountOpening PROVE CustomerInv'
<1>1. /\ wallets[OwnNumber] = NoWallet /\ KycSatisfied(opening.kind) /\ opening.status # "NONE"
      /\ insertDefaultWallet(opening.kind, opening.currency)
      /\ opening' = [opening EXCEPT !.status = "OPENED"]
      /\ profile' = [profile EXCEPT !.kyc = IF opening.kind = "restricted" THEN 1 ELSE @]
      /\ UNCHANGED <<kycCases, reviews, answering, kycRaced>>
  BY DEF completeCustomerAccountOpening
<1>2. profile \in [exists : BOOLEAN, status : {"ACTIVE", "SUSPENDED"}, kyc : 0..2]
      /\ opening.kind \in WalletKind /\ opening.currency \in WalletCurrency
  BY <1>1 DEF CustomerInv, CustomerShape
<1>3. profile' \in [exists : BOOLEAN, status : {"ACTIVE", "SUSPENDED"}, kyc : 0..2]
      /\ profile'.kyc = IF opening.kind = "restricted" THEN 1 ELSE profile.kyc
  BY <1>1, <1>2
<1>4. opening.kind = "restricted" => ApprovedCases # {}
  BY <1>1 DEF KycSatisfied
<1>5. /\ opening' \in [status : {"NONE", "PENDING_KYC", "READY_TO_OPEN", "KYC_REJECTED", "OPENED"},
                       kind : WalletKind \cup {"none"}, currency : WalletCurrency \cup {"none"}]
      /\ opening'.kind \in WalletKind /\ opening'.currency \in WalletCurrency /\ opening'.status = "OPENED"
  BY <1>1, <1>2 DEF CustomerInv, CustomerShape
<1>6. WalletsSound' /\ \A w \in WalletId : wallets'[w].kind = "restricted" => opening.kind = "restricted"
  BY <1>1, <1>2, DefaultWallet
<1> QED
  BY <1>1, <1>3, <1>4, <1>5, <1>6, WalletSteps

LEMMA WalletsStill == ASSUME CustomerInv, UNCHANGED wallets PROVE WalletsSound'
BY DEF CustomerInv, CustomerShape, WalletsSound, OwnNumberFirst, MainWalletUsable, MainWallets

LEMMA LaterWalletSteps ==
  ASSUME CustomerInv, NEW w \in WalletId,
         \/ \E kind \in WalletKind, currency \in WalletCurrency : createAdditional(w, kind, currency)
         \/ setDefault(w)
         \/ \E status \in {"ACTIVE", "SUSPENDED", "CLOSED"} : changeStatus(w, status)
  PROVE  CustomerInv'
<1>1. UNCHANGED <<profile, kycCases, opening, reviews, answering, kycRaced>>
  BY DEF createAdditional, setDefault, changeStatus
<1>2. /\ profile' \in [exists : BOOLEAN, status : {"ACTIVE", "SUSPENDED"}, kyc : 0..2]
      /\ opening' \in [status : {"NONE", "PENDING_KYC", "READY_TO_OPEN", "KYC_REJECTED", "OPENED"},
                       kind : WalletKind \cup {"none"}, currency : WalletCurrency \cup {"none"}]
      /\ opening'.status # "NONE" => opening'.kind \in WalletKind /\ opening'.currency \in WalletCurrency
  BY <1>1 DEF CustomerInv, CustomerShape
<1>3. ASSUME NEW kind \in WalletKind, NEW currency \in WalletCurrency, createAdditional(w, kind, currency)
      PROVE  CustomerInv'
  <2>1. kind = "restricted" => ApprovedCases # {}
    BY <1>3 DEF createAdditional, KycSatisfied
  <2>2. WalletsSound' /\ \A v \in WalletId : wallets'[v].kind = IF v = w THEN kind ELSE wallets[v].kind
    BY <1>3, AdditionalWallet
  <2>3. \A v \in WalletId : wallets'[v].kind = "restricted" =>
          ApprovedCases # {} \/ \E x \in WalletId : wallets[x].kind = "restricted"
    BY <2>1, <2>2
  <2> QED
    BY <1>1, <1>2, <2>2, <2>3, WalletSteps
<1>4. CASE setDefault(w) \/ \E status \in {"ACTIVE", "SUSPENDED", "CLOSED"} : changeStatus(w, status)
  <2>1. WalletsSound' /\ \A v \in WalletId : wallets'[v].kind = wallets[v].kind
    BY <1>4, DefaultSet, StatusChanged
  <2> QED
    BY <1>1, <1>2, <2>1, WalletSteps
<1> QED
  BY <1>3, <1>4

LEMMA ProfileStep ==
  ASSUME CustomerInv, NEW status \in {"ACTIVE", "SUSPENDED"}, changeCustomerStatus(status) PROVE CustomerInv'
<1>1. /\ profile' = [profile EXCEPT !.status = status]
      /\ UNCHANGED <<kycCases, opening, wallets, reviews, answering, kycRaced>>
  BY DEF changeCustomerStatus
<1>2. /\ profile' \in [exists : BOOLEAN, status : {"ACTIVE", "SUSPENDED"}, kyc : 0..2] /\ profile'.kyc = profile.kyc
      /\ opening' \in [status : {"NONE", "PENDING_KYC", "READY_TO_OPEN", "KYC_REJECTED", "OPENED"},
                       kind : WalletKind \cup {"none"}, currency : WalletCurrency \cup {"none"}]
      /\ opening'.status # "NONE" => opening'.kind \in WalletKind /\ opening'.currency \in WalletCurrency
  BY <1>1 DEF CustomerInv, CustomerShape
<1> QED
  BY <1>1, <1>2, WalletsStill, WalletSteps

LEMMA CaseOpened == ASSUME CustomerInv, createKycCase PROVE CustomerInv'
<1>1. FreeCases # {} /\ NewCase /\ UNCHANGED <<profile, opening, wallets, reviews, answering, kycRaced>>
  BY DEF createKycCase
<1>2. answering' \subseteq 1..LastCase
  BY <1>1 DEF CustomerInv, CustomerShape
<1> QED
  BY <1>1, <1>2, CaseCreated, CaseSteps

LEMMA PendingStep ==
  ASSUME CustomerInv, NEW currency \in WalletCurrency, createCustomerPending(currency) PROVE CustomerInv'
<1>1. /\ IF PendingCases = {} THEN FreeCases # {} /\ NewCase ELSE UNCHANGED kycCases
      /\ opening' = [status |-> "PENDING_KYC", kind |-> "restricted", currency |-> currency]
      /\ profile' = [profile EXCEPT !.exists = TRUE]
      /\ UNCHANGED <<wallets, reviews, answering, kycRaced>>
  BY DEF createCustomerPending
<1>2. /\ kycCases' \in [1..LastCase -> [status : CaseStatus, clear : BOOLEAN]]
      /\ ApprovedCases' = ApprovedCases
      /\ \A r \in reviews : kycCases'[r.case] = kycCases[r.case]
  <2>1. CASE UNCHANGED kycCases
    BY <2>1 DEF CustomerInv, CustomerShape, ApprovedCases
  <2>2. CASE FreeCases # {} /\ NewCase
    BY <2>2, CaseCreated
  <2> QED
    BY <1>1, <2>1, <2>2
<1>3. /\ profile' \in [exists : BOOLEAN, status : {"ACTIVE", "SUSPENDED"}, kyc : 0..2] /\ profile'.kyc = profile.kyc
      /\ opening' \in [status : {"NONE", "PENDING_KYC", "READY_TO_OPEN", "KYC_REJECTED", "OPENED"},
                       kind : WalletKind \cup {"none"}, currency : WalletCurrency \cup {"none"}]
      /\ opening'.kind \in WalletKind /\ opening'.currency \in WalletCurrency /\ opening'.status = "PENDING_KYC"
  BY <1>1 DEF CustomerInv, CustomerShape, WalletKind
<1>4. CustomerShape'
  BY <1>1, <1>2, <1>3 DEF CustomerInv, CustomerShape
<1>5. CasesHeld' /\ ReviewsAware' /\ KycAgrees'
  BY <1>1, <1>2, <1>3 DEF CustomerInv, CasesHeld, ReviewsAware, KycAgrees
<1> QED
  BY <1>1, <1>4, <1>5, WalletsStill DEF CustomerInv, WalletsSound

LEMMA ReviewBegins ==
  ASSUME CustomerInv, NEW k \in 1..LastCase, NEW action \in DOMAIN Decision, review(k, action) PROVE CustomerInv'
<1> DEFINE r == [case |-> k, action |-> action, approved |-> action = "APPROVE" \/ ApprovedCases # {}]
<1>1. /\ kycCases[k].status = "MANUAL_REVIEW" /\ ~UnderReview(k) /\ reviews' = reviews \cup {r}
      /\ kycRaced' = (kycRaced \/ reviews # {})
      /\ UNCHANGED <<profile, kycCases, opening, wallets, answering>>
  BY DEF review
<1>2. action \in {"APPROVE", "REJECT", "REQUEST_RESUBMISSION"}
  BY DEF Decision
<1>3. /\ r \in ReviewRow /\ r.case = k /\ r.action = action
      /\ r.approved <=> action = "APPROVE" \/ ApprovedCases # {}
  BY <1>2 DEF ReviewRow
<1> HIDE DEF r
<1>4. CustomerShape'
  <2>1. kycRaced' \in BOOLEAN
    BY <1>1 DEF CustomerInv, CustomerShape
  <2> QED
    BY <1>1, <1>3, <2>1 DEF CustomerInv, CustomerShape
<1>5. CasesHeld'
  BY <1>1, <1>3 DEF CustomerInv, CasesHeld, UnderReview
<1>6. ApprovedCases' = ApprovedCases
  BY <1>1 DEF ApprovedCases
<1>7. ReviewsAware'
  BY <1>1, <1>3, <1>6 DEF ReviewsAware
<1>8. KycAgrees'
  BY <1>1, <1>6 DEF CustomerInv, KycAgrees
<1> QED
  BY <1>1, <1>4, <1>5, <1>7, <1>8, WalletsStill DEF CustomerInv, WalletsSound

LEMMA Decisions ==
  ASSUME NEW r \in ReviewRow
  PROVE  Decision[r.action] = CASE r.action = "APPROVE" -> "APPROVED"
                                [] r.action = "REJECT" -> "REJECTED"
                                [] r.action = "REQUEST_RESUBMISSION" -> "RESUBMISSION_REQUIRED"
BY DEF ReviewRow, Decision

LEMMA ReviewCommits == ASSUME CustomerInv, NEW r \in reviews, CommitReview(r) PROVE CustomerInv'
<1> DEFINE k == r.case
           row == [kycCases[k] EXCEPT !.status = Decision[r.action]]
<1>1. /\ reviews' = reviews \ {r}
      /\ kycCases' = [kycCases EXCEPT ![k] = row]
      /\ profile' = [profile EXCEPT !.kyc = ProfileStatus(r)]
      /\ UNCHANGED <<wallets, answering, kycRaced>>
  BY DEF CommitReview
<1>2. /\ r \in ReviewRow /\ k \in 1..LastCase /\ kycCases[k].status = "MANUAL_REVIEW"
      /\ kycCases[k] \in [status : CaseStatus, clear : BOOLEAN]
      /\ kycCases \in [1..LastCase -> [status : CaseStatus, clear : BOOLEAN]]
  BY DEF CustomerInv, CustomerShape, CasesHeld, ReviewRow
<1>3. Decision[r.action] \in CaseStatus /\ (Decision[r.action] = "APPROVED" <=> r.action = "APPROVE")
  BY <1>2, Decisions DEF ReviewRow, CaseStatus
<1>4. row \in [status : CaseStatus, clear : BOOLEAN] /\ (row.status = "APPROVED" <=> r.action = "APPROVE")
  BY <1>2, <1>3
<1> HIDE DEF row
<1>5. /\ kycCases' \in [1..LastCase -> [status : CaseStatus, clear : BOOLEAN]]
      /\ \A j \in 1..LastCase : kycCases'[j] = IF j = k THEN row ELSE kycCases[j]
  BY <1>1, <1>2, <1>4
<1>6. ProfileStatus(r) \in 0..2 /\ (ProfileStatus(r) = 1 <=> r.approved)
  BY <1>2 DEF ProfileStatus, ReviewRow
<1>7. profile' \in [exists : BOOLEAN, status : {"ACTIVE", "SUSPENDED"}, kyc : 0..2] /\ profile'.kyc = ProfileStatus(r)
  BY <1>1, <1>6 DEF CustomerInv, CustomerShape
<1>8. /\ opening' \in [status : {"NONE", "PENDING_KYC", "READY_TO_OPEN", "KYC_REJECTED", "OPENED"},
                       kind : WalletKind \cup {"none"}, currency : WalletCurrency \cup {"none"}]
      /\ opening'.status # "NONE" => opening'.kind \in WalletKind /\ opening'.currency \in WalletCurrency
      /\ opening'.status = "READY_TO_OPEN" => r.approved
  <2>1. CASE opening.status \in {"NONE", "OPENED"}
    BY <2>1 DEF CommitReview, CustomerInv, CustomerShape
  <2>2. CASE opening.status \notin {"NONE", "OPENED"}
    <3> DEFINE to == IF r.approved THEN "READY_TO_OPEN" ELSE IF r.action = "REJECT" THEN "KYC_REJECTED" ELSE "PENDING_KYC"
    <3>1. opening' = [opening EXCEPT !.status = to]
      BY <2>2 DEF CommitReview
    <3>2. to \in {"PENDING_KYC", "READY_TO_OPEN", "KYC_REJECTED"} /\ (to = "READY_TO_OPEN" => r.approved)
      OBVIOUS
    <3> HIDE DEF to
    <3> QED
      BY <2>2, <3>1, <3>2 DEF CustomerInv, CustomerShape
  <2> QED
    BY <2>1, <2>2
<1>9. CustomerShape'
  BY <1>1, <1>5, <1>7, <1>8 DEF CustomerInv, CustomerShape
<1>10. CasesHeld'
  BY <1>1, <1>2, <1>5 DEF CustomerInv, CustomerShape, CasesHeld, ReviewRow
<1>11. ApprovedCases' = ApprovedCases \cup (IF r.action = "APPROVE" THEN {k} ELSE {})
  BY <1>2, <1>4, <1>5 DEF ApprovedCases
<1>12. ~kycRaced => (r.approved <=> ApprovedCases' # {}) /\ reviews' = {}
  BY <1>1, <1>11 DEF CustomerInv, ReviewsAware
<1>13. ReviewsAware'
  BY <1>1, <1>12 DEF ReviewsAware
<1>14. KycAgrees'
  BY <1>1, <1>6, <1>7, <1>8, <1>11, <1>12 DEF CustomerInv, KycAgrees
<1> QED
  BY <1>1, <1>9, <1>10, <1>13, <1>14, WalletsStill DEF CustomerInv, WalletsSound

LEMMA CustomerStep == CustomerInv /\ [CustomerNext]_customerVars => CustomerInv'
<1> SUFFICES ASSUME CustomerInv, [CustomerNext]_customerVars PROVE CustomerInv'
  OBVIOUS
<1>1. CASE UNCHANGED customerVars
  BY <1>1 DEF customerVars, CustomerInv, CustomerShape, OwnNumberFirst, MainWalletUsable, MainWallets, CasesHeld,
     ReviewsAware, KycAgrees, ApprovedCases
<1>2. ASSUME NEW currency \in WalletCurrency, createCustomerPending(currency) PROVE CustomerInv'
  BY <1>2, PendingStep
<1>3. ASSUME NEW currency \in WalletCurrency, NEW kind \in WalletKind,
             createCustomerOpen(kind, currency) \/ \E w \in WalletId : createAdditional(w, kind, currency)
      PROVE  CustomerInv'
  BY <1>3, OpenStep, LaterWalletSteps
<1>4. CASE completeCustomerAccountOpening \/ createKycCase
  BY <1>4, CompleteStep, CaseOpened
<1>5. ASSUME NEW w \in WalletId, setDefault(w) \/ \E status \in {"ACTIVE", "SUSPENDED", "CLOSED"} : changeStatus(w, status)
      PROVE  CustomerInv'
  BY <1>5, LaterWalletSteps
<1>6. CASE \E status \in {"ACTIVE", "SUSPENDED"} : changeCustomerStatus(status)
  BY <1>6, ProfileStep
<1>7. ASSUME NEW k \in 1..LastCase,
             \/ SubmitKyc(k) \/ VerificationFails(k) \/ AnswerRead(k) \/ AnswerFails(k)
             \/ \E clear \in BOOLEAN : StoreResult(k, clear)
             \/ \E action \in DOMAIN Decision : review(k, action)
      PROVE  CustomerInv'
  BY <1>7, VerificationSteps, ReviewBegins
<1>8. CASE \E r \in reviews : CommitReview(r)
  BY <1>8, ReviewCommits
<1> QED
  BY <1>1, <1>2, <1>3, <1>4, <1>5, <1>6, <1>7, <1>8 DEF CustomerNext

LEMMA CustomerKept == CustomerInv => CustomerTypeOK /\ MainWalletUsable /\ KycAgrees
BY DEF CustomerInv, CustomerShape, CustomerTypeOK, CaseStatus, WalletRow

-----------------------------------------------------------------------------
(* A customer's way through an onboarding journey.                          *)
CheckRow ==
  [status : {"NONE", "DRAFT", "PROCESSING", "SUBMITTED", "MANUAL_REVIEW", "FAILED", "APPROVED", "REJECTED",
             "RESUBMISSION_REQUIRED"},
   documents : BOOLEAN, screening : {"NONE", "CLEAR", "MATCH", "UNAVAILABLE"}]
OtpRow == [status : {"NONE", "PENDING", "VERIFIED", "LOCKED"}, attempts : Nat, sends : Nat]
InstanceRow ==
  [node : DOMAIN NodeType, status : {"IN_PROGRESS", "MANUAL_REVIEW", "COMPLETED", "EXPIRED"}, live : BOOLEAN,
   token : Nat, otp : OtpRow, case : CheckRow, wallet : {"NONE", "PENDING", "FAILED", "SUCCEEDED"}]
Registry == [status : {"NONE", "ONBOARDING", "ACTIVE"}, contact : BOOLEAN, wallet : BOOLEAN]
HandoffRow == [instance : Nat, node : DOMAIN NodeType, status : {"PENDING", "CONSUMED", "EXPIRED"}]
AllocationRow == [instance : Nat, token : Nat, step : {"NONE", "CREATE", "RECORD"}]

JourneyShape ==
  /\ instances \in Seq(InstanceRow) /\ registered \in Registry /\ handoffs \in Seq(HandoffRow)
  /\ allocating \in AllocationRow /\ verifying \subseteq DOMAIN instances

(* The nodes behind the one-time code, and those behind the identity check. *)
BehindOtp == CHOOSE S \in SUBSET DOMAIN NodeType : Guards(S, "OTP_VERIFICATION", "SUCCESS")
BehindKyc == CHOOSE S \in SUBSET DOMAIN NodeType : Guards(S, "KYC", "APPROVED")

Identified(i) == instances[i].case.status = "APPROVED"

(* Who stands at a node has passed what lies before it.                     *)
NodeEarned(n, i) == (n \in BehindKyc => Identified(i)) /\ (n \in BehindOtp => registered.contact)

InstanceEarned(i) ==
  /\ NodeEarned(instances[i].node, i)
  /\ Identified(i) => instances[i].case.screening = "CLEAR"
  /\ i \in verifying => instances[i].case.status = "PROCESSING"
  /\ instances[i].wallet = "SUCCEEDED" => registered.wallet

(* A handoff leads on from a node its instance had reached.                 *)
HandoffEarned(h) ==
  /\ handoffs[h].instance \in DOMAIN instances /\ NodeType[handoffs[h].node] = "CHANNEL_HANDOFF"
  /\ NodeEarned(handoffs[h].node, handoffs[h].instance)

AllocationEarned ==
  /\ allocating.step # "NONE" => allocating.instance \in DOMAIN instances /\ registered.contact /\ CaseApproved
  /\ allocating.step = "RECORD" => registered.wallet
  /\ registered.wallet => registered.contact /\ CaseApproved

JourneyInv ==
  /\ JourneyShape /\ AllocationEarned
  /\ \A i \in DOMAIN instances : InstanceEarned(i)
  /\ \A h \in DOMAIN handoffs : HandoffEarned(h)

LEMMA GuardsHold ==
  ASSUME WalletsGuarded
  PROVE  /\ BehindOtp \in SUBSET DOMAIN NodeType /\ Guards(BehindOtp, "OTP_VERIFICATION", "SUCCESS")
         /\ BehindKyc \in SUBSET DOMAIN NodeType /\ Guards(BehindKyc, "KYC", "APPROVED")
BY DEF WalletsGuarded, BehindOtp, BehindKyc

LEMMA JourneyStart == JourneyInit => JourneyInv
<1> SUFFICES ASSUME JourneyInit PROVE JourneyInv
  OBVIOUS
<1>1. DOMAIN instances = {} /\ DOMAIN handoffs = {} /\ verifying = {} /\ ~registered.wallet
      /\ allocating.step = "NONE"
  BY DEF JourneyInit, NoAllocation
<1>2. <<>> \in Seq(InstanceRow) /\ <<>> \in Seq(HandoffRow)
  OBVIOUS
<1>3. NoAllocation \in AllocationRow /\ [status |-> "NONE", contact |-> FALSE, wallet |-> FALSE] \in Registry
  BY DEF NoAllocation, AllocationRow, Registry
<1>4. JourneyShape
  BY <1>1, <1>2, <1>3 DEF JourneyShape, JourneyInit
<1> QED
  BY <1>1, <1>4 DEF JourneyInv, AllocationEarned

LEMMA JourneyKept == JourneyInv => WalletEarned
BY DEF JourneyInv, AllocationEarned, InstanceEarned, Identified, WalletEarned

(* What a step has to show: what it changes is earned, and no approval and  *)
(* no verified contact is lost.                                             *)
LEMMA JourneyMoves ==
  ASSUME JourneyInv,
         JourneyShape', DOMAIN instances \subseteq DOMAIN instances',
         \A i \in DOMAIN instances : Identified(i) => Identified(i)',
         \A i \in DOMAIN instances' : InstanceEarned(i)',
         registered.contact => registered'.contact,
         AllocationEarned',
         \A h \in DOMAIN handoffs' :
           \/ h \in DOMAIN handoffs /\ handoffs'[h].node = handoffs[h].node
              /\ handoffs'[h].instance = handoffs[h].instance
           \/ HandoffEarned(h)'
  PROVE  JourneyInv'
<1>1. ASSUME NEW h \in DOMAIN handoffs, handoffs'[h].node = handoffs[h].node, handoffs'[h].instance = handoffs[h].instance
      PROVE  HandoffEarned(h)'
  BY <1>1 DEF JourneyInv, HandoffEarned, NodeEarned, Identified
<1> QED
  BY <1>1 DEF JourneyInv

(* One instance changes, and the registry keeps what it says.               *)
LEMMA InstanceMoves ==
  ASSUME JourneyInv, NEW i \in DOMAIN instances, NEW row \in InstanceRow,
         instances' = [instances EXCEPT ![i] = row],
         registered' \in Registry, registered.contact => registered'.contact, registered'.wallet = registered.wallet,
         verifying' \subseteq verifying \cup {i}, i \in verifying' => row.case.status = "PROCESSING",
         row.node \in BehindKyc => row.case.status = "APPROVED",
         row.node \in BehindOtp => registered'.contact,
         Identified(i) => row.case.status = "APPROVED",
         row.case.status = "APPROVED" => row.case.screening = "CLEAR",
         row.wallet = "SUCCEEDED" => registered.wallet,
         handoffs' \in Seq(HandoffRow),
         \A h \in DOMAIN handoffs' :
           h \in DOMAIN handoffs /\ handoffs'[h].node = handoffs[h].node /\ handoffs'[h].instance = handoffs[h].instance,
         allocating' \in AllocationRow,
         allocating'.step # "NONE" => allocating'.instance \in DOMAIN instances /\ registered.contact /\ CaseApproved,
         allocating'.step = "RECORD" => registered.wallet
  PROVE  JourneyInv'
<1>1. instances' \in Seq(InstanceRow) /\ DOMAIN instances' = DOMAIN instances /\ instances'[i] = row
      /\ \A j \in DOMAIN instances \ {i} : instances'[j] = instances[j]
  BY DEF JourneyInv, JourneyShape
<1>2. JourneyShape'
  BY <1>1 DEF JourneyInv, JourneyShape
<1>3. \A j \in DOMAIN instances : Identified(j) => Identified(j)'
  BY <1>1 DEF Identified
<1>4. CaseApproved => CaseApproved'
  BY <1>1, <1>3 DEF CaseApproved, Identified
<1>5. InstanceEarned(i)'
  BY <1>1 DEF InstanceEarned, NodeEarned, Identified
<1>6. ASSUME NEW j \in DOMAIN instances \ {i} PROVE InstanceEarned(j)'
  BY <1>1 DEF JourneyInv, InstanceEarned, NodeEarned, Identified
<1>7. AllocationEarned'
  BY <1>1, <1>4 DEF JourneyInv, AllocationEarned
<1> QED
  BY <1>1, <1>2, <1>3, <1>5, <1>6, <1>7, JourneyMoves

(* A step along an edge.                                                    *)
LEMMA Advances ==
  ASSUME WalletsGuarded, JourneyInv, NEW i \in DOMAIN instances, NEW outcome, NEW rest \in InstanceRow,
         Advance(i, outcome, rest)
  PROVE  \E row \in InstanceRow :
           /\ instances' = [instances EXCEPT ![i] = row]
           /\ row.case = rest.case /\ row.wallet = rest.wallet
           /\ registered' \in Registry /\ registered'.wallet = registered.wallet
           /\ registered'.contact = (registered.contact \/ rest.otp.status = "VERIFIED")
           /\ row.node \in BehindKyc => instances[i].node \in BehindKyc \/ (Type(i) = "KYC" /\ outcome = "APPROVED")
           /\ row.node \in BehindOtp => instances[i].node \in BehindOtp \/ Type(i) = "OTP_VERIFICATION"
<1>1. PICK e \in Leads(i, outcome) :
        /\ instances' = [instances EXCEPT ![i] = [rest EXCEPT !.node = e.to, !.status = StatusAt(e.to)]]
        /\ registered' = [registered EXCEPT
             !.status = IF NodeType[e.to] = "END" /\ @ = "ONBOARDING" THEN "ACTIVE" ELSE @,
             !.contact = @ \/ rest.otp.status = "VERIFIED"]
  BY DEF Advance
<1> DEFINE row == [rest EXCEPT !.node = e.to, !.status = StatusAt(e.to)]
           named == IF NodeType[e.to] = "END" /\ registered.status = "ONBOARDING" THEN "ACTIVE" ELSE registered.status
           known == registered.contact \/ rest.otp.status = "VERIFIED"
<1>2. e \in JourneyEdge /\ e.from = instances[i].node /\ e.outcome = outcome /\ e.to \in DOMAIN NodeType
  BY JourneyAssumption DEF Leads
<1>3. StatusAt(e.to) \in {"IN_PROGRESS", "MANUAL_REVIEW", "COMPLETED", "EXPIRED"}
  BY DEF StatusAt
<1>4. row \in InstanceRow /\ row.node = e.to /\ row.case = rest.case /\ row.wallet = rest.wallet
  BY <1>2, <1>3 DEF InstanceRow
<1>5. named \in {"NONE", "ONBOARDING", "ACTIVE"} /\ known \in BOOLEAN
  BY DEF JourneyInv, JourneyShape, Registry
<1>6. registered' = [registered EXCEPT !.status = named, !.contact = known]
  BY <1>1
<1>7. registered \in Registry
  BY DEF JourneyInv, JourneyShape
<1> HIDE DEF named, known
<1>8. registered' \in Registry /\ registered'.wallet = registered.wallet /\ registered'.contact = known
  BY <1>5, <1>6, <1>7 DEF Registry
<1> HIDE DEF row
<1>9. row.node \in BehindKyc => instances[i].node \in BehindKyc \/ (Type(i) = "KYC" /\ outcome = "APPROVED")
  BY <1>2, <1>4, GuardsHold DEF Guards, Type
<1>10. row.node \in BehindOtp => instances[i].node \in BehindOtp \/ Type(i) = "OTP_VERIFICATION"
  BY <1>2, <1>4, GuardsHold DEF Guards, Type
<1>11. instances' = [instances EXCEPT ![i] = row]
  BY <1>1 DEF row
<1> QED
  BY <1>4, <1>8, <1>9, <1>10, <1>11 DEF known

(* What the invariant says of one instance, and of the rest.                *)
LEMMA InstanceFacts ==
  ASSUME JourneyInv, NEW i \in DOMAIN instances
  PROVE  /\ instances[i] \in InstanceRow /\ i \in Nat
         /\ instances[i].node \in BehindKyc => Identified(i)
         /\ instances[i].node \in BehindOtp => registered.contact
         /\ Identified(i) => instances[i].case.screening = "CLEAR"
         /\ i \in verifying => instances[i].case.status = "PROCESSING"
         /\ instances[i].wallet = "SUCCEEDED" => registered.wallet
BY DEF JourneyInv, JourneyShape, InstanceEarned, NodeEarned

LEMMA OtherFacts ==
  ASSUME JourneyInv
  PROVE  /\ registered \in Registry /\ handoffs \in Seq(HandoffRow) /\ allocating \in AllocationRow
         /\ verifying \subseteq DOMAIN instances
         /\ allocating.step # "NONE" => allocating.instance \in DOMAIN instances /\ registered.contact /\ CaseApproved
         /\ allocating.step = "RECORD" => registered.wallet
         /\ registered.wallet => registered.contact /\ CaseApproved
BY DEF JourneyInv, JourneyShape, AllocationEarned

(* One instance changes at the node where it is, without the registry.      *)
LEMMA InstanceStays ==
  ASSUME JourneyInv, NEW i \in DOMAIN instances, NEW row \in InstanceRow,
         instances' = [instances EXCEPT ![i] = row], row.node = instances[i].node,
         UNCHANGED <<registered, handoffs>>,
         verifying' \subseteq verifying \cup {i}, i \in verifying' => row.case.status = "PROCESSING",
         Identified(i) <=> row.case.status = "APPROVED",
         Identified(i) => row.case = instances[i].case,
         row.wallet = "SUCCEEDED" => registered.wallet,
         \/ UNCHANGED allocating
         \/ allocating' = NoAllocation
         \/ /\ allocating' \in AllocationRow /\ allocating'.step = "CREATE" /\ allocating'.instance = i
            /\ registered.contact /\ CaseApproved
  PROVE  JourneyInv'
<1>1. allocating' \in AllocationRow
      /\ (allocating'.step # "NONE" => allocating'.instance \in DOMAIN instances /\ registered.contact /\ CaseApproved)
      /\ (allocating'.step = "RECORD" => registered.wallet)
  BY OtherFacts DEF NoAllocation, AllocationRow
<1>2. /\ row.node \in BehindKyc => row.case.status = "APPROVED"
      /\ row.node \in BehindOtp => registered.contact
      /\ row.case.status = "APPROVED" => row.case.screening = "CLEAR"
  BY InstanceFacts DEF Identified
<1> QED
  BY <1>1, <1>2, OtherFacts, InstanceMoves

(* One instance goes along an edge.                                         *)
LEMMA InstanceGoes ==
  ASSUME WalletsGuarded, JourneyInv, NEW i \in DOMAIN instances, NEW outcome, NEW rest \in InstanceRow,
         Advance(i, outcome, rest), UNCHANGED <<handoffs, verifying>>,
         rest.case.status = "APPROVED" => rest.case.screening = "CLEAR",
         Identified(i) => rest.case.status = "APPROVED",
         Type(i) = "KYC" /\ outcome = "APPROVED" => rest.case.status = "APPROVED",
         Type(i) = "OTP_VERIFICATION" => rest.otp.status = "VERIFIED",
         rest.wallet = "SUCCEEDED" => registered.wallet,
         i \notin verifying \/ rest.case = instances[i].case,
         UNCHANGED allocating \/ allocating' = NoAllocation
  PROVE  JourneyInv'
<1>1. PICK row \in InstanceRow :
           /\ instances' = [instances EXCEPT ![i] = row]
           /\ row.case = rest.case /\ row.wallet = rest.wallet
           /\ registered' \in Registry /\ registered'.wallet = registered.wallet
           /\ registered'.contact = (registered.contact \/ rest.otp.status = "VERIFIED")
           /\ row.node \in BehindKyc => instances[i].node \in BehindKyc \/ (Type(i) = "KYC" /\ outcome = "APPROVED")
           /\ row.node \in BehindOtp => instances[i].node \in BehindOtp \/ Type(i) = "OTP_VERIFICATION"
  BY Advances
<1>2. allocating' \in AllocationRow
      /\ (allocating'.step # "NONE" => allocating'.instance \in DOMAIN instances /\ registered.contact /\ CaseApproved)
      /\ (allocating'.step = "RECORD" => registered.wallet)
  BY OtherFacts DEF NoAllocation, AllocationRow
<1>3. /\ row.node \in BehindKyc => row.case.status = "APPROVED"
      /\ row.node \in BehindOtp => registered'.contact
      /\ registered.contact => registered'.contact
  BY <1>1, InstanceFacts DEF Identified
<1>4. i \in verifying => row.case.status = "PROCESSING"
  BY <1>1, InstanceFacts
<1> QED
  BY <1>1, <1>2, <1>3, <1>4, OtherFacts, InstanceMoves

LEMMA StepTaken ==
  ASSUME WalletsGuarded, JourneyInv, NEW i \in DOMAIN instances, NEW outcome, Advance(i, outcome, instances[i]),
         Type(i) \notin {"KYC", "OTP_VERIFICATION"}, UNCHANGED <<handoffs, allocating, verifying>>
  PROVE  JourneyInv'
<1>1. instances[i] \in InstanceRow
  BY InstanceFacts
<1> QED
  BY <1>1, InstanceFacts, InstanceGoes DEF Identified

LEMMA OtpVerified ==
  ASSUME WalletsGuarded, JourneyInv, NEW i \in DOMAIN instances, NEW right \in BOOLEAN, VerifyOtp(i, right)
  PROVE  JourneyInv'
<1>1. instances[i] \in InstanceRow /\ UNCHANGED <<handoffs, allocating, verifying>>
  BY InstanceFacts DEF VerifyOtp
<1>2. CASE Advance(i, "SUCCESS", [instances[i] EXCEPT !.otp.status = "VERIFIED"])
  <2> DEFINE rest == [instances[i] EXCEPT !.otp.status = "VERIFIED"]
  <2>1. rest \in InstanceRow /\ rest.case = instances[i].case /\ rest.wallet = instances[i].wallet
        /\ rest.otp.status = "VERIFIED"
    BY <1>1 DEF InstanceRow, OtpRow
  <2>2. Type(i) # "KYC"
    BY DEF VerifyOtp, AtNode
  <2> HIDE DEF rest
  <2>3. Advance(i, "SUCCESS", rest)
    BY <1>2 DEF rest
  <2> QED
    BY <1>1, <2>1, <2>2, <2>3, InstanceFacts, InstanceGoes DEF Identified
<1>3. CASE ~Advance(i, "SUCCESS", [instances[i] EXCEPT !.otp.status = "VERIFIED"])
  <2> DEFINE status == IF instances[i].otp.attempts + 1 >= OtpAttempts THEN "LOCKED" ELSE instances[i].otp.status
             tried == instances[i].otp.attempts + 1
             otp == [instances[i].otp EXCEPT !.attempts = tried, !.status = status]
             row == [instances[i] EXCEPT !.otp = otp]
  <2>1. status \in {"NONE", "PENDING", "VERIFIED", "LOCKED"} /\ tried \in Nat
    BY <1>1 DEF InstanceRow, OtpRow
  <2>2. UNCHANGED registered /\ instances' = [instances EXCEPT ![i].otp.attempts = tried, ![i].otp.status = status]
    BY <1>3 DEF VerifyOtp
  <2> HIDE DEF status, tried
  <2>3. otp \in OtpRow
    BY <1>1, <2>1 DEF InstanceRow, OtpRow
  <2>4. instances' = [instances EXCEPT ![i] = row]
    BY <2>2
  <2> HIDE DEF otp
  <2>5. row \in InstanceRow /\ row.node = instances[i].node /\ row.case = instances[i].case
        /\ row.wallet = instances[i].wallet
    BY <1>1, <2>3 DEF InstanceRow
  <2> HIDE DEF row
  <2> QED
    <3>1. /\ i \in verifying => row.case.status = "PROCESSING"
          /\ Identified(i) <=> row.case.status = "APPROVED"
          /\ row.wallet = "SUCCEEDED" => registered.wallet
      BY <2>5, InstanceFacts DEF Identified
    <3> QED
      BY <1>1, <2>2, <2>4, <2>5, <3>1, InstanceStays
<1> QED
  BY <1>2, <1>3

(* The identity check: the case changes, and is not an approved one.        *)
LEMMA CaseMoves ==
  ASSUME JourneyInv, NEW i \in DOMAIN instances, NEW case \in CheckRow,
         instances' = [instances EXCEPT ![i] = [instances[i] EXCEPT !.case = case]],
         UNCHANGED <<registered, handoffs, allocating>>,
         ~Identified(i), case.status # "APPROVED",
         verifying' \subseteq verifying \cup {i}, i \in verifying' => case.status = "PROCESSING"
  PROVE  JourneyInv'
<1> DEFINE row == [instances[i] EXCEPT !.case = case]
<1>1. row \in InstanceRow /\ row.node = instances[i].node /\ row.case = case /\ row.wallet = instances[i].wallet
  BY InstanceFacts DEF InstanceRow
<1>2. instances' = [instances EXCEPT ![i] = row]
  OBVIOUS
<1> HIDE DEF row
<1>3. row.wallet = "SUCCEEDED" => registered.wallet
  BY <1>1, InstanceFacts
<1> QED
  BY <1>1, <1>2, <1>3, InstanceStays

LEMMA Verified ==
  ASSUME JourneyInv, NEW i \in DOMAIN instances,
         StartKyc(i) \/ UploadDocuments(i) \/ BeginVerification(i) \/ EndVerification(i) \/ VerificationDies(i)
  PROVE  JourneyInv'
<1>1. instances[i] \in InstanceRow /\ instances[i].case \in CheckRow /\ (i \in verifying => instances[i].case.status = "PROCESSING")
  BY InstanceFacts DEF InstanceRow
<1>2. CASE StartKyc(i)
  <2> DEFINE case == [instances[i].case EXCEPT !.status = "DRAFT"]
  <2>1. case \in CheckRow /\ case.status = "DRAFT" /\ instances[i].case.status = "NONE"
    <3>1. instances[i].case = NoCase /\ NoCase.status = "NONE"
      BY <1>2 DEF StartKyc, NoCase
    <3> QED
      BY <1>1, <3>1 DEF CheckRow
  <2>2. instances' = [instances EXCEPT ![i] = [instances[i] EXCEPT !.case = case]]
        /\ UNCHANGED <<registered, handoffs, allocating, verifying>>
    BY <1>2 DEF StartKyc
  <2> HIDE DEF case
  <2> QED
    BY <1>1, <2>1, <2>2, CaseMoves DEF Identified
<1>3. CASE UploadDocuments(i)
  <2> DEFINE case == [instances[i].case EXCEPT !.documents = TRUE]
  <2>1. case \in CheckRow /\ case.status = instances[i].case.status
        /\ instances[i].case.status \in {"DRAFT", "RESUBMISSION_REQUIRED"}
    BY <1>1, <1>3 DEF CheckRow, UploadDocuments, CaseEditable
  <2>2. instances' = [instances EXCEPT ![i] = [instances[i] EXCEPT !.case = case]]
        /\ UNCHANGED <<registered, handoffs, allocating, verifying>>
    BY <1>3 DEF UploadDocuments
  <2> HIDE DEF case
  <2> QED
    BY <1>1, <2>1, <2>2, CaseMoves DEF Identified
<1>4. CASE BeginVerification(i)
  <2> DEFINE case == [instances[i].case EXCEPT !.status = "PROCESSING"]
  <2>1. case \in CheckRow /\ case.status = "PROCESSING" /\ instances[i].case.status \in {"DRAFT", "RESUBMISSION_REQUIRED"}
    BY <1>1, <1>4 DEF CheckRow, BeginVerification, CaseEditable
  <2>2. instances' = [instances EXCEPT ![i] = [instances[i] EXCEPT !.case = case]]
        /\ UNCHANGED <<registered, handoffs, allocating>> /\ verifying' = verifying \cup {i}
    BY <1>4 DEF BeginVerification
  <2> HIDE DEF case
  <2> QED
    BY <1>1, <2>1, <2>2, CaseMoves DEF Identified
<1>5. CASE EndVerification(i)
  <2>1. instances[i].case.status = "PROCESSING" /\ UNCHANGED <<registered, handoffs, allocating>>
        /\ verifying' = verifying \ {i}
    BY <1>1, <1>5 DEF EndVerification
  <2>2. ASSUME NEW s \in {"CLEAR", "MATCH", "UNAVAILABLE"},
               instances' = [instances EXCEPT ![i].case.status = "MANUAL_REVIEW", ![i].case.screening = s]
        PROVE  JourneyInv'
    <3> DEFINE case == [instances[i].case EXCEPT !.status = "MANUAL_REVIEW", !.screening = s]
    <3>1. case \in CheckRow /\ case.status = "MANUAL_REVIEW"
      BY <1>1 DEF CheckRow
    <3>2. instances' = [instances EXCEPT ![i] = [instances[i] EXCEPT !.case = case]]
      BY <2>2
    <3> HIDE DEF case
    <3> QED
      BY <2>1, <3>1, <3>2, CaseMoves DEF Identified
  <2>3. ASSUME instances' = [instances EXCEPT ![i].case.status = "FAILED"]
        PROVE  JourneyInv'
    <3> DEFINE case == [instances[i].case EXCEPT !.status = "FAILED"]
    <3>1. case \in CheckRow /\ case.status = "FAILED"
      BY <1>1 DEF CheckRow
    <3>2. instances' = [instances EXCEPT ![i] = [instances[i] EXCEPT !.case = case]]
      BY <2>3
    <3> HIDE DEF case
    <3> QED
      BY <2>1, <3>1, <3>2, CaseMoves DEF Identified
  <2> QED
    BY <1>5, <2>2, <2>3 DEF EndVerification
<1>6. CASE VerificationDies(i)
  <2>1. UNCHANGED <<instances, registered, handoffs, allocating>> /\ verifying' \subseteq verifying
    BY <1>6 DEF VerificationDies
  <2>2. JourneyShape' /\ AllocationEarned' /\ \A j \in DOMAIN instances : InstanceEarned(j)' /\ (Identified(j) => Identified(j)')
    BY <2>1 DEF JourneyInv, JourneyShape, AllocationEarned, CaseApproved, InstanceEarned, NodeEarned, Identified
  <2> QED
    BY <2>1, <2>2, JourneyMoves
<1> QED
  BY <1>2, <1>3, <1>4, <1>5, <1>6

LEMMA JourneyReviewed ==
  ASSUME WalletsGuarded, JourneyInv, NEW i \in DOMAIN instances,
         NEW decision \in {"APPROVED", "REJECTED", "RESUBMISSION_REQUIRED"}, Review(i, decision)
  PROVE  JourneyInv'
<1> DEFINE case == [instances[i].case EXCEPT !.status = decision]
           decided == [instances[i] EXCEPT !.case = case]
<1>1. instances[i] \in InstanceRow /\ instances[i].case \in CheckRow
      /\ instances[i].case.status \in {"SUBMITTED", "MANUAL_REVIEW"} /\ i \notin verifying /\ ~Identified(i)
  BY InstanceFacts DEF InstanceRow, Review, Identified
<1>2. case \in CheckRow /\ case.status = decision /\ case.screening = instances[i].case.screening
  BY <1>1 DEF CheckRow
<1>3. /\ decision = "APPROVED" => case.screening = "CLEAR"
      /\ \/ decision = "RESUBMISSION_REQUIRED" /\ instances' = [instances EXCEPT ![i] = decided] /\ UNCHANGED registered
         \/ decision \in {"APPROVED", "REJECTED"} /\ Type(i) = "KYC" /\ Advance(i, decision, decided)
      /\ UNCHANGED <<handoffs, allocating, verifying>>
  BY <1>2 DEF Review
<1> HIDE DEF case
<1>4. decided \in InstanceRow /\ decided.case = case /\ decided.wallet = instances[i].wallet
  BY <1>1, <1>2 DEF InstanceRow
<1>5. CASE decision = "RESUBMISSION_REQUIRED"
  BY <1>1, <1>2, <1>3, <1>5, CaseMoves
<1>6. CASE decision # "RESUBMISSION_REQUIRED"
  <2>1. Type(i) = "KYC" /\ Advance(i, decision, decided)
    BY <1>3, <1>6
  <2> HIDE DEF decided
  <2> QED
    BY <1>1, <1>2, <1>3, <1>4, <2>1, InstanceFacts, InstanceGoes
<1> QED
  BY <1>5, <1>6

(* A journey begins, or is given a new token.                               *)
LEMMA JourneyBegun ==
  ASSUME WalletsGuarded, JourneyInv, Start
  PROVE  JourneyInv'
<1>0. PICK last \in Nat : last = Len(instances) /\ DOMAIN instances = 1..last
  BY DEF JourneyInv, JourneyShape
<1> DEFINE open == last > 0 /\ Opened(last)
           new == [node |-> EntryNode, status |-> "IN_PROGRESS", live |-> TRUE, token |-> 1, otp |-> NoOtp,
                   case |-> NoCase, wallet |-> "NONE"]
           named == IF registered.status = "NONE" THEN "ONBOARDING" ELSE registered.status
<1>1. /\ instances \in Seq(InstanceRow) /\ last \in Nat /\ DOMAIN instances = 1..last /\ Len(instances) = last
      /\ registered \in Registry /\ verifying \subseteq DOMAIN instances
  BY <1>0 DEF JourneyInv, JourneyShape
<1>2. registered' = [registered EXCEPT !.status = named] /\ UNCHANGED <<handoffs, allocating, verifying>>
  BY DEF Start
<1>3. named \in {"NONE", "ONBOARDING", "ACTIVE"}
  BY <1>1 DEF Registry
<1> HIDE DEF named
<1>4. registered' \in Registry /\ registered'.contact = registered.contact /\ registered'.wallet = registered.wallet
  BY <1>1, <1>2, <1>3 DEF Registry
<1>5. CASE open /\ instances[last].live /\ instances[last].token < 2 /\ instances' = [instances EXCEPT ![last].token = @ + 1]
  <2> DEFINE row == [instances[last] EXCEPT !.token = @ + 1]
  <2>1. last \in DOMAIN instances /\ instances[last] \in InstanceRow
    BY <1>1, <1>5
  <2>2. row \in InstanceRow /\ row.node = instances[last].node /\ row.case = instances[last].case
        /\ row.wallet = instances[last].wallet
    BY <2>1 DEF InstanceRow
  <2>3. instances' = [instances EXCEPT ![last] = row]
    BY <1>5
  <2> HIDE DEF row, open
  <2>4. /\ row.node \in BehindKyc => row.case.status = "APPROVED"
        /\ row.node \in BehindOtp => registered'.contact
        /\ Identified(last) => row.case.status = "APPROVED"
        /\ row.case.status = "APPROVED" => row.case.screening = "CLEAR"
        /\ row.wallet = "SUCCEEDED" => registered.wallet
        /\ last \in verifying => row.case.status = "PROCESSING"
    BY <1>4, <2>1, <2>2, InstanceFacts DEF Identified
  <2> QED
    BY <1>2, <1>4, <2>1, <2>2, <2>3, <2>4, OtherFacts, InstanceMoves
<1>6. CASE instances' = Append(IF open THEN [instances EXCEPT ![last].status = "EXPIRED"] ELSE instances, new)
  <2> DEFINE old == IF open THEN [instances EXCEPT ![last].status = "EXPIRED"] ELSE instances
  <2>1. new \in InstanceRow /\ new.node = EntryNode /\ new.case = NoCase /\ new.wallet = "NONE"
    <3>1. NoOtp \in OtpRow /\ NoCase \in CheckRow
      BY DEF NoOtp, NoCase, OtpRow, CheckRow
    <3> QED
      BY <3>1, JourneyAssumption DEF InstanceRow
  <2>2. /\ old \in Seq(InstanceRow) /\ Len(old) = last /\ DOMAIN old = 1..last
        /\ \A i \in 1..last : /\ old[i].node = instances[i].node /\ old[i].case = instances[i].case
                              /\ old[i].wallet = instances[i].wallet
    <3>1. CASE open
      <4> DEFINE row == [instances[last] EXCEPT !.status = "EXPIRED"]
      <4>1. last \in 1..last /\ instances[last] \in InstanceRow
        BY <1>1, <3>1
      <4>2. row \in InstanceRow /\ row.node = instances[last].node /\ row.case = instances[last].case
            /\ row.wallet = instances[last].wallet
        BY <4>1 DEF InstanceRow
      <4>3. old = [instances EXCEPT ![last] = row]
        BY <3>1
      <4> HIDE DEF row, old, open
      <4> QED
        BY <1>1, <4>1, <4>2, <4>3
    <3>2. CASE ~open
      BY <1>1, <3>2
    <3> QED
      BY <3>1, <3>2
  <2>3. instances' = Append(old, new)
    BY <1>6
  <2> HIDE DEF old, new, open
  <2>4. /\ instances' \in Seq(InstanceRow) /\ DOMAIN instances' = 1..(last + 1)
        /\ instances'[last + 1] = new /\ \A i \in 1..last : instances'[i] = old[i]
    BY <1>1, <2>1, <2>2, <2>3
  <2>5. \A i \in 1..last : Identified(i) <=> Identified(i)'
    BY <2>2, <2>4 DEF Identified
  <2>6. ASSUME NEW i \in 1..last PROVE InstanceEarned(i)'
    <3>1. /\ instances'[i].node = instances[i].node /\ instances'[i].case = instances[i].case
          /\ instances'[i].wallet = instances[i].wallet
      BY <2>2, <2>4
    <3>2. InstanceEarned(i)
      BY <1>1 DEF JourneyInv
    <3> QED
      BY <1>2, <1>4, <3>1, <3>2 DEF InstanceEarned, NodeEarned, Identified
  <2>7. InstanceEarned(last + 1)'
    <3>1. last + 1 \notin verifying
      BY <1>1
    <3>2. EntryNode \notin BehindKyc /\ EntryNode \notin BehindOtp
      BY GuardsHold DEF Guards
    <3>3. NoCase.status # "APPROVED"
      BY DEF NoCase
    <3> QED
      BY <1>2, <2>1, <2>4, <3>1, <3>2, <3>3 DEF InstanceEarned, NodeEarned, Identified
  <2>8. \A i \in DOMAIN instances' : InstanceEarned(i)'
    BY <1>1, <2>4, <2>6, <2>7
  <2>9. 1..last \subseteq 1..(last + 1)
    BY <1>1
  <2>10. CaseApproved => CaseApproved'
    BY <1>1, <2>4, <2>5, <2>9 DEF CaseApproved, Identified
  <2>11. AllocationEarned'
    BY <1>1, <1>2, <1>4, <2>4, <2>9, <2>10 DEF JourneyInv, AllocationEarned
  <2>12. JourneyShape'
    BY <1>1, <1>2, <1>4, <2>4, <2>9 DEF JourneyInv, JourneyShape
  <2> QED
    BY <1>1, <1>2, <1>4, <2>4, <2>5, <2>8, <2>9, <2>11, <2>12, JourneyMoves
<1> QED
  BY <1>0, <1>5, <1>6 DEF Start

LEMMA Touched ==
  ASSUME JourneyInv, NEW i \in DOMAIN instances, InstanceExpires(i) \/ CreateOtp(i)
  PROVE  JourneyInv'
<1>1. instances[i] \in InstanceRow /\ UNCHANGED <<registered, handoffs, allocating, verifying>>
  BY InstanceFacts DEF InstanceExpires, CreateOtp
<1>2. \E row \in InstanceRow :
        /\ instances' = [instances EXCEPT ![i] = row]
        /\ row.node = instances[i].node /\ row.case = instances[i].case /\ row.wallet = instances[i].wallet
  <2>1. CASE InstanceExpires(i)
    <3> DEFINE row == [instances[i] EXCEPT !.live = FALSE]
    <3>1. row \in InstanceRow /\ row.node = instances[i].node /\ row.case = instances[i].case
          /\ row.wallet = instances[i].wallet
      BY <1>1 DEF InstanceRow
    <3>2. instances' = [instances EXCEPT ![i] = row]
      BY <2>1 DEF InstanceExpires
    <3> QED
      BY <3>1, <3>2
  <2>2. CASE CreateOtp(i)
    <3> DEFINE otp == [status |-> "PENDING", attempts |-> 0, sends |-> instances[i].otp.sends + 1]
               row == [instances[i] EXCEPT !.otp = otp]
    <3>1. otp \in OtpRow
      BY <1>1 DEF InstanceRow, OtpRow
    <3>2. instances' = [instances EXCEPT ![i] = row]
      BY <2>2 DEF CreateOtp
    <3> HIDE DEF otp
    <3>3. row \in InstanceRow /\ row.node = instances[i].node /\ row.case = instances[i].case
          /\ row.wallet = instances[i].wallet
      BY <1>1, <3>1 DEF InstanceRow
    <3> QED
      BY <3>2, <3>3
  <2> QED
    BY <2>1, <2>2
<1>3. PICK row \in InstanceRow :
        /\ instances' = [instances EXCEPT ![i] = row]
        /\ row.node = instances[i].node /\ row.case = instances[i].case /\ row.wallet = instances[i].wallet
  BY <1>2
<1>4. /\ i \in verifying => row.case.status = "PROCESSING"
      /\ Identified(i) <=> row.case.status = "APPROVED"
      /\ row.wallet = "SUCCEEDED" => registered.wallet
  BY <1>3, InstanceFacts DEF Identified
<1> QED
  BY <1>1, <1>3, <1>4, InstanceStays

(* The wallet: the journey stands behind the code and the identity check    *)
(* when its allocation begins, and what they established is not lost before *)
(* the wallet is there.                                                     *)
LEMMA AllocationBegun ==
  ASSUME WalletsGuarded, JourneyInv, NEW i \in DOMAIN instances, BeginAllocation(i)
  PROVE  JourneyInv'
<1> DEFINE wallet == IF instances[i].wallet = "NONE" THEN "PENDING" ELSE instances[i].wallet
           row == [instances[i] EXCEPT !.wallet = wallet]
<1>1. instances[i] \in InstanceRow /\ UNCHANGED <<registered, handoffs, verifying>> /\ Type(i) = "WALLET_ALLOCATION"
      /\ instances[i].wallet # "SUCCEEDED"
  BY InstanceFacts DEF BeginAllocation, AtNode
<1>2. instances[i].node \in BehindKyc /\ instances[i].node \in BehindOtp
  <2>1. instances[i].node \in DOMAIN NodeType
    BY <1>1 DEF InstanceRow
  <2> QED
    BY <1>1, <2>1, GuardsHold DEF Guards, Type
<1>3. registered.contact /\ Identified(i) /\ CaseApproved
  BY <1>2, InstanceFacts DEF CaseApproved, Identified
<1>4. wallet \in {"NONE", "PENDING", "FAILED"}
  BY <1>1 DEF InstanceRow
<1>5. instances' = [instances EXCEPT ![i] = row]
  BY DEF BeginAllocation
<1> HIDE DEF wallet
<1>6. row \in InstanceRow /\ row.node = instances[i].node /\ row.case = instances[i].case /\ row.wallet # "SUCCEEDED"
  BY <1>1, <1>4 DEF InstanceRow
<1>7. allocating' = [instance |-> i, token |-> instances[i].token, step |-> "CREATE"]
  BY DEF BeginAllocation
<1>8. allocating' \in AllocationRow /\ allocating'.step = "CREATE" /\ allocating'.instance = i
  BY <1>1, <1>7, InstanceFacts DEF AllocationRow, InstanceRow
<1> HIDE DEF row
<1>9. /\ i \in verifying => row.case.status = "PROCESSING"
      /\ Identified(i) <=> row.case.status = "APPROVED"
  BY <1>6, InstanceFacts DEF Identified
<1> QED
  BY <1>1, <1>3, <1>5, <1>6, <1>8, <1>9, InstanceStays

LEMMA AllocationFailed ==
  ASSUME JourneyInv, AllocationFails, allocating.step # "NONE", UNCHANGED <<registered, handoffs, verifying>>
  PROVE  JourneyInv'
<1>0. PICK i \in DOMAIN instances : i = allocating.instance
  BY OtherFacts
<1> DEFINE row == [instances[i] EXCEPT !.wallet = "FAILED"]
<1>1. instances[i] \in InstanceRow
  BY InstanceFacts
<1>2. instances' = [instances EXCEPT ![i] = row] /\ allocating' = NoAllocation
  BY <1>0 DEF AllocationFails
<1>3. row \in InstanceRow /\ row.node = instances[i].node /\ row.case = instances[i].case /\ row.wallet # "SUCCEEDED"
  BY <1>1 DEF InstanceRow
<1> HIDE DEF row
<1>4. /\ i \in verifying => row.case.status = "PROCESSING"
      /\ Identified(i) <=> row.case.status = "APPROVED"
  BY <1>3, InstanceFacts DEF Identified
<1> QED
  BY <1>2, <1>3, <1>4, InstanceStays

LEMMA WalletCreated ==
  ASSUME JourneyInv, CreateWallet
  PROVE  JourneyInv'
<1>1. allocating.step = "CREATE" /\ UNCHANGED <<handoffs, verifying>> /\ allocating \in AllocationRow
      /\ registered \in Registry /\ registered.contact /\ CaseApproved /\ allocating.instance \in DOMAIN instances
  BY OtherFacts DEF CreateWallet
<1>2. CASE AllocationFails /\ UNCHANGED registered
  BY <1>1, <1>2, AllocationFailed
<1>3. CASE ~(AllocationFails /\ UNCHANGED registered)
  <2>1. registered' = [registered EXCEPT !.wallet = CaseApproved] /\ UNCHANGED instances
        /\ allocating' = [allocating EXCEPT !.step = "RECORD"]
    BY <1>3 DEF CreateWallet
  <2>2. CaseApproved = TRUE
    BY <1>1 DEF CaseApproved
  <2>3. registered' = [registered EXCEPT !.wallet = TRUE]
    BY <2>1, <2>2
  <2>4. registered' \in Registry /\ registered'.contact = registered.contact /\ registered'.wallet = TRUE
    BY <1>1, <2>3 DEF Registry
  <2>5. allocating' \in AllocationRow /\ allocating'.step = "RECORD" /\ allocating'.instance = allocating.instance
    BY <1>1, <2>1 DEF AllocationRow
  <2>6. JourneyShape'
    BY <1>1, <2>1, <2>4, <2>5 DEF JourneyInv, JourneyShape
  <2>7. AllocationEarned'
    BY <1>1, <2>1, <2>4, <2>5 DEF AllocationEarned, CaseApproved
  <2>8. \A i \in DOMAIN instances : InstanceEarned(i)' /\ (Identified(i) => Identified(i)')
    BY <1>1, <2>1, <2>4 DEF JourneyInv, InstanceEarned, NodeEarned, Identified
  <2> QED
    BY <1>1, <2>1, <2>4, <2>6, <2>7, <2>8, JourneyMoves
<1> QED
  BY <1>2, <1>3

LEMMA AllocationRecorded ==
  ASSUME WalletsGuarded, JourneyInv, RecordAllocation
  PROVE  JourneyInv'
<1>1. allocating.step = "RECORD" /\ UNCHANGED <<handoffs, verifying>> /\ registered.wallet
  BY OtherFacts DEF RecordAllocation
<1>0. PICK i \in DOMAIN instances : i = allocating.instance
  BY <1>1, OtherFacts
<1> DEFINE rest == [instances[i] EXCEPT !.wallet = "SUCCEEDED"]
<1>2. CASE AllocationFails /\ UNCHANGED registered
  BY <1>1, <1>2, AllocationFailed
<1>3. CASE ~(AllocationFails /\ UNCHANGED registered)
  <2>1. AtNode(i, "WALLET_ALLOCATION") /\ allocating' = NoAllocation /\ Advance(i, "SUCCESS", rest)
    BY <1>0, <1>3 DEF RecordAllocation
  <2>2. instances[i] \in InstanceRow
    BY InstanceFacts
  <2>3. rest \in InstanceRow /\ rest.case = instances[i].case
    BY <2>2 DEF InstanceRow
  <2>4. Type(i) = "WALLET_ALLOCATION"
    BY <2>1 DEF AtNode
  <2> HIDE DEF rest
  <2> QED
    BY <1>1, <2>1, <2>3, <2>4, InstanceFacts, InstanceGoes DEF Identified
<1> QED
  BY <1>2, <1>3

LEMMA AllocationLost ==
  ASSUME JourneyInv, AllocationDies
  PROVE  JourneyInv'
<1>1. allocating' = NoAllocation /\ UNCHANGED <<instances, registered, handoffs, verifying>>
  BY DEF AllocationDies
<1>2. NoAllocation \in AllocationRow /\ NoAllocation.step = "NONE"
  BY DEF NoAllocation, AllocationRow
<1>3. JourneyShape' /\ AllocationEarned'
  BY <1>1, <1>2 DEF JourneyInv, JourneyShape, AllocationEarned, CaseApproved
<1>4. \A i \in DOMAIN instances : InstanceEarned(i)' /\ (Identified(i) => Identified(i)')
  BY <1>1 DEF JourneyInv, InstanceEarned, NodeEarned, Identified
<1> QED
  BY <1>1, <1>3, <1>4, JourneyMoves

(* A handoff is made at the node where the instance is; whoever takes it    *)
(* goes on behind that node, which is neither the code's nor the check's.   *)
LEMMA HandoffMade ==
  ASSUME JourneyInv, NEW i \in DOMAIN instances, CreateHandoff(i)
  PROVE  JourneyInv'
<1> DEFINE row == [instance |-> i, node |-> instances[i].node, status |-> "PENDING"]
<1>1. Type(i) = "CHANNEL_HANDOFF" /\ handoffs' = Append(handoffs, row)
      /\ UNCHANGED <<instances, registered, allocating, verifying>>
  BY DEF CreateHandoff
<1>2. row \in HandoffRow /\ row.instance = i /\ row.node = instances[i].node
  BY InstanceFacts DEF HandoffRow, InstanceRow
<1> HIDE DEF row
<1>3. /\ handoffs' \in Seq(HandoffRow)
      /\ \A h \in DOMAIN handoffs' : \/ h \in DOMAIN handoffs /\ handoffs'[h] = handoffs[h]
                                     \/ handoffs'[h] = row
  BY <1>1, <1>2 DEF JourneyInv, JourneyShape
<1>4. \A h \in DOMAIN handoffs' : handoffs'[h] = row => HandoffEarned(h)'
  BY <1>1, <1>2, InstanceFacts DEF HandoffEarned, NodeEarned, Identified, Type
<1>5. JourneyShape' /\ AllocationEarned'
  BY <1>1, <1>3 DEF JourneyInv, JourneyShape, AllocationEarned, CaseApproved
<1>6. \A j \in DOMAIN instances : InstanceEarned(j)' /\ (Identified(j) => Identified(j)')
  BY <1>1 DEF JourneyInv, InstanceEarned, NodeEarned, Identified
<1> QED
  BY <1>1, <1>3, <1>4, <1>5, <1>6, JourneyMoves

LEMMA HandoffTaken ==
  ASSUME WalletsGuarded, JourneyInv, NEW h \in DOMAIN handoffs, ConsumeHandoff(h)
  PROVE  JourneyInv'
<1>1. HandoffEarned(h) /\ handoffs[h] \in HandoffRow /\ handoffs \in Seq(HandoffRow)
  BY DEF JourneyInv, JourneyShape
<1>0. PICK i \in DOMAIN instances : i = handoffs[h].instance
  BY <1>1 DEF HandoffEarned
<1>2. PICK e \in JourneyEdge :
           /\ e.from = handoffs[h].node
           /\ instances' = [instances EXCEPT ![i].node = e.to, ![i].status = StatusAt(e.to),
                                             ![i].live = TRUE, ![i].token = @ + 1]
  BY <1>0 DEF ConsumeHandoff
<1> DEFINE status == StatusAt(e.to)
           token == instances[i].token + 1
           row == [instances[i] EXCEPT !.node = e.to, !.status = status, !.live = TRUE, !.token = token]
<1>3. instances[i] \in InstanceRow /\ UNCHANGED <<registered, allocating, verifying>>
  BY InstanceFacts DEF ConsumeHandoff
<1>4. /\ e.to \in DOMAIN NodeType /\ status \in {"IN_PROGRESS", "MANUAL_REVIEW", "COMPLETED", "EXPIRED"}
      /\ token \in Nat
  BY <1>3, JourneyAssumption DEF StatusAt, InstanceRow
<1>5. instances' = [instances EXCEPT ![i] = row]
  BY <1>2
<1> HIDE DEF status, token
<1>6. row \in InstanceRow /\ row.node = e.to /\ row.case = instances[i].case /\ row.wallet = instances[i].wallet
  BY <1>3, <1>4 DEF InstanceRow
<1> HIDE DEF row
<1>7. /\ handoffs' \in Seq(HandoffRow)
      /\ \A k \in DOMAIN handoffs' :
           k \in DOMAIN handoffs /\ handoffs'[k].node = handoffs[k].node /\ handoffs'[k].instance = handoffs[k].instance
  <2> DEFINE taken == [handoffs[h] EXCEPT !.status = "CONSUMED"]
  <2>1. taken \in HandoffRow /\ taken.node = handoffs[h].node /\ taken.instance = handoffs[h].instance
    BY <1>1 DEF HandoffRow
  <2>2. handoffs' = [handoffs EXCEPT ![h] = taken]
    BY DEF ConsumeHandoff
  <2> HIDE DEF taken
  <2> QED
    BY <1>1, <2>1, <2>2
<1>8. /\ e.to \in BehindKyc => e.from \in BehindKyc
      /\ e.to \in BehindOtp => e.from \in BehindOtp
  <2>1. NodeType[e.from] = "CHANNEL_HANDOFF"
    BY <1>1, <1>2 DEF HandoffEarned
  <2> QED
    BY <2>1, GuardsHold DEF Guards
<1>9. /\ row.node \in BehindKyc => row.case.status = "APPROVED"
      /\ row.node \in BehindOtp => registered.contact
  BY <1>0, <1>1, <1>2, <1>6, <1>8 DEF HandoffEarned, NodeEarned, Identified
<1>10. /\ Identified(i) => row.case.status = "APPROVED"
       /\ row.case.status = "APPROVED" => row.case.screening = "CLEAR"
       /\ row.wallet = "SUCCEEDED" => registered.wallet
       /\ i \in verifying => row.case.status = "PROCESSING"
  BY <1>6, InstanceFacts DEF Identified
<1> QED
  BY <1>3, <1>5, <1>6, <1>7, <1>9, <1>10, OtherFacts, InstanceMoves

LEMMA HandoffLost ==
  ASSUME JourneyInv, NEW h \in DOMAIN handoffs, HandoffExpires(h)
  PROVE  JourneyInv'
<1>1. handoffs[h] \in HandoffRow /\ handoffs \in Seq(HandoffRow) /\ UNCHANGED <<instances, registered, allocating, verifying>>
  BY DEF JourneyInv, JourneyShape, HandoffExpires
<1> DEFINE late == [handoffs[h] EXCEPT !.status = "EXPIRED"]
<1>2. late \in HandoffRow /\ late.node = handoffs[h].node /\ late.instance = handoffs[h].instance
  BY <1>1 DEF HandoffRow
<1>3. handoffs' = [handoffs EXCEPT ![h] = late]
  BY DEF HandoffExpires
<1> HIDE DEF late
<1>4. /\ handoffs' \in Seq(HandoffRow)
      /\ \A k \in DOMAIN handoffs' :
           k \in DOMAIN handoffs /\ handoffs'[k].node = handoffs[k].node /\ handoffs'[k].instance = handoffs[k].instance
  BY <1>1, <1>2, <1>3
<1>5. JourneyShape' /\ AllocationEarned'
  BY <1>1, <1>4 DEF JourneyInv, JourneyShape, AllocationEarned, CaseApproved
<1>6. \A j \in DOMAIN instances : InstanceEarned(j)' /\ (Identified(j) => Identified(j)')
  BY <1>1 DEF JourneyInv, InstanceEarned, NodeEarned, Identified
<1> QED
  BY <1>1, <1>4, <1>5, <1>6, JourneyMoves

LEMMA JourneyStep ==
  ASSUME WalletsGuarded, JourneyInv, [JourneyNext]_journeyVars
  PROVE  JourneyInv'
<1>1. CASE UNCHANGED journeyVars
  <2>1. UNCHANGED <<instances, registered, handoffs, allocating, verifying>>
    BY <1>1 DEF journeyVars
  <2>2. JourneyShape' /\ AllocationEarned'
    BY <2>1 DEF JourneyInv, JourneyShape, AllocationEarned, CaseApproved
  <2>3. \A j \in DOMAIN instances : InstanceEarned(j)' /\ (Identified(j) => Identified(j)')
    BY <2>1 DEF JourneyInv, InstanceEarned, NodeEarned, Identified
  <2> QED
    BY <2>1, <2>2, <2>3, JourneyMoves
<1>2. CASE Start \/ CreateWallet \/ RecordAllocation \/ AllocationDies
  BY <1>2, JourneyBegun, WalletCreated, AllocationRecorded, AllocationLost
<1>3. ASSUME NEW i \in DOMAIN instances, AdvanceStep(i) PROVE JourneyInv'
  BY <1>3, StepTaken DEF AdvanceStep
<1>4. ASSUME NEW i \in DOMAIN instances, SubmitStep(i) PROVE JourneyInv'
  BY <1>4, StepTaken DEF SubmitStep, AtNode
<1>5. ASSUME NEW i \in DOMAIN instances, NEW o, Callback(i, o) PROVE JourneyInv'
  BY <1>5, StepTaken DEF Callback
<1> QED
  BY <1>1, <1>2, <1>3, <1>4, <1>5, OtpVerified, Verified, JourneyReviewed, Touched, AllocationBegun, HandoffMade,
     HandoffTaken, HandoffLost DEF JourneyNext
=============================================================================
