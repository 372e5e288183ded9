------------------------------- MODULE EodClose -------------------------------
(***************************************************************************)
(* End-of-day accounting: the catch-up scheduler with its lease, the manual*)
(* close, dry-run and batch routes, the readiness check and the close      *)
(* procedure, against a ledger that keeps posting.                         *)
(* Each step is one awaited call.  The close procedure is one step: it     *)
(* holds an advisory lock per business date and currency.                  *)
(***************************************************************************)
EXTENDS Naturals, FiniteSets

CONSTANTS
  Currency,      \* currencies with an active accounting configuration
  Instance,      \* accounting-service processes, each with a polling timer
  Operator,      \* callers of the manual routes
  LastDay,       \* bound: business days are 1 .. LastDay
  MaxDaysPerTick,\* ACCOUNTING_CATCH_UP_MAX_DAYS_PER_TICK
  ManualDays,    \* business days the manual routes are called for
  Scopes         \* the processes that run, and bounds on the days that pass, on accepted
                 \* requests and on failed calls, lost answers and killed processes

ASSUME EodAssumption ==
  /\ LastDay \in Nat \ {0} /\ MaxDaysPerTick \in Nat \ {0}
  /\ Scopes \subseteq
       [running : SUBSET (Instance \cup Operator), days : 1..LastDay, requests : Nat, errors : Nat]
  /\ ManualDays \subseteq 1..LastDay
  /\ Instance \cap Operator = {}
  /\ "nobody" \notin Instance \cup Operator
  /\ "none" \notin Currency

Day    == 1..LastDay
Date   == 1..(LastDay + 1)
Closer == Instance \cup Operator

VARIABLES
  today, due,           \* the calendar; the latest business day past its closure time
  lease, leaseLive,     \* sw_tbl_eod_schedule: lease_owner, lease_until in the future
  period, closedBy,     \* sw_tbl_accounting_period: status and closed_by
  closes,               \* completed runs that were not dry, sw_tbl_eod_run
  counted,              \* journals in the day's snapshot
  journals,             \* committed journals per business date
  work, workDay,        \* one request per currency and day; the date its posting began
  fault,                \* the books of the day fail a control of the procedure
  job,                  \* what each process is doing
  errors,
  scope                 \* the element of Scopes that holds, for good

books    == <<period, closedBy, closes, counted>>
ledger   == <<journals, work, workDay, fault>>
calendar == <<today, due>>
leaseVars == <<lease, leaseLive>>
eodVars  == <<calendar, leaseVars, books, ledger, job, errors, scope>>

(* A pass over the currencies of todo and the days next .. last of each,    *)
(* none after upto.                                                         *)
IdleJob == [pc |-> "idle", dry |-> FALSE, todo |-> {}, cur |-> "none",
            next |-> 1, last |-> 0, upto |-> 0]

(* A system in operation: the first business day is closed.                 *)
EodInit ==
  /\ today = 2 /\ due = 1
  /\ lease = "nobody" /\ leaseLive = FALSE
  /\ period   = [c \in Currency |-> [d \in Day |-> IF d = 1 THEN "CLOSED" ELSE "NONE"]]
  /\ closedBy = [c \in Currency |-> [d \in Day |-> IF d = 1 THEN "SCHEDULER" ELSE "nobody"]]
  /\ closes   = [c \in Currency |-> [d \in Day |-> IF d = 1 THEN 1 ELSE 0]]
  /\ counted  = [c \in Currency |-> [d \in Day |-> 0]]
  /\ journals = [c \in Currency |-> [d \in Date |-> 0]]
  /\ work     = [c \in Currency |-> [d \in Day |-> "none"]]
  /\ workDay  = [c \in Currency |-> [d \in Day |-> 1]]
  /\ fault    \in [Currency -> {f \in [Day -> BOOLEAN] : ~f[1]}]
  /\ job = [p \in Closer |-> IdleJob]
  /\ errors = 0 /\ scope \in Scopes

At(p, pc)    == job[p].pc = pc
UpdateJob(p, j) == job' = [job EXCEPT ![p] = j]

-----------------------------------------------------------------------------
(* The calendar and the ledger.                                             *)

(* latestDueDate: yesterday after the closure time, the day before until    *)
(* then.  Midnight and the closure time alternate.                          *)
Tick ==
  /\ \/ due + 1 = today /\ today <= scope.days /\ today' = today + 1 /\ due' = due
     \/ due + 1 < today /\ due' = due + 1 /\ today' = today
  /\ UNCHANGED <<leaseVars, books, ledger, job, errors, scope>>

(* A request is accepted with today's TransactionDate and status 2.         *)
AcceptRequest(c) ==
  /\ today \in Day /\ work[c][today] = "none"
  /\ Cardinality({r \in Currency \X Day : work[r[1]][r[2]] # "none"}) < scope.requests
  /\ work' = [work EXCEPT ![c][today] = "pending"]
  /\ UNCHANGED <<calendar, leaseVars, books, journals, workDay, fault, job, errors, scope>>

(* sw_fn_assign_journal_business_context: the journal's business date is    *)
(* the day its transaction began on.                                        *)
BeginPosting(c, d) ==
  /\ work[c][d] = "pending"
  /\ work' = [work EXCEPT ![c][d] = "posting"]
  /\ workDay' = [workDay EXCEPT ![c][d] = today]
  /\ UNCHANGED <<calendar, leaseVars, books, journals, fault, job, errors, scope>>

EndPosting(c, d) ==
  /\ work[c][d] = "posting"
  /\ work' = [work EXCEPT ![c][d] = "done"]
  /\ workDay' = [workDay EXCEPT ![c][d] = 1]
  /\ \/ journals' = [journals EXCEPT ![c][workDay[c][d]] = @ + 1]
     \/ UNCHANGED journals
  /\ UNCHANGED <<calendar, leaseVars, books, fault, job, errors, scope>>

(* Accountants repair what a control found: a missing GL mapping, a         *)
(* safeguarding shortfall.                                                  *)
Repair(c, d) ==
  /\ fault[c][d]
  /\ fault' = [fault EXCEPT ![c][d] = FALSE]
  /\ UNCHANGED <<calendar, leaseVars, books, journals, work, workDay, job, errors, scope>>

-----------------------------------------------------------------------------
(* The scheduler.                                                           *)

(* Faulty: lease_until is not compared with the time.                       *)
FaultyLeaseExpires == FALSE

LeaseExpires ==
  /\ leaseLive /\ leaseLive' = FALSE
  /\ UNCHANGED <<calendar, lease, books, ledger, job, errors, scope>>

(* acquireSchedule, with latestDueDate; ticking keeps a process to one run. *)
AcquireSchedule(i) ==
  /\ At(i, "idle") /\ i \in scope.running
  /\ ~leaseLive \/ lease = i
  /\ lease' = i /\ leaseLive' = TRUE
  /\ UpdateJob(i, [IdleJob EXCEPT !.pc = "currency", !.todo = Currency, !.upto = due])
  /\ UNCHANGED <<calendar, books, ledger, errors, scope>>

(* overdueDates: from the day after the latest closed one, else from the    *)
(* earliest day with an open period, else the latest due day alone.         *)
Closed(c, d)     == period[c][d] = "CLOSED"
ClosedUpTo(c, d) == {e \in 1..d : Closed(c, e)}
OpenUpTo(c, d)   == {e \in 1..d : period[c][e] \notin {"NONE", "CLOSED"}}
Oldest(S)        == CHOOSE d \in S : \A e \in S : d <= e
Latest(S)        == CHOOSE d \in S : \A e \in S : e <= d

FirstOverdue(c, d) ==
  IF ClosedUpTo(c, d) # {} THEN Latest(ClosedUpTo(c, d)) + 1
  ELSE IF OpenUpTo(c, d) # {} THEN Oldest(OpenUpTo(c, d)) ELSE d

LesserOf(a, b) == IF a <= b THEN a ELSE b

OverdueDates(i) ==
  /\ i \in Instance /\ At(i, "currency")
  /\ \E c \in job[i].todo :
       LET first == FirstOverdue(c, job[i].upto)
           last  == LesserOf(job[i].upto, first + MaxDaysPerTick - 1)
           j     == [job[i] EXCEPT !.todo = @ \ {c}]
       IN UpdateJob(i, IF first > last THEN j
                       ELSE [j EXCEPT !.pc = "check", !.cur = c, !.next = first, !.last = last])
  /\ UNCHANGED <<calendar, leaseVars, books, ledger, errors, scope>>

(* releaseSchedule, guarded by the owner.                                   *)
ReleaseSchedule(i) ==
  /\ i \in Instance /\ At(i, "currency") /\ job[i].todo = {}
  /\ IF lease = i THEN lease' = "nobody" /\ leaseLive' = FALSE ELSE UNCHANGED leaseVars
  /\ UpdateJob(i, IdleJob)
  /\ UNCHANGED <<calendar, books, ledger, errors, scope>>

-----------------------------------------------------------------------------
(* runOne, for the scheduler and the manual routes.                         *)

(* Faulty: pending requests are not counted.                                *)
FaultyReady(c, d) == TRUE

(* Requests dated up to the day that are still at status 2.                 *)
Ready(c, d) == \A e \in 1..d : work[c][e] \notin {"pending", "posting"}

EndCurrency(j) == [j EXCEPT !.pc = "currency", !.cur = "none", !.next = 1, !.last = 0]

NextDay(j) == [j EXCEPT !.pc = "check", !.next = @ + 1]

(* A closed day: the scheduler goes on to the next, a manual run to the     *)
(* next currency.                                                           *)
Succeeded(j) == IF j.next < j.last THEN NextDay(j) ELSE EndCurrency(j)

(* Faulty: the scheduler goes on to the next day.                           *)
FaultyBlocked(j) == Succeeded(j)

(* A blocked day ends the pass over its currency.                           *)
Blocked(j) == EndCurrency(j)

CheckReadiness(p) ==
  LET j == job[p] IN
  /\ At(p, "check")
  /\ IF Ready(j.cur, j.next) \/ j.dry
     THEN UpdateJob(p, [j EXCEPT !.pc = "close"])
     ELSE UpdateJob(p, Blocked(j))
  /\ UNCHANGED <<calendar, leaseVars, books, ledger, errors, scope>>

RequestedBy(p) == IF p \in Instance THEN "SCHEDULER" ELSE "OPERATOR"

(* Faulty: the completed run is not looked for.                             *)
FaultyAlreadyClosed(c, d) == FALSE

AlreadyClosed(c, d) == closes[c][d] > 0

(* The periods after a run that meets the controls, or fails them: a dry    *)
(* run only creates the row.                                                *)
PeriodAfter(c, d, dry, ok) ==
  IF dry THEN IF period[c][d] = "NONE" THEN "OPEN" ELSE period[c][d]
  ELSE IF ok THEN "CLOSED" ELSE "FAILED"

(* sw_proc_accounting_close_eod                                             *)
CloseProcedure(p, c, d, dry) ==
  LET ok == ~fault[c][d] IN
  IF ~dry /\ AlreadyClosed(c, d) THEN UNCHANGED books
  ELSE /\ period' = [period EXCEPT ![c][d] = PeriodAfter(c, d, dry, ok)]
       /\ IF ok /\ ~dry
          THEN /\ closedBy' = [closedBy EXCEPT ![c][d] = RequestedBy(p)]
               /\ closes' = [closes EXCEPT ![c][d] = @ + 1]
               /\ counted' = [counted EXCEPT ![c][d] = journals[c][d]]
          ELSE UNCHANGED <<closedBy, closes, counted>>

CloseSucceeds(c, d, dry) == (~dry /\ AlreadyClosed(c, d)) \/ ~fault[c][d]

(* EodCloseService.execute: its answer moves the job.                       *)
CloseDay(p) ==
  LET j == job[p] IN
  /\ At(p, "close")
  /\ CloseProcedure(p, j.cur, j.next, j.dry)
  /\ UpdateJob(p, IF CloseSucceeds(j.cur, j.next, j.dry) THEN Succeeded(j) ELSE Blocked(j))
  /\ UNCHANGED <<calendar, leaseVars, ledger, errors, scope>>

(* A call throws, before or after the procedure committed.                  *)
CallThrows(p) ==
  LET j == job[p] IN
  /\ errors < scope.errors /\ errors' = errors + 1
  /\ \/ (At(p, "check") \/ At(p, "close")) /\ UNCHANGED books
     \/ At(p, "close") /\ CloseProcedure(p, j.cur, j.next, j.dry)
  /\ UpdateJob(p, Blocked(j))
  /\ UNCHANGED <<calendar, leaseVars, ledger, scope>>

(* The process is killed and started again under a new instanceId; the old  *)
(* one's lease stands until it expires.                                     *)
Killed(p) ==
  /\ errors < scope.errors /\ errors' = errors + 1
  /\ ~At(p, "idle") /\ UpdateJob(p, IdleJob)
  /\ lease' = IF lease = p THEN "nobody" ELSE lease
  /\ UNCHANGED <<calendar, leaseLive, books, ledger, scope>>

-----------------------------------------------------------------------------
(* The manual routes: close and dry-run of one currency, batch of all.      *)
(* Operators wait until the day is over.                                    *)
ManualRun(o) ==
  /\ At(o, "idle") /\ o \in scope.running
  /\ \E d \in ManualDays, dry \in BOOLEAN, S \in {Currency} \cup {{c} : c \in Currency} :
         /\ d <= due
         /\ UpdateJob(o, [IdleJob EXCEPT !.pc = "currency", !.todo = S, !.upto = d, !.dry = dry])
  /\ UNCHANGED <<calendar, leaseVars, books, ledger, errors, scope>>

NextCurrency(o) ==
  /\ o \in Operator /\ At(o, "currency")
  /\ \E c \in job[o].todo :
       UpdateJob(o, [job[o] EXCEPT !.todo = @ \ {c}, !.cur = c, !.pc = "check",
                                   !.next = job[o].upto, !.last = job[o].upto])
  /\ UNCHANGED <<calendar, leaseVars, books, ledger, errors, scope>>

FinishManual(o) ==
  /\ o \in Operator /\ At(o, "currency") /\ job[o].todo = {}
  /\ UpdateJob(o, IdleJob)
  /\ UNCHANGED <<calendar, leaseVars, books, ledger, errors, scope>>

-----------------------------------------------------------------------------
RunOneStep(p) == CheckReadiness(p) \/ CloseDay(p)

SchedulerStep(i) == OverdueDates(i) \/ ReleaseSchedule(i) \/ RunOneStep(i)

ManualStep(o) == NextCurrency(o) \/ FinishManual(o) \/ RunOneStep(o)

LedgerStep ==
  \/ \E c \in Currency : AcceptRequest(c)
  \/ \E c \in Currency, d \in Day : BeginPosting(c, d) \/ EndPosting(c, d) \/ Repair(c, d)

EodNext ==
  \/ Tick \/ LedgerStep \/ LeaseExpires
  \/ \E i \in Instance : AcquireSchedule(i) \/ SchedulerStep(i)
  \/ \E o \in Operator : ManualRun(o) \/ ManualStep(o)
  \/ \E p \in Closer : CallThrows(p) \/ Killed(p)

EodSpec == EodInit /\ [][EodNext]_eodVars

(* The timer polls, a call returns, a lease runs out, the consumer finishes *)
(* what it accepted, and accountants repair what blocks a day.              *)
EodFairness ==
  /\ SF_eodVars(\E i \in Instance : AcquireSchedule(i))
  /\ WF_eodVars(\E i \in Instance : SchedulerStep(i))
  /\ WF_eodVars(LeaseExpires)
  /\ WF_eodVars(\E c \in Currency, d \in Day : BeginPosting(c, d) \/ EndPosting(c, d) \/ Repair(c, d))

FairEodSpec == EodSpec /\ EodFairness

-----------------------------------------------------------------------------
EodTypeOK ==
  /\ today \in Date /\ due \in 1..LastDay
  /\ lease \in Instance \cup {"nobody"} /\ leaseLive \in BOOLEAN
  /\ period \in [Currency -> [Day -> {"NONE", "OPEN", "CLOSED", "FAILED"}]]
  /\ closedBy \in [Currency -> [Day -> {"nobody", "SCHEDULER", "OPERATOR"}]]
  /\ closes \in [Currency -> [Day -> Nat]]
  /\ counted \in [Currency -> [Day -> Nat]]
  /\ journals \in [Currency -> [Date -> Nat]]
  /\ work \in [Currency -> [Day -> {"none", "pending", "posting", "done"}]]
  /\ workDay \in [Currency -> [Day -> Date]]
  /\ fault \in [Currency -> [Day -> BOOLEAN]]
  /\ errors \in 0..scope.errors /\ scope \in Scopes
  /\ job \in [Closer -> [pc : {"idle", "currency", "check", "close"}, dry : BOOLEAN,
                         todo : SUBSET Currency, cur : Currency \cup {"none"},
                         next : Nat, last : 0..LastDay, upto : 0..LastDay]]

(* A business day is closed by one run, whoever asked for it and however    *)
(* often: "unique run versions make concurrent triggers safe".              *)
ClosedOnce == \A c \in Currency, d \in Day : closes[c][d] = IF Closed(c, d) THEN 1 ELSE 0

(* The snapshot of a closed day holds every journal dated that day: what    *)
(* readiness found posted or failed cannot come back into the day.          *)
ClosedDayWhole == \A c \in Currency, d \in Day : Closed(c, d) => counted[c][d] = journals[c][d]

(* "A later day can never close over a failed prior day."                   *)
NeverOverFailed ==
  [][\A c \in Currency, d \in Day :
       /\ ~Closed(c, d) /\ period'[c][d] = "CLOSED" /\ closedBy'[c][d] = "SCHEDULER"
       => \A e \in 1..(d - 1) : period[c][e] # "FAILED"]_eodVars

(* After failures, kills and expired leases the scheduler catches up, time  *)
(* and again: sooner or later no day that is due is left open.              *)
DueDaysClose == []<>(\A c \in Currency, d \in Day : due >= d => Closed(c, d))
=============================================================================
