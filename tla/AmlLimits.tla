------------------------------- MODULE AmlLimits -------------------------------
(***************************************************************************)
(* AML limits of one source wallet and keyword: sw_proc_aml_reserve and    *)
(* sw_proc_aml_finalize (migration 011) over the reservations of the wallet*)
(* and its SW_TBL_AML_SUMMARY row.  Every row and lock these procedures    *)
(* touch belongs to one wallet and keyword, so one pair is enough.         *)
(*                                                                         *)
(* A reserve call runs at READ COMMITTED: it waits for the advisory lock,  *)
(* reads the summary in one statement, the pending reservations in the     *)
(* next and inserts its row in a third, each with a snapshot of its own.   *)
(* A finalize call takes only row locks, so it may commit between any two  *)
(* of them.  CURRENT_DATE is the day a call's database transaction started *)
(* on.                                                                     *)
(***************************************************************************)
EXTENDS Integers, FiniteSets, Functions

CONSTANTS
  Transfer,         \* transaction ids of the wallet and keyword
  Amount,           \* what each of them moves
  MaxTxnAmount, DailyMaxAmount, DailyCount, MonthlyMaxAmount, MonthlyCount,
  DaysPerMonth,     \* length of a month
  LastDay,          \* bound: the calendar stops there
  MaxStraddle,      \* bound: days a reserve call may be behind the calendar
  MaxLate           \* bound: days a finalize call may be behind the calendar

Month(d) == d \div DaysPerMonth
Days     == 0 .. LastDay

ASSUME LimitsAssumption ==
  /\ IsFiniteSet(Transfer)
  /\ Amount \in [Transfer -> Nat \ {0}]
  /\ {MaxTxnAmount, DailyMaxAmount, DailyCount, MonthlyMaxAmount, MonthlyCount} \subseteq Nat
  /\ DaysPerMonth \in Nat \ {0}
  /\ LastDay \in Nat
  /\ {MaxStraddle, MaxLate} \subseteq Nat

VARIABLES
  today,        \* the calendar day
  call,         \* sw_proc_aml_reserve per transfer: idle, or the step it is at
  started,      \* the day the running reserve call started on
  seen,         \* the usage figures the running check has added up
  status,       \* reservation status
  reservedOn,   \* reserved_at
  completedOn,  \* the day COMPLETED was booked on (finalized_at)
  summary       \* SW_TBL_AML_SUMMARY: Last_Update_Date and the four figures

vars == <<today, call, started, seen, status, reservedOn, completedOn, summary>>

Locked   == {"summing", "deciding"}      \* the steps under the advisory lock
Running  == {"waiting"} \cup Locked
Usage    == [daily : Nat, dailyCount : Nat, monthly : Nat, monthlyCount : Nat]
NoUsage  == [daily |-> 0, dailyCount |-> 0, monthly |-> 0, monthlyCount |-> 0]
NoRow    == -1   \* Last_Update_Date of a summary that was never inserted

Reservation == INSTANCE AmlReservation WITH Reserver <- Transfer

TypeOK ==
  /\ today \in Days
  /\ call \in [Transfer -> {"idle"} \cup Running]
  /\ started \in [Transfer -> Days]
  /\ seen \in [Transfer -> Usage]
  /\ status \in [Transfer -> Reservation!Status]
  /\ reservedOn \in [Transfer -> Days]
  /\ completedOn \in [Transfer -> Days]
  /\ summary \in [day : Days \cup {NoRow}, used : Usage]

Init ==
  /\ today = 0
  /\ call = [t \in Transfer |-> "idle"]
  /\ started = [t \in Transfer |-> 0]
  /\ seen = [t \in Transfer |-> NoUsage]
  /\ status = [t \in Transfer |-> "NONE"]
  /\ reservedOn = [t \in Transfer |-> 0]
  /\ completedOn = [t \in Transfer |-> 0]
  /\ summary = [day |-> NoRow, used |-> NoUsage]

-----------------------------------------------------------------------------
(* sw_proc_aml_reserve                                                      *)

Total(S) == FoldFunctionOnSet(+, 0, Amount, S)

OnDay(S, d)   == {t \in S : reservedOn[t] = d}
InMonth(S, d) == {t \in S : Month(reservedOn[t]) = Month(d)}
Pending       == {t \in Transfer : status[t] = "PENDING"}

SameMonth(d) == summary.day # NoRow /\ Month(summary.day) = Month(d)

(* The summary's figures as they count on day d.                            *)
UsageOn(d) ==
  [daily        |-> IF summary.day = d THEN summary.used.daily ELSE 0,
   dailyCount   |-> IF summary.day = d THEN summary.used.dailyCount ELSE 0,
   monthly      |-> IF SameMonth(d) THEN summary.used.monthly ELSE 0,
   monthlyCount |-> IF SameMonth(d) THEN summary.used.monthlyCount ELSE 0]

(* The usage with the reservations pending now and transfer t added.        *)
WithPending(u, t) ==
  LET d == started[t] IN
  [daily        |-> u.daily + Total(OnDay(Pending, d)) + Amount[t],
   dailyCount   |-> u.dailyCount + Cardinality(OnDay(Pending, d)) + 1,
   monthly      |-> u.monthly + Total(InMonth(Pending, d)) + Amount[t],
   monthlyCount |-> u.monthlyCount + Cardinality(InMonth(Pending, d)) + 1]

WithinLimits(u) ==
  /\ u.daily <= DailyMaxAmount
  /\ u.dailyCount <= DailyCount
  /\ u.monthly <= MonthlyMaxAmount
  /\ u.monthlyCount <= MonthlyCount

(* What an answered call leaves behind: nothing but the row it inserted.    *)
Answered(t) ==
  /\ call' = [call EXCEPT ![t] = "idle"]
  /\ started' = [started EXCEPT ![t] = 0]
  /\ seen' = [seen EXCEPT ![t] = NoUsage]

BeginReserve(t) ==
  /\ call[t] = "idle"
  /\ call' = [call EXCEPT ![t] = "waiting"]
  /\ started' = [started EXCEPT ![t] = today]
  /\ UNCHANGED <<today, seen, status, reservedOn, completedOn, summary>>

(* Faulty: no advisory lock.                                                *)
FaultyLockFree == TRUE
LockFree       == \A u \in Transfer : call[u] \notin Locked

(* Faulty: the existing reservation is not looked up.                       *)
FaultyEligible(t, configured) == configured /\ Amount[t] <= MaxTxnAmount

(* An existing reservation, no active AML configuration and an amount above *)
(* the maximum are answered at once.                                        *)
Eligible(t, configured) == status[t] = "NONE" /\ configured /\ Amount[t] <= MaxTxnAmount

(* The advisory lock is taken and the summary is read.                      *)
ReadSummary(t, configured) ==
  /\ call[t] = "waiting"
  /\ LockFree
  /\ IF Eligible(t, configured)
       THEN /\ call' = [call EXCEPT ![t] = "summing"]
            /\ seen' = [seen EXCEPT ![t] = UsageOn(started[t])]
            /\ UNCHANGED started
       ELSE Answered(t)
  /\ UNCHANGED <<today, status, reservedOn, completedOn, summary>>

ReadPending(t) ==
  /\ call[t] = "summing"
  /\ call' = [call EXCEPT ![t] = "deciding"]
  /\ seen' = [seen EXCEPT ![t] = WithPending(@, t)]
  /\ UNCHANGED <<today, started, status, reservedOn, completedOn, summary>>

(* The limits are applied and the row is inserted or not.                   *)
Decide(t) ==
  /\ call[t] = "deciding"
  /\ IF WithinLimits(seen[t])
       THEN /\ status' = [status EXCEPT ![t] = "PENDING"]
            /\ reservedOn' = [reservedOn EXCEPT ![t] = started[t]]
       ELSE UNCHANGED <<status, reservedOn>>
  /\ Answered(t)
  /\ UNCHANGED <<today, completedOn, summary>>

-----------------------------------------------------------------------------
(* sw_proc_aml_finalize, started on day d                                   *)

(* Faulty: the operands are the wrong way round.                            *)
FaultyLess(base, n) == IF base > n THEN n - base ELSE 0
Less(base, n)       == IF base > n THEN base - n ELSE 0

Completed(t, d) ==
  LET u == UsageOn(d) IN
  [day |-> d,
   used |-> [daily        |-> u.daily + Amount[t],
             dailyCount   |-> u.dailyCount + 1,
             monthly      |-> u.monthly + Amount[t],
             monthlyCount |-> u.monthlyCount + 1]]

(* Faulty: a reversal that ignores the day the summary stands on.           *)
FaultySummaryOn(d) == summary.day # NoRow
SummaryOn(d)       == summary.day = d

(* A reversal takes the amount back only while the summary still stands on  *)
(* the day (or month) the transfer was reserved on; the row's date moves to *)
(* the day of the reversal in any case.                                     *)
Reversed(t, d) ==
  LET u == summary.used
      sameDay == SummaryOn(reservedOn[t])
      sameMonth == SameMonth(reservedOn[t])
  IN [day |-> d,
      used |-> [daily        |-> IF sameDay THEN Less(u.daily, Amount[t]) ELSE u.daily,
                dailyCount   |-> IF sameDay THEN Less(u.dailyCount, 1) ELSE u.dailyCount,
                monthly      |-> IF sameMonth THEN Less(u.monthly, Amount[t]) ELSE u.monthly,
                monthlyCount |-> IF sameMonth THEN Less(u.monthlyCount, 1) ELSE u.monthlyCount]]

SummaryAfter(t, outcome, d) ==
  IF Reservation!FinalizeCode(status[t], outcome) # outcome THEN summary
  ELSE CASE outcome = "COMPLETED" -> Completed(t, d)
         [] outcome = "REVERSED"  -> Reversed(t, d)
         [] OTHER                 -> summary

FinalizeOn(t, outcome, d) ==
  /\ status[t] # "NONE"
  /\ status' = [status EXCEPT ![t] = Reservation!Finalized(@, outcome)]
  /\ summary' = SummaryAfter(t, outcome, d)
  /\ completedOn' = IF status[t] # "COMPLETED" /\ status'[t] = "COMPLETED"
                      THEN [completedOn EXCEPT ![t] = d] ELSE completedOn
  /\ UNCHANGED <<today, call, started, seen, reservedOn>>

-----------------------------------------------------------------------------
(* The calendar, which waits for no reserve call longer than MaxStraddle    *)
(* days.                                                                    *)
NextDay ==
  /\ today < LastDay
  /\ \A t \in Transfer : call[t] \in Running => today + 1 - started[t] <= MaxStraddle
  /\ today' = today + 1
  /\ UNCHANGED <<call, started, seen, status, reservedOn, completedOn, summary>>

StartDay == {d \in Days : d <= today /\ today - d <= MaxLate}

ReserveStep(t) ==
  \/ BeginReserve(t)
  \/ \E configured \in BOOLEAN : ReadSummary(t, configured)
  \/ ReadPending(t)
  \/ Decide(t)
FinalizeStep(t) ==
  \E outcome \in Reservation!Outcomes, d \in StartDay : FinalizeOn(t, outcome, d)

Next == (\E t \in Transfer : ReserveStep(t) \/ FinalizeStep(t)) \/ NextDay

Spec == Init /\ [][Next]_vars

-----------------------------------------------------------------------------
(* Properties.                                                              *)

(* What one check let through, no later one forgets: the reservations       *)
(* pending from any day and any month stay within that day's and month's    *)
(* limits, however many producers reserve at once (the advisory lock) and   *)
(* finalize in between, and whichever calls straddle midnight.              *)
PendingAmountWithinLimits ==
  \A d \in Days :
    /\ Total(OnDay(Pending, d)) <= DailyMaxAmount
    /\ Total(InMonth(Pending, d)) <= MonthlyMaxAmount

(* The same of their number.                                                *)
PendingCountWithinLimits ==
  \A d \in Days :
    /\ Cardinality(OnDay(Pending, d)) <= DailyCount
    /\ Cardinality(InMonth(Pending, d)) <= MonthlyCount

(* The summary never under-reports: whatever was completed today or this    *)
(* month, and not reversed since, is counted in it, although the row keeps  *)
(* one date, is rewritten by completions and reversals of other days, and a *)
(* transfer may be completed on a later day than it was reserved on.        *)
BookedOn(d)      == {t \in Transfer : status[t] = "COMPLETED" /\ completedOn[t] = d}
BookedInMonth(d) == {t \in Transfer : status[t] = "COMPLETED" /\ Month(completedOn[t]) = Month(d)}
SummaryCovers ==
  LET u == UsageOn(today) IN
  /\ Total(BookedOn(today)) <= u.daily
  /\ Cardinality(BookedOn(today)) <= u.dailyCount
  /\ Total(BookedInMonth(today)) <= u.monthly
  /\ Cardinality(BookedInMonth(today)) <= u.monthlyCount

(* A reservation is granted only when what is completed and pending that    *)
(* day, together with it, is within the daily amount: README.md 197-200.    *)
DailyUse(d) == Total(BookedOn(d)) + Total(OnDay(Pending, d))
GrantedWithinLimit ==
  [][\A t \in Transfer :
       status[t] = "NONE" /\ status'[t] = "PENDING"
         => DailyUse(started[t]) + Amount[t] <= DailyMaxAmount]_vars

(* Reservations live the life of AmlReservation, however the two-step check *)
(* interleaves with finalizations.                                          *)
ReservationSpec == Reservation!RSpec
=============================================================================
