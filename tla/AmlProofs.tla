------------------------------ MODULE AmlProofs ------------------------------
(***************************************************************************)
(* Proofs about AmlLimits, for every number of transfers, every amount and *)
(* every limit: what is pending never breaks a day's or a month's limit,   *)
(* in amount or in number; reservations live the life AmlReservation       *)
(* promises; and, while no finalization is behind the calendar, the summary*)
(* covers what was completed.  The limits rest on the advisory lock: IInv  *)
(* says that one call at a time is past it, that its transfer has no row   *)
(* yet, and that the figures it added up still bound what is pending when  *)
(* it inserts.                                                             *)
(***************************************************************************)
EXTENDS AmlLimits, SumProofs

(* Amounts and numbers are both sums: of Amount, and of one per transfer.   *)
Each   == [t \in Transfer |-> 1]
Weight == [Transfer -> Nat]

DayUse(f)   == [d \in Days |-> SumOver(f, OnDay(Pending, d))]
MonthUse(f) == [d \in Days |-> SumOver(f, InMonth(Pending, d))]

OneLocked == \A t, u \in Transfer : call[t] \in Locked /\ call[u] \in Locked => t = u

LockedIsNew == \A t \in Transfer : call[t] \in Locked => status[t] = "NONE"

Decided ==
  \A t \in Transfer :
    call[t] = "deciding" =>
      /\ DayUse(Amount)[started[t]] + Amount[t] <= seen[t].daily
      /\ DayUse(Each)[started[t]] + Each[t] <= seen[t].dailyCount
      /\ MonthUse(Amount)[started[t]] + Amount[t] <= seen[t].monthly
      /\ MonthUse(Each)[started[t]] + Each[t] <= seen[t].monthlyCount

Limited ==
  \A d \in Days :
    /\ DayUse(Amount)[d] <= DailyMaxAmount
    /\ DayUse(Each)[d] <= DailyCount
    /\ MonthUse(Amount)[d] <= MonthlyMaxAmount
    /\ MonthUse(Each)[d] <= MonthlyCount

IInv == TypeOK /\ OneLocked /\ LockedIsNew /\ Decided /\ Limited

-----------------------------------------------------------------------------
(* Sums over sets of transfers.                                             *)

LEMMA Weights == Amount \in Weight /\ Each \in Weight
BY LimitsAssumption DEF Weight, Each

LEMMA FinitePart ==
  ASSUME NEW S \in SUBSET Transfer
  PROVE  IsFiniteSet(S)
BY LimitsAssumption, FS_Subset

LEMMA PartSum ==
  ASSUME NEW f \in Weight, NEW S \in SUBSET Transfer
  PROVE  Summable(f, S) /\ SumOver(f, S) \in Nat
<1>1. \A x \in S : f[x] \in Nat
  BY DEF Weight
<1> QED
  BY <1>1, FinitePart, SumNotNegative DEF Summable

LEMMA PartSmaller ==
  ASSUME NEW f \in Weight, NEW S \in SUBSET Transfer, NEW T \in SUBSET S
  PROVE  SumOver(f, T) <= SumOver(f, S)
<1>1. \A x \in S : f[x] >= 0
  BY DEF Weight
<1> QED
  BY <1>1, PartSum, FinitePart, SumOfPart

LEMMA PartWith ==
  ASSUME NEW f \in Weight, NEW S \in SUBSET Transfer, NEW t \in Transfer \ S
  PROVE  SumOver(f, S \cup {t}) = SumOver(f, S) + f[t]
<1>1. f[t] \in Int
  BY DEF Weight
<1> QED
  BY <1>1, PartSum, FinitePart, SumWith

LEMMA TotalAndCount ==
  ASSUME NEW S \in SUBSET Transfer
  PROVE  Total(S) = SumOver(Amount, S) /\ Cardinality(S) = SumOver(Each, S)
<1>1. Total(S) = SumOver(Amount, S)
  BY DEF Total, SumOver
<1>2. \A x \in S : Each[x] = 1
  BY DEF Each
<1>3. SumOver(Each, S) = Cardinality(S)
  <2> HIDE DEF Each
  <2> QED
    BY <1>2, FinitePart, SumOfOnes
<1> QED
  BY <1>1, <1>3

LEMMA PendingParts ==
  \A d : /\ OnDay(Pending, d) \in SUBSET Transfer /\ InMonth(Pending, d) \in SUBSET Transfer
         /\ OnDay(Pending, d)' \in SUBSET Transfer /\ InMonth(Pending, d)' \in SUBSET Transfer
BY DEF OnDay, InMonth, Pending

LEMMA UseTypes ==
  ASSUME NEW f \in Weight
  PROVE  /\ DayUse(f) \in [Days -> Nat] /\ MonthUse(f) \in [Days -> Nat]
         /\ DayUse(f)' \in [Days -> Nat] /\ MonthUse(f)' \in [Days -> Nat]
BY PendingParts, PartSum DEF DayUse, MonthUse

LEMMA LimitsByUse ==
  Limited => PendingAmountWithinLimits /\ PendingCountWithinLimits
BY PendingParts, TotalAndCount
DEF PendingAmountWithinLimits, PendingCountWithinLimits, Limited, DayUse, MonthUse

(* A step that makes no transfer newly pending raises no sum.               *)
LEMMA UsesShrink ==
  ASSUME \A t \in Transfer :
           status'[t] = "PENDING" => status[t] = "PENDING" /\ reservedOn'[t] = reservedOn[t],
         NEW f \in Weight
  PROVE  \A d \in Days : DayUse(f)'[d] <= DayUse(f)[d] /\ MonthUse(f)'[d] <= MonthUse(f)[d]
<1> TAKE d \in Days
<1>1. OnDay(Pending, d)' \in SUBSET OnDay(Pending, d)
  BY DEF OnDay, Pending
<1>2. InMonth(Pending, d)' \in SUBSET InMonth(Pending, d)
  BY DEF InMonth, Pending
<1>3. SumOver(f, OnDay(Pending, d)') <= SumOver(f, OnDay(Pending, d))
  BY <1>1, PendingParts, PartSmaller
<1>4. SumOver(f, InMonth(Pending, d)') <= SumOver(f, InMonth(Pending, d))
  BY <1>2, PendingParts, PartSmaller
<1> QED
  BY <1>3, <1>4 DEF DayUse, MonthUse

(* The reservation a deciding call inserts raises the sums of the day and   *)
(* the month the call started on, and no others.                            *)
LEMMA UsesGrow ==
  ASSUME NEW t \in Transfer, TypeOK,
         status' = [status EXCEPT ![t] = "PENDING"],
         reservedOn' = [reservedOn EXCEPT ![t] = started[t]],
         status[t] = "NONE",
         NEW d \in Days, NEW f \in Weight
  PROVE  /\ DayUse(f)'[d] = IF d = started[t] THEN DayUse(f)[d] + f[t] ELSE DayUse(f)[d]
         /\ MonthUse(f)'[d] = IF Month(d) = Month(started[t])
                                THEN MonthUse(f)[d] + f[t] ELSE MonthUse(f)[d]
<1>1. OnDay(Pending, d)' = IF d = started[t] THEN OnDay(Pending, d) \cup {t} ELSE OnDay(Pending, d)
  BY DEF OnDay, Pending, TypeOK
<1>2. InMonth(Pending, d)' = IF Month(d) = Month(started[t])
                              THEN InMonth(Pending, d) \cup {t} ELSE InMonth(Pending, d)
  BY DEF InMonth, Pending, TypeOK
<1>3. t \notin OnDay(Pending, d) /\ t \notin InMonth(Pending, d)
  BY DEF OnDay, InMonth, Pending
<1>4. SumOver(f, OnDay(Pending, d)') = IF d = started[t]
        THEN SumOver(f, OnDay(Pending, d)) + f[t] ELSE SumOver(f, OnDay(Pending, d))
  BY <1>1, <1>3, PendingParts, PartWith
<1>5. SumOver(f, InMonth(Pending, d)') = IF Month(d) = Month(started[t])
        THEN SumOver(f, InMonth(Pending, d)) + f[t] ELSE SumOver(f, InMonth(Pending, d))
  BY <1>2, <1>3, PendingParts, PartWith
<1> QED
  BY <1>4, <1>5 DEF DayUse, MonthUse

-----------------------------------------------------------------------------
(* Type correctness.                                                        *)

LEMMA UsageType == ASSUME TypeOK PROVE \A d : UsageOn(d) \in Usage
BY DEF UsageOn, TypeOK, Usage

LEMMA WithPendingType ==
  ASSUME TypeOK, NEW t \in Transfer, NEW u \in Usage
  PROVE  WithPending(u, t) \in Usage
<1>1. \A d : /\ Total(OnDay(Pending, d)) \in Nat /\ Cardinality(OnDay(Pending, d)) \in Nat
             /\ Total(InMonth(Pending, d)) \in Nat /\ Cardinality(InMonth(Pending, d)) \in Nat
  BY PendingParts, TotalAndCount, PartSum, Weights
<1> QED
  BY <1>1, LimitsAssumption DEF WithPending, Usage

LEMMA SummaryType ==
  ASSUME TypeOK, NEW t \in Transfer, NEW outcome, NEW d \in Days
  PROVE  SummaryAfter(t, outcome, d) \in [day : Days \cup {NoRow}, used : Usage]
<1>1. Completed(t, d) \in [day : Days \cup {NoRow}, used : Usage]
  BY UsageType, LimitsAssumption DEF Completed, Usage
<1>2. \A b, n \in Nat : Less(b, n) \in Nat
  BY DEF Less
<1>3. Reversed(t, d) \in [day : Days \cup {NoRow}, used : Usage]
  BY <1>2, LimitsAssumption DEF Reversed, TypeOK, Usage
<1> QED
  BY <1>1, <1>3 DEF SummaryAfter, TypeOK

LEMMA InitType == Init => TypeOK
BY LimitsAssumption DEF Init, TypeOK, Days, NoUsage, Usage, Reservation!Status

LEMMA AnsweredType ==
  ASSUME TypeOK, NEW t \in Transfer, Answered(t)
  PROVE  /\ call' \in [Transfer -> {"idle"} \cup Running]
         /\ started' \in [Transfer -> Days]
         /\ seen' \in [Transfer -> Usage]
BY LimitsAssumption DEF TypeOK, Answered, Days, NoUsage, Usage

LEMMA StepType == TypeOK /\ [Next]_vars => TypeOK'
<1> SUFFICES ASSUME TypeOK, [Next]_vars PROVE TypeOK'
  OBVIOUS
<1>1. ASSUME NEW t \in Transfer, BeginReserve(t) PROVE TypeOK'
  BY <1>1 DEF BeginReserve, TypeOK, Running
<1>2. ASSUME NEW t \in Transfer, NEW configured \in BOOLEAN, ReadSummary(t, configured)
      PROVE  TypeOK'
  <2>1. CASE Eligible(t, configured)
    BY <1>2, <2>1, UsageType DEF ReadSummary, TypeOK, Running, Locked
  <2>2. CASE ~Eligible(t, configured)
    BY <1>2, <2>2, AnsweredType DEF ReadSummary, TypeOK
  <2> QED
    BY <2>1, <2>2
<1>3. ASSUME NEW t \in Transfer, ReadPending(t) PROVE TypeOK'
  <2>1. WithPending(seen[t], t) \in Usage
    BY WithPendingType DEF TypeOK
  <2> QED
    BY <1>3, <2>1 DEF ReadPending, TypeOK, Running, Locked
<1>4. ASSUME NEW t \in Transfer, Decide(t) PROVE TypeOK'
  BY <1>4, AnsweredType DEF Decide, TypeOK, Reservation!Status
<1>5. ASSUME NEW t \in Transfer, NEW outcome \in Reservation!Outcomes, NEW d \in StartDay,
             FinalizeOn(t, outcome, d)
      PROVE  TypeOK'
  <2>1. d \in Days /\ SummaryAfter(t, outcome, d) \in [day : Days \cup {NoRow}, used : Usage]
    BY SummaryType DEF StartDay
  <2>2. status' \in [Transfer -> Reservation!Status]
    BY <1>5 DEF FinalizeOn, TypeOK, Reservation!Finalized, Reservation!Status, Reservation!Outcomes
  <2> QED
    BY <1>5, <2>1, <2>2 DEF FinalizeOn, TypeOK
<1>6. CASE NextDay
  BY <1>6, LimitsAssumption DEF NextDay, TypeOK, Days
<1>7. CASE UNCHANGED vars
  BY <1>7 DEF vars, TypeOK
<1> QED
  BY <1>1, <1>2, <1>3, <1>4, <1>5, <1>6, <1>7 DEF Next, ReserveStep, FinalizeStep

(* Reservations, running checks and the summary keep their shape: no figure *)
(* of the summary goes below zero, whatever is reversed.                    *)
THEOREM TypeCorrect == Spec => []TypeOK
<1> QED
  BY InitType, StepType, PTL DEF Spec

-----------------------------------------------------------------------------
(* The limits of what is pending.                                           *)

LEMMA InitIInv == Init => IInv
<1> SUFFICES ASSUME Init PROVE IInv
  OBVIOUS
<1>1. \A d : OnDay(Pending, d) = {} /\ InMonth(Pending, d) = {}
  BY DEF Init, OnDay, InMonth, Pending
<1>2. \A f \in Weight, d \in Days : DayUse(f)[d] = 0 /\ MonthUse(f)[d] = 0
  BY <1>1, SumEmpty DEF DayUse, MonthUse
<1>3. OneLocked /\ LockedIsNew /\ Decided
  BY DEF Init, OneLocked, LockedIsNew, Decided, Locked
<1>4. Limited
  BY <1>2, Weights, LimitsAssumption DEF Limited
<1> QED
  BY <1>3, <1>4, InitType DEF IInv

(* A step that leaves the running checks alone and makes nothing newly      *)
(* pending keeps what the checks know.                                      *)
LEMMA QuietStep ==
  ASSUME IInv, TypeOK',
         \A t \in Transfer :
           status'[t] = "PENDING" => status[t] = "PENDING" /\ reservedOn'[t] = reservedOn[t],
         \A t \in Transfer : call'[t] \in Locked =>
           call'[t] = call[t] /\ started'[t] = started[t] /\ seen'[t] = seen[t]
             /\ status'[t] = status[t]
  PROVE  IInv'
<1>1. \A f \in Weight, d \in Days :
        DayUse(f)'[d] <= DayUse(f)[d] /\ MonthUse(f)'[d] <= MonthUse(f)[d]
  BY UsesShrink
<1>2. \A f \in Weight : /\ DayUse(f) \in [Days -> Nat] /\ MonthUse(f) \in [Days -> Nat]
                        /\ DayUse(f)' \in [Days -> Nat] /\ MonthUse(f)' \in [Days -> Nat]
  BY UseTypes
<1>3. OneLocked' /\ LockedIsNew'
  BY DEF IInv, OneLocked, LockedIsNew, Locked
<1>4. Decided'
  <2> SUFFICES ASSUME NEW t \in Transfer, call'[t] = "deciding"
               PROVE  /\ DayUse(Amount)'[started'[t]] + Amount[t] <= seen'[t].daily
                      /\ DayUse(Each)'[started'[t]] + Each[t] <= seen'[t].dailyCount
                      /\ MonthUse(Amount)'[started'[t]] + Amount[t] <= seen'[t].monthly
                      /\ MonthUse(Each)'[started'[t]] + Each[t] <= seen'[t].monthlyCount
    BY DEF Decided
  <2>1. /\ call[t] = "deciding" /\ started'[t] = started[t] /\ seen'[t] = seen[t]
        /\ started[t] \in Days /\ seen[t] \in Usage
    BY DEF IInv, TypeOK, Locked
  <2>2. /\ DayUse(Amount)[started[t]] + Amount[t] <= seen[t].daily
        /\ DayUse(Each)[started[t]] + Each[t] <= seen[t].dailyCount
        /\ MonthUse(Amount)[started[t]] + Amount[t] <= seen[t].monthly
        /\ MonthUse(Each)[started[t]] + Each[t] <= seen[t].monthlyCount
    BY <2>1 DEF IInv, Decided
  <2>3. Amount[t] \in Nat /\ Each[t] \in Nat
    BY Weights DEF Weight
  <2> QED
    BY <1>1, <1>2, <2>1, <2>2, <2>3, Weights DEF Usage
<1>5. Limited'
  BY <1>1, <1>2, Weights, LimitsAssumption DEF IInv, Limited
<1> QED
  BY <1>3, <1>4, <1>5 DEF IInv

LEMMA ReadSummaryStep ==
  ASSUME IInv, TypeOK', NEW t \in Transfer, NEW configured \in BOOLEAN, ReadSummary(t, configured)
  PROVE  IInv'
<1> USE DEF IInv, ReadSummary
<1>1. CASE ~Eligible(t, configured)
  <2>1. Answered(t) /\ UNCHANGED <<status, reservedOn>>
    BY <1>1
  <2>2. \A u \in Transfer : call'[u] \in Locked =>
          call'[u] = call[u] /\ started'[u] = started[u] /\ seen'[u] = seen[u]
    BY <2>1 DEF Answered, TypeOK, Locked
  <2> QED
    BY <2>1, <2>2, QuietStep
<1>2. CASE Eligible(t, configured)
  <2>1. /\ LockFree /\ status[t] = "NONE"
        /\ call' = [call EXCEPT ![t] = "summing"]
        /\ \A u \in Transfer : u # t => seen'[u] = seen[u]
        /\ UNCHANGED <<started, status, reservedOn>>
    BY <1>2 DEF Eligible, TypeOK
  <2>2. OneLocked' /\ LockedIsNew'
    BY <2>1 DEF TypeOK, OneLocked, LockedIsNew, LockFree, Locked
  <2>3. Decided'
    BY <2>1 DEF Decided, LockFree, Locked, TypeOK
  <2>4. \A f \in Weight : DayUse(f)' = DayUse(f) /\ MonthUse(f)' = MonthUse(f)
    BY <2>1 DEF DayUse, MonthUse, OnDay, InMonth, Pending
  <2>5. Limited'
    BY <2>4, Weights DEF Limited
  <2> QED
    BY <2>2, <2>3, <2>5
<1> QED
  BY <1>1, <1>2

LEMMA ReadPendingStep ==
  ASSUME IInv, TypeOK', NEW t \in Transfer, ReadPending(t)
  PROVE  IInv'
<1> USE DEF IInv, ReadPending
<1>1. OneLocked' /\ LockedIsNew'
  BY DEF TypeOK, OneLocked, LockedIsNew, Locked
<1>2. \A f \in Weight : DayUse(f)' = DayUse(f) /\ MonthUse(f)' = MonthUse(f)
  BY DEF DayUse, MonthUse, OnDay, InMonth, Pending
<1>3. /\ seen'[t].daily = seen[t].daily + DayUse(Amount)[started[t]] + Amount[t]
      /\ seen'[t].dailyCount = seen[t].dailyCount + DayUse(Each)[started[t]] + Each[t]
      /\ seen'[t].monthly = seen[t].monthly + MonthUse(Amount)[started[t]] + Amount[t]
      /\ seen'[t].monthlyCount = seen[t].monthlyCount + MonthUse(Each)[started[t]] + Each[t]
  <2>1. started[t] \in Days /\ Each[t] = 1 /\ seen' = [seen EXCEPT ![t] = WithPending(seen[t], t)]
    BY DEF TypeOK, Each
  <2>2. \A d : /\ Total(OnDay(Pending, d)) = SumOver(Amount, OnDay(Pending, d))
               /\ Total(InMonth(Pending, d)) = SumOver(Amount, InMonth(Pending, d))
               /\ Cardinality(OnDay(Pending, d)) = SumOver(Each, OnDay(Pending, d))
               /\ Cardinality(InMonth(Pending, d)) = SumOver(Each, InMonth(Pending, d))
    BY PendingParts, TotalAndCount
  <2> HIDE DEF Each
  <2> QED
    BY <2>1, <2>2 DEF WithPending, DayUse, MonthUse, TypeOK
<1>4. Decided'
  <2> SUFFICES ASSUME NEW u \in Transfer, call'[u] = "deciding"
               PROVE  /\ DayUse(Amount)'[started'[u]] + Amount[u] <= seen'[u].daily
                      /\ DayUse(Each)'[started'[u]] + Each[u] <= seen'[u].dailyCount
                      /\ MonthUse(Amount)'[started'[u]] + Amount[u] <= seen'[u].monthly
                      /\ MonthUse(Each)'[started'[u]] + Each[u] <= seen'[u].monthlyCount
    BY DEF Decided
  <2>1. u = t
    BY DEF OneLocked, Locked, TypeOK
  <2>2. /\ started'[t] = started[t] /\ started[t] \in Days /\ seen[t] \in Usage
        /\ Amount[t] \in Nat /\ Each[t] \in Nat
    BY Weights DEF TypeOK, Weight
  <2>3. /\ DayUse(Amount)[started[t]] \in Nat /\ DayUse(Each)[started[t]] \in Nat
        /\ MonthUse(Amount)[started[t]] \in Nat /\ MonthUse(Each)[started[t]] \in Nat
    BY <2>2, Weights, UseTypes
  <2>4. DayUse(Amount)' = DayUse(Amount) /\ DayUse(Each)' = DayUse(Each)
        /\ MonthUse(Amount)' = MonthUse(Amount) /\ MonthUse(Each)' = MonthUse(Each)
    BY <1>2, Weights
  <2> QED
    BY <1>3, <2>1, <2>2, <2>3, <2>4 DEF Usage
<1>5. Limited'
  BY <1>2, Weights DEF Limited
<1> QED
  BY <1>1, <1>4, <1>5

LEMMA DecideStep ==
  ASSUME IInv, TypeOK', NEW t \in Transfer, Decide(t)
  PROVE  IInv'
<1> USE DEF IInv, Decide, Answered
<1>1. CASE ~WithinLimits(seen[t])
  <2>1. \A u \in Transfer : call'[u] \in Locked =>
          call'[u] = call[u] /\ started'[u] = started[u] /\ seen'[u] = seen[u]
    BY DEF TypeOK, Locked
  <2> QED
    BY <1>1, <2>1, QuietStep
<1>2. CASE WithinLimits(seen[t])
  <2>1. \A u \in Transfer : call'[u] \notin Locked
    BY DEF OneLocked, Locked, TypeOK
  <2>2. OneLocked' /\ LockedIsNew' /\ Decided'
    BY <2>1 DEF OneLocked, LockedIsNew, Decided, Locked
  <2>3. status[t] = "NONE" /\ started[t] \in Days /\ seen[t] \in Usage
    BY DEF LockedIsNew, Locked, TypeOK
  <2>4. /\ Amount[t] \in Nat /\ Each[t] \in Nat
        /\ DayUse(Amount)[started[t]] \in Nat /\ DayUse(Each)[started[t]] \in Nat
        /\ MonthUse(Amount)[started[t]] \in Nat /\ MonthUse(Each)[started[t]] \in Nat
    BY <2>3, Weights, UseTypes DEF Weight
  <2>5. /\ DayUse(Amount)[started[t]] + Amount[t] <= DailyMaxAmount
        /\ DayUse(Each)[started[t]] + Each[t] <= DailyCount
        /\ MonthUse(Amount)[started[t]] + Amount[t] <= MonthlyMaxAmount
        /\ MonthUse(Each)[started[t]] + Each[t] <= MonthlyCount
    BY <1>2, <2>3, <2>4, LimitsAssumption DEF WithinLimits, Decided, Usage
  <2>6. \A f \in Weight, d \in Days :
          /\ DayUse(f)'[d] = IF d = started[t] THEN DayUse(f)[d] + f[t] ELSE DayUse(f)[d]
          /\ MonthUse(f)'[d] = IF Month(d) = Month(started[t])
                                 THEN MonthUse(f)[d] + f[t] ELSE MonthUse(f)[d]
    BY <1>2, <2>3, UsesGrow
  <2>7. \A f \in Weight, d \in Days :
          Month(d) = Month(started[t]) => MonthUse(f)[d] = MonthUse(f)[started[t]]
    BY <2>3 DEF MonthUse, InMonth
  <2>8. Limited'
    BY <2>5, <2>6, <2>7, Weights DEF Limited
  <2> QED
    BY <2>2, <2>8
<1> QED
  BY <1>1, <1>2

LEMMA FinalizeOnStep ==
  ASSUME IInv, TypeOK', NEW t \in Transfer, NEW outcome \in Reservation!Outcomes, NEW d \in StartDay,
         FinalizeOn(t, outcome, d)
  PROVE  IInv'
<1> USE DEF FinalizeOn
<1>1. /\ \A u \in Transfer : u # t => status'[u] = status[u]
      /\ status'[t] = "PENDING" => status[t] = "PENDING"
  BY DEF IInv, TypeOK, Reservation!Finalized, Reservation!FinalizeCode, Reservation!Outcomes,
     Reservation!Status
<1>2. \A u \in Transfer : call[u] \in Locked => status'[u] = status[u]
  BY <1>1 DEF IInv, LockedIsNew
<1> QED
  BY <1>1, <1>2, QuietStep DEF IInv, TypeOK

LEMMA StepIInv == IInv /\ [Next]_vars => IInv'
<1> SUFFICES ASSUME IInv, [Next]_vars PROVE IInv'
  OBVIOUS
<1>1. TypeOK'
  BY StepType DEF IInv
<1>2. ASSUME NEW t \in Transfer, BeginReserve(t) PROVE IInv'
  <2>1. \A u \in Transfer : call'[u] \in Locked => call'[u] = call[u] /\ started'[u] = started[u]
    BY <1>2 DEF BeginReserve, IInv, TypeOK, Locked
  <2> QED
    BY <1>1, <1>2, <2>1, QuietStep DEF BeginReserve
<1>3. CASE NextDay
  BY <1>1, <1>3, QuietStep DEF NextDay
<1>4. CASE UNCHANGED vars
  BY <1>1, <1>4, QuietStep DEF vars
<1> QED
  BY <1>1, <1>2, <1>3, <1>4, ReadSummaryStep, ReadPendingStep, DecideStep, FinalizeOnStep
  DEF Next, ReserveStep, FinalizeStep

(* What the calls of reserve and finalize, overlapping in any way, keep true.*)
LEMMA Inductive == Spec => []IInv
<1> QED
  BY InitIInv, StepIInv, PTL DEF Spec

(* However many producers reserve at once and whatever finalizes between    *)
(* their two reads, sw_proc_aml_reserve never lets more be pending from one *)
(* day or one month than the AML configuration allows in amount.            *)
THEOREM PendingAmountBounded == Spec => []PendingAmountWithinLimits
<1>1. IInv => PendingAmountWithinLimits
  BY LimitsByUse DEF IInv
<1> QED
  BY Inductive, <1>1, PTL

(* And never more transactions than it allows in number.                    *)
THEOREM PendingCountBounded == Spec => []PendingCountWithinLimits
<1>1. IInv => PendingCountWithinLimits
  BY LimitsByUse DEF IInv
<1> QED
  BY Inductive, <1>1, PTL

-----------------------------------------------------------------------------
(* Refinement of the life of a reservation.                                 *)

(* Reserving in three statements and finalizing without the advisory lock   *)
(* still gives every reservation the life AmlReservation promises.          *)
THEOREM ImplementsReservation == Spec => ReservationSpec
<1>1. Init => Reservation!RInit
  BY DEF Init, Reservation!RInit
<1>2. IInv /\ [Next]_vars => [Reservation!RNext]_status
  <2> SUFFICES ASSUME IInv, Next PROVE [Reservation!RNext]_status
    BY DEF vars
  <2>1. ASSUME NEW t \in Transfer, ReserveStep(t) PROVE [Reservation!RNext]_status
    <3>1. CASE Decide(t)
      BY <3>1 DEF Decide, IInv, LockedIsNew, Locked, Reservation!RNext, Reservation!Reserve
    <3> QED
      BY <2>1, <3>1 DEF ReserveStep, BeginReserve, ReadSummary, ReadPending
  <2>2. ASSUME NEW t \in Transfer, FinalizeStep(t) PROVE [Reservation!RNext]_status
    BY <2>2 DEF FinalizeStep, FinalizeOn, Reservation!RNext, Reservation!Finalize
  <2>3. CASE NextDay
    BY <2>3 DEF NextDay
  <2> QED
    BY <2>1, <2>2, <2>3 DEF Next
<1> QED
  BY Inductive, <1>1, <1>2, PTL DEF Spec, ReservationSpec, Reservation!RSpec

-----------------------------------------------------------------------------
(* The summary.  It keeps one date and two figures of each kind; they cover *)
(* what was completed on that date and in its month, and nothing completed  *)
(* is later than that date.  The date itself never runs ahead of today.     *)

Dated ==
  /\ summary.day <= today
  /\ \A t \in Transfer :
       /\ started[t] <= today
       /\ status[t] # "NONE" => reservedOn[t] <= today
       /\ status[t] = "COMPLETED" =>
            reservedOn[t] <= completedOn[t] /\ completedOn[t] <= summary.day

CoveredBy(f, daily, monthly) ==
  /\ SumOver(f, BookedOn(summary.day)) <= daily
  /\ SumOver(f, BookedInMonth(summary.day)) <= monthly

Covered ==
  /\ CoveredBy(Amount, summary.used.daily, summary.used.monthly)
  /\ CoveredBy(Each, summary.used.dailyCount, summary.used.monthlyCount)

SInv == IInv /\ Dated /\ Covered

(* Days in order are in months in order.                                    *)
LEMMA MonthOrder ==
  ASSUME NEW a \in Int, NEW b \in Int, a <= b
  PROVE  Month(a) \in Int /\ Month(a) <= Month(b)
<1> DEFINE n == DaysPerMonth
           p == a \div n
           q == b \div n
<1>1. n \in Nat \ {0}
  BY LimitsAssumption
<1>2. p \in Int /\ n * p <= a /\ a < n * p + n
  BY <1>1
<1>3. q \in Int /\ n * q <= b /\ b < n * q + n
  BY <1>1
<1>4. ASSUME q < p PROVE FALSE
  <2> HIDE DEF p, q, n
  <2>1. q + 1 <= p
    BY <1>2, <1>3, <1>4
  <2>2. n * (q + 1) <= n * p
    BY <1>1, <1>2, <1>3, <2>1
  <2>3. n * (q + 1) = n * q + n
    BY <1>1, <1>3
  <2> QED
    BY <1>1, <1>2, <1>3, <2>2, <2>3
<1> QED
  BY <1>2, <1>3, <1>4 DEF Month

LEMMA DayTypes ==
  ASSUME TypeOK
  PROVE  /\ today \in Int /\ summary.day \in Int
         /\ \A t \in Transfer : started[t] \in Int /\ reservedOn[t] \in Int /\ completedOn[t] \in Int
         /\ summary.day # NoRow <=> summary.day \in Days
BY DEF TypeOK, Days, NoRow

LEMMA BookedParts ==
  \A d : /\ BookedOn(d) \in SUBSET Transfer /\ BookedInMonth(d) \in SUBSET Transfer
         /\ BookedOn(d)' \in SUBSET Transfer /\ BookedInMonth(d)' \in SUBSET Transfer
BY DEF BookedOn, BookedInMonth

(* What is booked today is no more than the figures as they count today.    *)
LEMMA CoversToday ==
  ASSUME TypeOK, Dated, NEW f \in Weight, NEW daily \in Nat, NEW monthly \in Nat,
         CoveredBy(f, daily, monthly)
  PROVE  /\ SumOver(f, BookedOn(today)) <= IF summary.day = today THEN daily ELSE 0
         /\ SumOver(f, BookedInMonth(today)) <= IF SameMonth(today) THEN monthly ELSE 0
<1>1. ASSUME summary.day # today PROVE SumOver(f, BookedOn(today)) = 0
  <2>1. BookedOn(today) = {}
    BY <1>1, DayTypes DEF BookedOn, Dated
  <2> QED
    BY <2>1, SumEmpty
<1>2. SumOver(f, BookedOn(today)) <= IF summary.day = today THEN daily ELSE 0
  BY <1>1 DEF CoveredBy
<1>3. CASE SameMonth(today)
  <2>1. BookedInMonth(today) = BookedInMonth(summary.day)
    BY <1>3 DEF SameMonth, BookedInMonth
  <2> QED
    BY <1>2, <1>3, <2>1 DEF CoveredBy
<1>4. CASE ~SameMonth(today)
  <2>1. ASSUME NEW t \in BookedInMonth(today) PROVE FALSE
    <3>1. /\ t \in Transfer /\ Month(completedOn[t]) = Month(today)
          /\ completedOn[t] <= summary.day /\ summary.day <= today
      BY <2>1 DEF BookedInMonth, Dated
    <3>2. completedOn[t] \in Days
      BY <3>1 DEF TypeOK
    <3>3. summary.day # NoRow
      BY <3>1, <3>2, DayTypes DEF NoRow, Days
    <3>4. /\ Month(completedOn[t]) <= Month(summary.day) /\ Month(summary.day) <= Month(today)
          /\ Month(summary.day) \in Int /\ Month(today) \in Int
      BY <3>1, DayTypes, MonthOrder
    <3> QED
      BY <1>4, <3>1, <3>3, <3>4 DEF SameMonth
  <2>2. BookedInMonth(today) = {}
    BY <2>1
  <2> QED
    BY <1>2, <1>4, <2>2, SumEmpty
<1> QED
  BY <1>3, <1>4

LEMMA CoveredMeans == SInv => SummaryCovers
<1> SUFFICES ASSUME SInv PROVE SummaryCovers
  OBVIOUS
<1>1. summary.used \in Usage
  BY DEF SInv, IInv, TypeOK
<1>2. /\ SumOver(Amount, BookedOn(today)) <= UsageOn(today).daily
      /\ SumOver(Each, BookedOn(today)) <= UsageOn(today).dailyCount
      /\ SumOver(Amount, BookedInMonth(today)) <= UsageOn(today).monthly
      /\ SumOver(Each, BookedInMonth(today)) <= UsageOn(today).monthlyCount
  BY <1>1, CoversToday, Weights DEF SInv, IInv, Covered, UsageOn, Usage
<1> QED
  BY <1>2, BookedParts, TotalAndCount DEF SummaryCovers

(* Completing t on today.                                                   *)
LEMMA CompletedCovers ==
  ASSUME TypeOK, Dated, NEW f \in Weight, NEW daily \in Nat, NEW monthly \in Nat,
         CoveredBy(f, daily, monthly),
         NEW t \in Transfer, status[t] = "PENDING",
         status' = [status EXCEPT ![t] = "COMPLETED"],
         completedOn' = [completedOn EXCEPT ![t] = today],
         summary'.day = today
  PROVE  /\ SumOver(f, BookedOn(summary.day)')
              <= (IF summary.day = today THEN daily ELSE 0) + f[t]
         /\ SumOver(f, BookedInMonth(summary.day)')
              <= (IF SameMonth(today) THEN monthly ELSE 0) + f[t]
<1>1. /\ BookedOn(today) \in SUBSET Transfer /\ BookedInMonth(today) \in SUBSET Transfer
      /\ t \notin BookedOn(today) /\ t \notin BookedInMonth(today)
  BY DEF BookedOn, BookedInMonth
<1>2. /\ BookedOn(summary.day)' = BookedOn(today) \cup {t}
      /\ BookedInMonth(summary.day)' = BookedInMonth(today) \cup {t}
  BY DEF BookedOn, BookedInMonth, TypeOK
<1>3. /\ SumOver(f, BookedOn(summary.day)') = SumOver(f, BookedOn(today)) + f[t]
      /\ SumOver(f, BookedInMonth(summary.day)') = SumOver(f, BookedInMonth(today)) + f[t]
  BY <1>1, <1>2, PartWith
<1>4. /\ SumOver(f, BookedOn(today)) <= IF summary.day = today THEN daily ELSE 0
      /\ SumOver(f, BookedInMonth(today)) <= IF SameMonth(today) THEN monthly ELSE 0
  BY CoversToday
<1>5. /\ SumOver(f, BookedOn(today)) \in Nat /\ SumOver(f, BookedInMonth(today)) \in Nat
      /\ f[t] \in Nat
  BY <1>1, PartSum DEF Weight
<1> QED
  BY <1>3, <1>4, <1>5 DEF CoveredBy

(* Reversing t today: the figures drop by t only where t was counted.       *)
LEMMA ReversedCovers ==
  ASSUME TypeOK, Dated, NEW f \in Weight, NEW daily \in Nat, NEW monthly \in Nat,
         CoveredBy(f, daily, monthly),
         NEW t \in Transfer, status[t] = "COMPLETED",
         status' = [status EXCEPT ![t] = "REVERSED"],
         UNCHANGED <<completedOn, reservedOn>>,
         summary'.day = today
  PROVE  /\ SumOver(f, BookedOn(summary.day)')
              <= IF SummaryOn(reservedOn[t]) THEN Less(daily, f[t]) ELSE daily
         /\ SumOver(f, BookedInMonth(summary.day)')
              <= IF SameMonth(reservedOn[t]) THEN Less(monthly, f[t]) ELSE monthly
<1> DEFINE day == IF SummaryOn(reservedOn[t]) THEN Less(daily, f[t]) ELSE daily
           month == IF SameMonth(reservedOn[t]) THEN Less(monthly, f[t]) ELSE monthly
<1>1. /\ BookedOn(today) \in SUBSET Transfer /\ BookedInMonth(today) \in SUBSET Transfer
      /\ BookedOn(summary.day)' \in SUBSET Transfer /\ BookedInMonth(summary.day)' \in SUBSET Transfer
      /\ f[t] \in Nat
  BY DEF BookedOn, BookedInMonth, Weight
<1>2. /\ BookedOn(summary.day)' = BookedOn(today) \ {t}
      /\ BookedInMonth(summary.day)' = BookedInMonth(today) \ {t}
  BY DEF BookedOn, BookedInMonth, TypeOK
<1>3. reservedOn[t] <= completedOn[t] /\ completedOn[t] <= summary.day /\ summary.day <= today
  BY DEF Dated
<1>4. /\ SumOver(f, BookedOn(summary.day)') \in Nat /\ SumOver(f, BookedInMonth(summary.day)') \in Nat
      /\ SumOver(f, BookedOn(summary.day)') <= SumOver(f, BookedOn(today))
      /\ SumOver(f, BookedInMonth(summary.day)') <= SumOver(f, BookedInMonth(today))
      /\ SumOver(f, BookedOn(today)) \in Nat /\ SumOver(f, BookedInMonth(today)) \in Nat
  BY <1>1, <1>2, PartSum, PartSmaller
<1>5. /\ t \in BookedOn(today) => SumOver(f, BookedOn(today)) = SumOver(f, BookedOn(summary.day)') + f[t]
      /\ t \in BookedInMonth(today) =>
           SumOver(f, BookedInMonth(today)) = SumOver(f, BookedInMonth(summary.day)') + f[t]
  <2>1. ASSUME NEW S \in SUBSET Transfer, t \in S
        PROVE  SumOver(f, S) = SumOver(f, S \ {t}) + f[t]
    <3>1. (S \ {t}) \cup {t} = S /\ S \ {t} \in SUBSET Transfer /\ t \in Transfer \ (S \ {t})
      BY <2>1
    <3> QED
      BY <3>1, PartWith
  <2> QED
    BY <1>1, <1>2, <2>1
<1>6. /\ SumOver(f, BookedOn(today)) <= IF summary.day = today THEN daily ELSE 0
      /\ SumOver(f, BookedInMonth(today)) <= IF SameMonth(today) THEN monthly ELSE 0
  BY CoversToday
<1>7. day \in Nat /\ month \in Nat
  BY <1>1 DEF Less
<1>8. SumOver(f, BookedOn(summary.day)') <= day
  <2>1. CASE summary.day = today /\ SummaryOn(reservedOn[t])
    <3>1. t \in BookedOn(today)
      BY <1>3, <2>1, DayTypes DEF SummaryOn, BookedOn
    <3> QED
      BY <1>1, <1>4, <1>5, <1>6, <2>1, <3>1 DEF Less
  <2>2. CASE summary.day = today /\ ~SummaryOn(reservedOn[t])
    BY <1>4, <1>6, <2>2
  <2>3. CASE summary.day # today
    BY <1>4, <1>6, <1>7, <2>3
  <2> QED
    BY <2>1, <2>2, <2>3
<1>9. SumOver(f, BookedInMonth(summary.day)') <= month
  <2>1. CASE SameMonth(today) /\ SameMonth(reservedOn[t])
    <3>1. /\ Month(reservedOn[t]) = Month(summary.day) /\ Month(summary.day) = Month(today)
      BY <2>1 DEF SameMonth
    <3>2. Month(completedOn[t]) = Month(today)
      <4>1. /\ Month(reservedOn[t]) <= Month(completedOn[t]) /\ Month(completedOn[t]) <= Month(summary.day)
            /\ Month(reservedOn[t]) \in Int /\ Month(completedOn[t]) \in Int
        BY <1>3, DayTypes, MonthOrder
      <4> QED
        BY <3>1, <4>1
    <3>3. t \in BookedInMonth(today)
      BY <3>2 DEF BookedInMonth
    <3> QED
      BY <1>1, <1>4, <1>5, <1>6, <2>1, <3>3 DEF Less
  <2>2. CASE SameMonth(today) /\ ~SameMonth(reservedOn[t])
    BY <1>4, <1>6, <2>2
  <2>3. CASE ~SameMonth(today)
    BY <1>4, <1>6, <1>7, <2>3
  <2> QED
    BY <2>1, <2>2, <2>3
<1> QED
  BY <1>8, <1>9

LEMMA FinalizeSummary ==
  ASSUME SInv, MaxLate = 0, TypeOK',
         NEW t \in Transfer, NEW outcome \in Reservation!Outcomes, NEW d \in StartDay,
         FinalizeOn(t, outcome, d)
  PROVE  Dated' /\ Covered'
<1>1. d = today /\ today \in Int
  BY DayTypes DEF StartDay, SInv, IInv, Days
<1>2. /\ TypeOK /\ Dated /\ Covered
      /\ summary.used \in Usage
      /\ summary' = SummaryAfter(t, outcome, today)
      /\ status' = [status EXCEPT ![t] = Reservation!Finalized(status[t], outcome)]
      /\ status[t] # "NONE"
      /\ completedOn' = IF status[t] # "COMPLETED" /\ status'[t] = "COMPLETED"
                          THEN [completedOn EXCEPT ![t] = today] ELSE completedOn
      /\ UNCHANGED <<today, started, reservedOn>>
      /\ status \in [Transfer -> Reservation!Status]
  BY <1>1 DEF FinalizeOn, SInv, IInv, TypeOK
<1>3. CASE Reservation!FinalizeCode(status[t], outcome) # outcome
            \/ outcome \notin {"COMPLETED", "REVERSED"}
  <2>1. /\ summary' = summary
        /\ \A u \in Transfer : status'[u] = "COMPLETED" <=> status[u] = "COMPLETED"
        /\ \A u \in Transfer : status'[u] # "NONE" => status[u] # "NONE"
    BY <1>2, <1>3 DEF SummaryAfter, Reservation!Finalized, Reservation!FinalizeCode,
       Reservation!Outcomes, Reservation!Before, Reservation!Status
  <2>2. completedOn' = completedOn
    BY <1>2, <2>1
  <2>3. BookedOn(summary.day)' = BookedOn(summary.day)
        /\ BookedInMonth(summary.day)' = BookedInMonth(summary.day)
    BY <2>1, <2>2 DEF BookedOn, BookedInMonth
  <2> QED
    BY <1>2, <2>1, <2>2, <2>3 DEF Dated, Covered, CoveredBy
<1>4. CASE outcome = "COMPLETED" /\ Reservation!FinalizeCode(status[t], outcome) = outcome
  <2>1. /\ status[t] = "PENDING" /\ status' = [status EXCEPT ![t] = "COMPLETED"]
        /\ summary' = Completed(t, today)
        /\ completedOn' = [completedOn EXCEPT ![t] = today]
    BY <1>2, <1>4 DEF SummaryAfter, Reservation!Finalized, Reservation!FinalizeCode,
       Reservation!Before
  <2>2. /\ summary'.day = today
        /\ summary'.used.daily = (IF summary.day = today THEN summary.used.daily ELSE 0) + Amount[t]
        /\ summary'.used.dailyCount = (IF summary.day = today THEN summary.used.dailyCount ELSE 0) + Each[t]
        /\ summary'.used.monthly = (IF SameMonth(today) THEN summary.used.monthly ELSE 0) + Amount[t]
        /\ summary'.used.monthlyCount = (IF SameMonth(today) THEN summary.used.monthlyCount ELSE 0) + Each[t]
    BY <2>1 DEF Completed, UsageOn, Each
  <2>3. /\ summary.used.daily \in Nat /\ summary.used.dailyCount \in Nat
        /\ summary.used.monthly \in Nat /\ summary.used.monthlyCount \in Nat
    BY <1>2 DEF Usage
  <2>4. /\ SumOver(Amount, BookedOn(summary.day)')
             <= (IF summary.day = today THEN summary.used.daily ELSE 0) + Amount[t]
        /\ SumOver(Amount, BookedInMonth(summary.day)')
             <= (IF SameMonth(today) THEN summary.used.monthly ELSE 0) + Amount[t]
        /\ SumOver(Each, BookedOn(summary.day)')
             <= (IF summary.day = today THEN summary.used.dailyCount ELSE 0) + Each[t]
        /\ SumOver(Each, BookedInMonth(summary.day)')
             <= (IF SameMonth(today) THEN summary.used.monthlyCount ELSE 0) + Each[t]
    BY <1>2, <2>1, <2>2, <2>3, Weights, CompletedCovers DEF Covered
  <2>5. Dated'
    <3>1. /\ summary.day <= today
          /\ \A u \in Transfer :
               /\ started[u] <= today
               /\ status[u] # "NONE" => reservedOn[u] <= today
               /\ status[u] = "COMPLETED" =>
                    reservedOn[u] <= completedOn[u] /\ completedOn[u] <= summary.day
      BY <1>2 DEF Dated
    <3>2. \A u \in Transfer :
            /\ status'[u] = IF u = t THEN "COMPLETED" ELSE status[u]
            /\ completedOn'[u] = IF u = t THEN today ELSE completedOn[u]
      BY <1>2, <2>1 DEF TypeOK
    <3>3. /\ today \in Int /\ summary.day \in Int
          /\ \A u \in Transfer : started[u] \in Int /\ reservedOn[u] \in Int /\ completedOn[u] \in Int
      BY <1>2, DayTypes
    <3> QED
      BY <1>2, <2>1, <2>2, <3>1, <3>2, <3>3 DEF Dated
  <2>6. Covered'
    BY <2>2, <2>4 DEF Covered, CoveredBy
  <2> QED
    BY <2>5, <2>6
<1>5. CASE outcome = "REVERSED" /\ Reservation!FinalizeCode(status[t], outcome) = outcome
  <2>1. /\ status[t] = "COMPLETED" /\ status' = [status EXCEPT ![t] = "REVERSED"]
        /\ summary' = Reversed(t, today)
        /\ completedOn' = completedOn
    BY <1>2, <1>5 DEF SummaryAfter, Reservation!Finalized, Reservation!FinalizeCode,
       Reservation!Before
  <2>2. /\ summary'.day = today /\ Each[t] = 1
        /\ summary'.used.daily = IF SummaryOn(reservedOn[t])
             THEN Less(summary.used.daily, Amount[t]) ELSE summary.used.daily
        /\ summary'.used.dailyCount = IF SummaryOn(reservedOn[t])
             THEN Less(summary.used.dailyCount, 1) ELSE summary.used.dailyCount
        /\ summary'.used.monthly = IF SameMonth(reservedOn[t])
             THEN Less(summary.used.monthly, Amount[t]) ELSE summary.used.monthly
        /\ summary'.used.monthlyCount = IF SameMonth(reservedOn[t])
             THEN Less(summary.used.monthlyCount, 1) ELSE summary.used.monthlyCount
    BY <2>1 DEF Reversed, Each
  <2>3. /\ summary.used.daily \in Nat /\ summary.used.dailyCount \in Nat
        /\ summary.used.monthly \in Nat /\ summary.used.monthlyCount \in Nat
        /\ summary'.used.daily \in Nat /\ summary'.used.dailyCount \in Nat
        /\ summary'.used.monthly \in Nat /\ summary'.used.monthlyCount \in Nat
    BY <1>2 DEF TypeOK, Usage
  <2>4. UNCHANGED <<completedOn, reservedOn>>
    BY <1>2, <2>1
  <2>5. /\ SumOver(Amount, BookedOn(summary.day)') <= summary'.used.daily
        /\ SumOver(Amount, BookedInMonth(summary.day)') <= summary'.used.monthly
        /\ SumOver(Each, BookedOn(summary.day)') <= summary'.used.dailyCount
        /\ SumOver(Each, BookedInMonth(summary.day)') <= summary'.used.monthlyCount
    <3>1. \A f \in Weight, daily, monthly \in Nat :
            CoveredBy(f, daily, monthly) =>
              /\ SumOver(f, BookedOn(summary.day)')
                   <= IF SummaryOn(reservedOn[t]) THEN Less(daily, f[t]) ELSE daily
              /\ SumOver(f, BookedInMonth(summary.day)')
                   <= IF SameMonth(reservedOn[t]) THEN Less(monthly, f[t]) ELSE monthly
      BY <1>2, <2>1, <2>2, <2>4, ReversedCovers
    <3> QED
      BY <1>2, <2>2, <2>3, <3>1, Weights DEF Covered
  <2>6. Dated'
    <3>1. \A u \in Transfer : status'[u] = IF u = t THEN "REVERSED" ELSE status[u]
      BY <1>2, <2>1
    <3> QED
      BY <1>2, <2>1, <2>2, <3>1, DayTypes DEF Dated
  <2>7. Covered'
    BY <2>2, <2>5 DEF Covered, CoveredBy
  <2> QED
    BY <2>6, <2>7
<1> QED
  BY <1>3, <1>4, <1>5 DEF Reservation!Outcomes

LEMMA InitSInv == Init => SInv
<1> SUFFICES ASSUME Init PROVE SInv
  OBVIOUS
<1>1. Dated
  BY DEF Init, Dated, NoRow
<1>2. \A d : BookedOn(d) = {} /\ BookedInMonth(d) = {}
  BY DEF Init, BookedOn, BookedInMonth
<1>3. Covered
  BY <1>2, SumEmpty DEF Init, Covered, CoveredBy, NoUsage
<1> QED
  BY <1>1, <1>3, InitIInv DEF SInv

(* A step of another kind: nothing becomes or stops being completed.        *)
LEMMA OtherSummary ==
  ASSUME Covered, UNCHANGED <<summary, completedOn>>,
         \A u \in Transfer : status'[u] = "COMPLETED" <=> status[u] = "COMPLETED"
  PROVE  Covered'
<1>1. /\ BookedOn(summary.day)' = BookedOn(summary.day)
      /\ BookedInMonth(summary.day)' = BookedInMonth(summary.day)
  BY DEF BookedOn, BookedInMonth
<1> QED
  BY <1>1 DEF Covered, CoveredBy

LEMMA StepSInv ==
  ASSUME MaxLate = 0
  PROVE  SInv /\ [Next]_vars => SInv'
<1> SUFFICES ASSUME SInv, [Next]_vars PROVE SInv'
  OBVIOUS
<1>1. IInv' /\ TypeOK /\ TypeOK' /\ Dated /\ Covered
  BY StepIInv DEF SInv, IInv
<1>2. /\ today \in Int /\ summary.day \in Int /\ 0 <= today
      /\ \A t \in Transfer : started[t] \in Int /\ reservedOn[t] \in Int
  BY <1>1, DayTypes DEF TypeOK, Days
<1>3. ASSUME NEW t \in Transfer, BeginReserve(t) PROVE SInv'
  <2>1. Dated'
    BY <1>1, <1>2, <1>3 DEF BeginReserve, Dated, TypeOK
  <2> QED
    BY <1>1, <1>3, <2>1, OtherSummary DEF BeginReserve, SInv
<1>4. ASSUME NEW t \in Transfer, NEW configured \in BOOLEAN, ReadSummary(t, configured)
      PROVE  SInv'
  <2>1. Dated'
    BY <1>1, <1>2, <1>4 DEF ReadSummary, Answered, Dated, TypeOK
  <2> QED
    BY <1>1, <1>4, <2>1, OtherSummary DEF ReadSummary, SInv
<1>5. ASSUME NEW t \in Transfer, ReadPending(t) PROVE SInv'
  BY <1>1, <1>5, OtherSummary DEF ReadPending, SInv, Dated
<1>6. ASSUME NEW t \in Transfer, Decide(t) PROVE SInv'
  <2>1. /\ status[t] = "NONE"
        /\ \A u \in Transfer : u # t => status'[u] = status[u] /\ reservedOn'[u] = reservedOn[u]
        /\ \/ status'[t] = "PENDING" /\ reservedOn'[t] = started[t]
           \/ status'[t] = status[t] /\ reservedOn'[t] = reservedOn[t]
        /\ UNCHANGED <<today, completedOn, summary>>
        /\ \A u \in Transfer : started'[u] \in {0, started[u]}
    BY <1>1, <1>6 DEF SInv, IInv, LockedIsNew, Locked, Decide, Answered, TypeOK
  <2>2. Dated'
    BY <1>1, <1>2, <2>1 DEF Dated
  <2>3. Covered'
    BY <1>1, <2>1, OtherSummary
  <2> QED
    BY <1>1, <2>2, <2>3 DEF SInv
<1>7. ASSUME NEW t \in Transfer, NEW outcome \in Reservation!Outcomes, NEW d \in StartDay,
             FinalizeOn(t, outcome, d)
      PROVE  SInv'
  BY <1>1, <1>7, FinalizeSummary DEF SInv
<1>8. CASE NextDay
  <2>1. Dated'
    BY <1>1, <1>2, <1>8 DEF NextDay, Dated
  <2> QED
    BY <1>1, <1>8, <2>1, OtherSummary DEF NextDay, SInv
<1>9. CASE UNCHANGED vars
  BY <1>1, <1>9, OtherSummary DEF vars, SInv, Dated
<1> QED
  BY <1>3, <1>4, <1>5, <1>6, <1>7, <1>8, <1>9 DEF Next, ReserveStep, FinalizeStep

(* While finalizations commit on the day they started, the summary never    *)
(* under-reports what was completed today or this month, although its row   *)
(* keeps one date that completions and reversals of other days rewrite.     *)
THEOREM SummaryAlwaysCovers ==
  ASSUME MaxLate = 0
  PROVE  Spec => []SummaryCovers
<1>1. SInv /\ [Next]_vars => SInv'
  BY StepSInv
<1> QED
  BY InitSInv, <1>1, CoveredMeans, PTL DEF Spec
=============================================================================
