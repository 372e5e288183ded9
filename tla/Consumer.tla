------------------------------- MODULE Consumer -------------------------------
(***************************************************************************)
(* The consumer service's handling of one Kafka message,                   *)
(* TransactionReaderService.read, and the merchant it talks to.  A handler *)
(* that returns acknowledges its message; one that throws or dies leaves   *)
(* it in the topic, and Kafka delivers it again.  After a rebalance two    *)
(* handlers may hold the same message.                                     *)
(***************************************************************************)
EXTENDS PipelineState

TxOf(w)      == worker[w].tx
OtherThanWork == <<producer, special, decided, confirmVars, disputeVars, flips>>

Holds(w, pc)  == worker[w].pc = pc
Continue(w, pc) == worker' = [worker EXCEPT ![w].pc = pc, ![w].answer = "none"]
Throw(w)      == worker' = [worker EXCEPT ![w] = IdleWorker]
GoOn(w, next) == IF next = "throw" THEN Throw(w) ELSE Continue(w, next)

(* The destination's merchant profile is read here.                         *)
Deliver(w, t) ==
  /\ Holds(w, "idle")
  /\ t \in topic
  /\ worker' = [worker EXCEPT ![w] = [IdleWorker EXCEPT
                  !.pc = IF special THEN "reserve" ELSE "direct", !.tx = t]]
  /\ UNCHANGED <<vars, aml, topic, attempt, asked, said, crashes, OtherThanWork>>

(* The message is acknowledged when its handler has returned.               *)
Acknowledge(w) ==
  /\ Holds(w, "ack")
  /\ topic' = topic \ {TxOf(w)}
  /\ Throw(w)
  /\ UNCHANGED <<vars, aml, attempt, asked, said, crashes, OtherThanWork>>

(* A handler dies, or a call of it fails.                                   *)
WorkerCrash(w) ==
  /\ ~Holds(w, "idle")
  /\ crashes < MaxCrash
  /\ crashes' = crashes + 1
  /\ Throw(w)
  /\ UNCHANGED <<vars, aml, topic, attempt, asked, said, OtherThanWork>>

-----------------------------------------------------------------------------
(* A posting call of handler w, and the step its result leads to.           *)
PostCall(w, op, next) ==
  /\ Post(TxOf(w), op, Amounts(TxOf(w), op))
  /\ GoOn(w, next)
  /\ UNCHANGED <<aml, topic, attempt, asked, said, crashes, OtherThanWork>>

FirstLegRefused(r) == IF Retryable(r) THEN "throw" ELSE "release"

(* Faulty: a repeated posting is taken for a refusal.                       *)
FaultyAfterDirect(r) == IF Accepted(r, {"COMPLETED"}) THEN "complete" ELSE FirstLegRefused(r)

(* Faulty: nothing is left to do for a repeated posting.                    *)
HastyAfterDirect(r) ==
  IF r.code = "ALREADY_COMPLETED" THEN "ack"
  ELSE IF Accepted(r, {"COMPLETED"}) THEN "complete" ELSE FirstLegRefused(r)

AfterDirect(r) ==
  IF Accepted(r, {"COMPLETED", "ALREADY_COMPLETED"}) THEN "complete" ELSE FirstLegRefused(r)

(* Faulty: a payment already settled is taken for a refusal.                *)
FaultyAfterReserve(r) ==
  IF Accepted(r, {"RESERVED", "ALREADY_RESERVED"}) THEN "lookup" ELSE FirstLegRefused(r)

AfterReserve(r) ==
  IF ~Accepted(r, {"RESERVED", "ALREADY_RESERVED", "ALREADY_COMPLETED"}) THEN FirstLegRefused(r)
  ELSE IF r.code = "ALREADY_COMPLETED" THEN "complete" ELSE "lookup"

Blocked(r) == IF Retryable(r) THEN "blockRetry" ELSE "block"

AfterSettle(r) == IF Accepted(r, {"COMPLETED", "ALREADY_COMPLETED"}) THEN "settled" ELSE Blocked(r)
AfterReject(r) == IF Accepted(r, {"REVERSED", "ALREADY_REVERSED"}) THEN "rejected" ELSE Blocked(r)

(* processDirect                                                            *)
PostDirect(w) ==
  /\ Holds(w, "direct")
  /\ PostCall(w, "DIRECT_1", AfterDirect(Result(TxOf(w), "DIRECT_1")))

(* processSpecialMerchant: leg 1 before the merchant is asked.              *)
PostReserve(w) ==
  /\ Holds(w, "reserve")
  /\ PostCall(w, "TWO_LEG_1", AfterReserve(Result(TxOf(w), "TWO_LEG_1")))

(* settleSpecialTransaction                                                 *)
PostSettle(w) ==
  /\ Holds(w, "settle")
  /\ PostCall(w, "TWO_LEG_2", AfterSettle(Result(TxOf(w), "TWO_LEG_2")))

(* reverseRejectedSpecialTransaction                                        *)
PostReject(w) ==
  /\ Holds(w, "reject")
  /\ PostCall(w, "TWO_LEG_REVERSE", AfterReject(Result(TxOf(w), "TWO_LEG_REVERSE")))

-----------------------------------------------------------------------------
(* findMerchantAttempt: a decision already known is not asked for again.    *)
(* The correlation id is the stored one, or a new one, named after w.       *)
LookUpAttempt(w) ==
  LET a == attempt[TxOf(w)]
      known == [APPROVED |-> "settle", REJECTED |-> "reject"]
  IN /\ Holds(w, "lookup")
     /\ worker' = [worker EXCEPT
          ![w].pc = IF a.confirmation \in Decision THEN known[a.confirmation] ELSE "mark",
          ![w].correlation = IF a.confirmation \in Decision THEN Nobody
                             ELSE IF a.correlation # Nobody THEN a.correlation ELSE w]
     /\ UNCHANGED <<vars, aml, topic, attempt, asked, said, crashes, OtherThanWork>>

(* markMerchantAttemptPending: on conflict the correlation id and the       *)
(* posting status stay.                                                     *)
MarkPending(w) ==
  LET t == TxOf(w) IN
  /\ Holds(w, "mark")
  /\ attempt' = [attempt EXCEPT
       ![t].confirmation = "PENDING",
       ![t].correlation = IF @ = Nobody THEN worker[w].correlation ELSE @]
  /\ Continue(w, "dispatch")
  /\ UNCHANGED <<vars, aml, topic, asked, said, crashes, OtherThanWork>>

(* dispatch: the request reaches the merchant, or its topic.                *)
SendToMerchant(w) ==
  /\ Holds(w, "dispatch")
  /\ asked' = [asked EXCEPT ![TxOf(w)] = @ \cup {worker[w].correlation}]
  /\ Continue(w, "await")
  /\ UNCHANGED <<vars, aml, topic, attempt, said, crashes, OtherThanWork>>

Hear(w, a) ==
  /\ worker' = [worker EXCEPT ![w].pc = "save", ![w].answer = a, ![w].correlation = Nobody]
  /\ UNCHANGED <<vars, aml, topic, attempt, asked, crashes, OtherThanWork>>

(* A merchant on a Kafka channel answers later, by a callback.              *)
DispatchedToKafka(w) ==
  /\ Holds(w, "await")
  /\ "KAFKA" \in Channel
  /\ Hear(w, "PENDING")
  /\ UNCHANGED said

(* A merchant on an API channel answers with its decision.                  *)
HearDecision(w) ==
  LET d == decided[TxOf(w)] IN
  /\ Holds(w, "await")
  /\ "API" \in Channel
  /\ d \in Decision
  /\ Hear(w, d)
  /\ said' = [said EXCEPT ![TxOf(w)] = @ \cup {d}]

(* A timeout, an error or an ambiguous answer, whether or not the merchant  *)
(* got the request.                                                         *)
HearNothing(w) ==
  /\ worker[w].pc \in {"dispatch", "await"}
  /\ Hear(w, "UNKNOWN")
  /\ UNCHANGED said

(* Faulty: a published request counts as a payment.                         *)
EagerAfterAnswer(a) ==
  CASE a \in {"PENDING", "APPROVED"} -> "settle" [] a = "REJECTED" -> "reject" [] OTHER -> "throw"

(* Faulty: a message is done with when the merchant has not answered.       *)
LazyAfterAnswer(a) ==
  CASE a = "APPROVED" -> "settle" [] a = "REJECTED" -> "reject" [] OTHER -> "ack"

AfterAnswer(a) ==
  CASE a = "PENDING"  -> "ack"
    [] a = "APPROVED" -> "settle"
    [] a = "REJECTED" -> "reject"
    [] OTHER          -> "throw"

(* saveMerchantAttemptDecision, and what follows from each answer.          *)
SaveDecision(w) ==
  LET a == worker[w].answer IN
  /\ Holds(w, "save")
  /\ attempt' = [attempt EXCEPT ![TxOf(w)].confirmation = a]
  /\ GoOn(w, AfterAnswer(a))
  /\ UNCHANGED <<vars, aml, topic, asked, said, crashes, OtherThanWork>>

SavingPc == {"settled", "rejected", "block", "blockRetry"}
SavedPosting(pc) ==
  CASE pc = "settled" -> "COMPLETED" [] pc = "rejected" -> "REVERSED" [] OTHER -> "BLOCKED"

(* Faulty: a rejected payment is booked like a settled one.                 *)
FaultyAfterSaving(pc) ==
  CASE pc \in {"settled", "rejected"} -> "complete" [] pc = "block" -> "ack" [] OTHER -> "throw"

AfterSaving(pc) ==
  CASE pc = "settled"  -> "complete"
    [] pc = "rejected" -> "release"
    [] pc = "block"    -> "ack"
    [] OTHER           -> "throw"

(* updateMerchantPostingStatus after leg 2 or the reversal.                 *)
SavePosting(w) ==
  LET pc == worker[w].pc IN
  /\ pc \in SavingPc
  /\ SetPosting(TxOf(w), SavedPosting(pc))
  /\ GoOn(w, AfterSaving(pc))
  /\ UNCHANGED <<vars, aml, topic, asked, said, crashes, OtherThanWork>>

(* amlSummary.finalize, the last call of a handler.                         *)
FinalizeAml(w) ==
  LET outcome == IF Holds(w, "complete") THEN "COMPLETED" ELSE "RELEASED" IN
  /\ worker[w].pc \in {"complete", "release"}
  /\ Finalize(TxOf(w), outcome)
  /\ GoOn(w, IF Throws(TxOf(w), outcome) THEN "throw" ELSE "ack")
  /\ UNCHANGED <<vars, topic, attempt, asked, said, crashes, OtherThanWork>>

WorkerProgress(w) ==
  \/ Acknowledge(w)
  \/ PostDirect(w) \/ PostReserve(w) \/ PostSettle(w) \/ PostReject(w)
  \/ LookUpAttempt(w) \/ MarkPending(w)
  \/ SendToMerchant(w) \/ DispatchedToKafka(w) \/ HearDecision(w) \/ HearNothing(w)
  \/ SaveDecision(w) \/ SavePosting(w) \/ FinalizeAml(w)

WorkerStep(w) == (\E t \in Tx : Deliver(w, t)) \/ WorkerProgress(w) \/ WorkerCrash(w)

-----------------------------------------------------------------------------
(* The merchant, seen through the answers it gives: it decides once it has  *)
(* been asked, and keeps its decision unless it is fickle.                  *)
MerchantDecides(t) ==
  /\ asked[t] # {}
  /\ \E d \in Decision :
       /\ IF FickleMerchant THEN d # decided[t] ELSE decided[t] = "none"
       /\ decided' = [decided EXCEPT ![t] = d]
  /\ UNCHANGED <<vars, producer, aml, topic, special, workVars, asked, said,
                 confirmVars, disputeVars, crashes, flips>>

(* The merchant becomes special, or no longer special.  The repository only *)
(* seeds Is_Special_Merchant: who keeps the profiles sets it.               *)
FlipProfile ==
  /\ flips < MaxFlip
  /\ flips' = flips + 1
  /\ special' = ~special
  /\ UNCHANGED <<vars, producer, aml, topic, workVars, merchantVars,
                 confirmVars, disputeVars, crashes>>
=============================================================================
