-------------------------- MODULE TransactionPipeline --------------------------
(***************************************************************************)
(* The payment pipeline: producer API, consumer service, merchant, merchant*)
(* callbacks, disputes, refunds and wallet administration, interleaved call*)
(* by call.  The pipeline moves money only as Posting does (PostingSpec),  *)
(* so what is proved of Posting holds of it.                               *)
(***************************************************************************)
EXTENDS Producer, Consumer, MerchantCallback, Disputes

NotMoney == <<producer, aml, topic, special, workVars, merchantVars,
              confirmVars, disputeVars, crashes, flips>>

(* MerchantRefundService.create, one call of the refund procedure.          *)
CreateRefund == RefundStep /\ UNCHANGED NotMoney

ChangeStatus == StatusStep /\ UNCHANGED NotMoney

PipelineNext ==
  \/ \E t \in Tx : ProducerStep(t) \/ MerchantDecides(t) \/ DeskStep(t)
  \/ \E w \in Worker : WorkerStep(w)
  \/ \E c \in Caller : CallerStep(c)
  \/ FlipProfile \/ CreateRefund \/ ChangeStatus

PipelineSpec == PipelineInit /\ [][PipelineNext]_pipelineVars

(* Node runs a handler that is not killed to its end, Kafka delivers what   *)
(* is not acknowledged, and the merchant decides.  A request that is sent   *)
(* again for ever reaches the merchant some time and is answered some time, *)
(* and the merchant repeats its callback.                                   *)
Fairness ==
  /\ \A w \in Worker, t \in Tx : WF_pipelineVars(Deliver(w, t))
  /\ \A w \in Worker :
       /\ WF_pipelineVars(WorkerProgress(w))
       /\ SF_pipelineVars(SendToMerchant(w))
       /\ SF_pipelineVars(DispatchedToKafka(w) \/ HearDecision(w))
  /\ \A c \in Caller, t \in Tx : SF_pipelineVars(Receive(c, t))
  /\ \A c \in Caller : WF_pipelineVars(CallerProgress(c))
  /\ \A t \in Tx : WF_pipelineVars(MerchantDecides(t))

FairPipelineSpec == PipelineSpec /\ Fairness

-----------------------------------------------------------------------------
(* Properties.                                                              *)

Paid(t)          == journal[t]["DIRECT_1"] = "COMPLETED" \/ journal[t]["TWO_LEG_2"] = "COMPLETED"
Reserved(t)      == journal[t]["TWO_LEG_1"] = "RESERVED"
HasPosted(t, op) == journal[t][op] # "NONE"
GivenBack(t)     == \E op \in ReverseOp : HasPosted(t, op)

(* Money leaves the reserve only on somebody's word: leg 2 is posted only   *)
(* for a decision the merchant gave, by its answer or by a callback, and    *)
(* money goes back only for a rejection or a dispute.                       *)
MoneyFollowsDecision ==
  \A t \in Tx :
    /\ HasPosted(t, "TWO_LEG_2") => "APPROVED" \in said[t]
    /\ HasPosted(t, "TWO_LEG_REVERSE") => "REJECTED" \in said[t] \/ dispute[t] # "none"
    /\ HasPosted(t, "DIRECT_REVERSE") => dispute[t] # "none"

(* What the tables say happened has happened, whichever handler wrote them  *)
(* and however late: a confirmation, attempt or dispute that reports money  *)
(* paid or given back has the journal.                                      *)
RecordsTruthful ==
  \A t \in Tx :
    /\ confirmation[t].processing = "COMPLETED" => HasPosted(t, "TWO_LEG_2")
    /\ confirmation[t].processing = "REVERSED" => HasPosted(t, "TWO_LEG_REVERSE")
    /\ attempt[t].posting = "COMPLETED" => HasPosted(t, "TWO_LEG_2")
    /\ attempt[t].posting = "REVERSED" => GivenBack(t)
    /\ dispute[t] = "REVERSED" => GivenBack(t)

(* The AML books never run ahead of the ledger: a reservation is COMPLETED  *)
(* only after the payment was posted, and REVERSED only after it was given  *)
(* back.                                                                    *)
AmlBehindLedger ==
  \A t \in Tx :
    /\ aml[t] = "COMPLETED" => HasPosted(t, "DIRECT_1") \/ HasPosted(t, "TWO_LEG_2")
    /\ aml[t] = "REVERSED" => GivenBack(t)

(* The pipeline touches requests, wallets and journals only as Posting      *)
(* allows; in particular the producer's unconditional status updates never  *)
(* overwrite what the consumer has written, but to fail a request.          *)
PostingSpec == Spec

(* README.md 209-211: "Kafka retries and repeated merchant callbacks are    *)
(* safe because transactionid uniquely identifies the reservation and every *)
(* finalization outcome is idempotent": no message handler ever finds its   *)
(* reservation in a state that refuses its outcome.                         *)
RetriesSafe ==
  \A w \in Worker :
    /\ Holds(w, "complete") => ~Throws(TxOf(w), "COMPLETED")
    /\ Holds(w, "release") => ~Throws(TxOf(w), "RELEASED")

(* A callback never finds it in such a state either.                        *)
CallbacksSafe ==
  \A c \in Caller :
    CallerAt(c, "aml") => ~Throws(ConfirmedTx(c), OutcomeOf(caller[c].decision))

(* README.md 206: RELEASED is "after a terminal failure or merchant         *)
(* rejection": the money of a released reservation was not paid out.        *)
ReleasedNotPaid == \A t \in Tx : aml[t] = "RELEASED" => ~Paid(t)

(* README.md 207: REVERSED "after a completed transaction reversal": when a *)
(* dispute reversal is over and no handler is at work on the transaction,   *)
(* the reservation does not count as pending or as completed usage.         *)
AtRest(t) ==
  /\ t \notin topic
  /\ producer[t] = "done"
  /\ desk[t].pc = "idle"
  /\ \A w \in Worker : TxOf(w) # t
  /\ \A c \in Caller : ConfirmedTx(c) # t
ReversedOnceDisputed ==
  \A t \in Tx : AtRest(t) /\ dispute[t] = "REVERSED" => aml[t] \notin {"PENDING", "COMPLETED"}

(* Migration 006 line 1005: "Posts idempotent direct or two-leg Kafka       *)
(* transactions": one transaction is not paid in both modes.                *)
OneMode == \A t \in Tx : ~(InForce(t, "DIRECT_1") /\ InForce(t, "TWO_LEG_1"))

(* Every published message is acknowledged some day.                        *)
Acknowledged == \A t \in Tx : t \in topic ~> t \notin topic

(* Money reserved for a merchant is settled or given back some day.         *)
ReserveResolved == \A t \in Tx : Reserved(t) ~> ~Reserved(t)

(* What was paid out of a reservation is counted as AML usage some day.     *)
PaidIsCounted == \A t \in Tx : Paid(t) /\ aml[t] # "NONE" ~> aml[t] = "COMPLETED"
=============================================================================
