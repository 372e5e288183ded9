---------------------------- MODULE PipelineState ----------------------------
(***************************************************************************)
(* The state the services of the payment pipeline share, on top of the     *)
(* money state of Posting: the producer API, the Kafka topic between it    *)
(* and the consumer service, the merchant integration tables, the AML      *)
(* reservations and the disputes.                                          *)
(*                                                                         *)
(* Every handler of these services is a sequence of awaited calls, each a  *)
(* database transaction or a message of its own.  A handler is a record    *)
(* with the call it makes next (pc) and what it remembers from earlier     *)
(* ones; any other handler may run between two of its calls, and it may    *)
(* die between them.                                                       *)
(***************************************************************************)
EXTENDS Posting

CONSTANTS
  Message,        \* the payload in the Kafka message of each transaction
  Worker,         \* consumers a message may be delivered to at the same time
  Caller,         \* concurrent POST /v1/merchant-confirmations requests
  Channel,        \* integration channels in use, of {"API", "KAFKA"}
  FickleMerchant, \* the merchant may contradict its own decision
  LostReply,      \* the producer may see an error from a call that took effect
  MaxCrash,       \* bound: consumer-service handlers that die half way
  MaxFlip,        \* bound: edits that make the merchant (not) special
  MaxDispute      \* bound: dispute submissions per transaction

ASSUME PipelineAssumption ==
  /\ Message \in [Tx -> Payload]
  /\ "none" \notin Tx \cup Worker
  /\ Channel \subseteq {"API", "KAFKA"}
  /\ FickleMerchant \in BOOLEAN /\ LostReply \in BOOLEAN
  /\ {MaxCrash, MaxFlip, MaxDispute} \subseteq Nat

VARIABLES
  producer,      \* transactionprocess of each transaction: the call it makes next
  aml,           \* sw_tbl_aml_transaction_reservation.status
  topic,         \* transactions whose Kafka message is not acknowledged
  special,       \* the destination is a special merchant
  worker,        \* message handlers of the consumer service
  attempt,       \* sw_tbl_merchant_integration_attempt
  asked,         \* correlation ids the merchant received a request under
  decided,       \* what the merchant decided
  said,          \* everything it ever told Finify
  caller,        \* confirmation handlers of the consumer service
  confirmation,  \* sw_tbl_merchant_confirmation, of the stored correlation id
  desk,          \* dispute handler of each transaction
  dispute,       \* sw_tbl_transaction_dispute.status
  submissions,   \* dispute submissions so far
  crashes, flips

merchantVars == <<asked, decided, said>>
workVars     == <<worker, attempt>>
confirmVars  == <<caller, confirmation>>
disputeVars  == <<desk, dispute, submissions>>
pipelineVars == <<vars, producer, aml, topic, special, workVars, merchantVars,
                  confirmVars, disputeVars, crashes, flips>>

-----------------------------------------------------------------------------
Nobody         == "none"
Decision       == {"APPROVED", "REJECTED"}
Answer         == Decision \cup {"PENDING", "UNKNOWN", "none"}
ConfirmStatus  == Decision \cup {"PENDING", "UNKNOWN", "none"}
PostingStatus  == {"RESERVED", "COMPLETED", "REVERSED", "BLOCKED"}
ProcessStatus  == {"RECEIVED", "COMPLETED", "REVERSED", "BLOCKED", "FAILED"}
DisputeStatus  == {"none", "REQUESTED", "REVERSED", "BLOCKED", "FAILED"}

ProducerPc == {"reserve", "update", "send", "release", "fail", "done"}
WorkerPc   == {"idle", "direct", "reserve", "lookup", "mark", "dispatch", "await", "save",
               "settle", "reject", "block", "blockRetry", "settled", "rejected",
               "complete", "release", "ack"}
CallerPc   == {"idle", "insert", "post", "record", "recordAttempt", "aml"}
DeskPc     == {"idle", "mode", "reverse", "record", "posting", "aml"}

IdleWorker == [pc |-> "idle", tx |-> Nobody, answer |-> "none", correlation |-> Nobody]
IdleCaller == [pc |-> "idle", tx |-> Nobody, decision |-> "none", result |-> "RECEIVED"]
IdleDesk   == [pc |-> "idle", mode |-> "none", result |-> "none"]

NoAttempt      == [confirmation |-> "none", posting |-> "RESERVED", correlation |-> Nobody]
NoConfirmation == [decision |-> "none", processing |-> "RECEIVED"]

Aml == INSTANCE AmlReservation WITH Reserver <- Tx, status <- aml

WorkerType  == [pc : WorkerPc, tx : Tx \cup {Nobody}, answer : Answer,
                correlation : Worker \cup {Nobody}]
AttemptType == [confirmation : ConfirmStatus, posting : PostingStatus,
                correlation : Worker \cup {Nobody}]
CallerType  == [pc : CallerPc, tx : Tx \cup {Nobody}, decision : Decision \cup {"none"},
                result : ProcessStatus]
DeskType    == [pc : DeskPc, mode : Mode \cup {"none"}, result : DisputeStatus]

ServicesTypeOK ==
  /\ producer \in [Tx -> ProducerPc]
  /\ aml \in [Tx -> Aml!Status]
  /\ topic \subseteq Tx
  /\ special \in BOOLEAN
  /\ worker \in [Worker -> WorkerType]
  /\ attempt \in [Tx -> AttemptType]
  /\ asked \in [Tx -> SUBSET Worker]
  /\ decided \in [Tx -> Decision \cup {"none"}]
  /\ said \in [Tx -> SUBSET Decision]
  /\ caller \in [Caller -> CallerType]
  /\ confirmation \in [Tx -> [decision : Decision \cup {"none"}, processing : ProcessStatus]]
  /\ desk \in [Tx -> DeskType]
  /\ dispute \in [Tx -> DisputeStatus]
  /\ submissions \in [Tx -> 0 .. MaxDispute]
  /\ crashes \in 0 .. MaxCrash
  /\ flips \in 0 .. MaxFlip

PipelineTypeOK == TypeOK /\ ServicesTypeOK

(* The producer has just created the request rows of all transactions.      *)
PipelineInit ==
  /\ Init
  /\ producer = [t \in Tx |-> "reserve"]
  /\ aml = [t \in Tx |-> "NONE"]
  /\ topic = {}
  /\ special \in BOOLEAN
  /\ worker = [w \in Worker |-> IdleWorker]
  /\ attempt = [t \in Tx |-> NoAttempt]
  /\ asked = [t \in Tx |-> {}]
  /\ decided = [t \in Tx |-> "none"]
  /\ said = [t \in Tx |-> {}]
  /\ caller = [c \in Caller |-> IdleCaller]
  /\ confirmation = [t \in Tx |-> NoConfirmation]
  /\ desk = [t \in Tx |-> IdleDesk]
  /\ dispute = [t \in Tx |-> "none"]
  /\ submissions = [t \in Tx |-> 0]
  /\ crashes = 0
  /\ flips = 0

-----------------------------------------------------------------------------
(* Calls every handler makes.                                               *)

(* Faulty: a reservation that has its outcome already is an error.          *)
FaultyThrows(t, outcome) == Aml!FinalizeCode(aml[t], outcome) # outcome

(* AmlSummaryService.finalize: throws, having changed nothing, for          *)
(* INVALID_STATE; a missing reservation is only logged.                     *)
Throws(t, outcome)   == ~Aml!Tolerated(Aml!FinalizeCode(aml[t], outcome))
Finalize(t, outcome) == Aml!Finalize(t, outcome)

(* What a posting call of t reads of its payload; a reversal reads nothing. *)
Amounts(t, op) == IF op \in ReverseOp THEN NoPayload ELSE Message[t]
Result(t, op)  == Outcome(t, op, Amounts(t, op))

(* acceptPostingResult for the result r of a posting call.                  *)
Accepted(r, codes) == r.success /\ r.code \in codes

RetryableCodes == {"WALLET_NOT_AVAILABLE", "SETTLEMENT_BLOCKED", "REVERSAL_BLOCKED"}
Retryable(r)   == r.code \in RetryableCodes

(* updateMerchantPostingStatus: an UPDATE, which a missing row ignores.     *)
HasAttempt(t) == attempt[t].confirmation # "none"
SetPosting(t, s) ==
  attempt' = IF HasAttempt(t) THEN [attempt EXCEPT ![t].posting = s] ELSE attempt
=============================================================================
