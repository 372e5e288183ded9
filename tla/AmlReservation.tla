---------------------------- MODULE AmlReservation ----------------------------
(***************************************************************************)
(* The life of an AML reservation, sw_tbl_aml_transaction_reservation, and *)
(* what sw_proc_aml_finalize (migration 011) answers in each state of it.  *)
(* The producer reserves once per transaction; the consumer, the merchant  *)
(* callback and the dispute API all finalize.  AmlLimits and               *)
(* TransactionPipeline both implement this specification.                  *)
(***************************************************************************)
CONSTANT Reserver   \* transaction ids
VARIABLE status     \* status of the reservation row; NONE before there is one

Status   == {"NONE", "PENDING", "COMPLETED", "RELEASED", "REVERSED"}
Outcomes == {"COMPLETED", "RELEASED", "REVERSED"}

(* The state an outcome can be applied in.                                  *)
Before(outcome) == IF outcome = "REVERSED" THEN "COMPLETED" ELSE "PENDING"

(* sw_proc_aml_finalize's status_code, ALREADY standing for ALREADY_<outcome>. *)
FinalizeCode(s, outcome) ==
  IF s = "NONE" THEN "RESERVATION_NOT_FOUND"
  ELSE IF s = outcome THEN "ALREADY"
  ELSE IF s = Before(outcome) THEN outcome
  ELSE "INVALID_STATE"

(* AmlSummaryService.finalize throws for anything else.                     *)
Tolerated(code) == code # "INVALID_STATE"

(* The row after the call: changed only by the call that applies.           *)
Finalized(s, outcome) == IF FinalizeCode(s, outcome) = outcome THEN outcome ELSE s

-----------------------------------------------------------------------------
RInit == status = [t \in Reserver |-> "NONE"]

Reserve(t) ==
  /\ status[t] = "NONE"
  /\ status' = [status EXCEPT ![t] = "PENDING"]

Finalize(t, outcome) == status' = [status EXCEPT ![t] = Finalized(@, outcome)]

RNext == \E t \in Reserver : Reserve(t) \/ \E outcome \in Outcomes : Finalize(t, outcome)

RSpec == RInit /\ [][RNext]_status
=============================================================================
