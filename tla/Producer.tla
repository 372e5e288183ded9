------------------------------- MODULE Producer -------------------------------
(***************************************************************************)
(* The producer API, TransactionService.transactionprocess, after it has   *)
(* created the request row: it reserves AML capacity, updates the row to   *)
(* status 2, publishes the Kafka message, and compensates when a call      *)
(* fails.                                                                  *)
(***************************************************************************)
EXTENDS PipelineState

Goto(t, pc) == producer' = [producer EXCEPT ![t] = pc]

OtherThanProducer == <<special, workVars, merchantVars, confirmVars, disputeVars, crashes, flips>>

(* A keyword, user, PIN or pricing check fails before anything is reserved. *)
CheckFails(t) ==
  /\ producer[t] = "reserve"
  /\ Goto(t, "fail")
  /\ UNCHANGED <<vars, aml, topic, OtherThanProducer>>

(* AmlTransactionService.reserve grants the reservation.  When its reply is *)
(* lost the catch block fails the request and releases nothing.             *)
ReserveAml(t) ==
  /\ producer[t] = "reserve"
  /\ Aml!Reserve(t)
  /\ Goto(t, "update") \/ (LostReply /\ Goto(t, "fail"))
  /\ UNCHANGED <<vars, topic, OtherThanProducer>>

(* A system keyword, read with the request, bypasses AML.                   *)
BypassAml(t) ==
  /\ producer[t] = "reserve"
  /\ Goto(t, "update")
  /\ UNCHANGED <<vars, aml, topic, OtherThanProducer>>

(* transactionRequestService.update: status 2, whatever the row says.       *)
UpdateRequest(t) ==
  /\ producer[t] = "update"
  /\ request' = [request EXCEPT ![t] = "queued"]
  /\ Goto(t, "send")
  /\ UNCHANGED <<amount, suspended, journal, debit, credit, held, refund>>
  /\ UNCHANGED <<aml, topic, OtherThanProducer>>

(* Faulty: the message is sent before the row is updated.                   *)
FaultySendMessage(t) ==
  /\ producer[t] = "update"
  /\ t \notin topic
  /\ topic' = topic \cup {t}
  /\ UNCHANGED <<vars, aml, producer, OtherThanProducer>>

(* processTransactionService.sendTransaction                                *)
SendMessage(t) ==
  /\ producer[t] = "send"
  /\ topic' = topic \cup {t}
  /\ Goto(t, "done") \/ (LostReply /\ Goto(t, "release"))
  /\ UNCHANGED <<vars, aml, OtherThanProducer>>

(* The update or the send throws without having had an effect.              *)
SubmissionFails(t) ==
  /\ producer[t] \in {"update", "send"}
  /\ Goto(t, "release")
  /\ UNCHANGED <<vars, aml, topic, OtherThanProducer>>

(* AmlTransactionService.release, whose errors are logged and swallowed.    *)
ReleaseAml(t) ==
  /\ producer[t] = "release"
  /\ Finalize(t, "RELEASED") \/ UNCHANGED aml
  /\ Goto(t, "fail")
  /\ UNCHANGED <<vars, topic, OtherThanProducer>>

FailRequest(t) ==
  /\ producer[t] = "fail"
  /\ MarkTransactionFailed(t)
  /\ Goto(t, "done")
  /\ UNCHANGED <<aml, topic, OtherThanProducer>>

(* The producer process dies, or the client's request is cut off.           *)
ProducerCrash(t) ==
  /\ producer[t] # "done"
  /\ Goto(t, "done")
  /\ UNCHANGED <<vars, aml, topic, OtherThanProducer>>

ProducerStep(t) ==
  \/ CheckFails(t)
  \/ ReserveAml(t)
  \/ BypassAml(t)
  \/ UpdateRequest(t)
  \/ SendMessage(t)
  \/ SubmissionFails(t)
  \/ ReleaseAml(t)
  \/ FailRequest(t)
  \/ ProducerCrash(t)
=============================================================================
