------------------------------- MODULE Disputes -------------------------------
(***************************************************************************)
(* Dispute reversals, TransactionReaderService.processDisputeReversal: a   *)
(* support agent (submitDispute) or a Kafka message asks to give the money *)
(* of a transaction back.  A transaction has one dispute reference here.   *)
(***************************************************************************)
EXTENDS PipelineState

DeskAt(t, pc)   == desk[t].pc = pc
DeskGoto(t, pc) == desk' = [desk EXCEPT ![t].pc = pc]
Close(t)        == desk' = [desk EXCEPT ![t] = IdleDesk]

OtherThanDispute == <<producer, topic, special, worker, merchantVars, confirmVars, flips>>

(* upsertDispute: a repeated submission keeps the status.                   *)
SubmitDispute(t) ==
  /\ DeskAt(t, "idle")
  /\ submissions[t] < MaxDispute
  /\ submissions' = [submissions EXCEPT ![t] = @ + 1]
  /\ dispute' = [dispute EXCEPT ![t] = IF @ = "none" THEN "REQUESTED" ELSE @]
  /\ DeskGoto(t, IF dispute[t] = "REVERSED" THEN "posting" ELSE "mode")
  /\ UNCHANGED <<vars, aml, attempt, crashes, OtherThanDispute>>

(* findPostedMode: the mode of a posting journal of the highest leg.        *)
PostedModes(t) ==
  IF journal[t]["TWO_LEG_2"] # "NONE" THEN {"TWO_LEG"}
  ELSE {ModeOf(op) : op \in {o \in FirstLeg : journal[t][o] # "NONE"}}

FindMode(t) ==
  /\ DeskAt(t, "mode")
  /\ \/ /\ PostedModes(t) = {}
        /\ desk' = [desk EXCEPT ![t].pc = "record", ![t].result = "FAILED"]
     \/ \E m \in PostedModes(t) : desk' = [desk EXCEPT ![t].pc = "reverse", ![t].mode = m]
  /\ UNCHANGED <<vars, aml, attempt, dispute, submissions, crashes, OtherThanDispute>>

(* Faulty: the status code is stored as it is.                              *)
RawReversalResult(r) == IF r.success THEN "REVERSED" ELSE r.code

(* Faulty: the answer of the reversal is not looked at.                     *)
FaultyReversalResult(r) == "REVERSED"

ReversalResult(r) ==
  IF Accepted(r, {"REVERSED", "ALREADY_REVERSED"}) THEN "REVERSED"
  ELSE IF r.code = "REVERSAL_BLOCKED" THEN "BLOCKED" ELSE "FAILED"

PostReversal(t) ==
  LET op == ReverseOf(desk[t].mode) IN
  /\ DeskAt(t, "reverse")
  /\ Post(t, op, NoPayload)
  /\ desk' = [desk EXCEPT ![t] =
       [pc |-> "record", mode |-> "none", result |-> ReversalResult(Outcome(t, op, NoPayload))]]
  /\ UNCHANGED <<aml, attempt, dispute, submissions, crashes, OtherThanDispute>>

(* updateDispute                                                            *)
RecordDispute(t) ==
  /\ DeskAt(t, "record")
  /\ dispute' = [dispute EXCEPT ![t] = desk[t].result]
  /\ IF desk[t].result = "REVERSED"
       THEN desk' = [desk EXCEPT ![t] = [IdleDesk EXCEPT !.pc = "posting"]]
       ELSE Close(t)
  /\ UNCHANGED <<vars, aml, attempt, submissions, crashes, OtherThanDispute>>

MarkReversed(t) ==
  /\ DeskAt(t, "posting")
  /\ SetPosting(t, "REVERSED")
  /\ DeskGoto(t, "aml")
  /\ UNCHANGED <<vars, aml, dispute, submissions, crashes, OtherThanDispute>>

FinalizeDispute(t) ==
  /\ DeskAt(t, "aml")
  /\ Finalize(t, "REVERSED")
  /\ Close(t)
  /\ UNCHANGED <<vars, attempt, dispute, submissions, crashes, OtherThanDispute>>

(* The request handler dies, or a call of it fails.                         *)
DeskCrash(t) ==
  /\ ~DeskAt(t, "idle")
  /\ crashes < MaxCrash
  /\ crashes' = crashes + 1
  /\ Close(t)
  /\ UNCHANGED <<vars, aml, attempt, dispute, submissions, OtherThanDispute>>

DeskStep(t) ==
  \/ SubmitDispute(t)
  \/ FindMode(t)
  \/ PostReversal(t)
  \/ RecordDispute(t)
  \/ MarkReversed(t)
  \/ FinalizeDispute(t)
  \/ DeskCrash(t)
=============================================================================
