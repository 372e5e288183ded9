--------------------------- MODULE MerchantCallback ---------------------------
(***************************************************************************)
(* POST /v1/merchant-confirmations, MerchantConfirmationService.confirm:   *)
(* the merchant's decision arrives by a callback, possibly several times   *)
(* and possibly while the message handler is still at work.                *)
(***************************************************************************)
EXTENDS PipelineState

ConfirmedTx(c)    == caller[c].tx
CallerAt(c, pc)   == caller[c].pc = pc
CallerGoto(c, pc) == caller' = [caller EXCEPT ![c].pc = pc]
Respond(c)        == caller' = [caller EXCEPT ![c] = IdleCaller]

OtherThanConfirm == <<producer, topic, special, worker, asked, decided, disputeVars, flips>>

Processed == {"COMPLETED", "REVERSED"}

(* The attempt is found by the stored correlation id and the confirmation   *)
(* read.  A decision other than the first one is refused; one processed to  *)
(* the end is only finalized again; another one is resumed.                 *)
Receive(c, t) ==
  LET first == confirmation[t]
      d == decided[t]
  IN /\ CallerAt(c, "idle")
     /\ HasAttempt(t)
     /\ attempt[t].correlation \in asked[t]
     /\ d \in Decision
     /\ said' = [said EXCEPT ![t] = @ \cup {d}]
     /\ caller' = IF first.decision \notin {"none", d} THEN caller
                  ELSE [caller EXCEPT ![c] =
                    [IdleCaller EXCEPT
                       !.pc = IF first.decision = "none" THEN "insert"
                              ELSE IF first.processing \in Processed THEN "aml" ELSE "post",
                       !.tx = t,
                       !.decision = d]]
     /\ UNCHANGED <<vars, aml, attempt, confirmation, crashes, OtherThanConfirm>>

(* The correlation id is unique: the second of two inserts fails.           *)
InsertConfirmation(c) ==
  LET t == ConfirmedTx(c) IN
  /\ CallerAt(c, "insert")
  /\ IF confirmation[t].decision # "none"
       THEN Respond(c) /\ UNCHANGED confirmation
       ELSE /\ confirmation' = [confirmation EXCEPT ![t] =
                 [decision |-> caller[c].decision, processing |-> "RECEIVED"]]
            /\ CallerGoto(c, "post")
  /\ UNCHANGED <<vars, aml, attempt, said, crashes, OtherThanConfirm>>

DecisionOp(d) == IF d = "APPROVED" THEN "TWO_LEG_2" ELSE "TWO_LEG_REVERSE"

(* Faulty: the answer of the posting is not looked at.                      *)
FaultyResultOf(r, d) == IF d = "APPROVED" THEN "COMPLETED" ELSE "REVERSED"

(* Any success counts, also that of a posting which had been made before    *)
(* and reversed since.                                                      *)
ResultOf(r, d) ==
  IF r.success THEN (IF d = "APPROVED" THEN "COMPLETED" ELSE "REVERSED")
  ELSE IF r.code = "REVERSAL_BLOCKED" THEN "BLOCKED" ELSE "FAILED"

PostConfirmation(c) ==
  LET t == ConfirmedTx(c)
      op == DecisionOp(caller[c].decision)
  IN /\ CallerAt(c, "post")
     /\ Post(t, op, Amounts(t, op))
     /\ caller' = [caller EXCEPT
          ![c].pc = "record",
          ![c].result = ResultOf(Result(t, op), caller[c].decision)]
     /\ UNCHANGED <<aml, attempt, said, confirmation, crashes, OtherThanConfirm>>

RecordConfirmation(c) ==
  /\ CallerAt(c, "record")
  /\ confirmation' = [confirmation EXCEPT ![ConfirmedTx(c)].processing = caller[c].result]
  /\ CallerGoto(c, "recordAttempt")
  /\ UNCHANGED <<vars, aml, attempt, said, crashes, OtherThanConfirm>>

RecordOnAttempt(c) ==
  LET result == caller[c].result IN
  /\ CallerAt(c, "recordAttempt")
  /\ attempt' = [attempt EXCEPT
       ![ConfirmedTx(c)].confirmation = caller[c].decision,
       ![ConfirmedTx(c)].posting = IF result \in Processed THEN result ELSE "BLOCKED"]
  /\ IF result \in Processed THEN CallerGoto(c, "aml") ELSE Respond(c)
  /\ UNCHANGED <<vars, aml, said, confirmation, crashes, OtherThanConfirm>>

OutcomeOf(d) == IF d = "APPROVED" THEN "COMPLETED" ELSE "RELEASED"

FinalizeConfirmed(c) ==
  /\ CallerAt(c, "aml")
  /\ Finalize(ConfirmedTx(c), OutcomeOf(caller[c].decision))
  /\ Respond(c)
  /\ UNCHANGED <<vars, attempt, said, confirmation, crashes, OtherThanConfirm>>

(* The request handler dies, or a call of it fails.                         *)
CallerCrash(c) ==
  /\ ~CallerAt(c, "idle")
  /\ crashes < MaxCrash
  /\ crashes' = crashes + 1
  /\ Respond(c)
  /\ UNCHANGED <<vars, aml, attempt, said, confirmation, OtherThanConfirm>>

CallerProgress(c) ==
  \/ InsertConfirmation(c)
  \/ PostConfirmation(c)
  \/ RecordConfirmation(c)
  \/ RecordOnAttempt(c)
  \/ FinalizeConfirmed(c)

CallerStep(c) == (\E t \in Tx : Receive(c, t)) \/ CallerProgress(c) \/ CallerCrash(c)
=============================================================================
