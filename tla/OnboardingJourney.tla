--------------------------- MODULE OnboardingJourney ---------------------------
(***************************************************************************)
(* One customer's way through an onboarding journey: the instance and its  *)
(* current node, the one-time code, the identity case, the allocation of a *)
(* wallet and the handoff to another channel.  An operation on an instance *)
(* is a transaction that locks it, hence a step; wallet allocation and     *)
(* document verification call other services between their transactions.   *)
(* Every step is authorised by the resume token issued last; a request     *)
(* with an older one is refused, unless it was checked before the token    *)
(* changed.                                                                *)
(***************************************************************************)
EXTENDS Naturals, Sequences

CONSTANTS
  NodeType,       \* the journey's nodes, each with its type
  JourneyEdge,    \* its transitions, [from, outcome, to]
  EntryNode,
  MaxInstances, MaxHandoffs, MaxSends,   \* bounds; a policy bounds sends per hour
  OtpAttempts     \* otp_policies.maximum_attempts

ASSUME JourneyAssumption ==
  /\ EntryNode \in DOMAIN NodeType
  /\ \A e \in JourneyEdge : e.from \in DOMAIN NodeType /\ e.to \in DOMAIN NodeType
  /\ {MaxInstances, MaxHandoffs} \subseteq Nat /\ OtpAttempts \in 1..20

VARIABLES
  instances,      \* journey_instances of the customer; the last one is the newest
  registered,     \* customer_registry: status, contacts.verified_at, and the wallet
  handoffs,       \* channel_handoffs
  allocating,     \* the run of allocateWallet that is under way
  verifying       \* instances whose case the identity service is verifying

journeyVars == <<instances, registered, handoffs, allocating, verifying>>

NoAllocation == [instance |-> 0, token |-> 0, step |-> "NONE"]
NoOtp == [status |-> "NONE", attempts |-> 0, sends |-> 0]
NoCase == [status |-> "NONE", documents |-> FALSE, screening |-> "NONE"]

JourneyInit ==
  /\ instances = <<>>
  /\ registered = [status |-> "NONE", contact |-> FALSE, wallet |-> FALSE]
  /\ handoffs = <<>> /\ allocating = NoAllocation /\ verifying = {}

Type(i) == NodeType[instances[i].node]
Opened(i) == instances[i].status \in {"IN_PROGRESS", "WAITING_EXTERNAL", "MANUAL_REVIEW"}

StatusAt(n) ==
  CASE NodeType[n] = "END" -> "COMPLETED"
    [] NodeType[n] = "MANUAL_REVIEW" -> "MANUAL_REVIEW"
    [] OTHER -> "IN_PROGRESS"

(* Faulty: any step service may be called at any node.                      *)
FaultyAtNode(i, type) == Opened(i) /\ instances[i].live

(* context(): an open instance that has not expired, at a node of the type. *)
AtNode(i, type) == Opened(i) /\ instances[i].live /\ Type(i) = type

(* advance_journey_step: rest holds the other fields the caller changes.    *)
Leads(i, outcome) == {e \in JourneyEdge : e.from = instances[i].node /\ e.outcome = outcome}

Advance(i, outcome, rest) ==
  /\ instances[i].status = "IN_PROGRESS" /\ instances[i].live /\ Type(i) # "END"
  /\ \E e \in Leads(i, outcome) :
       /\ instances' = [instances EXCEPT ![i] = [rest EXCEPT !.node = e.to, !.status = StatusAt(e.to)]]
       /\ registered' = [registered EXCEPT
            !.status = IF NodeType[e.to] = "END" /\ @ = "ONBOARDING" THEN "ACTIVE" ELSE @,
            !.contact = @ \/ rest.otp.status = "VERIFIED"]

Start ==
  LET last == Len(instances)
      open == last > 0 /\ Opened(last)
      new == [node |-> EntryNode, status |-> "IN_PROGRESS", live |-> TRUE, token |-> 1, otp |-> NoOtp,
              case |-> NoCase, wallet |-> "NONE"]
  IN  /\ \/ open /\ instances[last].live /\ instances[last].token < 2
            /\ instances' = [instances EXCEPT ![last].token = @ + 1]
         \/ ~(open /\ instances[last].live) /\ last < MaxInstances
            /\ instances' = Append(IF open THEN [instances EXCEPT ![last].status = "EXPIRED"]
                                   ELSE instances, new)
      /\ registered' = [registered EXCEPT !.status = IF @ = "NONE" THEN "ONBOARDING" ELSE @]
      /\ UNCHANGED <<handoffs, allocating, verifying>>

InstanceExpires(i) ==
  /\ instances[i].live /\ Opened(i)
  /\ instances' = [instances EXCEPT ![i].live = FALSE]
  /\ UNCHANGED <<registered, handoffs, allocating, verifying>>

AdvanceStep(i) ==
  /\ Type(i) \in {"START", "PHONE_CAPTURE"} /\ Advance(i, "SUCCESS", instances[i])
  /\ UNCHANGED <<handoffs, allocating, verifying>>

CreateOtp(i) ==
  /\ AtNode(i, "OTP_VERIFICATION") /\ instances[i].otp.sends < MaxSends
  /\ instances' = [instances EXCEPT ![i].otp =
       [status |-> "PENDING", attempts |-> 0, sends |-> instances[i].otp.sends + 1]]
  /\ UNCHANGED <<registered, handoffs, allocating, verifying>>

VerifyOtp(i, right) ==
  LET otp == instances[i].otp
  IN  /\ AtNode(i, "OTP_VERIFICATION")
      /\ \/ /\ otp.status = "VERIFIED" \/ (otp.status = "PENDING" /\ right)
            /\ Advance(i, "SUCCESS", [instances[i] EXCEPT !.otp.status = "VERIFIED"])
         \/ /\ otp.status = "PENDING" /\ ~right
            /\ instances' = [instances EXCEPT ![i].otp.attempts = @ + 1,
                 ![i].otp.status = IF otp.attempts + 1 >= OtpAttempts THEN "LOCKED" ELSE @]
            /\ UNCHANGED registered
      /\ UNCHANGED <<handoffs, allocating, verifying>>

(* createPin, acceptConsent, submitProfile: what they store, then the step. *)
SubmitStep(i) ==
  /\ \E type \in {"PIN_SETUP", "CONSENT", "FORM"} : AtNode(i, type)
  /\ Advance(i, "SUCCESS", instances[i])
  /\ UNCHANGED <<handoffs, allocating, verifying>>

StartKyc(i) ==
  /\ AtNode(i, "KYC") /\ instances[i].case = NoCase
  /\ instances' = [instances EXCEPT ![i].case.status = "DRAFT"]
  /\ UNCHANGED <<registered, handoffs, allocating, verifying>>

CaseEditable(i) == instances[i].case.status \in {"DRAFT", "RESUBMISSION_REQUIRED"}

UploadDocuments(i) ==
  /\ CaseEditable(i) /\ ~instances[i].case.documents
  /\ instances' = [instances EXCEPT ![i].case.documents = TRUE]
  /\ UNCHANGED <<registered, handoffs, allocating, verifying>>

BeginVerification(i) ==
  /\ CaseEditable(i) /\ instances[i].case.documents
  /\ instances' = [instances EXCEPT ![i].case.status = "PROCESSING"]
  /\ verifying' = verifying \cup {i}
  /\ UNCHANGED <<registered, handoffs, allocating>>

(* The matcher's answer and the screening of the name, or any failure.      *)
EndVerification(i) ==
  /\ i \in verifying
  /\ \/ \E s \in {"CLEAR", "MATCH", "UNAVAILABLE"} :
          instances' = [instances EXCEPT ![i].case.status = "MANUAL_REVIEW", ![i].case.screening = s]
     \/ instances' = [instances EXCEPT ![i].case.status = "FAILED"]
  /\ verifying' = verifying \ {i}
  /\ UNCHANGED <<registered, handoffs, allocating>>

VerificationDies(i) ==
  /\ i \in verifying /\ verifying' = verifying \ {i}
  /\ UNCHANGED <<instances, registered, handoffs, allocating>>

(* review() and propagate_kyc_decision: one transaction, so a decision the  *)
(* journey cannot take is not made either.                                  *)
Review(i, decision) ==
  LET decided == [instances[i] EXCEPT !.case.status = decision]
  IN  /\ instances[i].case.status \in {"SUBMITTED", "MANUAL_REVIEW"}
      /\ decision = "APPROVED" => instances[i].case.screening = "CLEAR"
      /\ \/ decision = "RESUBMISSION_REQUIRED" /\ instances' = [instances EXCEPT ![i] = decided]
            /\ UNCHANGED registered
         \/ decision \in {"APPROVED", "REJECTED"} /\ Type(i) = "KYC" /\ Advance(i, decision, decided)
      /\ UNCHANGED <<handoffs, allocating, verifying>>

CaseApproved == \E i \in DOMAIN instances : instances[i].case.status = "APPROVED"

(* allocateWallet: the request row; the wallet; the result and the step.    *)
BeginAllocation(i) ==
  /\ allocating = NoAllocation /\ AtNode(i, "WALLET_ALLOCATION") /\ instances[i].wallet # "SUCCEEDED"
  /\ instances' = [instances EXCEPT ![i].wallet = IF @ = "NONE" THEN "PENDING" ELSE @]
  /\ allocating' = [instance |-> i, token |-> instances[i].token, step |-> "CREATE"]
  /\ UNCHANGED <<registered, handoffs, verifying>>

AllocationFails ==
  /\ instances' = [instances EXCEPT ![allocating.instance].wallet = "FAILED"]
  /\ allocating' = NoAllocation

(* createCustomer refuses a customer with a wallet; with no approved case   *)
(* it opens none, which the caller does not tell from success.              *)
CreateWallet ==
  /\ allocating.step = "CREATE"
  /\ \/ registered.wallet /\ AllocationFails /\ UNCHANGED registered
     \/ /\ ~registered.wallet
        /\ registered' = [registered EXCEPT !.wallet = CaseApproved]
        /\ allocating' = [allocating EXCEPT !.step = "RECORD"] /\ UNCHANGED instances
  /\ UNCHANGED <<handoffs, verifying>>

RecordAllocation ==
  LET i == allocating.instance
      current == AtNode(i, "WALLET_ALLOCATION") /\ instances[i].token = allocating.token
  IN  /\ allocating.step = "RECORD"
      /\ \/ /\ current /\ allocating' = NoAllocation
            /\ Advance(i, "SUCCESS", [instances[i] EXCEPT !.wallet = "SUCCEEDED"])
         \/ ~current /\ AllocationFails /\ UNCHANGED registered
      /\ UNCHANGED <<handoffs, verifying>>

AllocationDies ==
  /\ allocating # NoAllocation /\ allocating' = NoAllocation
  /\ UNCHANGED <<instances, registered, handoffs, verifying>>

(* The scoring, policy and decision services report by callback().          *)
Callback(i, outcome) ==
  /\ Type(i) \in {"CREDIT_SCORE", "CREDIT_POLICY", "DECISION", "LIMIT_ALLOCATION", "MANUAL_REVIEW"}
  /\ Advance(i, outcome, instances[i])
  /\ UNCHANGED <<handoffs, allocating, verifying>>

CreateHandoff(i) ==
  /\ Type(i) = "CHANNEL_HANDOFF" /\ Len(handoffs) < MaxHandoffs
  /\ handoffs' = Append(handoffs, [instance |-> i, node |-> instances[i].node, status |-> "PENDING"])
  /\ UNCHANGED <<instances, registered, allocating, verifying>>

(* The instance continues behind the node the handoff was made at, wherever *)
(* it is now, with a new expiry and a new token.                            *)
ConsumeHandoff(h) ==
  LET i == handoffs[h].instance
  IN  /\ handoffs[h].status = "PENDING"
      /\ \E e \in JourneyEdge :
           /\ e.from = handoffs[h].node /\ e.outcome = "SUCCESS"
           /\ instances' = [instances EXCEPT ![i].node = e.to, ![i].status = StatusAt(e.to),
                                             ![i].live = TRUE, ![i].token = @ + 1]
      /\ handoffs' = [handoffs EXCEPT ![h].status = "CONSUMED"]
      /\ UNCHANGED <<registered, allocating, verifying>>

HandoffExpires(h) ==
  /\ handoffs[h].status = "PENDING" /\ handoffs' = [handoffs EXCEPT ![h].status = "EXPIRED"]
  /\ UNCHANGED <<instances, registered, allocating, verifying>>

JourneyNext ==
  \/ Start \/ CreateWallet \/ RecordAllocation \/ AllocationDies
  \/ \E i \in DOMAIN instances :
       \/ InstanceExpires(i) \/ AdvanceStep(i) \/ CreateOtp(i) \/ SubmitStep(i) \/ StartKyc(i)
       \/ UploadDocuments(i) \/ BeginVerification(i) \/ EndVerification(i) \/ VerificationDies(i)
       \/ BeginAllocation(i) \/ CreateHandoff(i)
       \/ \E right \in BOOLEAN : VerifyOtp(i, right)
       \/ \E d \in {"APPROVED", "REJECTED", "RESUBMISSION_REQUIRED"} : Review(i, d)
       \/ \E o \in {"SUCCESS", "APPROVED", "MANUAL_REVIEW", "REJECTED"} : Callback(i, o)
  \/ \E h \in DOMAIN handoffs : ConsumeHandoff(h) \/ HandoffExpires(h)

JourneyTypeOK ==
  /\ Len(instances) <= MaxInstances /\ Len(handoffs) <= MaxHandoffs /\ verifying \subseteq DOMAIN instances
  /\ \A i \in DOMAIN instances :
       /\ instances[i].node \in DOMAIN NodeType
       /\ instances[i].status \in {"IN_PROGRESS", "MANUAL_REVIEW", "COMPLETED", "EXPIRED"}
       /\ instances[i].wallet \in {"NONE", "PENDING", "FAILED", "SUCCEEDED"}
       /\ instances[i].otp.attempts \in 0..OtpAttempts
  /\ registered \in [status : {"NONE", "ONBOARDING", "ACTIVE"}, contact : BOOLEAN, wallet : BOOLEAN]
  /\ allocating.step \in {"NONE", "CREATE", "RECORD"}

(* No way leads from the entry to a wallet but by that outcome of a node of *)
(* that type.  validateGraph does not ask for it; the journey of migration  *)
(* 049 has it for the one-time code and for the identity check.             *)
Guards(nodes, type, outcome) ==
  /\ EntryNode \notin nodes /\ {n \in DOMAIN NodeType : NodeType[n] = "WALLET_ALLOCATION"} \subseteq nodes
  /\ \A e \in JourneyEdge : e.to \in nodes /\ e.from \notin nodes => NodeType[e.from] = type /\ e.outcome = outcome

WalletsGuarded ==
  /\ \E nodes \in SUBSET DOMAIN NodeType : Guards(nodes, "OTP_VERIFICATION", "SUCCESS")
  /\ \E nodes \in SUBSET DOMAIN NodeType : Guards(nodes, "KYC", "APPROVED")

(* A wallet is opened for a customer whose telephone was verified and whose *)
(* identity was approved after a clear screening, although channels are     *)
(* changed, journeys expire and begin again, and allocations are cut off;   *)
(* and a journey that says it allocated a wallet has one.                   *)
WalletEarned ==
  /\ registered.wallet => registered.contact /\ CaseApproved
  /\ \A i \in DOMAIN instances :
       /\ instances[i].case.status = "APPROVED" => instances[i].case.screening = "CLEAR"
       /\ instances[i].wallet = "SUCCEEDED" => registered.wallet
=============================================================================
