----------------------------- MODULE CustomerAccounts -----------------------------
(***************************************************************************)
(* One customer's profile, identity (KYC) cases, account opening request   *)
(* and wallets.  Operations of the wallet service hold the customer's      *)
(* advisory lock, a status change holds only its wallet's row, and a KYC   *)
(* review holds its case and reads the other cases before it reaches the   *)
(* profile row.  The reviewer is another person than the case's creator.   *)
(***************************************************************************)
EXTENDS Naturals, FiniteSets

CONSTANTS
  LastCase,             \* bound on the KYC cases
  WalletId,             \* wallet numbers; the first one opened is the customer's own number
  OwnNumber,            \* the wallet number that is the customer's MSISDN
  WalletCurrency

ASSUME CustomerAssumption == LastCase \in Nat \ {0} /\ OwnNumber \in WalletId

VARIABLES
  profile,              \* SW_TBL_PROFILE_CUST
  kycCases,             \* kyc.cases in order of creation
  opening,              \* customer_account_opening_requests
  wallets,              \* SW_TBL_WALLET rows of the customer
  reviews,              \* reviews that have read the approved case and not yet reached the profile
  answering,            \* verifications that stored their result, the reply to their COMMIT outstanding
  kycRaced              \* history: two reviews overlapped, or a stored result was marked failed

customerVars == <<profile, kycCases, opening, wallets, reviews, answering, kycRaced>>

(* Wallet type 103 needs no identity case, the other one does.              *)
WalletKind == {"standard", "restricted"}
NoWallet == [kind |-> "none", currency |-> "none", status |-> "none", main |-> FALSE]

CustomerInit ==
  /\ profile = [exists |-> FALSE, status |-> "ACTIVE", kyc |-> 0]
  /\ kycCases = [k \in 1..LastCase |-> [status |-> "NONE", clear |-> FALSE]]
  /\ opening = [status |-> "NONE", kind |-> "none", currency |-> "none"]
  /\ wallets = [w \in WalletId |-> NoWallet]
  /\ reviews = {} /\ answering = {} /\ kycRaced = FALSE

OpenWallets == {w \in WalletId : wallets[w].status \notin {"none", "CLOSED"}}
MainWallets == {w \in WalletId : wallets[w].main}
ApprovedCases == {k \in 1..LastCase : kycCases[k].status = "APPROVED"}
PendingCases == {k \in 1..LastCase : kycCases[k].status \notin {"NONE", "REJECTED", "FAILED"}}
FreeCases == {k \in 1..LastCase : kycCases[k].status = "NONE"}
KycSatisfied(kind) == kind = "restricted" => ApprovedCases # {}

NewCase == kycCases' = [kycCases EXCEPT ![CHOOSE k \in FreeCases : \A j \in FreeCases : k <= j].status = "DRAFT"]

insertDefaultWallet(kind, currency) ==
  wallets' = [wallets EXCEPT ![OwnNumber] = [kind |-> kind, currency |-> currency, status |-> "ACTIVE", main |-> TRUE]]

(* A profile that exists is used again as long as it has no open wallet.    *)
MayOpen == ~profile.exists \/ (OpenWallets = {} /\ profile.status = "ACTIVE")

createCustomerOpen(kind, currency) ==
  /\ MayOpen /\ wallets[OwnNumber] = NoWallet /\ KycSatisfied(kind)
  /\ insertDefaultWallet(kind, currency)
  /\ opening' = [status |-> "OPENED", kind |-> kind, currency |-> currency]
  /\ profile' = [profile EXCEPT !.exists = TRUE, !.kyc = IF kind = "restricted" THEN 1 ELSE @]
  /\ UNCHANGED <<kycCases, reviews, answering, kycRaced>>

createCustomerPending(currency) ==
  /\ MayOpen /\ wallets[OwnNumber] = NoWallet /\ ~KycSatisfied("restricted")
  /\ opening.status # "OPENED"
  /\ IF PendingCases = {} THEN FreeCases # {} /\ NewCase ELSE UNCHANGED kycCases
  /\ opening' = [status |-> "PENDING_KYC", kind |-> "restricted", currency |-> currency]
  /\ profile' = [profile EXCEPT !.exists = TRUE]
  /\ UNCHANGED <<wallets, reviews, answering, kycRaced>>

completeCustomerAccountOpening ==
  /\ profile.exists /\ profile.status = "ACTIVE" /\ opening.status \notin {"NONE", "OPENED"}
  /\ KycSatisfied(opening.kind) /\ wallets[OwnNumber] = NoWallet
  /\ insertDefaultWallet(opening.kind, opening.currency)
  /\ opening' = [opening EXCEPT !.status = "OPENED"]
  /\ profile' = [profile EXCEPT !.kyc = IF opening.kind = "restricted" THEN 1 ELSE @]
  /\ UNCHANGED <<kycCases, reviews, answering, kycRaced>>

createAdditional(w, kind, currency) ==
  /\ w # OwnNumber /\ wallets[w] = NoWallet
  /\ profile.exists /\ profile.status = "ACTIVE" /\ KycSatisfied(kind)
  /\ \A v \in OpenWallets : ~(wallets[v].kind = kind /\ wallets[v].currency = currency)
  /\ MainWallets \cap OpenWallets # {}
  /\ kind = "standard" \/ \E v \in OpenWallets : wallets[v].currency = currency
  /\ wallets' = [wallets EXCEPT ![w] = [kind |-> kind, currency |-> currency, status |-> "ACTIVE", main |-> FALSE]]
  /\ UNCHANGED <<profile, kycCases, opening, reviews, answering, kycRaced>>

setDefault(w) ==
  /\ wallets[w].status = "ACTIVE"
  /\ wallets' = [v \in WalletId |-> [wallets[v] EXCEPT !.main = (v = w)]]
  /\ UNCHANGED <<profile, kycCases, opening, reviews, answering, kycRaced>>

(* Faulty: only closing the main wallet is refused.                         *)
FaultyMayBecome(w, status) == ~(wallets[w].main /\ status = "CLOSED")

MayBecome(w, status) == wallets[w].main => status = "ACTIVE"

changeStatus(w, status) ==
  /\ wallets[w] # NoWallet /\ wallets[w].status # status /\ MayBecome(w, status)
  /\ wallets' = [wallets EXCEPT ![w].status = status]
  /\ UNCHANGED <<profile, kycCases, opening, reviews, answering, kycRaced>>

changeCustomerStatus(status) ==
  /\ profile.exists /\ profile.status # status
  /\ profile' = [profile EXCEPT !.status = status]
  /\ UNCHANGED <<kycCases, opening, wallets, reviews, answering, kycRaced>>

createKycCase ==
  /\ profile.exists /\ FreeCases # {} /\ NewCase
  /\ UNCHANGED <<profile, opening, wallets, reviews, answering, kycRaced>>

UnderReview(k) == \E r \in reviews : r.case = k

(* Verification: the case is taken in one transaction, matched and screened *)
(* outside any, and stored in a second one.                                 *)
SubmitKyc(k) ==
  /\ kycCases[k].status \in {"DRAFT", "RESUBMISSION_REQUIRED"}
  /\ kycCases' = [kycCases EXCEPT ![k].status = "PROCESSING"]
  /\ UNCHANGED <<profile, opening, wallets, reviews, answering, kycRaced>>

StoreResult(k, clear) ==
  /\ kycCases[k].status = "PROCESSING"
  /\ kycCases' = [kycCases EXCEPT ![k] = [status |-> "MANUAL_REVIEW", clear |-> clear]]
  /\ answering' = answering \cup {k}
  /\ UNCHANGED <<profile, opening, wallets, reviews, kycRaced>>

VerificationFails(k) ==
  /\ kycCases[k].status = "PROCESSING"
  /\ kycCases' = [kycCases EXCEPT ![k].status = "FAILED"]
  /\ UNCHANGED <<profile, opening, wallets, reviews, answering, kycRaced>>

AnswerRead(k) ==
  /\ k \in answering /\ answering' = answering \ {k}
  /\ UNCHANGED <<profile, kycCases, opening, wallets, reviews, kycRaced>>

(* The reply to the COMMIT is lost: the handler takes it for a failure and  *)
(* marks the case it stored, whatever became of it in the meantime.  (What  *)
(* fails after the reply is outside its catch.)                             *)
AnswerFails(k) ==
  /\ k \in answering /\ ~UnderReview(k) /\ answering' = answering \ {k}
  /\ kycCases' = [kycCases EXCEPT ![k].status = "FAILED"]
  /\ kycRaced' = TRUE
  /\ UNCHANGED <<profile, opening, wallets, reviews>>

Decision == [APPROVE |-> "APPROVED", REJECT |-> "REJECTED", REQUEST_RESUBMISSION |-> "RESUBMISSION_REQUIRED"]

review(k, action) ==
  /\ kycCases[k].status = "MANUAL_REVIEW" /\ ~UnderReview(k)
  /\ action = "APPROVE" => kycCases[k].clear
  /\ reviews' = reviews \cup {[case |-> k, action |-> action,
                               approved |-> action = "APPROVE" \/ ApprovedCases # {}]}
  /\ kycRaced' = (kycRaced \/ reviews # {})
  /\ UNCHANGED <<profile, kycCases, opening, wallets, answering>>

(* Faulty: the decision alone sets the profile, an earlier approval or not. *)
FaultyProfileStatus(r) == IF r.action = "APPROVE" THEN 1 ELSE IF r.action = "REJECT" THEN 2 ELSE 0

ProfileStatus(r) == IF r.approved THEN 1 ELSE IF r.action = "REJECT" THEN 2 ELSE 0

CommitReview(r) ==
  /\ reviews' = reviews \ {r}
  /\ kycCases' = [kycCases EXCEPT ![r.case].status = Decision[r.action]]
  /\ profile' = [profile EXCEPT !.kyc = ProfileStatus(r)]
  /\ opening' = IF opening.status \in {"NONE", "OPENED"} THEN opening
                ELSE [opening EXCEPT !.status = IF r.approved THEN "READY_TO_OPEN"
                                                ELSE IF r.action = "REJECT" THEN "KYC_REJECTED" ELSE "PENDING_KYC"]
  /\ UNCHANGED <<wallets, answering, kycRaced>>

CustomerNext ==
  \/ \E currency \in WalletCurrency :
       \/ createCustomerPending(currency)
       \/ \E kind \in WalletKind :
            createCustomerOpen(kind, currency) \/ \E w \in WalletId : createAdditional(w, kind, currency)
  \/ completeCustomerAccountOpening \/ createKycCase
  \/ \E w \in WalletId : setDefault(w) \/ \E status \in {"ACTIVE", "SUSPENDED", "CLOSED"} : changeStatus(w, status)
  \/ \E status \in {"ACTIVE", "SUSPENDED"} : changeCustomerStatus(status)
  \/ \E k \in 1..LastCase :
       \/ SubmitKyc(k) \/ VerificationFails(k) \/ AnswerRead(k) \/ AnswerFails(k)
       \/ \E clear \in BOOLEAN : StoreResult(k, clear)
       \/ \E action \in DOMAIN Decision : review(k, action)
  \/ \E r \in reviews : CommitReview(r)

CustomerTypeOK ==
  /\ profile \in [exists : BOOLEAN, status : {"ACTIVE", "SUSPENDED"}, kyc : 0..2]
  /\ kycCases \in [1..LastCase -> [clear : BOOLEAN,
       status : {"NONE", "DRAFT", "PROCESSING", "MANUAL_REVIEW", "FAILED", "APPROVED", "REJECTED", "RESUBMISSION_REQUIRED"}]]
  /\ opening.status \in {"NONE", "PENDING_KYC", "READY_TO_OPEN", "KYC_REJECTED", "OPENED"}
  /\ \A w \in WalletId : wallets[w] = NoWallet \/ wallets[w] \in
       [kind : WalletKind, currency : WalletCurrency, status : {"ACTIVE", "SUSPENDED", "CLOSED"}, main : BOOLEAN]
  /\ answering \subseteq 1..LastCase /\ kycRaced \in BOOLEAN

(* A customer with wallets has exactly one main wallet and it can be used. *)
MainWalletUsable ==
  (\E w \in WalletId : wallets[w] # NoWallet) =>
    \E w \in WalletId : MainWallets = {w} /\ wallets[w].status = "ACTIVE"

(* The profile's KYC flag, the opening request and the restricted wallets  *)
(* agree with the customer's cases, whatever the order of reviews and       *)
(* openings, unless two reviews overlapped or a stored result was failed.   *)
KycAgrees ==
  ~kycRaced =>
    /\ profile.kyc = 1 <=> ApprovedCases # {}
    /\ opening.status = "READY_TO_OPEN" => ApprovedCases # {}
    /\ \A w \in WalletId : wallets[w].kind = "restricted" => ApprovedCases # {}
=============================================================================
