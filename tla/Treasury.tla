------------------------------- MODULE Treasury -------------------------------
(***************************************************************************)
(* Treasury movements: a maker files a movement of bank money with its     *)
(* evidence document, a checker approves or rejects it, and the approval   *)
(* moves a system wallet and, for safeguarding money, a control account.   *)
(* A review is one database transaction that locks the request's row; it   *)
(* is two steps here, so that the lock does something.                     *)
(***************************************************************************)
EXTENDS Integers, FiniteSets, Functions

CONSTANTS
  Reference,      \* bank transaction references
  Document,       \* uploaded bank documents
  Administrator,
  Opening,        \* balance of every system wallet at the start
  MaxPosting      \* bound on wallet movements by the transaction procedure

ASSUME TreasuryAssumption ==
  /\ Opening \in Nat /\ MaxPosting \in Nat
  /\ IsFiniteSet(Reference) /\ "none" \notin Reference \cup Document \cup Administrator

Account == {"safeguarding", "commission", "charge", "owner", "customers", "bank"}

(* The operations of createTreasuryFunding, and the control account of each *)
(* safeguarding classification.                                             *)
Operation ==
  [ADD_SAFEGUARDING         |-> [sign |->  1, account |-> "safeguarding"],
   ADD_COMMISSION_FUNDING   |-> [sign |->  1, account |-> "commission"],
   WITHDRAW_SAFEGUARDING    |-> [sign |-> -1, account |-> "safeguarding"],
   WITHDRAW_CHARGE_REVENUE  |-> [sign |-> -1, account |-> "charge"]]

Contra == [OWNER_INVESTMENT |-> "owner", CUSTOMER_FUNDS |-> "customers", BANK_PREFUNDING |-> "bank"]

Classification(op) ==
  IF Operation[op].account = "safeguarding" THEN DOMAIN Contra ELSE {"NOT_APPLICABLE"}

VARIABLES
  fund,        \* treasury_funding_requests, by reference
  money,       \* balances of the system wallets
  posted,      \* what the transaction procedure added to them
  document,    \* treasury_documents: status and uploader
  stored,      \* documents whose object is in the bucket
  orphaned,    \* documents whose upload or removal broke off between object and row
  desk         \* an administrator's review in progress: the reference it locks

treasuryVars == <<fund, money, posted, document, stored, orphaned, desk>>

NoFund == [status |-> "none", op |-> "none", class |-> "none", maker |-> "none",
           checker |-> "none", document |-> "none"]

TreasuryInit ==
  /\ fund = [r \in Reference |-> NoFund]
  /\ money = [a \in Account |-> Opening]
  /\ posted = [a \in Account |-> 0]
  /\ document = [d \in Document |-> [status |-> "none", owner |-> "none"]]
  /\ stored = {} /\ orphaned = {}
  /\ desk = [a \in Administrator |-> "none"]

-----------------------------------------------------------------------------
(* TreasuryDocumentService: the object first, then the row; an upload whose *)
(* answer was lost takes the object away again and leaves the row.          *)
Upload(a, d) ==
  /\ document[d].status = "none"
  /\ document' = [document EXCEPT ![d] = [status |-> "UPLOADED", owner |-> a]]
  /\ \/ stored' = stored \cup {d} /\ UNCHANGED orphaned
     \/ orphaned' = orphaned \cup {d} /\ UNCHANGED stored
  /\ UNCHANGED <<fund, money, posted, desk>>

(* Faulty: an attached document may be removed.                             *)
FaultyRemovable(a, d) == document[d].owner = a

Removable(a, d) == document[d] = [status |-> "UPLOADED", owner |-> a]

(* removeUnattached: the row is locked; deleting it may fail after the      *)
(* object is gone.                                                          *)
RemoveUnattached(a, d) ==
  /\ Removable(a, d)
  /\ stored' = stored \ {d}
  /\ \/ document' = [document EXCEPT ![d] = [status |-> "deleted", owner |-> "none"]]
        /\ UNCHANGED orphaned
     \/ orphaned' = orphaned \cup {d} /\ UNCHANGED document
  /\ UNCHANGED <<fund, money, posted, desk>>

-----------------------------------------------------------------------------
(* createTreasuryFunding: the reference is unique, the document is the      *)
(* maker's own and not attached yet.                                        *)
CreateFunding(a, r) ==
  /\ fund[r] = NoFund
  /\ \E op \in DOMAIN Operation : \E class \in Classification(op) :
     \E d \in {x \in Document : Removable(a, x)} \cup {"none"} :
       /\ fund' = [fund EXCEPT ![r] = [status |-> "PENDING", op |-> op, class |-> class, maker |-> a,
                                       checker |-> "none", document |-> d]]
       /\ document' = IF d = "none" THEN document
                      ELSE [document EXCEPT ![d].status = "ATTACHED"]
  /\ UNCHANGED <<money, posted, stored, orphaned, desk>>

RowFree(r) == \A b \in Administrator : desk[b] # r

(* reviewTreasuryFunding, up to the decision: the row is locked, pending,   *)
(* and somebody else's.                                                     *)
BeginReview(a, r) ==
  /\ desk[a] = "none" /\ RowFree(r)
  /\ fund[r].status = "PENDING" /\ fund[r].maker # a
  /\ desk' = [desk EXCEPT ![a] = r]
  /\ UNCHANGED <<fund, money, posted, document, stored, orphaned>>

Decide(a, status) ==
  /\ fund' = [fund EXCEPT ![desk[a]].status = status, ![desk[a]].checker = a]
  /\ desk' = [desk EXCEPT ![a] = "none"]

Reject(a) ==
  /\ desk[a] # "none" /\ Decide(a, "REJECTED")
  /\ UNCHANGED <<money, posted, document, stored, orphaned>>

(* Faulty: the control account is left out.                                 *)
FaultyReached(f) == {Operation[f.op].account}

(* The wallets a movement reaches: its own, and for safeguarding money the  *)
(* control account of its classification, both in the same direction.       *)
Reached(f) ==
  {Operation[f.op].account} \cup (IF f.class \in DOMAIN Contra THEN {Contra[f.class]} ELSE {})

Moved(f) == [x \in Account |-> IF x \in Reached(f) THEN money[x] + Operation[f.op].sign ELSE money[x]]

Sufficient(f) == \A x \in Account : Moved(f)[x] >= 0

Approve(a) ==
  /\ desk[a] # "none" /\ Sufficient(fund[desk[a]])
  /\ money' = Moved(fund[desk[a]])
  /\ Decide(a, "APPROVED")
  /\ UNCHANGED <<posted, document, stored, orphaned>>

(* An insufficient balance or an error rolls the review back.               *)
RollBack(a) ==
  /\ desk[a] # "none" /\ desk' = [desk EXCEPT ![a] = "none"]
  /\ UNCHANGED <<fund, money, posted, document, stored, orphaned>>

(* Transactions pay commission out and collect charges meanwhile.           *)
PostingMoves(x, n) ==
  /\ posted[x] * n < MaxPosting /\ money[x] + n >= 0
  /\ money' = [money EXCEPT ![x] = @ + n]
  /\ posted' = [posted EXCEPT ![x] = @ + n]
  /\ UNCHANGED <<fund, document, stored, orphaned, desk>>

TreasuryNext ==
  \/ \E a \in Administrator, d \in Document : Upload(a, d) \/ RemoveUnattached(a, d)
  \/ \E a \in Administrator, r \in Reference : CreateFunding(a, r) \/ BeginReview(a, r)
  \/ \E a \in Administrator : Reject(a) \/ Approve(a) \/ RollBack(a)
  \/ PostingMoves("commission", -1) \/ PostingMoves("charge", 1)

TreasurySpec == TreasuryInit /\ [][TreasuryNext]_treasuryVars

-----------------------------------------------------------------------------
TreasuryTypeOK ==
  /\ \A r \in Reference :
       /\ fund[r].status \in {"none", "PENDING", "APPROVED", "REJECTED"}
       /\ {fund[r].maker, fund[r].checker} \subseteq Administrator \cup {"none"}
       /\ fund[r].document \in Document \cup {"none"}
  /\ money \in [Account -> Nat] /\ posted \in [Account -> Int]
  /\ stored \cup orphaned \subseteq Document
  /\ desk \in [Administrator -> Reference \cup {"none"}]

(* What an approved movement adds to a wallet, and what all of them add.    *)
Effect(f, x) ==
  CASE Operation[f.op].account = x -> Operation[f.op].sign
    [] f.class \in DOMAIN Contra /\ Contra[f.class] = x -> Operation[f.op].sign
    [] OTHER -> 0

ApprovedFunds == {r \in Reference : fund[r].status = "APPROVED"}

Effects(x) == [r \in ApprovedFunds |-> Effect(fund[r], x)]

ApprovedTotal(x) == SumFunctionOnSet(Effects(x), ApprovedFunds)

(* Every system wallet holds what it opened with, what transactions moved   *)
(* and each approved movement once, in its wallet and in its control        *)
(* account; and the four eyes are two pairs.                                *)
TreasuryBooks ==
  /\ \A x \in Account : money[x] = Opening + posted[x] + ApprovedTotal(x)
  /\ \A r \in Reference : fund[r].checker # "none" => fund[r].checker # fund[r].maker

(* The evidence of a movement can be read, unless its upload or removal     *)
(* broke off between the bucket and the table.                              *)
EvidenceKept ==
  \A r \in Reference :
    fund[r].document # "none" => fund[r].document \in stored \cup orphaned
=============================================================================
