------------------------------- MODULE Posting -------------------------------
(***************************************************************************)
(* The money side of Finify: wallets, accounting journals and transaction  *)
(* requests, and the two stored procedures that move money between         *)
(* wallets: sw_proc_direct_finify_transaction (migration 006) and          *)
(* sw_proc_full_merchant_refund (migration 024).                           *)
(*                                                                         *)
(* Each procedure call is one database transaction that takes an advisory  *)
(* lock on the transaction id, the request row and every wallet it touches *)
(* before it decides, so a call is one atomic step here.  A call either    *)
(* posts its journal or refuses with a code; Outcome says which, Post does *)
(* it.                                                                     *)
(***************************************************************************)
EXTENDS Integers, FiniteSets, Functions

CONSTANTS
  Wallet,            \* wallet MSISDNs
  TempWallet,        \* the two-leg reserve wallet, 9800000105
  ChargeWallet,      \* 9800000113
  CommissionWallet,  \* 9800000114
  Tx,                \* transactions the producer created
  RefundTx,          \* ids the refund procedure may generate
  Payload,           \* Kafka payloads, as the amounts a posting reads
  Request,           \* request row of a Tx: its wallets, and whether it is complete
  InitialAmount,     \* wallet balances before the first posting
  Restrictable       \* wallets an administrator may suspend (not the default ones)

AnyTx == Tx \cup RefundTx

PayloadType == [matches : BOOLEAN,
                sourceDebit : Nat, destinationCredit : Nat,
                chargeCredit : Nat, commissionDebit : Nat,
                sourceCommission : Nat, destinationCommission : Nat]

ASSUME WalletAssumption ==
  /\ {TempWallet, ChargeWallet, CommissionWallet} \subseteq Wallet
  /\ InitialAmount \in [Wallet -> Nat]
  /\ Restrictable \subseteq Wallet

ASSUME RequestAssumption ==
  /\ Tx \cap RefundTx = {}
  /\ Payload \subseteq PayloadType
  /\ Request \in [Tx -> [source : Wallet, destination : Wallet, valid : BOOLEAN]]

(* The three system wallets have numbers and rows of their own, and no      *)
(* request names the reserve wallet: that is how the deployment sets the    *)
(* wallets up (owner SYSTEM, purpose TEMPORARY_RESERVE), and the procedure  *)
(* does not check it.  Charge and commission wallets may be one.            *)
ASSUME ReserveAssumption ==
  /\ TempWallet \notin {ChargeWallet, CommissionWallet}
  /\ \A t \in Tx : TempWallet \notin {Request[t].source, Request[t].destination}

ASSUME FiniteAssumption == IsFiniteSet(Wallet) /\ IsFiniteSet(AnyTx)

-----------------------------------------------------------------------------
(* Journals are unique per transaction, mode, action and leg; an operation  *)
(* names one such combination.                                              *)

Mode       == {"DIRECT", "TWO_LEG"}
PostOp     == {"DIRECT_1", "TWO_LEG_1", "TWO_LEG_2"}
ReverseOp  == {"DIRECT_REVERSE", "TWO_LEG_REVERSE"}
Op         == PostOp \cup ReverseOp
FirstLeg   == {"DIRECT_1", "TWO_LEG_1"}

PostsOf(m)   == IF m = "DIRECT" THEN {"DIRECT_1"} ELSE {"TWO_LEG_1", "TWO_LEG_2"}
ReverseOf(m) == IF m = "DIRECT" THEN "DIRECT_REVERSE" ELSE "TWO_LEG_REVERSE"
ModeOf(op)   == IF op \in {"DIRECT_1", "DIRECT_REVERSE"} THEN "DIRECT" ELSE "TWO_LEG"

JournalStatus == {"NONE", "RESERVED", "SETTLED", "COMPLETED", "REVERSED"}
InForceStatus == {"RESERVED", "SETTLED", "COMPLETED"}

(* Transaction_Status: queued 2 (with null/0 before it), failed 3,          *)
(* reserved 4, completed 5, reversed 6.                                     *)
RequestStatus == {"absent", "queued", "failed", "reserved", "completed", "reversed"}

VARIABLES
  amount,     \* SW_TBL_WALLET.Amount
  suspended,  \* wallets whose SW_TBL_WALLET.Status is not 0
  request,    \* SW_TBL_TRANSACTION_REQUEST.Transaction_Status
  journal,    \* sw_tbl_accounting_journal.status of each operation
  debit,      \* sw_tbl_accounting_entry debits of each journal, per wallet
  credit,     \* and its credits
  held,       \* payload stored with the leg 1 journal, which leg 2 posts
  refund      \* sw_tbl_merchant_refund: original transaction -> refund

vars == <<amount, suspended, request, journal, debit, credit, held, refund>>

NoPayload == [matches |-> FALSE, sourceDebit |-> 0, destinationCredit |-> 0,
              chargeCredit |-> 0, commissionDebit |-> 0,
              sourceCommission |-> 0, destinationCommission |-> 0]
NoRefund  == "none"
NoLines   == [w \in Wallet |-> 0]

TypeOK ==
  /\ amount \in [Wallet -> Int]
  /\ suspended \subseteq Wallet
  /\ request \in [AnyTx -> RequestStatus]
  /\ journal \in [AnyTx -> [Op -> JournalStatus]]
  /\ debit \in [AnyTx -> [Op -> [Wallet -> Nat]]]
  /\ credit \in [AnyTx -> [Op -> [Wallet -> Nat]]]
  /\ held \in [AnyTx -> PayloadType]
  /\ refund \in [AnyTx -> RefundTx \cup {NoRefund}]

Init ==
  /\ amount = InitialAmount
  /\ suspended = {}
  /\ request = [t \in AnyTx |-> IF t \in Tx THEN "queued" ELSE "absent"]
  /\ journal = [t \in AnyTx |-> [op \in Op |-> "NONE"]]
  /\ debit = [t \in AnyTx |-> [op \in Op |-> NoLines]]
  /\ credit = [t \in AnyTx |-> [op \in Op |-> NoLines]]
  /\ held = [t \in AnyTx |-> NoPayload]
  /\ refund = [t \in AnyTx |-> NoRefund]

-----------------------------------------------------------------------------
(* Accounting lines, summed per wallet.                                     *)

At(w, x, n) == IF w = x THEN n ELSE 0

InForce(t, op) == journal[t][op] \in InForceStatus

(* What an operation's lines contribute on one side, while it is in force. *)
Standing(lines, t, op, w) == IF InForce(t, op) THEN lines[t][op][w] ELSE 0

StandingDirect(lines, t) == [w \in Wallet |-> Standing(lines, t, "DIRECT_1", w)]
(* Faulty: a settled transaction is reversed like a reserved one.           *)
FaultyStandingTwoLeg(lines, t) == [w \in Wallet |-> Standing(lines, t, "TWO_LEG_1", w)]

StandingTwoLeg(lines, t) ==
  [w \in Wallet |-> Standing(lines, t, "TWO_LEG_1", w) + Standing(lines, t, "TWO_LEG_2", w)]
StandingOf(lines, t, m) ==
  IF m = "DIRECT" THEN StandingDirect(lines, t) ELSE StandingTwoLeg(lines, t)

(* Faulty: charge revenue is not credited.                                  *)
FaultyFinalCredit(t, p) ==
  [w \in Wallet |-> At(w, Request[t].destination, p.destinationCredit)
                  + At(w, Request[t].source, p.sourceCommission)
                  + At(w, Request[t].destination, p.destinationCommission)]

(* Credits of the final posting, direct or leg 2: destination, charge       *)
(* revenue and commission receivers.                                        *)
FinalCredit(t, p) ==
  [w \in Wallet |-> At(w, Request[t].destination, p.destinationCredit)
                  + At(w, ChargeWallet, p.chargeCredit)
                  + At(w, Request[t].source, p.sourceCommission)
                  + At(w, Request[t].destination, p.destinationCommission)]

DebitLines(t, op, p) ==
  CASE op = "DIRECT_1"  -> [w \in Wallet |-> At(w, Request[t].source, p.sourceDebit)
                                           + At(w, CommissionWallet, p.commissionDebit)]
    [] op = "TWO_LEG_1" -> [w \in Wallet |-> At(w, Request[t].source, p.sourceDebit)]
    [] op = "TWO_LEG_2" -> [w \in Wallet |-> At(w, TempWallet, p.sourceDebit)
                                           + At(w, CommissionWallet, p.commissionDebit)]
    [] OTHER            -> StandingOf(credit, t, ModeOf(op))

CreditLines(t, op, p) ==
  CASE op \in {"DIRECT_1", "TWO_LEG_2"} -> FinalCredit(t, p)
    [] op = "TWO_LEG_1" -> [w \in Wallet |-> At(w, TempWallet, p.sourceDebit)]
    [] OTHER            -> StandingOf(debit, t, ModeOf(op))

(* Debits equal credits, and there is something to post.  A reversal        *)
(* mirrors journals that passed this test.                                  *)
Balanced(op, p) ==
  CASE op \in {"DIRECT_1", "TWO_LEG_2"} ->
         /\ p.sourceDebit + p.commissionDebit > 0
         /\ p.sourceDebit + p.commissionDebit
              = p.destinationCredit + p.chargeCredit + p.sourceCommission + p.destinationCommission
    [] op = "TWO_LEG_1" -> p.sourceDebit > 0
    [] OTHER            -> TRUE

Available(d, c) == \A w \in Wallet : d[w] + c[w] > 0 => w \notin suspended

(* Faulty: a reversal only gives back, and needs no funds.                  *)
FaultyCovered(op, d, c) == op \in ReverseOp \/ \A w \in Wallet : d[w] > 0 => amount[w] >= d[w]

(* A reversal may spend what it credits first; a posting may not.           *)
Covered(op, d, c) ==
  \A w \in Wallet :
    d[w] > 0 => amount[w] + (IF op \in ReverseOp THEN c[w] ELSE 0) >= d[w]

-----------------------------------------------------------------------------
(* sw_proc_direct_finify_transaction                                        *)

Accept(c) == [success |-> TRUE, code |-> c]
Refuse(c) == [success |-> FALSE, code |-> c]

(* The answer for an operation whose journal is already there.              *)
Repeated(t, op) ==
  Accept(IF op \in ReverseOp \/ journal[t][op] = "REVERSED" THEN "ALREADY_REVERSED"
         ELSE IF journal[t][op] = "RESERVED" THEN "ALREADY_RESERVED"
         ELSE "ALREADY_COMPLETED")

(* Leg 2 posts the payload stored by leg 1, not the one it was called with. *)
Effective(t, op, p) == IF op = "TWO_LEG_2" THEN held[t] ELSE p

Shortfall(op) ==
  IF op \in ReverseOp THEN "REVERSAL_BLOCKED"
  ELSE IF op = "TWO_LEG_2" THEN "SETTLEMENT_BLOCKED" ELSE "INSUFFICIENT_BALANCE"

Posted(op) ==
  IF op \in ReverseOp THEN "REVERSED" ELSE IF op = "TWO_LEG_1" THEN "RESERVED" ELSE "COMPLETED"

(* Whether the posting can be made once it is known to be new and legal.    *)
Funding(t, op, p) ==
  LET d == DebitLines(t, op, p)
      c == CreditLines(t, op, p)
  IN IF ~Balanced(op, p) THEN Refuse("UNBALANCED_POSTING")
     ELSE IF ~Available(d, c) THEN Refuse("WALLET_NOT_AVAILABLE")
     ELSE IF ~Covered(op, d, c) THEN Refuse(Shortfall(op))
     ELSE Accept(Posted(op))

(* The early returns of the procedure, in their order.                      *)
Outcome(t, op, p) ==
  IF request[t] = "absent" THEN Refuse("TRANSACTION_NOT_FOUND")
  ELSE IF journal[t][op] # "NONE" THEN Repeated(t, op)
  ELSE IF t \in Tx /\ ~Request[t].valid THEN Refuse("INVALID_TRANSACTION")
  ELSE IF op \in FirstLeg /\ ~p.matches THEN Refuse("REQUEST_MISMATCH")
  ELSE IF op = "TWO_LEG_2" /\ journal[t]["TWO_LEG_1"] # "RESERVED"
    THEN Refuse("RESERVATION_NOT_FOUND")
  ELSE IF op \in ReverseOp /\ request[t] = "reversed" THEN Refuse("ALREADY_REVERSED")
  ELSE IF op \in ReverseOp /\ request[t] \notin {"reserved", "completed"}
    THEN Refuse("REVERSAL_NOT_ALLOWED")
  ELSE IF op \in ReverseOp /\ \A o \in PostsOf(ModeOf(op)) : ~InForce(t, o)
    THEN Refuse("ORIGINAL_JOURNAL_NOT_FOUND")
  ELSE Funding(t, op, Effective(t, op, p))

Move(d, c) == amount' = [w \in Wallet |-> amount[w] - d[w] + c[w]]

(* Faulty: leg 2 leaves leg 1 reserved.                                     *)
FaultyJournalAfter(t, op) ==
  [o \in Op |->
     IF o = op THEN (IF op = "TWO_LEG_1" THEN "RESERVED" ELSE "COMPLETED")
     ELSE IF op \in ReverseOp /\ o \in PostsOf(ModeOf(op)) /\ InForce(t, o) THEN "REVERSED"
     ELSE journal[t][o]]

(* Faulty: leg 1 is booked as the whole payment.                            *)
HastyJournalAfter(t, op) ==
  [o \in Op |->
     IF o = op THEN "COMPLETED"
     ELSE IF op \in ReverseOp /\ o \in PostsOf(ModeOf(op)) /\ InForce(t, o) THEN "REVERSED"
     ELSE journal[t][o]]

(* The status each journal of the transaction has after op is posted.       *)
JournalAfter(t, op) ==
  [o \in Op |->
     IF o = op THEN (IF op = "TWO_LEG_1" THEN "RESERVED" ELSE "COMPLETED")
     ELSE IF op = "TWO_LEG_2" /\ o = "TWO_LEG_1" THEN "SETTLED"
     ELSE IF op \in ReverseOp /\ o \in PostsOf(ModeOf(op)) /\ InForce(t, o) THEN "REVERSED"
     ELSE journal[t][o]]

(* Faulty: the answer's code is stored as the request's status.             *)
FaultyRequestAfter(op) == Posted(op)

RequestAfter(op) ==
  IF op \in ReverseOp THEN "reversed" ELSE IF op = "TWO_LEG_1" THEN "reserved" ELSE "completed"

Write(t, op, p) ==
  LET d == DebitLines(t, op, p)
      c == CreditLines(t, op, p)
  IN /\ Move(d, c)
     /\ journal' = [journal EXCEPT ![t] = JournalAfter(t, op)]
     /\ debit' = [debit EXCEPT ![t][op] = d]
     /\ credit' = [credit EXCEPT ![t][op] = c]
     /\ held' = IF op = "TWO_LEG_1" THEN [held EXCEPT ![t] = p] ELSE held
     /\ request' = [request EXCEPT ![t] = RequestAfter(op)]
     /\ UNCHANGED <<suspended, refund>>

(* Faulty: a repeated call posts again.                                     *)
FaultyCommit(t, op, p) == Outcome(t, op, p).success /\ Write(t, op, Effective(t, op, p))

(* A call that posts its journal.                                           *)
Commit(t, op, p) ==
  /\ journal[t][op] = "NONE"
  /\ Outcome(t, op, p).success
  /\ Write(t, op, Effective(t, op, p))

(* Refusals that set the request to status 3: an incomplete request, and a  *)
(* first leg refused for its amounts.                                       *)
FailsRequest(t, op, p) ==
  \/ Outcome(t, op, p).code \in {"INVALID_TRANSACTION", "INSUFFICIENT_BALANCE"}
  \/ op \in FirstLeg /\ Outcome(t, op, p).code = "UNBALANCED_POSTING"

(* A call that moves no money.                                              *)
Decline(t, op, p) ==
  /\ journal[t][op] # "NONE" \/ ~Outcome(t, op, p).success
  /\ request' = IF FailsRequest(t, op, p) THEN [request EXCEPT ![t] = "failed"] ELSE request
  /\ UNCHANGED <<amount, suspended, journal, debit, credit, held, refund>>

Post(t, op, p) == Commit(t, op, p) \/ Decline(t, op, p)

-----------------------------------------------------------------------------
(* sw_proc_full_merchant_refund                                             *)

RefundStatus == {"SETTLED", "COMPLETED"}

Refundable(t, op, lines, w) == IF journal[t][op] \in RefundStatus THEN lines[t][op][w] ELSE 0
RefundLines(t, lines) ==
  [w \in Wallet |-> Refundable(t, "DIRECT_1", lines, w)
                  + Refundable(t, "TWO_LEG_1", lines, w)
                  + Refundable(t, "TWO_LEG_2", lines, w)]

(* The refund of t is a new request r with a direct journal that mirrors    *)
(* every entry of t.  The request and the journals of t stay as they are.   *)
MerchantRefund(t, r) ==
  LET d == RefundLines(t, credit)
      c == RefundLines(t, debit)
  IN /\ refund[t] = NoRefund
     /\ request[t] = "completed"
     /\ \E op \in PostOp : journal[t][op] \in RefundStatus
     /\ request[r] = "absent"
     /\ Available(d, c)
     /\ \A w \in Wallet : amount[w] + c[w] >= d[w]
     /\ Move(d, c)
     /\ refund' = [refund EXCEPT ![t] = r]
     /\ request' = [request EXCEPT ![r] = "completed"]
     /\ journal' = [journal EXCEPT ![r]["DIRECT_1"] = "COMPLETED"]
     /\ debit' = [debit EXCEPT ![r]["DIRECT_1"] = d]
     /\ credit' = [credit EXCEPT ![r]["DIRECT_1"] = c]
     /\ UNCHANGED <<suspended, held>>

-----------------------------------------------------------------------------
(* Writers outside the two procedures.                                      *)

(* The producer's catch block: status 3, whatever the row says.             *)
MarkTransactionFailed(t) ==
  /\ request' = [request EXCEPT ![t] = "failed"]
  /\ UNCHANGED <<amount, suspended, journal, debit, credit, held, refund>>

(* WalletService.changeStatus: suspends or reactivates a wallet.            *)
ChangeWalletStatus(w) ==
  /\ w \in Restrictable
  /\ suspended' = IF w \in suspended THEN suspended \ {w} ELSE suspended \cup {w}
  /\ UNCHANGED <<amount, request, journal, debit, credit, held, refund>>

PostStep    == \E t \in Tx, op \in PostOp, p \in Payload : Post(t, op, p)
ReverseStep == \E t \in AnyTx, op \in ReverseOp : Post(t, op, NoPayload)
RefundStep  == \E t \in AnyTx, r \in RefundTx : MerchantRefund(t, r)
FailStep    == \E t \in Tx : MarkTransactionFailed(t)
StatusStep  == \E w \in Wallet : ChangeWalletStatus(w)

Next == PostStep \/ ReverseStep \/ RefundStep \/ FailStep \/ StatusStep

Spec == Init /\ [][Next]_vars

-----------------------------------------------------------------------------
(* Properties.                                                              *)

(* No posting, reversal or refund drives a wallet below zero, although a    *)
(* reversal and a refund spend the credits they are about to book, and      *)
(* although lines of one wallet are applied one by one.                     *)
NoOverdraft == \A w \in Wallet : amount[w] >= 0

(* Every journal written by either procedure moves money between wallets    *)
(* and never makes or destroys any: the total is what it was at the start,  *)
(* also after a leg 2 that posts the payload of leg 1 and after reversals   *)
(* of half-finished two-leg transactions.                                   *)
MoneyConserved == FoldFunction(+, 0, amount) = FoldFunction(+, 0, InitialAmount)

(* The temporary wallet holds exactly what the open reservations put there: *)
(* settlement, rejection, dispute and refund all give the reserve back, so  *)
(* SETTLEMENT_BLOCKED for lack of reserve cannot happen.                    *)
OpenReserve(t) == IF journal[t]["TWO_LEG_1"] = "RESERVED" THEN held[t].sourceDebit ELSE 0
ReserveBacked ==
  amount[TempWallet] =
    InitialAmount[TempWallet] + FoldFunction(+, 0, [t \in AnyTx |-> OpenReserve(t)])

(* The two legs agree: leg 1 is SETTLED exactly while leg 2 is in force,    *)
(* a reversed leg 1 has a reversal journal, and no leg 2 survives it.       *)
LegsAgree ==
  \A t \in AnyTx :
    /\ journal[t]["TWO_LEG_1"] = "SETTLED" <=> journal[t]["TWO_LEG_2"] = "COMPLETED"
    /\ journal[t]["TWO_LEG_1"] = "REVERSED" <=> journal[t]["TWO_LEG_REVERSE"] = "COMPLETED"
    /\ journal[t]["TWO_LEG_2"] = "REVERSED" => journal[t]["TWO_LEG_1"] = "REVERSED"
    /\ journal[t]["DIRECT_1"] = "REVERSED" <=> journal[t]["DIRECT_REVERSE"] = "COMPLETED"

(* A reversal undoes its transaction exactly: over the journals of the      *)
(* mode and the reversal, every wallet's debits equal its credits, whether  *)
(* the transaction was reversed from the reserved or the settled state.     *)
Booked(lines, t, m, w) ==
  IF m = "DIRECT" THEN lines[t]["DIRECT_1"][w] + lines[t]["DIRECT_REVERSE"][w]
  ELSE lines[t]["TWO_LEG_1"][w] + lines[t]["TWO_LEG_2"][w] + lines[t]["TWO_LEG_REVERSE"][w]

ReversalExact ==
  \A t \in AnyTx, m \in Mode :
    journal[t][ReverseOf(m)] # "NONE" =>
      \A w \in Wallet : Booked(debit, t, m, w) = Booked(credit, t, m, w)

(* The ledger is append-only: once a journal is written its entries never   *)
(* change and its status only moves forward, from RESERVED to SETTLED and   *)
(* from any of them to REVERSED; a repeated call changes neither.           *)
StatusRank == [NONE |-> 0, RESERVED |-> 1, SETTLED |-> 2, COMPLETED |-> 2, REVERSED |-> 3]

LedgerAppendOnly ==
  [][\A t \in AnyTx, op \in Op :
       journal[t][op] # "NONE" =>
         /\ debit'[t][op] = debit[t][op]
         /\ credit'[t][op] = credit[t][op]
         /\ StatusRank[journal'[t][op]] >= StatusRank[journal[t][op]]]_vars

(* The journals implement the payment life cycle: money is taken, delivered *)
(* and returned at most once per mode, however often calls are repeated.    *)
FirstOf(m)  == IF m = "DIRECT" THEN "DIRECT_1" ELSE "TWO_LEG_1"
PhaseOf     == [NONE |-> "none", RESERVED |-> "held", SETTLED |-> "paid",
                COMPLETED |-> "paid", REVERSED |-> "returned"]
Phase(t, m) == PhaseOf[journal[t][FirstOf(m)]]

Lifecycle == INSTANCE PaymentLifecycle WITH
  Payments <- AnyTx, Modes <- Mode, HeldModes <- {"TWO_LEG"},
  phase <- [t \in AnyTx |-> [m \in Mode |-> Phase(t, m)]]

LifecycleSpec == Lifecycle!PSpec
=============================================================================
