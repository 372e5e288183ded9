---------------------------- MODULE PipelineProofs ----------------------------
(***************************************************************************)
(* Proofs about Posting, for every set of wallets, transactions and        *)
(* payloads: the inductive invariant IInv adds to the properties what the  *)
(* procedures rely on, which statuses an operation's journal can have, that*)
(* an unwritten journal has no lines, and that a request that does not     *)
(* exist has no journals.  Then about TransactionPipeline, for every number*)
(* of consumers and callbacks and every mix of crashes, lost replies,      *)
(* disputes, edits and contradictory answers: it keeps its types and       *)
(* implements Posting, so that what is proved of Posting's money holds of  *)
(* it; money moves on somebody's word, and the tables tell the truth.      *)
(* Retries and repeated callbacks are safe for payments that compete with  *)
(* no other.                                                               *)
(***************************************************************************)
EXTENDS TransactionPipeline, SumProofs

(* A reservation is the only journal that is ever RESERVED or SETTLED, and  *)
(* a reversal is never itself reversed.                                     *)
StatusShape ==
  \A t \in AnyTx :
    /\ journal[t]["DIRECT_1"] \in {"NONE", "COMPLETED", "REVERSED"}
    /\ journal[t]["TWO_LEG_1"] \in {"NONE", "RESERVED", "SETTLED", "REVERSED"}
    /\ journal[t]["TWO_LEG_2"] \in {"NONE", "COMPLETED", "REVERSED"}
    /\ \A op \in ReverseOp : journal[t][op] \in {"NONE", "COMPLETED"}

UnwrittenEmpty ==
  \A t \in AnyTx, op \in Op :
    journal[t][op] = "NONE" => debit[t][op] = NoLines /\ credit[t][op] = NoLines

AbsentEmpty ==
  \A t \in AnyTx : request[t] = "absent" => \A op \in Op : journal[t][op] = "NONE"

IInv == TypeOK /\ StatusShape /\ UnwrittenEmpty /\ AbsentEmpty
        /\ NoOverdraft /\ LegsAgree /\ ReversalExact

-----------------------------------------------------------------------------
(* The lines of any operation are amounts, one per wallet.                  *)
LEMMA LinesType ==
  ASSUME TypeOK, NEW t \in AnyTx, NEW op \in Op, NEW p \in PayloadType
  PROVE  /\ DebitLines(t, op, p) \in [Wallet -> Nat]
         /\ CreditLines(t, op, p) \in [Wallet -> Nat]
<1> USE DEF TypeOK, PayloadType
<1>1. CASE op \in PostOp
  <2>1. \A w, x : \A n \in Nat : At(w, x, n) \in Nat
    BY DEF At
  <2>2. FinalCredit(t, p) \in [Wallet -> Nat]
    BY <2>1 DEF FinalCredit
  <2> QED
    BY <1>1, <2>1, <2>2 DEF PostOp, DebitLines, CreditLines
<1>2. CASE op \in ReverseOp
  <2>1. /\ \A o \in PostOp, w \in Wallet : Standing(debit, t, o, w) \in Nat
        /\ \A o \in PostOp, w \in Wallet : Standing(credit, t, o, w) \in Nat
    BY DEF Standing, Op
  <2>2. \A m \in Mode : /\ StandingOf(debit, t, m) \in [Wallet -> Nat]
                        /\ StandingOf(credit, t, m) \in [Wallet -> Nat]
    BY <2>1 DEF StandingOf, StandingDirect, StandingTwoLeg, PostOp
  <2> QED
    BY <1>2, <2>2 DEF ReverseOp, DebitLines, CreditLines, ModeOf, Mode
<1> QED
  BY <1>1, <1>2 DEF Op

(* What a call that posts its journal has checked.                          *)
LEMMA CommitGuards ==
  ASSUME NEW t \in AnyTx, NEW op \in Op, NEW p, Commit(t, op, p)
  PROVE  /\ request[t] # "absent"
         /\ journal[t][op] = "NONE"
         /\ op = "TWO_LEG_2" => journal[t]["TWO_LEG_1"] = "RESERVED"
         /\ op \in ReverseOp => \E o \in PostsOf(ModeOf(op)) : InForce(t, o)
         /\ LET e == Effective(t, op, p)
            IN Balanced(op, e) /\ Covered(op, DebitLines(t, op, e), CreditLines(t, op, e))
BY DEF Commit, Outcome, Funding, Accept, Refuse, FirstLeg, ReverseOp

(* What it writes, in the terms the invariants need.                        *)
LEMMA CommitEffect ==
  ASSUME TypeOK, NEW t \in AnyTx, NEW op \in Op, NEW p \in PayloadType, Commit(t, op, p)
  PROVE  LET e == Effective(t, op, p)
             d == DebitLines(t, op, e)
             c == CreditLines(t, op, e)
         IN /\ e \in PayloadType
            /\ d \in [Wallet -> Nat]
            /\ c \in [Wallet -> Nat]
            /\ Move(d, c)
            /\ journal' = [journal EXCEPT ![t] = JournalAfter(t, op)]
            /\ debit' = [debit EXCEPT ![t][op] = d]
            /\ credit' = [credit EXCEPT ![t][op] = c]
            /\ held' = IF op = "TWO_LEG_1" THEN [held EXCEPT ![t] = e] ELSE held
            /\ request' = [request EXCEPT ![t] = RequestAfter(op)]
            /\ UNCHANGED <<suspended, refund>>
<1>1. Effective(t, op, p) \in PayloadType
  BY DEF Effective, TypeOK
<1> QED
  BY <1>1, LinesType DEF Commit, Write

-----------------------------------------------------------------------------
(* Type correctness.                                                        *)

LEMMA MoveType ==
  ASSUME TypeOK, NEW d \in [Wallet -> Nat], NEW c \in [Wallet -> Nat], Move(d, c)
  PROVE  amount' \in [Wallet -> Int]
BY DEF TypeOK, Move

LEMMA CommitType ==
  ASSUME TypeOK, NEW t \in AnyTx, NEW op \in Op, NEW p \in PayloadType, Commit(t, op, p)
  PROVE  TypeOK'
<1> DEFINE e == Effective(t, op, p)
           d == DebitLines(t, op, e)
           c == CreditLines(t, op, e)
<1>1. amount' \in [Wallet -> Int]
  BY CommitEffect, MoveType
<1>2. JournalAfter(t, op) \in [Op -> JournalStatus]
  BY DEF JournalAfter, JournalStatus, TypeOK
<1>3. RequestAfter(op) \in RequestStatus
  BY DEF RequestAfter, RequestStatus
<1>4. /\ e \in PayloadType /\ d \in [Wallet -> Nat] /\ c \in [Wallet -> Nat]
      /\ journal' = [journal EXCEPT ![t] = JournalAfter(t, op)]
      /\ debit' = [debit EXCEPT ![t][op] = d]
      /\ credit' = [credit EXCEPT ![t][op] = c]
      /\ held' = IF op = "TWO_LEG_1" THEN [held EXCEPT ![t] = e] ELSE held
      /\ request' = [request EXCEPT ![t] = RequestAfter(op)]
      /\ UNCHANGED <<suspended, refund>>
  BY CommitEffect
<1> HIDE DEF e, d, c
<1> QED
  BY <1>1, <1>2, <1>3, <1>4 DEF TypeOK

LEMMA DeclineType ==
  ASSUME TypeOK, NEW t \in AnyTx, NEW op, NEW p, Decline(t, op, p)
  PROVE  TypeOK'
BY DEF TypeOK, Decline, RequestStatus

LEMMA RefundLinesType ==
  ASSUME TypeOK, NEW t \in AnyTx
  PROVE  RefundLines(t, debit) \in [Wallet -> Nat] /\ RefundLines(t, credit) \in [Wallet -> Nat]
BY DEF TypeOK, RefundLines, Refundable, Op, PostOp

LEMMA RefundType ==
  ASSUME TypeOK, NEW t \in AnyTx, NEW r \in RefundTx, MerchantRefund(t, r)
  PROVE  TypeOK'
<1>1. amount' \in [Wallet -> Int]
  BY RefundLinesType, MoveType DEF MerchantRefund
<1>2. r \in AnyTx /\ "DIRECT_1" \in Op
  BY DEF AnyTx, Op, PostOp
<1> QED
  BY <1>1, <1>2, RefundLinesType DEF MerchantRefund, TypeOK, RequestStatus, JournalStatus

LEMMA NoPayloadType == NoPayload \in PayloadType
BY DEF NoPayload, PayloadType

(* Every step is one of six kinds: the case split of all step proofs.       *)
LEMMA StepCases ==
  ASSUME [Next]_vars,
         NEW ACTION Goal,
         ASSUME NEW t \in AnyTx, NEW op \in Op, NEW p \in PayloadType, Commit(t, op, p),
                op \in PostOp => t \in Tx
         PROVE  Goal,
         ASSUME NEW t \in AnyTx, NEW op \in Op, NEW p \in PayloadType, Decline(t, op, p)
         PROVE  Goal,
         ASSUME NEW t \in AnyTx, NEW r \in RefundTx, MerchantRefund(t, r) PROVE Goal,
         ASSUME NEW t \in Tx, MarkTransactionFailed(t) PROVE Goal,
         ASSUME NEW w \in Wallet, ChangeWalletStatus(w) PROVE Goal,
         ASSUME UNCHANGED vars PROVE Goal
  PROVE  Goal
<1>1. CASE PostStep
  BY <1>1, RequestAssumption DEF PostStep, Post, Op, AnyTx
<1>2. CASE ReverseStep
  BY <1>2, NoPayloadType DEF ReverseStep, Post, Op, PostOp, ReverseOp
<1>3. CASE RefundStep
  BY <1>3 DEF RefundStep
<1>4. CASE FailStep
  BY <1>4 DEF FailStep
<1>5. CASE StatusStep
  BY <1>5 DEF StatusStep
<1>6. CASE UNCHANGED vars
  BY <1>6
<1> QED
  BY <1>1, <1>2, <1>3, <1>4, <1>5, <1>6 DEF Next

LEMMA InitType == Init => TypeOK
BY WalletAssumption, RequestAssumption, NoPayloadType
DEF Init, TypeOK, NoLines, RequestStatus, JournalStatus

LEMMA StepType == TypeOK /\ [Next]_vars => TypeOK'
<1> SUFFICES ASSUME TypeOK, [Next]_vars PROVE TypeOK'
  OBVIOUS
<1>1. ASSUME NEW t \in Tx, MarkTransactionFailed(t) PROVE TypeOK'
  BY <1>1 DEF MarkTransactionFailed, TypeOK, RequestStatus, AnyTx
<1>2. ASSUME NEW w \in Wallet, ChangeWalletStatus(w) PROVE TypeOK'
  BY <1>2 DEF ChangeWalletStatus, TypeOK
<1>3. ASSUME UNCHANGED vars PROVE TypeOK'
  BY <1>3 DEF vars, TypeOK
<1> QED
  BY <1>1, <1>2, <1>3, CommitType, DeclineType, RefundType, StepCases

(* The database tables keep their shape under every sequence of calls.      *)
THEOREM TypeCorrect == Spec => []TypeOK
<1> QED
  BY InitType, StepType, PTL DEF Spec

-----------------------------------------------------------------------------
(* The inductive invariant, one lemma per action and one step per conjunct. *)

(* Before a mode is reversed, none of its postings is reversed, so each one *)
(* is in force or unwritten and Standing is simply its lines.               *)
LEMMA StandingIsBooked ==
  ASSUME IInv, NEW t \in AnyTx, NEW m \in Mode, journal[t][ReverseOf(m)] = "NONE"
  PROVE  \A w \in Wallet :
           /\ StandingOf(debit, t, m)[w] = Booked(debit, t, m, w)
           /\ StandingOf(credit, t, m)[w] = Booked(credit, t, m, w)
<1>1. debit[t][ReverseOf(m)] = NoLines /\ credit[t][ReverseOf(m)] = NoLines
  BY DEF IInv, UnwrittenEmpty, ReverseOf, Op, ReverseOp
<1>2. \A o \in PostsOf(m) : InForce(t, o) \/ journal[t][o] = "NONE"
  BY DEF IInv, StatusShape, LegsAgree, PostsOf, ReverseOf, Mode, InForce, InForceStatus
<1>3. PostsOf(m) \subseteq Op
  BY DEF PostsOf, Op, PostOp
<1>4. \A o \in PostsOf(m), w \in Wallet :
        /\ Standing(debit, t, o, w) = debit[t][o][w] /\ debit[t][o][w] \in Nat
        /\ Standing(credit, t, o, w) = credit[t][o][w] /\ credit[t][o][w] \in Nat
  BY <1>2, <1>3 DEF IInv, TypeOK, UnwrittenEmpty, NoLines, Standing
<1>5. CASE m = "DIRECT"
  BY <1>1, <1>4, <1>5
  DEF PostsOf, ReverseOf, StandingOf, StandingDirect, Booked, NoLines
<1>6. CASE m = "TWO_LEG"
  BY <1>1, <1>4, <1>6
  DEF PostsOf, ReverseOf, StandingOf, StandingTwoLeg, Booked, NoLines
<1> QED
  BY <1>5, <1>6 DEF Mode

LEMMA CommitInv ==
  ASSUME IInv, NEW t \in AnyTx, NEW op \in Op, NEW p \in PayloadType, Commit(t, op, p)
  PROVE  IInv'
<1> DEFINE e == Effective(t, op, p)
           d == DebitLines(t, op, e)
           c == CreditLines(t, op, e)
<1>1. TypeOK /\ TypeOK'
  BY CommitType DEF IInv
<1>2. /\ journal[t][op] = "NONE"
      /\ op = "TWO_LEG_2" => journal[t]["TWO_LEG_1"] = "RESERVED"
      /\ op \in ReverseOp => \E o \in PostsOf(ModeOf(op)) : InForce(t, o)
      /\ Covered(op, d, c)
  BY CommitGuards
<1>3. /\ d \in [Wallet -> Nat] /\ c \in [Wallet -> Nat]
      /\ Move(d, c)
      /\ journal' = [journal EXCEPT ![t] = JournalAfter(t, op)]
      /\ debit' = [debit EXCEPT ![t][op] = d]
      /\ credit' = [credit EXCEPT ![t][op] = c]
      /\ request' = [request EXCEPT ![t] = RequestAfter(op)]
  BY <1>1, CommitEffect
<1>4. op \in ReverseOp => /\ d = StandingOf(credit, t, ModeOf(op))
                          /\ c = StandingOf(debit, t, ModeOf(op))
  BY DEF ReverseOp, DebitLines, CreditLines
<1> HIDE DEF e, d, c
<1>5. /\ \A o \in Op : journal'[t][o] = JournalAfter(t, op)[o]
      /\ \A u \in AnyTx : u # t => journal'[u] = journal[u]
  BY <1>1, <1>3 DEF TypeOK, JournalAfter
<1>6. /\ \A u \in AnyTx, o \in Op : u # t \/ o # op =>
           debit'[u][o] = debit[u][o] /\ credit'[u][o] = credit[u][o]
      /\ debit'[t][op] = d /\ credit'[t][op] = c
  BY <1>1, <1>3 DEF TypeOK
<1>7. StatusShape'
  BY <1>2, <1>5 DEF IInv, StatusShape, JournalAfter, Op, PostOp, ReverseOp, PostsOf, ModeOf
<1>8. UnwrittenEmpty'
  BY <1>2, <1>5, <1>6 DEF IInv, UnwrittenEmpty, JournalAfter
<1>9. AbsentEmpty'
  BY <1>1, <1>3, <1>5 DEF IInv, TypeOK, AbsentEmpty, RequestAfter
<1>10. NoOverdraft'
  <2> SUFFICES ASSUME NEW w \in Wallet PROVE amount[w] - d[w] + c[w] >= 0
    BY <1>3 DEF Move, NoOverdraft
  <2>1. /\ amount[w] \in Int /\ amount[w] >= 0
        /\ d[w] \in Nat /\ c[w] \in Nat
    BY <1>1, <1>3 DEF IInv, TypeOK, NoOverdraft
  <2>2. d[w] > 0 => amount[w] + c[w] >= d[w]
    BY <1>2, <2>1 DEF Covered
  <2> QED
    BY <2>1, <2>2
<1>11. LegsAgree'
  BY <1>2, <1>5 DEF IInv, StatusShape, LegsAgree, JournalAfter, InForce, InForceStatus,
                    Op, PostOp, ReverseOp, PostsOf, ModeOf
<1>12. ReversalExact'
  <2> SUFFICES ASSUME NEW u \in AnyTx, NEW m \in Mode, NEW w \in Wallet,
                      journal'[u][ReverseOf(m)] # "NONE"
               PROVE  Booked(debit', u, m, w) = Booked(credit', u, m, w)
    BY DEF ReversalExact
  <2>1. CASE u = t /\ op = ReverseOf(m)
    <3>1. ModeOf(op) = m /\ op \in ReverseOp
      BY <2>1 DEF ModeOf, ReverseOf, Mode, ReverseOp
    <3>2. /\ d[w] = Booked(credit, t, m, w)
          /\ c[w] = Booked(debit, t, m, w)
          /\ debit[t][op][w] = 0 /\ credit[t][op][w] = 0
      <4>1. debit[t][op] = NoLines /\ credit[t][op] = NoLines
        BY <1>2 DEF IInv, UnwrittenEmpty
      <4> QED
        BY <1>2, <1>4, <2>1, <3>1, <4>1, StandingIsBooked DEF NoLines
    <3>3. \A o \in PostsOf(m) : /\ o \in Op /\ o # op
                                /\ debit[t][o][w] \in Nat /\ credit[t][o][w] \in Nat
      BY <1>1, <2>1 DEF TypeOK, PostsOf, ReverseOf, Mode, Op, PostOp
    <3> QED
      BY <1>6, <2>1, <3>2, <3>3 DEF Booked, ReverseOf, PostsOf, Mode
  <2>2. CASE ~(u = t /\ op = ReverseOf(m))
    <3>1. journal[u][ReverseOf(m)] # "NONE"
      BY <1>2, <1>5, <2>2
      DEF JournalAfter, ReverseOf, Op, ReverseOp, PostsOf, ModeOf, Mode
    <3>2. u = t => op \notin PostsOf(m)
      BY <1>2, <3>1 DEF IInv, LegsAgree, StatusShape, PostsOf, ReverseOf, Mode, ReverseOp
    <3>3. \A o \in PostsOf(m) \cup {ReverseOf(m)} :
            o \in Op /\ debit'[u][o] = debit[u][o] /\ credit'[u][o] = credit[u][o]
      BY <1>6, <2>2, <3>2 DEF PostsOf, ReverseOf, Mode, Op, PostOp, ReverseOp
    <3>4. Booked(debit, u, m, w) = Booked(credit, u, m, w)
      BY <3>1 DEF IInv, ReversalExact
    <3> QED
      BY <3>3, <3>4 DEF Booked, PostsOf, ReverseOf, Mode
  <2> QED
    BY <2>1, <2>2
<1> QED
  BY <1>1, <1>7, <1>8, <1>9, <1>10, <1>11, <1>12 DEF IInv

(* A refund writes one journal, of a transaction that had none.             *)
LEMMA RefundInv ==
  ASSUME IInv, NEW t \in AnyTx, NEW r \in RefundTx, MerchantRefund(t, r)
  PROVE  IInv'
<1> DEFINE d == RefundLines(t, credit)
           c == RefundLines(t, debit)
<1>1. /\ TypeOK /\ TypeOK'
      /\ r \in AnyTx /\ d \in [Wallet -> Nat] /\ c \in [Wallet -> Nat]
  BY RefundType, RefundLinesType DEF IInv, AnyTx
<1>2. /\ request[r] = "absent"
      /\ \A w \in Wallet : amount[w] + c[w] >= d[w]
      /\ Move(d, c)
      /\ request' = [request EXCEPT ![r] = "completed"]
      /\ journal' = [journal EXCEPT ![r]["DIRECT_1"] = "COMPLETED"]
      /\ debit' = [debit EXCEPT ![r]["DIRECT_1"] = d]
      /\ credit' = [credit EXCEPT ![r]["DIRECT_1"] = c]
  BY DEF MerchantRefund
<1> HIDE DEF d, c
<1>3. \A op \in Op : journal[r][op] = "NONE"
  BY <1>1, <1>2 DEF IInv, AbsentEmpty
<1>4. /\ "DIRECT_1" \in Op
      /\ journal'[r]["DIRECT_1"] = "COMPLETED"
      /\ \A u \in AnyTx, op \in Op : u # r \/ op # "DIRECT_1" =>
           /\ journal'[u][op] = journal[u][op]
           /\ debit'[u][op] = debit[u][op] /\ credit'[u][op] = credit[u][op]
  BY <1>1, <1>2 DEF TypeOK, Op, PostOp
<1>5. StatusShape'
  BY <1>3, <1>4 DEF IInv, StatusShape, Op, PostOp, ReverseOp
<1>6. UnwrittenEmpty'
  BY <1>4 DEF IInv, UnwrittenEmpty
<1>7. AbsentEmpty'
  BY <1>1, <1>2, <1>4 DEF IInv, TypeOK, AbsentEmpty
<1>8. NoOverdraft'
  BY <1>1, <1>2 DEF TypeOK, Move, NoOverdraft
<1>9. LegsAgree'
  BY <1>3, <1>4 DEF IInv, LegsAgree, Op, PostOp, ReverseOp
<1>10. ReversalExact'
  <2> SUFFICES ASSUME NEW u \in AnyTx, NEW m \in Mode, NEW w \in Wallet,
                      journal'[u][ReverseOf(m)] # "NONE"
               PROVE  Booked(debit', u, m, w) = Booked(credit', u, m, w)
    BY DEF ReversalExact
  <2>1. ReverseOf(m) \in Op /\ ReverseOf(m) # "DIRECT_1"
    BY DEF ReverseOf, Op, ReverseOp
  <2>2. u # r /\ journal[u][ReverseOf(m)] # "NONE"
    BY <1>3, <1>4, <2>1
  <2>3. Booked(debit, u, m, w) = Booked(credit, u, m, w)
    BY <2>2 DEF IInv, ReversalExact
  <2> QED
    BY <1>4, <2>2, <2>3 DEF Booked, Mode, Op, PostOp, ReverseOp
<1> QED
  BY <1>1, <1>5, <1>6, <1>7, <1>8, <1>9, <1>10 DEF IInv

LEMMA DeclineInv ==
  ASSUME IInv, NEW t \in AnyTx, NEW op \in Op, NEW p \in PayloadType, Decline(t, op, p)
  PROVE  IInv'
<1>1. TypeOK'
  BY DeclineType DEF IInv
<1>2. \A u \in AnyTx : request'[u] = "absent" => request[u] = "absent"
  BY DEF Decline, IInv, TypeOK
<1> QED
  BY <1>1, <1>2 DEF Decline, IInv, StatusShape, UnwrittenEmpty, AbsentEmpty,
                    NoOverdraft, LegsAgree, ReversalExact, Booked

LEMMA InitInv == Init => IInv
<1> SUFFICES ASSUME Init PROVE IInv
  OBVIOUS
<1>1. TypeOK
  BY InitType
<1>2. \A t \in AnyTx, op \in Op :
        journal[t][op] = "NONE" /\ debit[t][op] = NoLines /\ credit[t][op] = NoLines
  BY DEF Init
<1>3. StatusShape /\ UnwrittenEmpty /\ AbsentEmpty /\ LegsAgree
  BY <1>2 DEF StatusShape, UnwrittenEmpty, AbsentEmpty, LegsAgree, Op, PostOp, ReverseOp
<1>4. NoOverdraft
  BY WalletAssumption DEF Init, NoOverdraft
<1>5. ReversalExact
  BY <1>2 DEF ReversalExact, ReverseOf, Op, ReverseOp
<1> QED
  BY <1>1, <1>3, <1>4, <1>5 DEF IInv

LEMMA StepInv == IInv /\ [Next]_vars => IInv'
<1> SUFFICES ASSUME IInv, [Next]_vars PROVE IInv'
  OBVIOUS
<1>1. TypeOK'
  BY StepType DEF IInv
<1>2. ASSUME NEW t \in Tx, MarkTransactionFailed(t) PROVE IInv'
  BY <1>1, <1>2 DEF MarkTransactionFailed, IInv, TypeOK, StatusShape, UnwrittenEmpty,
                    AbsentEmpty, NoOverdraft, LegsAgree, ReversalExact, Booked
<1>3. ASSUME NEW w \in Wallet, ChangeWalletStatus(w) PROVE IInv'
  BY <1>1, <1>3 DEF ChangeWalletStatus, IInv, StatusShape, UnwrittenEmpty,
                    AbsentEmpty, NoOverdraft, LegsAgree, ReversalExact, Booked
<1>4. ASSUME UNCHANGED vars PROVE IInv'
  BY <1>1, <1>4 DEF vars, IInv, StatusShape, UnwrittenEmpty,
                    AbsentEmpty, NoOverdraft, LegsAgree, ReversalExact, Booked
<1> QED
  BY <1>2, <1>3, <1>4, CommitInv, DeclineInv, RefundInv, StepCases

LEMMA Inductive == Spec => []IInv
<1> QED
  BY InitInv, StepInv, PTL DEF Spec

-----------------------------------------------------------------------------
(* No sequence of postings, reversals and refunds overdraws a wallet.       *)
THEOREM NeverOverdrawn == Spec => []NoOverdraft
<1>1. IInv => NoOverdraft
  BY DEF IInv
<1> QED
  BY <1>1, Inductive, PTL

(* The legs of a two-leg transaction and its reversal always agree.         *)
THEOREM LegsAlwaysAgree == Spec => []LegsAgree
<1>1. IInv => LegsAgree
  BY DEF IInv
<1> QED
  BY <1>1, Inductive, PTL

(* A reversed transaction has no net effect on any wallet.                  *)
THEOREM ReversalsAreExact == Spec => []ReversalExact
<1>1. IInv => ReversalExact
  BY DEF IInv
<1> QED
  BY <1>1, Inductive, PTL

-----------------------------------------------------------------------------
(* The ledger is append-only.                                               *)

LEMMA StepAppendOnly ==
  ASSUME IInv, [Next]_vars,
         NEW t \in AnyTx, NEW op \in Op, journal[t][op] # "NONE"
  PROVE  /\ debit'[t][op] = debit[t][op]
         /\ credit'[t][op] = credit[t][op]
         /\ StatusRank[journal'[t][op]] >= StatusRank[journal[t][op]]
<1> DEFINE Goal == /\ debit'[t][op] = debit[t][op]
                   /\ credit'[t][op] = credit[t][op]
                   /\ StatusRank[journal'[t][op]] >= StatusRank[journal[t][op]]
<1>1. \A s \in JournalStatus : StatusRank[s] \in Int /\ StatusRank["REVERSED"] >= StatusRank[s]
  BY DEF StatusRank, JournalStatus
<1>2. StatusRank["SETTLED"] >= StatusRank["RESERVED"]
  BY DEF StatusRank, JournalStatus
<1>3. journal[t][op] \in JournalStatus
  BY DEF IInv, TypeOK
<1>4. ASSUME NEW u \in AnyTx, NEW o \in Op, NEW p \in PayloadType, Commit(u, o, p)
      PROVE  Goal
  <2>1. journal[u][o] = "NONE" /\ (o = "TWO_LEG_2" => journal[u]["TWO_LEG_1"] = "RESERVED")
    BY <1>4, CommitGuards
  <2>2. /\ journal' = [journal EXCEPT ![u] = JournalAfter(u, o)]
        /\ debit' = [debit EXCEPT ![u][o] = DebitLines(u, o, Effective(u, o, p))]
        /\ credit' = [credit EXCEPT ![u][o] = CreditLines(u, o, Effective(u, o, p))]
    BY <1>4, CommitEffect DEF IInv
  <2>3. u # t \/ o # op
    BY <2>1
  <2>4. debit'[t][op] = debit[t][op] /\ credit'[t][op] = credit[t][op]
    BY <2>2, <2>3 DEF IInv, TypeOK
  <2>5. \/ journal'[t][op] = journal[t][op]
        \/ journal'[t][op] = "REVERSED"
        \/ journal'[t][op] = "SETTLED" /\ journal[t][op] = "RESERVED"
    BY <2>1, <2>2, <2>3 DEF IInv, TypeOK, JournalAfter
  <2> QED
    BY <1>1, <1>2, <1>3, <2>4, <2>5
<1>5. ASSUME NEW u \in AnyTx, NEW r \in RefundTx, MerchantRefund(u, r)
      PROVE  Goal
  <2>1. t # r \/ op # "DIRECT_1"
    BY <1>5 DEF MerchantRefund, IInv, AbsentEmpty
  <2>2. /\ debit'[t][op] = debit[t][op] /\ credit'[t][op] = credit[t][op]
        /\ journal'[t][op] = journal[t][op]
    BY <1>5, <2>1 DEF MerchantRefund, IInv, TypeOK
  <2> QED
    BY <1>1, <1>3, <2>2
<1>6. ASSUME UNCHANGED <<journal, debit, credit>> PROVE Goal
  BY <1>1, <1>3, <1>6
<1>7. ASSUME NEW u \in AnyTx, NEW o \in Op, NEW p \in PayloadType, Decline(u, o, p)
      PROVE  Goal
  BY <1>6, <1>7 DEF Decline
<1>8. ASSUME NEW u \in Tx, MarkTransactionFailed(u) PROVE Goal
  BY <1>6, <1>8 DEF MarkTransactionFailed
<1>9. ASSUME NEW w \in Wallet, ChangeWalletStatus(w) PROVE Goal
  BY <1>6, <1>9 DEF ChangeWalletStatus
<1>10. ASSUME UNCHANGED vars PROVE Goal
  BY <1>6, <1>10 DEF vars
<1> HIDE DEF Goal
<1>11. Goal
  BY <1>4, <1>5, <1>7, <1>8, <1>9, <1>10, StepCases
<1> QED
  BY <1>11 DEF Goal

(* Entries are immutable and a journal's status never goes back.            *)
THEOREM AppendOnly == Spec => LedgerAppendOnly
<1>1. IInv /\ [Next]_vars =>
        [\A t \in AnyTx, op \in Op :
           journal[t][op] # "NONE" =>
             /\ debit'[t][op] = debit[t][op]
             /\ credit'[t][op] = credit[t][op]
             /\ StatusRank[journal'[t][op]] >= StatusRank[journal[t][op]]]_vars
  BY StepAppendOnly
<1> QED
  BY <1>1, Inductive, PTL DEF Spec, LedgerAppendOnly

-----------------------------------------------------------------------------
(* Refinement of the payment life cycle.                                    *)

(* A commit of op moves exactly the phase of its own mode.                  *)
LEMMA CommitLifecycle ==
  ASSUME IInv, NEW t \in AnyTx, NEW op \in Op, NEW p \in PayloadType, Commit(t, op, p)
  PROVE  Lifecycle!PNext
<1> DEFINE m == ModeOf(op)
           b == Phase(t, m)
           a == Phase(t, m)'
<1>1. /\ journal[t][op] = "NONE"
      /\ op = "TWO_LEG_2" => journal[t]["TWO_LEG_1"] = "RESERVED"
      /\ op \in ReverseOp => \E o \in PostsOf(m) : InForce(t, o)
  BY CommitGuards
<1>2. journal' = [journal EXCEPT ![t] = JournalAfter(t, op)]
  BY CommitEffect DEF IInv
<1>3. m \in Mode /\ \A n \in Mode : FirstOf(n) \in Op
  BY DEF ModeOf, Mode, FirstOf, Op, PostOp
<1>4. /\ \A u \in AnyTx, n \in Mode : u # t \/ n # m => Phase(u, n)' = Phase(u, n)
      /\ a = PhaseOf[JournalAfter(t, op)[FirstOf(m)]]
      /\ b = PhaseOf[journal[t][FirstOf(m)]]
  <2>1. \A n \in Mode : n # m => JournalAfter(t, op)[FirstOf(n)] = journal[t][FirstOf(n)]
    BY DEF JournalAfter, FirstOf, ModeOf, Mode, PostsOf, Op, PostOp, ReverseOp
  <2> QED
    BY <1>2, <1>3, <2>1 DEF IInv, TypeOK, Phase
<1>5. \/ b = "none" /\ a = (IF m = "TWO_LEG" THEN "held" ELSE "paid")
      \/ b = "held" /\ a = "paid"
      \/ b \in {"held", "paid"} /\ a = "returned"
  <2>1. CASE op \in FirstLeg
    BY <1>1, <1>4, <2>1 DEF JournalAfter, FirstOf, FirstLeg, ModeOf, Op, PostOp, PhaseOf
  <2>2. CASE op = "TWO_LEG_2"
    BY <1>1, <1>4, <2>2 DEF JournalAfter, FirstOf, ModeOf, Op, PostOp, PhaseOf
  <2>3. CASE op \in ReverseOp
    <3>1. InForce(t, FirstOf(m))
      BY <1>1, <2>3 DEF IInv, LegsAgree, StatusShape, PostsOf, FirstOf, InForce,
                        InForceStatus, ModeOf, ReverseOp
    <3>2. JournalAfter(t, op)[FirstOf(m)] = "REVERSED"
      BY <2>3, <3>1 DEF JournalAfter, FirstOf, PostsOf, ModeOf, Op, PostOp, ReverseOp
    <3> QED
      BY <1>4, <3>1, <3>2 DEF InForce, InForceStatus, PhaseOf
  <2> QED
    BY <2>1, <2>2, <2>3 DEF Op, PostOp, FirstLeg
<1>6. [u \in AnyTx |-> [n \in Mode |-> Phase(u, n)]]'
        = [[u \in AnyTx |-> [n \in Mode |-> Phase(u, n)]] EXCEPT ![t][m] = a]
  BY <1>3, <1>4
<1> HIDE DEF m, a, b
<1>7. /\ [u \in AnyTx |-> [n \in Mode |-> Phase(u, n)]][t][m] = b
  BY <1>3 DEF b
<1> QED
  BY <1>3, <1>5, <1>6, <1>7
  DEF Lifecycle!PNext, Lifecycle!Take, Lifecycle!Deliver, Lifecycle!Return, Lifecycle!MoveTo

LEMMA RefundLifecycle ==
  ASSUME IInv, NEW t \in AnyTx, NEW r \in RefundTx, MerchantRefund(t, r)
  PROVE  Lifecycle!PNext
<1> DEFINE before == [u \in AnyTx |-> [n \in Mode |-> Phase(u, n)]]
<1>1. /\ r \in AnyTx /\ "DIRECT" \in Mode
      /\ journal[r]["DIRECT_1"] = "NONE"
      /\ journal' = [journal EXCEPT ![r]["DIRECT_1"] = "COMPLETED"]
  BY DEF MerchantRefund, IInv, AbsentEmpty, AnyTx, Mode, Op, PostOp
<1>2. /\ Phase(r, "DIRECT") = "none" /\ Phase(r, "DIRECT")' = "paid"
      /\ \A u \in AnyTx, n \in Mode : u # r \/ n # "DIRECT" => Phase(u, n)' = Phase(u, n)
  BY <1>1 DEF Phase, PhaseOf, FirstOf, Mode, Op, PostOp, IInv, TypeOK
<1>3. before' = [before EXCEPT ![r]["DIRECT"] = "paid"] /\ before[r]["DIRECT"] = "none"
  BY <1>1, <1>2
<1> QED
  BY <1>1, <1>3 DEF Lifecycle!PNext, Lifecycle!Take, Lifecycle!MoveTo, Mode

LEMMA StepLifecycle ==
  ASSUME IInv, [Next]_vars
  PROVE  [Lifecycle!PNext]_[t \in AnyTx |-> [m \in Mode |-> Phase(t, m)]]
<1> DEFINE map == [t \in AnyTx |-> [m \in Mode |-> Phase(t, m)]]
           Goal == Lifecycle!PNext \/ map' = map
<1>1. ASSUME journal' = journal PROVE Goal
  BY <1>1 DEF Phase
<1>2. ASSUME NEW u \in AnyTx, NEW o \in Op, NEW p \in PayloadType, Decline(u, o, p)
      PROVE  Goal
  BY <1>1, <1>2 DEF Decline
<1>3. ASSUME NEW u \in Tx, MarkTransactionFailed(u) PROVE Goal
  BY <1>1, <1>3 DEF MarkTransactionFailed
<1>4. ASSUME NEW w \in Wallet, ChangeWalletStatus(w) PROVE Goal
  BY <1>1, <1>4 DEF ChangeWalletStatus
<1>5. ASSUME UNCHANGED vars PROVE Goal
  BY <1>1, <1>5 DEF vars
<1> HIDE DEF Goal
<1>6. ASSUME NEW u \in AnyTx, NEW o \in Op, NEW p \in PayloadType, Commit(u, o, p)
      PROVE  Goal
  BY <1>6, CommitLifecycle DEF Goal
<1>7. ASSUME NEW u \in AnyTx, NEW r \in RefundTx, MerchantRefund(u, r)
      PROVE  Goal
  BY <1>7, RefundLifecycle DEF Goal
<1>8. Goal
  BY <1>2, <1>3, <1>4, <1>5, <1>6, <1>7, StepCases
<1> QED
  BY <1>8 DEF Goal

LEMMA InitLifecycle == Init => Lifecycle!PInit
BY DEF Init, Lifecycle!PInit, Phase, PhaseOf, FirstOf, Mode, Op, PostOp

(* Per transaction and mode, money is taken, delivered and given back at    *)
(* most once, whatever is redelivered, retried or called concurrently.      *)
THEOREM ImplementsLifecycle == Spec => LifecycleSpec
<1>1. IInv /\ [Next]_vars => [Lifecycle!PNext]_[t \in AnyTx |-> [m \in Mode |-> Phase(t, m)]]
  BY StepLifecycle
<1> QED
  BY <1>1, InitLifecycle, Inductive, PTL DEF Spec, LifecycleSpec, Lifecycle!PSpec

-----------------------------------------------------------------------------
(* Conservation of money.  Every journal is balanced, so every step takes   *)
(* from the wallets as much as it puts into them.                           *)

JournalsBalanced ==
  \A t \in AnyTx, op \in Op : SumOver(debit[t][op], Wallet) = SumOver(credit[t][op], Wallet)

Conserved == SumOver(amount, Wallet) = SumOver(InitialAmount, Wallet)

LEMMA ConservedMeans == TypeOK => (MoneyConserved <=> Conserved)
BY WalletAssumption DEF TypeOK, MoneyConserved, Conserved, FoldFunction, SumOver

LEMMA SumAt ==
  ASSUME NEW x \in Wallet, NEW n \in Nat
  PROVE  SumOver([w \in Wallet |-> At(w, x, n)], Wallet) = n
<1> DEFINE f == [w \in Wallet |-> At(w, x, n)]
<1>1. \A y \in Wallet : f[y] = IF y = x THEN n ELSE 0
  BY DEF At
<1> HIDE DEF f
<1>2. SumOver(f, Wallet) = n
  BY <1>1, FiniteAssumption, SumOfOne
<1> QED
  BY <1>2 DEF f

(* Two amounts at two wallets, which may be one.                            *)
TwoLines(x, n, y, k) == [w \in Wallet |-> At(w, x, n) + At(w, y, k)]

LEMMA SumTwo ==
  ASSUME NEW x \in Wallet, NEW n \in Nat, NEW y \in Wallet, NEW k \in Nat
  PROVE  SumOver(TwoLines(x, n, y, k), Wallet) = n + k
<1> DEFINE a == [w \in Wallet |-> At(w, x, n)]
           b == [w \in Wallet |-> At(w, y, k)]
<1>1. /\ Summable(a, Wallet) /\ Summable(b, Wallet)
      /\ \A w \in Wallet : TwoLines(x, n, y, k)[w] = a[w] + b[w]
  BY DEF At, Summable, TwoLines
<1>2. SumOver(a, Wallet) = n /\ SumOver(b, Wallet) = k
  BY SumAt
<1> HIDE DEF a, b
<1> QED
  BY <1>1, <1>2, FiniteAssumption, SumAdded

LEMMA FinalCreditSum ==
  ASSUME NEW t \in Tx, NEW p \in PayloadType
  PROVE  SumOver(FinalCredit(t, p), Wallet)
           = p.destinationCredit + p.chargeCredit + p.sourceCommission + p.destinationCommission
<1> DEFINE a == TwoLines(Request[t].destination, p.destinationCredit, ChargeWallet, p.chargeCredit)
           b == TwoLines(Request[t].source, p.sourceCommission,
                         Request[t].destination, p.destinationCommission)
<1>1. /\ Request[t].destination \in Wallet /\ Request[t].source \in Wallet
      /\ ChargeWallet \in Wallet
      /\ p.destinationCredit \in Nat /\ p.chargeCredit \in Nat
      /\ p.sourceCommission \in Nat /\ p.destinationCommission \in Nat
  BY WalletAssumption, RequestAssumption DEF PayloadType
<1>2. SumOver(a, Wallet) = p.destinationCredit + p.chargeCredit
  BY <1>1, SumTwo
<1>3. SumOver(b, Wallet) = p.sourceCommission + p.destinationCommission
  BY <1>1, SumTwo
<1>4. /\ Summable(a, Wallet) /\ Summable(b, Wallet)
      /\ \A w \in Wallet : FinalCredit(t, p)[w] = a[w] + b[w]
  BY <1>1 DEF Summable, At, FinalCredit, TwoLines
<1> HIDE DEF a, b
<1>5. SumOver(FinalCredit(t, p), Wallet) = SumOver(a, Wallet) + SumOver(b, Wallet)
  BY <1>4, FiniteAssumption, SumAdded
<1> QED
  BY <1>1, <1>2, <1>3, <1>5

(* What is in force of balanced journals is balanced.                       *)
LEMMA StandingBalanced ==
  ASSUME TypeOK, JournalsBalanced, NEW t \in AnyTx, NEW m \in Mode
  PROVE  SumOver(StandingOf(debit, t, m), Wallet) = SumOver(StandingOf(credit, t, m), Wallet)
<1> DEFINE D(o) == [w \in Wallet |-> Standing(debit, t, o, w)]
           C(o) == [w \in Wallet |-> Standing(credit, t, o, w)]
<1>1. ASSUME NEW o \in Op
      PROVE  /\ Summable(D(o), Wallet) /\ Summable(C(o), Wallet)
             /\ SumOver(D(o), Wallet) = SumOver(C(o), Wallet)
  <2>1. /\ InForce(t, o) \in BOOLEAN
        /\ \A w \in Wallet : /\ debit[t][o][w] \in Int /\ credit[t][o][w] \in Int
                             /\ D(o)[w] = IF InForce(t, o) THEN debit[t][o][w] ELSE 0
                             /\ C(o)[w] = IF InForce(t, o) THEN credit[t][o][w] ELSE 0
    BY DEF TypeOK, Standing, InForce
  <2>2. SumOver(debit[t][o], Wallet) = SumOver(credit[t][o], Wallet)
    BY DEF JournalsBalanced
  <2> HIDE DEF D, C
  <2>3. /\ Summable(debit[t][o], Wallet) /\ Summable(credit[t][o], Wallet)
        /\ Summable(D(o), Wallet) /\ Summable(C(o), Wallet)
    BY <2>1 DEF Summable
  <2>4. /\ SumOver(D(o), Wallet) = IF InForce(t, o) THEN SumOver(debit[t][o], Wallet) ELSE 0
        /\ SumOver(C(o), Wallet) = IF InForce(t, o) THEN SumOver(credit[t][o], Wallet) ELSE 0
    BY <2>1, <2>3, FiniteAssumption, SumWhen
  <2> QED
    BY <2>2, <2>3, <2>4
<1>2. "DIRECT_1" \in Op /\ "TWO_LEG_1" \in Op /\ "TWO_LEG_2" \in Op
  BY DEF Op, PostOp
<1>3. CASE m = "DIRECT"
  <2>1. StandingOf(debit, t, m) = D("DIRECT_1") /\ StandingOf(credit, t, m) = C("DIRECT_1")
    BY <1>3 DEF StandingOf, StandingDirect
  <2> QED
    BY <1>1, <1>2, <2>1
<1>4. CASE m = "TWO_LEG"
  <2>1. \A w \in Wallet :
          /\ StandingOf(debit, t, m)[w] = D("TWO_LEG_1")[w] + D("TWO_LEG_2")[w]
          /\ StandingOf(credit, t, m)[w] = C("TWO_LEG_1")[w] + C("TWO_LEG_2")[w]
    BY <1>4 DEF StandingOf, StandingTwoLeg
  <2> HIDE DEF D, C
  <2>2. /\ SumOver(StandingOf(debit, t, m), Wallet)
             = SumOver(D("TWO_LEG_1"), Wallet) + SumOver(D("TWO_LEG_2"), Wallet)
        /\ SumOver(StandingOf(credit, t, m), Wallet)
             = SumOver(C("TWO_LEG_1"), Wallet) + SumOver(C("TWO_LEG_2"), Wallet)
    BY <1>1, <1>2, <2>1, FiniteAssumption, SumAdded
  <2> QED
    BY <1>1, <1>2, <2>2
<1> QED
  BY <1>3, <1>4 DEF Mode

(* The lines of a posting that passes the balance test sum to the same on   *)
(* both sides, and so do the mirrored lines of a reversal.                  *)
LEMMA LinesBalanced ==
  ASSUME TypeOK, JournalsBalanced, NEW t \in AnyTx, NEW op \in Op, NEW p \in PayloadType,
         Balanced(op, p), op \in PostOp => t \in Tx
  PROVE  SumOver(DebitLines(t, op, p), Wallet) = SumOver(CreditLines(t, op, p), Wallet)
<1>1. /\ p.sourceDebit \in Nat /\ p.commissionDebit \in Nat
      /\ CommissionWallet \in Wallet /\ TempWallet \in Wallet
  BY WalletAssumption DEF PayloadType
<1>2. t \in Tx => Request[t].source \in Wallet
  BY RequestAssumption
<1>3. CASE op = "DIRECT_1"
  <2>1. /\ DebitLines(t, op, p) = TwoLines(Request[t].source, p.sourceDebit,
                                           CommissionWallet, p.commissionDebit)
        /\ CreditLines(t, op, p) = FinalCredit(t, p) /\ t \in Tx
    BY <1>3 DEF DebitLines, CreditLines, PostOp, TwoLines
  <2>2. SumOver(DebitLines(t, op, p), Wallet) = p.sourceDebit + p.commissionDebit
    BY <1>1, <1>2, <2>1, SumTwo
  <2> QED
    BY <1>3, <2>1, <2>2, FinalCreditSum DEF Balanced
<1>4. CASE op = "TWO_LEG_2"
  <2>1. /\ DebitLines(t, op, p) = TwoLines(TempWallet, p.sourceDebit,
                                           CommissionWallet, p.commissionDebit)
        /\ CreditLines(t, op, p) = FinalCredit(t, p) /\ t \in Tx
    BY <1>4 DEF DebitLines, CreditLines, PostOp, TwoLines
  <2>2. SumOver(DebitLines(t, op, p), Wallet) = p.sourceDebit + p.commissionDebit
    BY <1>1, <2>1, SumTwo
  <2> QED
    BY <1>4, <2>1, <2>2, FinalCreditSum DEF Balanced
<1>5. CASE op = "TWO_LEG_1"
  <2>1. /\ DebitLines(t, op, p) = [w \in Wallet |-> At(w, Request[t].source, p.sourceDebit)]
        /\ CreditLines(t, op, p) = [w \in Wallet |-> At(w, TempWallet, p.sourceDebit)]
        /\ t \in Tx
    BY <1>5 DEF DebitLines, CreditLines, PostOp
  <2> QED
    BY <1>1, <1>2, <2>1, SumAt
<1>6. CASE op \in ReverseOp
  <2>1. /\ DebitLines(t, op, p) = StandingOf(credit, t, ModeOf(op))
        /\ CreditLines(t, op, p) = StandingOf(debit, t, ModeOf(op))
        /\ ModeOf(op) \in Mode
    BY <1>6 DEF DebitLines, CreditLines, ReverseOp, ModeOf, Mode
  <2> QED
    BY <2>1, StandingBalanced
<1> QED
  BY <1>3, <1>4, <1>5, <1>6 DEF Op, PostOp

(* A refund mirrors balanced journals.                                      *)
LEMMA RefundBalanced ==
  ASSUME TypeOK, JournalsBalanced, NEW t \in AnyTx
  PROVE  SumOver(RefundLines(t, debit), Wallet) = SumOver(RefundLines(t, credit), Wallet)
<1> DEFINE D(o) == [w \in Wallet |-> Refundable(t, o, debit, w)]
           C(o) == [w \in Wallet |-> Refundable(t, o, credit, w)]
           DD == [w \in Wallet |-> D("DIRECT_1")[w] + D("TWO_LEG_1")[w]]
           CC == [w \in Wallet |-> C("DIRECT_1")[w] + C("TWO_LEG_1")[w]]
<1>1. ASSUME NEW o \in Op
      PROVE  /\ Summable(D(o), Wallet) /\ Summable(C(o), Wallet)
             /\ SumOver(D(o), Wallet) = SumOver(C(o), Wallet)
             /\ SumOver(D(o), Wallet) \in Int
  <2> DEFINE P == journal[t][o] \in RefundStatus
  <2>1. /\ P \in BOOLEAN
        /\ \A w \in Wallet : /\ debit[t][o][w] \in Int /\ credit[t][o][w] \in Int
                             /\ D(o)[w] = IF P THEN debit[t][o][w] ELSE 0
                             /\ C(o)[w] = IF P THEN credit[t][o][w] ELSE 0
    BY DEF TypeOK, Refundable
  <2>2. SumOver(debit[t][o], Wallet) = SumOver(credit[t][o], Wallet)
    BY DEF JournalsBalanced
  <2> HIDE DEF D, C, P
  <2>3. /\ Summable(debit[t][o], Wallet) /\ Summable(credit[t][o], Wallet)
        /\ Summable(D(o), Wallet) /\ Summable(C(o), Wallet)
    BY <2>1 DEF Summable
  <2>4. /\ SumOver(D(o), Wallet) = IF P THEN SumOver(debit[t][o], Wallet) ELSE 0
        /\ SumOver(C(o), Wallet) = IF P THEN SumOver(credit[t][o], Wallet) ELSE 0
    BY <2>1, <2>3, FiniteAssumption, SumWhen
  <2> QED
    BY <2>2, <2>3, <2>4, FiniteAssumption, SumIsInt
<1>2. "DIRECT_1" \in Op /\ "TWO_LEG_1" \in Op /\ "TWO_LEG_2" \in Op
  BY DEF Op, PostOp
<1>3. \A w \in Wallet : /\ RefundLines(t, debit)[w] = DD[w] + D("TWO_LEG_2")[w]
                        /\ RefundLines(t, credit)[w] = CC[w] + C("TWO_LEG_2")[w]
  BY DEF RefundLines
<1> HIDE DEF D, C
<1>4. Summable(DD, Wallet) /\ Summable(CC, Wallet)
  BY <1>1, <1>2 DEF Summable
<1>5. /\ \A w \in Wallet : DD[w] = D("DIRECT_1")[w] + D("TWO_LEG_1")[w]
      /\ \A w \in Wallet : CC[w] = C("DIRECT_1")[w] + C("TWO_LEG_1")[w]
  OBVIOUS
<1> HIDE DEF DD, CC
<1>6. /\ SumOver(DD, Wallet) = SumOver(D("DIRECT_1"), Wallet) + SumOver(D("TWO_LEG_1"), Wallet)
      /\ SumOver(CC, Wallet) = SumOver(C("DIRECT_1"), Wallet) + SumOver(C("TWO_LEG_1"), Wallet)
  BY <1>1, <1>2, <1>5, FiniteAssumption, SumAdded
<1>7. /\ SumOver(RefundLines(t, debit), Wallet) = SumOver(DD, Wallet) + SumOver(D("TWO_LEG_2"), Wallet)
      /\ SumOver(RefundLines(t, credit), Wallet) = SumOver(CC, Wallet) + SumOver(C("TWO_LEG_2"), Wallet)
  BY <1>1, <1>2, <1>3, <1>4, FiniteAssumption, SumAdded
<1> QED
  BY <1>1, <1>2, <1>6, <1>7

(* Balanced lines move money and make none.                                 *)
LEMMA MoveConserves ==
  ASSUME TypeOK, Conserved, NEW d \in [Wallet -> Nat], NEW c \in [Wallet -> Nat], Move(d, c),
         SumOver(d, Wallet) = SumOver(c, Wallet)
  PROVE  Conserved'
<1>1. /\ Summable(amount, Wallet) /\ Summable(d, Wallet) /\ Summable(c, Wallet)
      /\ \A w \in Wallet : amount'[w] = amount[w] - d[w] + c[w]
  BY DEF TypeOK, Summable, Move
<1>2. SumOver(amount', Wallet) = SumOver(amount, Wallet) - SumOver(d, Wallet) + SumOver(c, Wallet)
  BY <1>1, FiniteAssumption, SumMoved
<1>3. SumOver(amount, Wallet) \in Int /\ SumOver(d, Wallet) \in Int
  BY <1>1, FiniteAssumption, SumIsInt
<1> QED
  BY <1>2, <1>3 DEF Conserved

-----------------------------------------------------------------------------
(* The reserve.  A leg 1 puts its stored amount into the temporary wallet   *)
(* and the leg 2 or the reversal that follows takes the same amount out; a  *)
(* direct posting leaves that wallet as it is, also one that is a refund.   *)

ReserveLines ==
  \A t \in AnyTx :
    /\ journal[t]["TWO_LEG_1"] # "NONE" =>
         /\ credit[t]["TWO_LEG_1"][TempWallet] = held[t].sourceDebit
         /\ debit[t]["TWO_LEG_1"][TempWallet] = 0
    /\ journal[t]["TWO_LEG_2"] # "NONE" =>
         /\ debit[t]["TWO_LEG_2"][TempWallet] = held[t].sourceDebit
         /\ credit[t]["TWO_LEG_2"][TempWallet] = 0
    /\ debit[t]["DIRECT_1"][TempWallet] = credit[t]["DIRECT_1"][TempWallet]

OpenReserves == [t \in AnyTx |-> OpenReserve(t)]
Backed == amount[TempWallet] = InitialAmount[TempWallet] + SumOver(OpenReserves, AnyTx)

LEMMA BackedMeans == ReserveBacked <=> Backed
BY DEF ReserveBacked, Backed, OpenReserves, FoldFunction, SumOver

LEMMA ReservesType == TypeOK => Summable(OpenReserves, AnyTx)
BY DEF TypeOK, PayloadType, OpenReserves, OpenReserve, Summable

(* A change of the temporary wallet that is the change of one reserve.      *)
LEMMA BackedMoves ==
  ASSUME TypeOK, Backed, NEW d \in [Wallet -> Nat], NEW c \in [Wallet -> Nat], Move(d, c),
         NEW t \in AnyTx, OpenReserve(t)' \in Int,
         c[TempWallet] - d[TempWallet] = OpenReserve(t)' - OpenReserve(t),
         \A u \in AnyTx \ {t} : OpenReserve(u)' = OpenReserve(u)
  PROVE  Backed'
<1>1. /\ Summable(OpenReserves, AnyTx)
      /\ OpenReserves'[t] \in Int
      /\ \A u \in AnyTx \ {t} : OpenReserves'[u] = OpenReserves[u]
  BY ReservesType DEF OpenReserves
<1>2. SumOver(OpenReserves', AnyTx)
        = SumOver(OpenReserves, AnyTx) - OpenReserves[t] + OpenReserves'[t]
  BY <1>1, FiniteAssumption, SumChanged
<1>3. /\ OpenReserves[t] = OpenReserve(t) /\ OpenReserves'[t] = OpenReserve(t)'
      /\ OpenReserve(t) \in Int
  BY <1>1 DEF OpenReserves, Summable
<1>4. SumOver(OpenReserves, AnyTx) \in Int
  BY <1>1, FiniteAssumption, SumIsInt
<1>5. /\ amount'[TempWallet] = amount[TempWallet] - d[TempWallet] + c[TempWallet]
      /\ amount[TempWallet] \in Int /\ d[TempWallet] \in Int /\ c[TempWallet] \in Int
      /\ InitialAmount[TempWallet] \in Int
  BY WalletAssumption DEF TypeOK, Move
<1> QED
  BY <1>2, <1>3, <1>4, <1>5 DEF Backed

(* What a posting or a reversal does to the temporary wallet.               *)
LEMMA CommitReserve ==
  ASSUME IInv, ReserveLines, NEW t \in AnyTx, NEW op \in Op, NEW p \in PayloadType,
         Commit(t, op, p), op \in PostOp => t \in Tx
  PROVE  LET e == Effective(t, op, p)
             d == DebitLines(t, op, e)
             c == CreditLines(t, op, e)
         IN /\ OpenReserve(t)' \in Int
            /\ c[TempWallet] - d[TempWallet] = OpenReserve(t)' - OpenReserve(t)
            /\ \A u \in AnyTx \ {t} : OpenReserve(u)' = OpenReserve(u)
            /\ ReserveLines'
<1> DEFINE e == Effective(t, op, p)
           d == DebitLines(t, op, e)
           c == CreditLines(t, op, e)
           old == OpenReserve(t)
           new == OpenReserve(t)'
           Moves == new \in Int /\ c[TempWallet] - d[TempWallet] = new - old
<1>1. /\ TypeOK /\ e \in PayloadType /\ e.sourceDebit \in Nat
      /\ d \in [Wallet -> Nat] /\ c \in [Wallet -> Nat]
      /\ journal' = [journal EXCEPT ![t] = JournalAfter(t, op)]
      /\ debit' = [debit EXCEPT ![t][op] = d]
      /\ credit' = [credit EXCEPT ![t][op] = c]
      /\ held' = IF op = "TWO_LEG_1" THEN [held EXCEPT ![t] = e] ELSE held
  BY CommitEffect DEF IInv, PayloadType
<1>2. /\ journal[t][op] = "NONE"
      /\ op = "TWO_LEG_2" => journal[t]["TWO_LEG_1"] = "RESERVED"
      /\ op \in ReverseOp => \E o \in PostsOf(ModeOf(op)) : InForce(t, o)
  BY CommitGuards
<1>3. /\ TempWallet \in Wallet /\ TempWallet \notin {ChargeWallet, CommissionWallet}
      /\ t \in Tx => TempWallet \notin {Request[t].source, Request[t].destination}
  BY WalletAssumption, ReserveAssumption
<1>4. /\ op = "DIRECT_1" => d[TempWallet] = 0 /\ c[TempWallet] = 0
      /\ op = "TWO_LEG_1" => d[TempWallet] = 0 /\ c[TempWallet] = e.sourceDebit
      /\ op = "TWO_LEG_2" => d[TempWallet] = held[t].sourceDebit /\ c[TempWallet] = 0
  BY <1>1, <1>3 DEF DebitLines, CreditLines, FinalCredit, At, PostOp, Effective, TypeOK, PayloadType
<1>5. op \in ReverseOp =>
        /\ d[TempWallet] = StandingOf(credit, t, ModeOf(op))[TempWallet]
        /\ c[TempWallet] = StandingOf(debit, t, ModeOf(op))[TempWallet]
  BY DEF ReverseOp, DebitLines, CreditLines
<1> HIDE DEF e, d, c
<1>6. /\ \A o \in Op : journal'[t][o] = JournalAfter(t, op)[o]
      /\ \A u \in AnyTx : u # t => journal'[u] = journal[u] /\ held'[u] = held[u]
      /\ held'[t] = IF op = "TWO_LEG_1" THEN e ELSE held[t]
  BY <1>1 DEF TypeOK, JournalAfter
<1>7. /\ \A u \in AnyTx, o \in Op : u # t \/ o # op =>
           debit'[u][o] = debit[u][o] /\ credit'[u][o] = credit[u][o]
      /\ debit'[t][op] = d /\ credit'[t][op] = c
  BY <1>1 DEF TypeOK
<1>8. "DIRECT_1" \in Op /\ "TWO_LEG_1" \in Op /\ "TWO_LEG_2" \in Op
  BY DEF Op, PostOp
<1>9. \A u \in AnyTx \ {t} : OpenReserve(u)' = OpenReserve(u)
  BY <1>6 DEF OpenReserve
<1>10. \A u \in AnyTx : held[u].sourceDebit \in Nat
  BY <1>1 DEF TypeOK, PayloadType
<1>11. \A o \in Op : /\ debit[t][o][TempWallet] \in Nat /\ credit[t][o][TempWallet] \in Nat
                     /\ Standing(debit, t, o, TempWallet) = IF InForce(t, o) THEN debit[t][o][TempWallet] ELSE 0
                     /\ Standing(credit, t, o, TempWallet) = IF InForce(t, o) THEN credit[t][o][TempWallet] ELSE 0
  BY <1>1, <1>3 DEF TypeOK, Standing
<1>12. old \in Nat
  BY <1>10 DEF OpenReserve
<1> HIDE DEF old, new
<1>13. ASSUME op = "DIRECT_1" PROVE Moves /\ ReserveLines'
  <2>1. new = old
    BY <1>6, <1>8, <1>13 DEF OpenReserve, JournalAfter, ReverseOp, old, new
  <2>2. ReserveLines'
    BY <1>4, <1>6, <1>7, <1>8, <1>13 DEF ReserveLines, JournalAfter, ReverseOp
  <2>3. Moves
    BY <1>4, <1>13, <1>12, <2>1, <2>2
  <2> QED
    BY <2>3, <2>2
<1>14. ASSUME op = "TWO_LEG_1" PROVE Moves /\ ReserveLines'
  <2>1. old = 0 /\ new = e.sourceDebit
    BY <1>2, <1>6, <1>8, <1>14 DEF OpenReserve, JournalAfter, old, new
  <2>2. journal[t]["TWO_LEG_2"] = "NONE"
    BY <1>2, <1>14 DEF IInv, LegsAgree, StatusShape
  <2>3. ReserveLines'
    BY <1>4, <1>6, <1>7, <1>8, <1>14, <2>2 DEF ReserveLines, JournalAfter, ReverseOp
  <2>4. Moves
    BY <1>1, <1>4, <1>14, <2>1, <2>3
  <2> QED
    BY <2>4, <2>3
<1>15. ASSUME op = "TWO_LEG_2" PROVE Moves /\ ReserveLines'
  <2>1. old = held[t].sourceDebit /\ new = 0
    BY <1>2, <1>6, <1>8, <1>15 DEF OpenReserve, JournalAfter, old, new
  <2>2. ReserveLines'
    BY <1>2, <1>4, <1>6, <1>7, <1>8, <1>15 DEF ReserveLines, JournalAfter
  <2>3. Moves
    BY <1>4, <1>10, <1>15, <2>1, <2>2
  <2> QED
    BY <2>3, <2>2
<1>16. ASSUME op = "DIRECT_REVERSE" PROVE Moves /\ ReserveLines'
  <2>1. new = old
    BY <1>6, <1>8, <1>16 DEF OpenReserve, JournalAfter, PostsOf, ModeOf, old, new
  <2>2. d[TempWallet] = c[TempWallet]
    <3>1. /\ d[TempWallet] = Standing(credit, t, "DIRECT_1", TempWallet)
          /\ c[TempWallet] = Standing(debit, t, "DIRECT_1", TempWallet)
      BY <1>3, <1>5, <1>16 DEF ReverseOp, StandingOf, StandingDirect, ModeOf
    <3> QED
      BY <1>8, <1>11, <3>1 DEF ReserveLines
  <2>3. ReserveLines'
    BY <1>6, <1>7, <1>8, <1>16 DEF ReserveLines, JournalAfter, PostsOf, ModeOf
  <2>4. c[TempWallet] \in Nat /\ d[TempWallet] \in Nat
    BY <1>1, <1>3
  <2>5. Moves
    BY <1>12, <2>1, <2>2, <2>3, <2>4
  <2> QED
    BY <2>5, <2>3
<1>17. ASSUME op = "TWO_LEG_REVERSE" PROVE Moves /\ ReserveLines'
  <2>1. /\ d[TempWallet] = Standing(credit, t, "TWO_LEG_1", TempWallet)
                         + Standing(credit, t, "TWO_LEG_2", TempWallet)
        /\ c[TempWallet] = Standing(debit, t, "TWO_LEG_1", TempWallet)
                         + Standing(debit, t, "TWO_LEG_2", TempWallet)
    BY <1>3, <1>5, <1>17 DEF ReverseOp, StandingOf, StandingTwoLeg, ModeOf
  <2>2. InForce(t, "TWO_LEG_1") /\ (InForce(t, "TWO_LEG_2") <=> journal[t]["TWO_LEG_1"] = "SETTLED")
    BY <1>2, <1>17 DEF IInv, LegsAgree, StatusShape, PostsOf, ModeOf, InForce, InForceStatus, ReverseOp
  <2>3. journal[t]["TWO_LEG_1"] \in {"RESERVED", "SETTLED"}
    BY <2>2 DEF IInv, StatusShape, InForce, InForceStatus
  <2>4. new = 0
    BY <1>6, <1>8, <1>17, <2>2 DEF OpenReserve, JournalAfter, PostsOf, ModeOf, ReverseOp, new
  <2>5. c[TempWallet] - d[TempWallet] = 0 - old
    <3>1. CASE journal[t]["TWO_LEG_1"] = "RESERVED"
      BY <1>8, <1>10, <1>11, <2>1, <2>2, <3>1 DEF ReserveLines, OpenReserve, old
    <3>2. CASE journal[t]["TWO_LEG_1"] = "SETTLED"
      <4>1. journal[t]["TWO_LEG_2"] # "NONE"
        BY <2>2, <3>2 DEF InForce, InForceStatus
      <4> QED
        BY <1>8, <1>10, <1>11, <2>1, <2>2, <3>2, <4>1 DEF ReserveLines, OpenReserve, old
    <3> QED
      BY <2>3, <3>1, <3>2
  <2>6. /\ journal'[t]["TWO_LEG_1"] # "NONE" => journal[t]["TWO_LEG_1"] # "NONE"
        /\ journal'[t]["TWO_LEG_2"] # "NONE" => journal[t]["TWO_LEG_2"] # "NONE"
    BY <1>6, <1>8, <1>17, <2>3 DEF JournalAfter, PostsOf, ModeOf, ReverseOp, InForce, InForceStatus
  <2>7. ReserveLines'
    BY <1>6, <1>7, <1>8, <1>17, <2>6 DEF ReserveLines
  <2>8. Moves
    BY <1>12, <2>4, <2>5, <2>7
  <2> QED
    BY <2>8, <2>7
<1>18. Moves /\ ReserveLines'
  BY <1>13, <1>14, <1>15, <1>16, <1>17 DEF Op, PostOp, ReverseOp
<1> QED
  BY <1>9, <1>18 DEF e, d, c, old, new

(* A refund leaves the reserve alone: it mirrors settled payments only, and *)
(* both legs of one cross the temporary wallet.                             *)
LEMMA RefundReserve ==
  ASSUME IInv, ReserveLines, NEW t \in AnyTx, NEW r \in RefundTx, MerchantRefund(t, r)
  PROVE  /\ RefundLines(t, credit)[TempWallet] = RefundLines(t, debit)[TempWallet]
         /\ \A u \in AnyTx : OpenReserve(u)' = OpenReserve(u)
         /\ ReserveLines'
<1> DEFINE d == RefundLines(t, credit)
           c == RefundLines(t, debit)
<1>1. /\ TypeOK /\ TempWallet \in Wallet /\ r \in AnyTx
      /\ "DIRECT_1" \in Op /\ "TWO_LEG_1" \in Op /\ "TWO_LEG_2" \in Op
  BY WalletAssumption DEF IInv, AnyTx, Op, PostOp
<1>2. /\ request[r] = "absent" /\ held' = held
      /\ journal' = [journal EXCEPT ![r]["DIRECT_1"] = "COMPLETED"]
      /\ debit' = [debit EXCEPT ![r]["DIRECT_1"] = d]
      /\ credit' = [credit EXCEPT ![r]["DIRECT_1"] = c]
  BY DEF MerchantRefund
<1>3. d[TempWallet] = c[TempWallet]
  <2>1. /\ d[TempWallet] = Refundable(t, "DIRECT_1", credit, TempWallet)
                         + Refundable(t, "TWO_LEG_1", credit, TempWallet)
                         + Refundable(t, "TWO_LEG_2", credit, TempWallet)
        /\ c[TempWallet] = Refundable(t, "DIRECT_1", debit, TempWallet)
                         + Refundable(t, "TWO_LEG_1", debit, TempWallet)
                         + Refundable(t, "TWO_LEG_2", debit, TempWallet)
    BY <1>1 DEF RefundLines
  <2>2. \A o \in Op : /\ debit[t][o][TempWallet] \in Nat /\ credit[t][o][TempWallet] \in Nat
                      /\ held[t].sourceDebit \in Nat
    BY <1>1 DEF TypeOK, PayloadType
  <2>3. Refundable(t, "DIRECT_1", credit, TempWallet) = Refundable(t, "DIRECT_1", debit, TempWallet)
    BY DEF Refundable, ReserveLines
  <2>4. journal[t]["TWO_LEG_1"] \in RefundStatus <=> journal[t]["TWO_LEG_2"] \in RefundStatus
    BY DEF IInv, LegsAgree, StatusShape, RefundStatus
  <2>5. CASE journal[t]["TWO_LEG_1"] \in RefundStatus
    <3>1. journal[t]["TWO_LEG_1"] # "NONE" /\ journal[t]["TWO_LEG_2"] # "NONE"
      BY <2>4, <2>5 DEF RefundStatus
    <3>2. /\ Refundable(t, "TWO_LEG_1", credit, TempWallet) = held[t].sourceDebit
          /\ Refundable(t, "TWO_LEG_1", debit, TempWallet) = 0
          /\ Refundable(t, "TWO_LEG_2", debit, TempWallet) = held[t].sourceDebit
          /\ Refundable(t, "TWO_LEG_2", credit, TempWallet) = 0
      BY <2>4, <2>5, <3>1 DEF Refundable, ReserveLines
    <3>3. /\ Refundable(t, "DIRECT_1", debit, TempWallet) \in Nat
      BY <1>1, <2>2 DEF Refundable
    <3> QED
      BY <1>1, <2>1, <2>2, <2>3, <3>2, <3>3
  <2>6. CASE journal[t]["TWO_LEG_1"] \notin RefundStatus
    BY <2>1, <2>3, <2>4, <2>6 DEF Refundable
  <2> QED
    BY <2>5, <2>6
<1> HIDE DEF d, c
<1>4. /\ \A op \in Op : journal[r][op] = "NONE"
      /\ debit'[r]["DIRECT_1"] = d /\ credit'[r]["DIRECT_1"] = c
      /\ \A u \in AnyTx, op \in Op : u # r \/ op # "DIRECT_1" =>
           /\ journal'[u][op] = journal[u][op]
           /\ debit'[u][op] = debit[u][op] /\ credit'[u][op] = credit[u][op]
  BY <1>1, <1>2 DEF TypeOK, IInv, AbsentEmpty
<1>5. \A u \in AnyTx : OpenReserve(u)' = OpenReserve(u)
  BY <1>1, <1>2, <1>4 DEF OpenReserve
<1>6. ReserveLines'
  BY <1>1, <1>2, <1>3, <1>4 DEF ReserveLines
<1> QED
  BY <1>3, <1>5, <1>6 DEF d, c

-----------------------------------------------------------------------------
(* The two together: what each step keeps of the sums.                      *)
MoneyInv == IInv /\ JournalsBalanced /\ Conserved /\ ReserveLines /\ Backed

LEMMA CommitMoney ==
  ASSUME MoneyInv, NEW t \in AnyTx, NEW op \in Op, NEW p \in PayloadType,
         Commit(t, op, p), op \in PostOp => t \in Tx
  PROVE  MoneyInv'
<1> DEFINE e == Effective(t, op, p)
           d == DebitLines(t, op, e)
           c == CreditLines(t, op, e)
<1>1. IInv /\ TypeOK /\ IInv'
  BY CommitInv DEF MoneyInv, IInv
<1>2. /\ e \in PayloadType /\ d \in [Wallet -> Nat] /\ c \in [Wallet -> Nat]
      /\ Move(d, c)
      /\ debit' = [debit EXCEPT ![t][op] = d]
      /\ credit' = [credit EXCEPT ![t][op] = c]
  BY <1>1, CommitEffect
<1>3. Balanced(op, e)
  BY CommitGuards
<1>4. SumOver(d, Wallet) = SumOver(c, Wallet)
  BY <1>1, <1>2, <1>3, LinesBalanced DEF MoneyInv
<1>5. /\ OpenReserve(t)' \in Int
      /\ c[TempWallet] - d[TempWallet] = OpenReserve(t)' - OpenReserve(t)
      /\ \A u \in AnyTx \ {t} : OpenReserve(u)' = OpenReserve(u)
      /\ ReserveLines'
  BY <1>1, CommitReserve DEF MoneyInv
<1> HIDE DEF e, d, c
<1>6. JournalsBalanced'
  BY <1>1, <1>2, <1>4 DEF MoneyInv, JournalsBalanced, TypeOK
<1>7. Conserved'
  BY <1>1, <1>2, <1>4, MoveConserves DEF MoneyInv
<1>8. Backed'
  BY <1>1, <1>2, <1>5, BackedMoves DEF MoneyInv
<1> QED
  BY <1>1, <1>5, <1>6, <1>7, <1>8 DEF MoneyInv

LEMMA RefundMoney ==
  ASSUME MoneyInv, NEW t \in AnyTx, NEW r \in RefundTx, MerchantRefund(t, r)
  PROVE  MoneyInv'
<1> DEFINE d == RefundLines(t, credit)
           c == RefundLines(t, debit)
<1>1. IInv /\ TypeOK /\ IInv'
  BY RefundInv DEF MoneyInv, IInv
<1>2. /\ d \in [Wallet -> Nat] /\ c \in [Wallet -> Nat] /\ Move(d, c)
      /\ debit' = [debit EXCEPT ![r]["DIRECT_1"] = d]
      /\ credit' = [credit EXCEPT ![r]["DIRECT_1"] = c]
  BY <1>1, RefundLinesType DEF MerchantRefund
<1>3. SumOver(d, Wallet) = SumOver(c, Wallet)
  BY <1>1, RefundBalanced DEF MoneyInv
<1>4. /\ d[TempWallet] = c[TempWallet]
      /\ \A u \in AnyTx : OpenReserve(u)' = OpenReserve(u)
      /\ ReserveLines'
  BY <1>1, RefundReserve DEF MoneyInv
<1> HIDE DEF d, c
<1>5. JournalsBalanced'
  BY <1>1, <1>2, <1>3 DEF MoneyInv, JournalsBalanced, TypeOK
<1>6. Conserved'
  BY <1>1, <1>2, <1>3, MoveConserves DEF MoneyInv
<1>7. Backed'
  <2>1. OpenReserves' = OpenReserves
    BY <1>4 DEF OpenReserves
  <2>2. amount'[TempWallet] = amount[TempWallet]
    BY <1>1, <1>2, <1>4, WalletAssumption DEF TypeOK, Move
  <2> QED
    BY <2>1, <2>2 DEF MoneyInv, Backed
<1> QED
  BY <1>1, <1>4, <1>5, <1>6, <1>7 DEF MoneyInv

LEMMA InitMoney == Init => MoneyInv
<1> SUFFICES ASSUME Init PROVE MoneyInv
  OBVIOUS
<1>1. IInv
  BY InitInv
<1>2. JournalsBalanced
  BY DEF Init, JournalsBalanced
<1>3. Conserved
  BY DEF Init, Conserved
<1>4. ReserveLines
  BY WalletAssumption DEF Init, ReserveLines, Op, PostOp, NoLines
<1>5. Backed
  <2>1. \A t \in AnyTx : OpenReserves[t] = 0
    BY DEF Init, OpenReserves, OpenReserve, Op, PostOp
  <2>2. SumOver(OpenReserves, AnyTx) = 0
    BY <2>1, FiniteAssumption, SumOfNothing
  <2> QED
    BY <2>2, WalletAssumption DEF Init, Backed
<1> QED
  BY <1>1, <1>2, <1>3, <1>4, <1>5 DEF MoneyInv

LEMMA StepMoney == MoneyInv /\ [Next]_vars => MoneyInv'
<1> SUFFICES ASSUME MoneyInv, [Next]_vars PROVE MoneyInv'
  OBVIOUS
<1>1. IInv'
  BY StepInv DEF MoneyInv
<1>2. ASSUME UNCHANGED <<amount, journal, debit, credit, held>> PROVE MoneyInv'
  <2>1. OpenReserves' = OpenReserves
    BY <1>2 DEF OpenReserves, OpenReserve
  <2> QED
    BY <1>1, <1>2, <2>1 DEF MoneyInv, JournalsBalanced, Conserved, ReserveLines, Backed
<1>3. ASSUME NEW t \in AnyTx, NEW op \in Op, NEW p \in PayloadType, Decline(t, op, p)
      PROVE  MoneyInv'
  BY <1>2, <1>3 DEF Decline
<1>4. ASSUME NEW t \in Tx, MarkTransactionFailed(t) PROVE MoneyInv'
  BY <1>2, <1>4 DEF MarkTransactionFailed
<1>5. ASSUME NEW w \in Wallet, ChangeWalletStatus(w) PROVE MoneyInv'
  BY <1>2, <1>5 DEF ChangeWalletStatus
<1>6. ASSUME UNCHANGED vars PROVE MoneyInv'
  BY <1>2, <1>6 DEF vars
<1> QED
  BY <1>3, <1>4, <1>5, <1>6, CommitMoney, RefundMoney, StepCases

LEMMA MoneyInductive == Spec => []MoneyInv
<1> QED
  BY InitMoney, StepMoney, PTL DEF Spec

(* Postings, reversals and refunds move money and never make or destroy     *)
(* any, for any number of wallets and transactions.                         *)
THEOREM MoneyIsConserved == Spec => []MoneyConserved
<1>1. MoneyInv => MoneyConserved
  BY ConservedMeans DEF MoneyInv, IInv
<1> QED
  BY <1>1, MoneyInductive, PTL

(* The reserve wallet always holds what the open reservations put there.    *)
THEOREM ReserveIsBacked == Spec => []ReserveBacked
<1>1. MoneyInv => ReserveBacked
  BY BackedMeans DEF MoneyInv
<1> QED
  BY <1>1, MoneyInductive, PTL

-----------------------------------------------------------------------------
(* The pipeline.                                                            *)
(* A handler at work has a transaction, one about to ask the merchant has a *)
(* correlation id, and a dispute reverses a mode it has found posted.       *)
WorkerBusy(w) ==
  /\ worker[w].pc # "idle" => worker[w].tx \in Tx
  /\ worker[w].pc \in {"mark", "dispatch"} => worker[w].correlation \in Worker

HandlersBusy ==
  /\ \A w \in Worker : WorkerBusy(w)
  /\ \A c \in Caller : caller[c].pc # "idle" => caller[c].tx \in Tx
  /\ \A t \in Tx : desk[t].pc = "reverse" => desk[t].mode \in Mode

(* Nobody but the producer knows a transaction before its message is sent.  *)
Untouched(t) ==
  /\ request[t] = "queued"
  /\ \A op \in Op : journal[t][op] = "NONE"
  /\ t \notin topic
  /\ attempt[t].confirmation = "none"
  /\ desk[t].pc # "reverse"
  /\ \A w \in Worker : worker[w].pc # "idle" => worker[w].tx # t
  /\ \A c \in Caller : caller[c].pc # "idle" => caller[c].tx # t

EarlyUntouched == \A t \in Tx : producer[t] \in {"reserve", "update"} => Untouched(t)

PInv == PipelineTypeOK /\ HandlersBusy /\ EarlyUntouched

-----------------------------------------------------------------------------
(* Types of the state outside Posting, one lemma per service.               *)

LEMMA FinalizeType ==
  ASSUME ServicesTypeOK, NEW t, NEW outcome \in Aml!Outcomes, Finalize(t, outcome)
  PROVE  aml' \in [Tx -> Aml!Status]
BY DEF ServicesTypeOK, Finalize, Aml!Finalize, Aml!Finalized, Aml!Status, Aml!Outcomes

LEMMA ProducerStepType ==
  ASSUME ServicesTypeOK, NEW t \in Tx, ProducerStep(t)
  PROVE  ServicesTypeOK'
<1> USE DEF ServicesTypeOK, OtherThanProducer, workVars, merchantVars, confirmVars, disputeVars
<1>1. \A pc \in ProducerPc : Goto(t, pc) => producer' \in [Tx -> ProducerPc]
  BY DEF Goto
<1>2. ProducerPc = {"reserve", "update", "send", "release", "fail", "done"}
  BY DEF ProducerPc
<1>3. producer' \in [Tx -> ProducerPc]
  BY <1>1, <1>2 DEF ProducerStep, CheckFails, BypassAml, UpdateRequest, SubmissionFails,
     FailRequest, ProducerCrash, ReserveAml, SendMessage, ReleaseAml
<1>4. CASE CheckFails(t) \/ BypassAml(t) \/ UpdateRequest(t) \/ SubmissionFails(t)
           \/ FailRequest(t) \/ ProducerCrash(t)
  BY <1>3, <1>4
  DEF CheckFails, BypassAml, UpdateRequest, SubmissionFails, FailRequest, ProducerCrash
<1>5. CASE ReserveAml(t)
  <2>1. aml' \in [Tx -> Aml!Status]
    BY <1>5 DEF ReserveAml, Aml!Reserve, Aml!Status
  <2> QED
    BY <1>3, <1>5, <2>1 DEF ReserveAml
<1>6. CASE SendMessage(t)
  BY <1>3, <1>6 DEF SendMessage
<1>7. CASE ReleaseAml(t)
  <2>1. aml' \in [Tx -> Aml!Status]
    BY <1>7, FinalizeType DEF ReleaseAml, Aml!Outcomes
  <2> QED
    BY <1>3, <1>7, <2>1 DEF ReleaseAml
<1> QED
  BY <1>4, <1>5, <1>6, <1>7 DEF ProducerStep

LEMMA IdleTypes ==
  /\ IdleWorker \in WorkerType
  /\ IdleCaller \in CallerType
  /\ IdleDesk \in DeskType
BY DEF IdleWorker, WorkerType, WorkerPc, Answer, IdleCaller, CallerType, CallerPc, ProcessStatus,
       IdleDesk, DeskType, DeskPc, DisputeStatus, Nobody

LEMMA ContinueType ==
  ASSUME ServicesTypeOK, NEW w \in Worker, NEW next \in WorkerPc, Continue(w, next)
  PROVE  worker' \in [Worker -> WorkerType]
<1>1. "none" \in Answer
  BY DEF Answer
<1>2. worker \in [Worker -> WorkerType]
  BY DEF ServicesTypeOK
<1> QED
  BY <1>1, <1>2 DEF Continue, WorkerType

LEMMA GoOnType ==
  ASSUME ServicesTypeOK, NEW w \in Worker, NEW next \in WorkerPc \cup {"throw"}, GoOn(w, next)
  PROVE  worker' \in [Worker -> WorkerType]
<1>1. CASE next = "throw"
  BY <1>1, IdleTypes DEF ServicesTypeOK, GoOn, Throw
<1>2. CASE next # "throw"
  BY <1>2, ContinueType DEF GoOn
<1> QED
  BY <1>1, <1>2

(* Where a call's result may lead.                                          *)
LEMMA NextSteps ==
  /\ \A r : /\ AfterDirect(r) \in WorkerPc \cup {"throw"}
            /\ AfterReserve(r) \in WorkerPc \cup {"throw"}
            /\ AfterSettle(r) \in WorkerPc \cup {"throw"}
            /\ AfterReject(r) \in WorkerPc \cup {"throw"}
  /\ \A a : AfterAnswer(a) \in WorkerPc \cup {"throw"}
  /\ \A pc : AfterSaving(pc) \in WorkerPc \cup {"throw"}
  /\ "ack" \in WorkerPc
BY DEF AfterDirect, AfterReserve, AfterSettle, AfterReject, FirstLegRefused, Blocked, AfterAnswer,
       AfterSaving, WorkerPc

LEMMA WorkerStepType ==
  ASSUME ServicesTypeOK, NEW w \in Worker, WorkerBusy(w), WorkerStep(w)
  PROVE  ServicesTypeOK'
<1> USE DEF OtherThanWork, confirmVars, disputeVars
<1>w. worker \in [Worker -> WorkerType] /\ attempt \in [Tx -> AttemptType]
  BY DEF ServicesTypeOK
<1>1. ASSUME NEW t \in Tx, Deliver(w, t) PROVE ServicesTypeOK'
  <2>1. {"reserve", "direct"} \subseteq WorkerPc
    BY DEF WorkerPc
  <2>2. worker' \in [Worker -> WorkerType]
    BY <1>1, <2>1, IdleTypes DEF Deliver, ServicesTypeOK, WorkerType
  <2> QED
    BY <1>1, <2>2 DEF Deliver, ServicesTypeOK
<1>2. CASE Acknowledge(w) \/ WorkerCrash(w)
  <2>1. worker' \in [Worker -> WorkerType]
    BY <1>2, IdleTypes DEF Acknowledge, WorkerCrash, Throw, ServicesTypeOK
  <2>2. crashes' \in 0 .. MaxCrash
    BY <1>2, PipelineAssumption DEF Acknowledge, WorkerCrash, ServicesTypeOK
  <2> QED
    BY <1>2, <2>1, <2>2 DEF Acknowledge, WorkerCrash, ServicesTypeOK
<1>3. CASE PostDirect(w) \/ PostReserve(w) \/ PostSettle(w) \/ PostReject(w)
  <2>1. worker' \in [Worker -> WorkerType]
    BY <1>3, NextSteps, GoOnType DEF PostDirect, PostReserve, PostSettle, PostReject, PostCall
  <2> QED
    BY <1>3, <2>1 DEF PostDirect, PostReserve, PostSettle, PostReject, PostCall, ServicesTypeOK
<1>4. CASE LookUpAttempt(w)
  <2>1. {"settle", "reject", "mark"} \subseteq WorkerPc
    BY DEF WorkerPc
  <2>2. \A a \in Decision : [APPROVED |-> "settle", REJECTED |-> "reject"][a] \in WorkerPc
    BY <2>1 DEF Decision
  <2>3. attempt[TxOf(w)].correlation \in Worker \cup {Nobody}
    BY <1>w, <1>4 DEF AttemptType, TxOf, LookUpAttempt, Holds, WorkerBusy
  <2> DEFINE a == attempt[TxOf(w)]
             pc == IF a.confirmation \in Decision
                   THEN [APPROVED |-> "settle", REJECTED |-> "reject"][a.confirmation] ELSE "mark"
             id == IF a.confirmation \in Decision THEN Nobody
                   ELSE IF a.correlation # Nobody THEN a.correlation ELSE w
  <2>4. pc \in WorkerPc /\ id \in Worker \cup {Nobody}
    BY <2>1, <2>2, <2>3
  <2>5. worker' = [worker EXCEPT ![w].pc = pc, ![w].correlation = id]
    BY <1>4 DEF LookUpAttempt
  <2>6. worker' \in [Worker -> WorkerType]
    <3> HIDE DEF pc, id
    <3> QED
      BY <1>w, <2>4, <2>5 DEF WorkerType
  <2> QED
    BY <1>4, <2>6 DEF LookUpAttempt, ServicesTypeOK
<1>5. CASE MarkPending(w)
  <2>1. "dispatch" \in WorkerPc /\ "PENDING" \in ConfirmStatus
    BY DEF WorkerPc, ConfirmStatus
  <2>2. worker' \in [Worker -> WorkerType]
    BY <1>5, <2>1, ContinueType DEF MarkPending
  <2> DEFINE id == IF attempt[TxOf(w)].correlation = Nobody THEN worker[w].correlation
                   ELSE attempt[TxOf(w)].correlation
  <2>3. TxOf(w) \in Tx
    BY <1>5 DEF MarkPending, TxOf, Holds, WorkerBusy
  <2>4. id \in Worker \cup {Nobody}
    BY <1>w, <2>3 DEF WorkerType, AttemptType
  <2>5. attempt' = [attempt EXCEPT ![TxOf(w)].confirmation = "PENDING",
                                   ![TxOf(w)].correlation = id]
    BY <1>w, <1>5, <2>3 DEF MarkPending, AttemptType
  <2>6. attempt' \in [Tx -> AttemptType]
    <3> HIDE DEF id
    <3> QED
      BY <1>w, <2>1, <2>3, <2>4, <2>5 DEF AttemptType
  <2> QED
    BY <1>5, <2>2, <2>6 DEF MarkPending, ServicesTypeOK
<1>6. CASE SendToMerchant(w)
  <2>1. "await" \in WorkerPc
    BY DEF WorkerPc
  <2>2. worker' \in [Worker -> WorkerType]
    BY <1>6, <2>1, ContinueType DEF SendToMerchant
  <2>3. asked' \in [Tx -> SUBSET Worker]
    <3>1. worker[w].correlation \in Worker
      BY <1>6 DEF SendToMerchant, Holds, WorkerBusy
    <3> QED
      BY <1>6, <3>1 DEF SendToMerchant, ServicesTypeOK
  <2> QED
    BY <1>6, <2>2, <2>3 DEF SendToMerchant, ServicesTypeOK
<1>7. CASE DispatchedToKafka(w) \/ HearDecision(w) \/ HearNothing(w)
  <2>1. "save" \in WorkerPc /\ Decision \cup {"PENDING", "UNKNOWN"} \subseteq Answer
    BY DEF WorkerPc, Answer
  <2>2. ASSUME NEW a \in Answer, Hear(w, a) PROVE worker' \in [Worker -> WorkerType]
    <3>1. worker' = [worker EXCEPT ![w].pc = "save", ![w].answer = a, ![w].correlation = Nobody]
      BY <2>2 DEF Hear
    <3>2. Nobody \in Worker \cup {Nobody}
      OBVIOUS
    <3> QED
      BY <1>w, <2>1, <3>1, <3>2 DEF WorkerType
  <2>3. worker' \in [Worker -> WorkerType]
    BY <1>7, <2>1, <2>2 DEF DispatchedToKafka, HearDecision, HearNothing
  <2>4. said' \in [Tx -> SUBSET Decision]
    BY <1>7 DEF DispatchedToKafka, HearDecision, HearNothing, ServicesTypeOK
  <2> QED
    BY <1>7, <2>3, <2>4 DEF DispatchedToKafka, HearDecision, HearNothing, Hear, ServicesTypeOK
<1>8. CASE SaveDecision(w)
  <2>1. worker' \in [Worker -> WorkerType]
    BY <1>8, NextSteps, GoOnType DEF SaveDecision
  <2>2. worker[w].answer \in ConfirmStatus
    BY DEF ServicesTypeOK, WorkerType, Answer, ConfirmStatus
  <2>3. attempt' \in [Tx -> AttemptType]
    BY <1>8, <2>2 DEF SaveDecision, ServicesTypeOK, AttemptType
  <2> QED
    BY <1>8, <2>1, <2>3 DEF SaveDecision, ServicesTypeOK
<1>9. CASE SavePosting(w)
  <2>1. worker' \in [Worker -> WorkerType]
    BY <1>9, NextSteps, GoOnType DEF SavePosting
  <2>2. SavedPosting(worker[w].pc) \in PostingStatus
    BY DEF SavedPosting, PostingStatus
  <2>3. attempt' \in [Tx -> AttemptType]
    BY <1>9, <2>2 DEF SavePosting, SetPosting, ServicesTypeOK, AttemptType
  <2> QED
    BY <1>9, <2>1, <2>3 DEF SavePosting, ServicesTypeOK
<1>10. CASE FinalizeAml(w)
  <2>1. worker' \in [Worker -> WorkerType]
    BY <1>10, NextSteps, GoOnType DEF FinalizeAml
  <2>2. aml' \in [Tx -> Aml!Status]
    BY <1>10, FinalizeType DEF FinalizeAml, Aml!Outcomes
  <2> QED
    BY <1>10, <2>1, <2>2 DEF FinalizeAml, ServicesTypeOK
<1> QED
  BY <1>1, <1>2, <1>3, <1>4, <1>5, <1>6, <1>7, <1>8, <1>9, <1>10 DEF WorkerStep, WorkerProgress

LEMMA CallerStepType ==
  ASSUME ServicesTypeOK, NEW c \in Caller, CallerStep(c)
  PROVE  ServicesTypeOK'
<1> USE DEF OtherThanConfirm, disputeVars
<1>c. caller \in [Caller -> CallerType] /\ attempt \in [Tx -> AttemptType]
  BY DEF ServicesTypeOK
<1>p. /\ {"idle", "insert", "post", "record", "recordAttempt", "aml"} = CallerPc
      /\ Processed \subseteq PostingStatus \cap ProcessStatus
      /\ \A r, d : ResultOf(r, d) \in ProcessStatus
      /\ "RECEIVED" \in ProcessStatus /\ "BLOCKED" \in PostingStatus
  BY DEF CallerPc, ProcessStatus, PostingStatus, Processed, ResultOf
<1>g. /\ \A pc \in CallerPc : CallerGoto(c, pc) => caller' \in [Caller -> CallerType]
      /\ Respond(c) => caller' \in [Caller -> CallerType]
  BY <1>c, IdleTypes DEF CallerGoto, Respond, CallerType
<1>1. ASSUME NEW t \in Tx, Receive(c, t) PROVE ServicesTypeOK'
  <2>1. caller' \in [Caller -> CallerType]
    BY <1>1, <1>c, <1>p, IdleTypes DEF Receive, CallerType
  <2> QED
    BY <1>1, <2>1 DEF Receive, ServicesTypeOK
<1>2. CASE InsertConfirmation(c)
  <2>1. caller' \in [Caller -> CallerType]
    BY <1>2, <1>g, <1>p DEF InsertConfirmation
  <2>2. caller[c].decision \in Decision \cup {"none"}
    BY <1>c DEF CallerType
  <2>3. confirmation' \in [Tx -> [decision : Decision \cup {"none"}, processing : ProcessStatus]]
    BY <1>2, <1>p, <2>2 DEF InsertConfirmation, ServicesTypeOK
  <2> QED
    BY <1>2, <2>1, <2>3 DEF InsertConfirmation, ServicesTypeOK
<1>3. CASE PostConfirmation(c)
  <2> DEFINE t == ConfirmedTx(c)
             result == ResultOf(Result(t, DecisionOp(caller[c].decision)), caller[c].decision)
  <2>1. caller' \in [Caller -> CallerType]
    <3>1. caller' = [caller EXCEPT ![c].pc = "record", ![c].result = result]
      BY <1>3 DEF PostConfirmation
    <3>2. result \in ProcessStatus /\ "record" \in CallerPc
      BY <1>p
    <3> HIDE DEF result
    <3> QED
      BY <1>c, <3>1, <3>2 DEF CallerType
  <2> QED
    BY <1>3, <2>1 DEF PostConfirmation, ServicesTypeOK
<1>4. CASE RecordConfirmation(c)
  <2>1. caller' \in [Caller -> CallerType]
    BY <1>4, <1>g, <1>p DEF RecordConfirmation
  <2>2. caller[c].result \in ProcessStatus
    BY <1>c DEF CallerType
  <2>3. confirmation' \in [Tx -> [decision : Decision \cup {"none"}, processing : ProcessStatus]]
    <3>1. confirmation \in [Tx -> [decision : Decision \cup {"none"}, processing : ProcessStatus]]
      BY DEF ServicesTypeOK
    <3> QED
      BY <1>4, <2>2, <3>1 DEF RecordConfirmation
  <2> QED
    BY <1>4, <2>1, <2>3 DEF RecordConfirmation, ServicesTypeOK
<1>5. CASE RecordOnAttempt(c)
  <2>1. caller' \in [Caller -> CallerType]
    BY <1>5, <1>g, <1>p DEF RecordOnAttempt
  <2>2. caller[c].decision \in ConfirmStatus
    BY <1>c DEF CallerType, ConfirmStatus
  <2>3. attempt' \in [Tx -> AttemptType]
    <3>1. (IF caller[c].result \in Processed THEN caller[c].result ELSE "BLOCKED") \in PostingStatus
      BY <1>p
    <3> QED
      BY <1>5, <1>c, <2>2, <3>1 DEF RecordOnAttempt, AttemptType
  <2> QED
    BY <1>5, <2>1, <2>3 DEF RecordOnAttempt, ServicesTypeOK
<1>6. CASE FinalizeConfirmed(c)
  <2>1. OutcomeOf(caller[c].decision) \in Aml!Outcomes
    BY DEF OutcomeOf, Aml!Outcomes
  <2>2. caller' \in [Caller -> CallerType] /\ aml' \in [Tx -> Aml!Status]
    BY <1>6, <1>g, <2>1, FinalizeType DEF FinalizeConfirmed
  <2> QED
    BY <1>6, <2>2 DEF FinalizeConfirmed, ServicesTypeOK
<1>7. CASE CallerCrash(c)
  <2>1. caller' \in [Caller -> CallerType]
    BY <1>7, <1>g DEF CallerCrash
  <2>2. crashes' \in 0 .. MaxCrash
    BY <1>7, PipelineAssumption DEF CallerCrash, ServicesTypeOK
  <2> QED
    BY <1>7, <2>1, <2>2 DEF CallerCrash, ServicesTypeOK
<1> QED
  BY <1>1, <1>2, <1>3, <1>4, <1>5, <1>6, <1>7 DEF CallerStep, CallerProgress

LEMMA DeskStepType ==
  ASSUME ServicesTypeOK, NEW t \in Tx, DeskStep(t)
  PROVE  ServicesTypeOK'
<1> USE DEF OtherThanDispute, merchantVars, confirmVars
<1>d. desk \in [Tx -> DeskType] /\ dispute \in [Tx -> DisputeStatus]
  BY DEF ServicesTypeOK
<1>p. /\ {"idle", "mode", "reverse", "record", "posting", "aml"} = DeskPc
      /\ {"none", "REQUESTED", "REVERSED", "BLOCKED", "FAILED"} = DisputeStatus
      /\ \A r : ReversalResult(r) \in DisputeStatus
      /\ PostedModes(t) \subseteq Mode
  BY DEF DeskPc, DisputeStatus, ReversalResult, PostedModes, ModeOf, Mode
<1>g. /\ \A pc \in DeskPc : DeskGoto(t, pc) => desk' \in [Tx -> DeskType]
      /\ Close(t) => desk' \in [Tx -> DeskType]
  BY <1>d, IdleTypes DEF DeskGoto, Close, DeskType
<1>1. CASE SubmitDispute(t)
  <2>1. desk' \in [Tx -> DeskType]
    BY <1>1, <1>g, <1>p DEF SubmitDispute
  <2>2. dispute' \in [Tx -> DisputeStatus]
    BY <1>1, <1>d, <1>p DEF SubmitDispute
  <2>3. submissions' \in [Tx -> 0 .. MaxDispute]
    BY <1>1, PipelineAssumption DEF SubmitDispute, ServicesTypeOK
  <2> QED
    BY <1>1, <2>1, <2>2, <2>3 DEF SubmitDispute, ServicesTypeOK
<1>2. CASE FindMode(t)
  <2>1. desk' \in [Tx -> DeskType]
    BY <1>2, <1>d, <1>p DEF FindMode, DeskType
  <2> QED
    BY <1>2, <2>1 DEF FindMode, ServicesTypeOK
<1>3. CASE PostReversal(t)
  <2>1. desk' \in [Tx -> DeskType]
    BY <1>3, <1>d, <1>p DEF PostReversal, DeskType
  <2> QED
    BY <1>3, <2>1 DEF PostReversal, ServicesTypeOK
<1>4. CASE RecordDispute(t)
  <2>1. desk' \in [Tx -> DeskType]
    BY <1>4, <1>d, <1>g, <1>p, IdleTypes DEF RecordDispute, DeskType
  <2>2. dispute' \in [Tx -> DisputeStatus]
    BY <1>4, <1>d DEF RecordDispute, DeskType
  <2> QED
    BY <1>4, <2>1, <2>2 DEF RecordDispute, ServicesTypeOK
<1>5. CASE MarkReversed(t)
  <2>1. desk' \in [Tx -> DeskType]
    BY <1>5, <1>g, <1>p DEF MarkReversed
  <2>2. attempt' \in [Tx -> AttemptType]
    <3>1. attempt \in [Tx -> AttemptType] /\ "REVERSED" \in PostingStatus
      BY DEF ServicesTypeOK, PostingStatus
    <3> QED
      BY <1>5, <3>1 DEF MarkReversed, SetPosting, AttemptType
  <2> QED
    BY <1>5, <2>1, <2>2 DEF MarkReversed, ServicesTypeOK
<1>6. CASE FinalizeDispute(t)
  <2>1. desk' \in [Tx -> DeskType] /\ aml' \in [Tx -> Aml!Status]
    BY <1>6, <1>g, FinalizeType DEF FinalizeDispute, Aml!Outcomes
  <2> QED
    BY <1>6, <2>1 DEF FinalizeDispute, ServicesTypeOK
<1>7. CASE DeskCrash(t)
  <2>1. desk' \in [Tx -> DeskType]
    BY <1>7, <1>g DEF DeskCrash
  <2>2. crashes' \in 0 .. MaxCrash
    BY <1>7, PipelineAssumption DEF DeskCrash, ServicesTypeOK
  <2> QED
    BY <1>7, <2>1, <2>2 DEF DeskCrash, ServicesTypeOK
<1> QED
  BY <1>1, <1>2, <1>3, <1>4, <1>5, <1>6, <1>7 DEF DeskStep

(* The steps of no service: the merchant and the administrators.            *)
OutsideStep == (\E t \in Tx : MerchantDecides(t)) \/ FlipProfile \/ CreateRefund \/ ChangeStatus

LEMMA OutsideStepType ==
  ASSUME ServicesTypeOK, OutsideStep
  PROVE  ServicesTypeOK'
<1> USE DEF workVars, confirmVars, disputeVars, merchantVars
<1>1. ASSUME NEW t \in Tx, MerchantDecides(t) PROVE ServicesTypeOK'
  BY <1>1 DEF MerchantDecides, ServicesTypeOK
<1>2. CASE FlipProfile
  BY <1>2, PipelineAssumption DEF FlipProfile, ServicesTypeOK
<1>3. CASE CreateRefund \/ ChangeStatus
  BY <1>3 DEF CreateRefund, ChangeStatus, NotMoney, ServicesTypeOK
<1> QED
  BY <1>1, <1>2, <1>3 DEF OutsideStep

-----------------------------------------------------------------------------
(* Every call of the services is a step of Posting.                         *)

(* A posting call changes the request and the journals of its transaction   *)
(* only, and writes no journal but its own.                                 *)
LEMMA PostEffect ==
  ASSUME TypeOK, NEW t \in AnyTx, NEW op \in Op, NEW p, Post(t, op, p)
  PROVE  /\ \A u \in AnyTx \ {t} : request'[u] = request[u] /\ journal'[u] = journal[u]
         /\ \A u \in AnyTx, o \in Op :
              journal'[u][o] # "NONE" => journal[u][o] # "NONE" \/ (u = t /\ o = op)
<1>1. CASE Commit(t, op, p)
  <2>1. /\ request' = [request EXCEPT ![t] = RequestAfter(op)]
        /\ journal' = [journal EXCEPT ![t] = JournalAfter(t, op)]
    BY <1>1 DEF Commit, Write
  <2>2. \A o \in Op : JournalAfter(t, op)[o] # "NONE" => journal[t][o] # "NONE" \/ o = op
    BY <1>1 DEF JournalAfter, InForce, InForceStatus, Commit, Outcome, FirstLeg, Refuse
  <2> QED
    BY <2>1, <2>2 DEF TypeOK
<1>2. CASE Decline(t, op, p)
  BY <1>2 DEF Decline, TypeOK
<1> QED
  BY <1>1, <1>2 DEF Post

LEMMA OpsAndModes ==
  /\ Op = PostOp \cup ReverseOp
  /\ \A m \in Mode : ReverseOf(m) \in ReverseOp
  /\ \A d : DecisionOp(d) \in {"TWO_LEG_2", "TWO_LEG_REVERSE"}
  /\ {"DIRECT_1", "TWO_LEG_1", "TWO_LEG_2"} = PostOp
  /\ "TWO_LEG_REVERSE" \in ReverseOp
BY DEF Op, PostOp, ReverseOp, ReverseOf, DecisionOp

LEMMA PostMoves ==
  ASSUME NEW t \in Tx, NEW op \in Op, Post(t, op, Amounts(t, op))
  PROVE  Next
<1>1. CASE op \in ReverseOp
  BY <1>1 DEF Amounts, Next, ReverseStep, AnyTx
<1>2. CASE op \notin ReverseOp
  BY <1>2, PipelineAssumption DEF Amounts, Next, PostStep, Op
<1> QED
  BY <1>1, <1>2

(* The posting calls of each service.                                       *)
WorkerPosts(w) == PostDirect(w) \/ PostReserve(w) \/ PostSettle(w) \/ PostReject(w)

LEMMA WorkerPost ==
  ASSUME PInv, NEW w \in Worker, WorkerPosts(w)
  PROVE  /\ worker[w].pc # "idle" /\ TxOf(w) \in Tx
         /\ \E op \in Op :
              /\ Post(TxOf(w), op, Amounts(TxOf(w), op))
              /\ op = "TWO_LEG_2" => Holds(w, "settle")
              /\ op = "TWO_LEG_REVERSE" => Holds(w, "reject")
              /\ op # "DIRECT_REVERSE"
BY DEF PInv, HandlersBusy, WorkerBusy, WorkerPosts, PostDirect, PostReserve, PostSettle, PostReject,
       PostCall, Holds, TxOf, Op, PostOp, ReverseOp

LEMMA CallerPost ==
  ASSUME PInv, NEW c \in Caller, PostConfirmation(c)
  PROVE  /\ caller[c].pc # "idle" /\ ConfirmedTx(c) \in Tx
         /\ \E op \in Op :
              /\ Post(ConfirmedTx(c), op, Amounts(ConfirmedTx(c), op))
              /\ op = DecisionOp(caller[c].decision)
BY DEF PInv, HandlersBusy, PostConfirmation, CallerAt, ConfirmedTx, DecisionOp, Op, PostOp, ReverseOp

LEMMA DeskPost ==
  ASSUME PInv, NEW t \in Tx, PostReversal(t)
  PROVE  \E op \in ReverseOp : Post(t, op, NoPayload) /\ Amounts(t, op) = NoPayload
BY OpsAndModes DEF PInv, HandlersBusy, PostReversal, DeskAt, Amounts

LEMMA MoneyStep ==
  ASSUME PInv, [PipelineNext]_pipelineVars
  PROVE  [Next]_vars
<1>1. CASE UNCHANGED pipelineVars
  BY <1>1 DEF pipelineVars
<1>2. ASSUME NEW t \in Tx, ProducerStep(t) PROVE [Next]_vars
  <2>1. CASE UpdateRequest(t)
    <3>1. request[t] = "queued" /\ request \in [AnyTx -> RequestStatus] /\ t \in AnyTx
      BY <2>1 DEF PInv, EarlyUntouched, Untouched, UpdateRequest, PipelineTypeOK, TypeOK, AnyTx
    <3>2. request' = request
      BY <2>1, <3>1 DEF UpdateRequest
    <3> QED
      BY <2>1, <3>2 DEF UpdateRequest, vars
  <2>2. CASE FailRequest(t)
    BY <2>2 DEF FailRequest, Next, FailStep
  <2> QED
    BY <1>2, <2>1, <2>2
    DEF ProducerStep, CheckFails, ReserveAml, BypassAml, SendMessage, SubmissionFails,
        ReleaseAml, ProducerCrash
<1>3. ASSUME NEW w \in Worker, WorkerStep(w) PROVE [Next]_vars
  <2>1. CASE WorkerPosts(w)
    BY <2>1, WorkerPost, PostMoves
  <2> QED
    BY <1>3, <2>1
    DEF WorkerStep, WorkerProgress, WorkerPosts, Deliver, Acknowledge, WorkerCrash, LookUpAttempt,
        MarkPending, SendToMerchant, DispatchedToKafka, HearDecision, HearNothing, Hear,
        SaveDecision, SavePosting, FinalizeAml
<1>4. ASSUME NEW c \in Caller, CallerStep(c) PROVE [Next]_vars
  <2>1. CASE PostConfirmation(c)
    BY <2>1, CallerPost, PostMoves
  <2> QED
    BY <1>4, <2>1
    DEF CallerStep, CallerProgress, Receive, InsertConfirmation, RecordConfirmation,
        RecordOnAttempt, FinalizeConfirmed, CallerCrash
<1>5. ASSUME NEW t \in Tx, DeskStep(t) PROVE [Next]_vars
  <2>1. CASE PostReversal(t)
    BY <2>1, DeskPost DEF Next, ReverseStep, AnyTx
  <2> QED
    BY <1>5, <2>1
    DEF DeskStep, SubmitDispute, FindMode, RecordDispute, MarkReversed, FinalizeDispute, DeskCrash
<1>6. CASE OutsideStep
  BY <1>6 DEF OutsideStep, MerchantDecides, FlipProfile, CreateRefund, ChangeStatus, Next
<1> QED
  BY <1>1, <1>2, <1>3, <1>4, <1>5, <1>6 DEF PipelineNext, OutsideStep

LEMMA PipelineStepType ==
  ASSUME PInv, [PipelineNext]_pipelineVars
  PROVE  PipelineTypeOK'
<1>1. TypeOK'
  BY MoneyStep, StepType DEF PInv, PipelineTypeOK
<1>2. ServicesTypeOK'
  <2>1. ServicesTypeOK
    BY DEF PInv, PipelineTypeOK
  <2>2. CASE UNCHANGED pipelineVars
    BY <2>1, <2>2
    DEF pipelineVars, workVars, merchantVars, confirmVars, disputeVars, ServicesTypeOK
  <2>3. \A w \in Worker : WorkerBusy(w)
    BY DEF PInv, HandlersBusy
  <2> QED
    BY <2>1, <2>2, <2>3, ProducerStepType, WorkerStepType, CallerStepType, DeskStepType,
       OutsideStepType
    DEF PipelineNext, OutsideStep
<1> QED
  BY <1>1, <1>2 DEF PipelineTypeOK

-----------------------------------------------------------------------------
(* The inductive invariant: the types of the pipeline, handlers at work on  *)
(* a transaction, and transactions the producer has not sent yet.           *)

(* A step that brings no handler to an unsent transaction and leaves its    *)
(* rows alone keeps it untouched.                                           *)
LEMMA StaysUntouched ==
  ASSUME NEW u \in Tx, Untouched(u),
         request'[u] = request[u], journal'[u] = journal[u],
         u \in topic' => u \in topic,
         attempt'[u].confirmation = attempt[u].confirmation,
         desk'[u].pc = "reverse" => desk[u].pc = "reverse",
         \A w \in Worker : worker'[w].pc # "idle" /\ worker'[w].tx = u =>
                             worker[w].pc # "idle" /\ worker[w].tx = u,
         \A c \in Caller : caller'[c].pc # "idle" /\ caller'[c].tx = u =>
                             caller[c].pc # "idle" /\ caller[c].tx = u
  PROVE  Untouched(u)'
BY DEF Untouched

LEMMA ProducerKeeps ==
  ASSUME PInv, NEW t \in Tx, ProducerStep(t)
  PROVE  HandlersBusy' /\ EarlyUntouched'
<1>1. UNCHANGED <<worker, attempt, caller, desk>> /\ UNCHANGED journal
  BY DEF ProducerStep, CheckFails, ReserveAml, BypassAml, UpdateRequest, SendMessage,
         SubmissionFails, ReleaseAml, FailRequest, ProducerCrash, OtherThanProducer, workVars,
         confirmVars, disputeVars, vars, MarkTransactionFailed
<1>2. HandlersBusy'
  BY <1>1 DEF PInv, HandlersBusy, WorkerBusy
<1>3. /\ producer \in [Tx -> ProducerPc] /\ request \in [AnyTx -> RequestStatus]
      /\ t \in AnyTx
  BY DEF PInv, PipelineTypeOK, ServicesTypeOK, TypeOK, AnyTx
<1>4. ASSUME NEW u \in Tx, producer'[u] \in {"reserve", "update"} PROVE Untouched(u)'
  <2>1. producer[u] \in {"reserve", "update"}
    BY <1>3, <1>4
    DEF ProducerStep, CheckFails, ReserveAml, BypassAml, UpdateRequest, SendMessage,
        SubmissionFails, ReleaseAml, FailRequest, ProducerCrash, Goto
  <2>2. request'[u] = request[u] /\ (u \in topic' => u \in topic)
    BY <1>3, <1>4
    DEF ProducerStep, CheckFails, ReserveAml, BypassAml, UpdateRequest, SendMessage,
        SubmissionFails, ReleaseAml, FailRequest, ProducerCrash, Goto, vars,
        MarkTransactionFailed, AnyTx
  <2>3. Untouched(u)
    BY <2>1 DEF PInv, EarlyUntouched
  <2> QED
    BY <1>1, <2>2, <2>3, StaysUntouched
<1> QED
  BY <1>2, <1>4 DEF EarlyUntouched

(* A handler goes on with the transaction it has, and asks the merchant     *)
(* under a correlation id.                                                  *)
LEMMA WorkerMoves ==
  ASSUME PInv, NEW w \in Worker, WorkerStep(w)
  PROVE  /\ \A v \in Worker \ {w} : worker'[v] = worker[v]
         /\ WorkerBusy(w)'
         /\ worker'[w].pc # "idle" =>
              \/ worker[w].pc # "idle" /\ worker'[w].tx = worker[w].tx
              \/ worker'[w].tx \in topic
<1>w. worker \in [Worker -> WorkerType] /\ WorkerBusy(w) /\ worker[w] \in WorkerType
  BY DEF PInv, PipelineTypeOK, ServicesTypeOK, HandlersBusy
<1>1. ASSUME NEW t \in Tx, Deliver(w, t)
      PROVE  /\ \A v \in Worker \ {w} : worker'[v] = worker[v]
             /\ worker'[w].tx = t /\ t \in topic
             /\ worker'[w].pc \in {"reserve", "direct"}
  BY <1>w, <1>1 DEF Deliver, IdleWorker
<1>2. ASSUME Throw(w)
      PROVE  /\ \A v \in Worker \ {w} : worker'[v] = worker[v]
             /\ worker'[w].pc = "idle"
  BY <1>w, <1>2 DEF Throw, IdleWorker
<1>3. ASSUME NEW pc, Continue(w, pc)
      PROVE  /\ \A v \in Worker \ {w} : worker'[v] = worker[v]
             /\ worker'[w].tx = worker[w].tx
             /\ worker'[w].correlation = worker[w].correlation
             /\ worker'[w].pc = pc
  BY <1>w, <1>3 DEF Continue, WorkerType
<1>4. ASSUME NEW pc, GoOn(w, pc), pc \notin {"mark", "dispatch"}, ~Holds(w, "idle")
      PROVE  /\ \A v \in Worker \ {w} : worker'[v] = worker[v]
             /\ worker'[w].pc = "idle" \/ worker'[w].tx = worker[w].tx
             /\ worker'[w].pc \notin {"mark", "dispatch"}
  BY <1>2, <1>3, <1>4 DEF GoOn
<1>5. ASSUME NEW a, Hear(w, a)
      PROVE  /\ \A v \in Worker \ {w} : worker'[v] = worker[v]
             /\ worker'[w].tx = worker[w].tx
             /\ worker'[w].pc = "save"
  BY <1>w, <1>5 DEF Hear, WorkerType
<1>6. /\ \A r : /\ AfterDirect(r) \notin {"mark", "dispatch"}
                /\ AfterReserve(r) \notin {"mark", "dispatch"}
                /\ AfterSettle(r) \notin {"mark", "dispatch"}
                /\ AfterReject(r) \notin {"mark", "dispatch"}
      /\ \A a : AfterAnswer(a) \notin {"mark", "dispatch"}
      /\ \A pc : AfterSaving(pc) \notin {"mark", "dispatch"}
  BY DEF AfterDirect, AfterReserve, AfterSettle, AfterReject, FirstLegRefused, Blocked,
         AfterAnswer, AfterSaving
<1>7. CASE \E t \in Tx : Deliver(w, t)
  BY <1>1, <1>7 DEF WorkerBusy
<1>8. CASE Acknowledge(w) \/ WorkerCrash(w)
  BY <1>2, <1>8 DEF Acknowledge, WorkerCrash, WorkerBusy
<1>9. CASE WorkerPosts(w) \/ SaveDecision(w) \/ SavePosting(w) \/ FinalizeAml(w)
  <2>1. \E pc : GoOn(w, pc) /\ pc \notin {"mark", "dispatch"}
    BY <1>6, <1>9 DEF WorkerPosts, PostDirect, PostReserve, PostSettle, PostReject, PostCall,
                      SaveDecision, SavePosting, FinalizeAml
  <2>2. ~Holds(w, "idle") /\ TxOf(w) \in Tx
    BY <1>9, <1>w DEF WorkerPosts, PostDirect, PostReserve, PostSettle, PostReject,
                      SaveDecision, SavePosting, SavingPc, FinalizeAml, Holds, WorkerBusy, TxOf
  <2> QED
    BY <1>4, <2>1, <2>2 DEF WorkerBusy, TxOf, Holds
<1>10. CASE LookUpAttempt(w)
  <2>1. /\ \A v \in Worker \ {w} : worker'[v] = worker[v]
        /\ worker'[w].tx = worker[w].tx
        /\ worker'[w].pc \in {"settle", "reject", "mark"}
    BY <1>w, <1>10 DEF LookUpAttempt, WorkerType, Decision
  <2>2. worker[w].pc # "idle" /\ TxOf(w) \in Tx
    BY <1>10, <1>w DEF LookUpAttempt, Holds, WorkerBusy, TxOf
  <2>3. attempt[TxOf(w)].correlation \in Worker \cup {Nobody}
    BY <2>2 DEF PInv, PipelineTypeOK, ServicesTypeOK, AttemptType
  <2>4. worker'[w].pc = "mark" => worker'[w].correlation \in Worker
    BY <1>w, <1>10, <2>3 DEF LookUpAttempt, WorkerType, Decision
  <2> QED
    BY <2>1, <2>2, <2>4 DEF WorkerBusy, TxOf
<1>11. CASE MarkPending(w) \/ SendToMerchant(w)
  BY <1>w, <1>3, <1>11 DEF MarkPending, SendToMerchant, WorkerBusy, Holds
<1>12. CASE DispatchedToKafka(w) \/ HearDecision(w) \/ HearNothing(w)
  BY <1>w, <1>5, <1>12 DEF DispatchedToKafka, HearDecision, HearNothing, WorkerBusy, Holds
<1> QED
  BY <1>7, <1>8, <1>9, <1>10, <1>11, <1>12 DEF WorkerStep, WorkerProgress, WorkerPosts

LEMMA WorkerKeeps ==
  ASSUME PInv, NEW w \in Worker, WorkerStep(w)
  PROVE  HandlersBusy' /\ EarlyUntouched'
<1>1. UNCHANGED <<producer, caller, desk>> /\ (topic' \subseteq topic)
  BY DEF WorkerStep, WorkerProgress, Deliver, Acknowledge, WorkerCrash, PostDirect, PostReserve,
         PostSettle, PostReject, PostCall, LookUpAttempt, MarkPending, SendToMerchant,
         DispatchedToKafka, HearDecision, HearNothing, Hear, SaveDecision, SavePosting,
         FinalizeAml, OtherThanWork, confirmVars, disputeVars
<1>2. \A v \in Worker : WorkerBusy(v)'
  <2>1. \A v \in Worker \ {w} : WorkerBusy(v) /\ worker'[v] = worker[v]
    BY WorkerMoves DEF PInv, HandlersBusy
  <2> QED
    BY <2>1, WorkerMoves DEF WorkerBusy
<1>3. HandlersBusy'
  BY <1>1, <1>2 DEF PInv, HandlersBusy
<1>4. ASSUME NEW u \in Tx, Untouched(u), producer[u] \in {"reserve", "update"}
      PROVE  Untouched(u)'
  <2>1. /\ worker[w].pc # "idle" => TxOf(w) # u
        /\ worker'[w].pc # "idle" => worker'[w].tx # u
    BY <1>4, WorkerMoves DEF Untouched, TxOf
  <2>2. request'[u] = request[u] /\ journal'[u] = journal[u]
    <3>1. CASE WorkerPosts(w)
      BY <2>1, <3>1, WorkerPost, PostEffect DEF PInv, PipelineTypeOK, AnyTx
    <3>2. CASE ~WorkerPosts(w)
      BY <3>2 DEF WorkerStep, WorkerProgress, WorkerPosts, Deliver, Acknowledge, WorkerCrash,
         LookUpAttempt, MarkPending, SendToMerchant, DispatchedToKafka, HearDecision, HearNothing,
         Hear, SaveDecision, SavePosting, FinalizeAml, vars
    <3> QED
      BY <3>1, <3>2
  <2>3. attempt'[u].confirmation = attempt[u].confirmation
    <3>1. attempt \in [Tx -> AttemptType]
      BY DEF PInv, PipelineTypeOK, ServicesTypeOK
    <3>2. CASE MarkPending(w) \/ SaveDecision(w)
      BY <2>1, <3>1, <3>2 DEF MarkPending, SaveDecision, Holds
    <3>3. CASE SavePosting(w)
      BY <2>1, <3>1, <3>3 DEF SavePosting, SavingPc, SetPosting
    <3>4. CASE ~(MarkPending(w) \/ SaveDecision(w) \/ SavePosting(w))
      BY <3>4
      DEF WorkerStep, WorkerProgress, Deliver, Acknowledge, WorkerCrash, PostDirect, PostReserve,
          PostSettle, PostReject, PostCall, LookUpAttempt, SendToMerchant, DispatchedToKafka,
          HearDecision, HearNothing, Hear, FinalizeAml
    <3> QED
      BY <3>2, <3>3, <3>4
  <2> QED
    BY <1>1, <1>4, <2>1, <2>2, <2>3, StaysUntouched, WorkerMoves
<1> QED
  BY <1>1, <1>3, <1>4 DEF PInv, EarlyUntouched

LEMMA CallerKeeps ==
  ASSUME PInv, NEW c \in Caller, CallerStep(c)
  PROVE  HandlersBusy' /\ EarlyUntouched'
<1>c. caller \in [Caller -> CallerType] /\ attempt \in [Tx -> AttemptType]
  BY DEF PInv, PipelineTypeOK, ServicesTypeOK
<1>1. UNCHANGED <<producer, topic, worker, desk>>
  BY DEF CallerStep, CallerProgress, Receive, InsertConfirmation, PostConfirmation,
         RecordConfirmation, RecordOnAttempt, FinalizeConfirmed, CallerCrash, OtherThanConfirm,
         disputeVars
<1>2. /\ \A d \in Caller \ {c} : caller'[d] = caller[d]
      /\ caller'[c].pc # "idle" =>
           \/ caller[c].pc # "idle" /\ caller'[c].tx = caller[c].tx
           \/ caller'[c].tx \in Tx /\ HasAttempt(caller'[c].tx)
  <2>1. ASSUME NEW pc, CallerGoto(c, pc), caller[c].pc # "idle"
        PROVE  /\ \A d \in Caller \ {c} : caller'[d] = caller[d]
               /\ caller[c].pc # "idle" /\ caller'[c].tx = caller[c].tx
    BY <1>c, <2>1 DEF CallerGoto, CallerType
  <2>2. ASSUME Respond(c)
        PROVE  /\ \A d \in Caller \ {c} : caller'[d] = caller[d]
               /\ caller'[c].pc = "idle"
    BY <1>c, <2>2 DEF Respond, IdleCaller
  <2>3. ASSUME NEW t \in Tx, Receive(c, t)
        PROVE  /\ \A d \in Caller \ {c} : caller'[d] = caller[d]
               /\ \/ caller'[c] = caller[c]
                  \/ caller'[c].tx = t /\ HasAttempt(t)
    BY <1>c, <2>3 DEF Receive, IdleCaller
  <2>4. CASE PostConfirmation(c)
    BY <1>c, <2>4 DEF PostConfirmation, CallerAt, CallerType
  <2> QED
    BY <2>1, <2>2, <2>3, <2>4
    DEF CallerStep, CallerProgress, InsertConfirmation, RecordConfirmation, RecordOnAttempt,
        FinalizeConfirmed, CallerCrash, CallerAt
<1>3. HandlersBusy'
  BY <1>1, <1>2 DEF PInv, HandlersBusy, WorkerBusy
<1>4. ASSUME NEW u \in Tx, Untouched(u), producer[u] \in {"reserve", "update"}
      PROVE  Untouched(u)'
  <2>1. /\ caller[c].pc # "idle" => ConfirmedTx(c) # u
        /\ caller'[c].pc # "idle" => caller'[c].tx # u
    BY <1>2, <1>4 DEF Untouched, ConfirmedTx, HasAttempt
  <2>2. request'[u] = request[u] /\ journal'[u] = journal[u]
    <3>1. CASE PostConfirmation(c)
      <4>1. PICK op \in Op : Post(ConfirmedTx(c), op, Amounts(ConfirmedTx(c), op))
        BY <3>1, CallerPost
      <4>2. ConfirmedTx(c) \in AnyTx /\ ConfirmedTx(c) # u /\ TypeOK /\ u \in AnyTx
        BY <2>1, <3>1, CallerPost DEF PInv, PipelineTypeOK, AnyTx
      <4> QED
        BY <4>1, <4>2, PostEffect
    <3>2. CASE ~PostConfirmation(c)
      BY <3>2 DEF CallerStep, CallerProgress, Receive, InsertConfirmation, RecordConfirmation,
         RecordOnAttempt, FinalizeConfirmed, CallerCrash, vars
    <3> QED
      BY <3>1, <3>2
  <2>3. attempt'[u].confirmation = attempt[u].confirmation
    <3>1. CASE RecordOnAttempt(c)
      BY <1>c, <2>1, <3>1 DEF RecordOnAttempt, CallerAt
    <3>2. CASE ~RecordOnAttempt(c)
      BY <3>2 DEF CallerStep, CallerProgress, Receive, InsertConfirmation, PostConfirmation,
         RecordConfirmation, FinalizeConfirmed, CallerCrash
    <3> QED
      BY <3>1, <3>2
  <2> QED
    BY <1>1, <1>2, <1>4, <2>1, <2>2, <2>3, StaysUntouched
<1> QED
  BY <1>1, <1>3, <1>4 DEF PInv, EarlyUntouched

(* Disputes leave an unsent transaction alone: it has no journal to reverse.*)
LEMMA DeskKeeps ==
  ASSUME PInv, NEW t \in Tx, DeskStep(t)
  PROVE  HandlersBusy' /\ EarlyUntouched'
<1>d. desk \in [Tx -> DeskType] /\ attempt \in [Tx -> AttemptType]
  BY DEF PInv, PipelineTypeOK, ServicesTypeOK
<1>1. UNCHANGED <<producer, topic, worker, caller>>
  BY DEF DeskStep, SubmitDispute, FindMode, PostReversal, RecordDispute, MarkReversed,
         FinalizeDispute, DeskCrash, OtherThanDispute, confirmVars
<1>2. /\ \A u \in Tx \ {t} : desk'[u] = desk[u]
      /\ desk'[t].pc = "reverse" => desk'[t].mode \in PostedModes(t)
  BY <1>d DEF DeskStep, SubmitDispute, FindMode, PostReversal, RecordDispute, MarkReversed,
         FinalizeDispute, DeskCrash, DeskGoto, Close, DeskType, IdleDesk
<1>3. PostedModes(t) \subseteq Mode
  BY DEF PostedModes, ModeOf, Mode
<1>4. HandlersBusy'
  BY <1>1, <1>2, <1>3 DEF PInv, HandlersBusy, WorkerBusy
<1>5. ASSUME NEW u \in Tx, Untouched(u), producer[u] \in {"reserve", "update"}
      PROVE  Untouched(u)'
  <2>1. desk'[u].pc # "reverse"
    <3>1. PostedModes(u) = {}
      BY <1>5 DEF Untouched, PostedModes, FirstLeg, Op, PostOp
    <3> QED
      BY <1>2, <1>5, <3>1 DEF Untouched
  <2>2. request'[u] = request[u] /\ journal'[u] = journal[u]
    <3>1. CASE PostReversal(t)
      <4>1. PICK op \in ReverseOp : Post(t, op, NoPayload)
        BY <3>1, DeskPost
      <4>2. t # u /\ t \in AnyTx /\ u \in AnyTx /\ op \in Op /\ TypeOK
        BY <1>5, <3>1 DEF Untouched, PostReversal, DeskAt, PInv, PipelineTypeOK, AnyTx, Op
      <4> QED
        BY <4>1, <4>2, PostEffect
    <3>2. CASE ~PostReversal(t)
      BY <3>2 DEF DeskStep, SubmitDispute, FindMode, RecordDispute, MarkReversed,
         FinalizeDispute, DeskCrash, vars
    <3> QED
      BY <3>1, <3>2
  <2>3. attempt'[u].confirmation = attempt[u].confirmation
    <3>1. CASE MarkReversed(t)
      BY <1>d, <3>1 DEF MarkReversed, SetPosting
    <3>2. CASE ~MarkReversed(t)
      BY <3>2 DEF DeskStep, SubmitDispute, FindMode, PostReversal, RecordDispute,
         FinalizeDispute, DeskCrash
    <3> QED
      BY <3>1, <3>2
  <2> QED
    BY <1>1, <1>5, <2>1, <2>2, <2>3, StaysUntouched
<1> QED
  BY <1>1, <1>4, <1>5 DEF PInv, EarlyUntouched

LEMMA OutsideKeeps ==
  ASSUME PInv, OutsideStep
  PROVE  HandlersBusy' /\ EarlyUntouched'
<1>1. UNCHANGED <<producer, topic, worker, caller, desk, attempt>>
  BY DEF OutsideStep, MerchantDecides, FlipProfile, CreateRefund, ChangeStatus, NotMoney, workVars,
         confirmVars, disputeVars
<1>2. \A u \in Tx : request'[u] = request[u] /\ journal'[u] = journal[u]
  BY RequestAssumption
  DEF OutsideStep, MerchantDecides, FlipProfile, CreateRefund, RefundStep, MerchantRefund,
      ChangeStatus, StatusStep, ChangeWalletStatus, vars, PInv, PipelineTypeOK, TypeOK, AnyTx
<1>3. HandlersBusy'
  BY <1>1 DEF PInv, HandlersBusy, WorkerBusy
<1> QED
  BY <1>1, <1>2, <1>3, StaysUntouched DEF PInv, EarlyUntouched

LEMMA PInductive == PInv /\ [PipelineNext]_pipelineVars => PInv'
<1> SUFFICES ASSUME PInv, [PipelineNext]_pipelineVars PROVE PInv'
  OBVIOUS
<1>1. PipelineTypeOK'
  BY PipelineStepType
<1>2. CASE UNCHANGED pipelineVars
  BY <1>1, <1>2 DEF pipelineVars, vars, workVars, confirmVars, disputeVars, PInv, HandlersBusy,
     WorkerBusy, EarlyUntouched, Untouched
<1> QED
  BY <1>1, <1>2, ProducerKeeps, WorkerKeeps, CallerKeeps, DeskKeeps, OutsideKeeps
  DEF PInv, PipelineNext, OutsideStep

LEMMA PInitially == PipelineInit => PInv
<1> SUFFICES ASSUME PipelineInit PROVE PInv
  OBVIOUS
<1>1. TypeOK
  BY InitType DEF PipelineInit
<1>2. ServicesTypeOK
  BY IdleTypes, PipelineAssumption
  DEF PipelineInit, ServicesTypeOK, ProducerPc, Aml!Status, NoAttempt, AttemptType, ConfirmStatus,
      PostingStatus, Nobody, NoConfirmation, ProcessStatus, DisputeStatus
<1>3. HandlersBusy
  BY DEF PipelineInit, HandlersBusy, WorkerBusy, IdleWorker, IdleCaller, IdleDesk
<1>4. EarlyUntouched
  BY DEF PipelineInit, Init, EarlyUntouched, Untouched, IdleWorker, IdleCaller, IdleDesk,
         NoAttempt, AnyTx
<1> QED
  BY <1>1, <1>2, <1>3, <1>4 DEF PInv, PipelineTypeOK

LEMMA PInvariant == PipelineSpec => []PInv
BY PInductive, PInitially, PTL DEF PipelineSpec

(* Every table of the pipeline keeps to its status values, whichever        *)
(* handlers write it and in whatever order.                                 *)
THEOREM PipelineTypeCorrect == PipelineSpec => []PipelineTypeOK
<1>1. PInv => PipelineTypeOK
  BY DEF PInv
<1> QED
  BY <1>1, PInvariant, PTL

(* The pipeline moves money, requests and wallets only as Posting does: the *)
(* producer's unconditional status update finds the row queued, because the *)
(* message that would change it has not been sent.                          *)
THEOREM ImplementsPosting == PipelineSpec => PostingSpec
<1>1. PipelineInit => Init
  BY DEF PipelineInit
<1>2. PInv /\ [PipelineNext]_pipelineVars => [Next]_vars
  BY MoneyStep
<1> QED
  BY <1>1, <1>2, PInvariant, PTL DEF PipelineSpec, PostingSpec, Spec

(* So what is proved of Posting holds of the pipeline: no mix of consumers, *)
(* callbacks, disputes and refunds overdraws a wallet, makes or loses money,*)
(* leaves anything in the reserve wallet, or pulls the two legs apart.      *)
THEOREM PipelineMoneySafe ==
  PipelineSpec => [](NoOverdraft /\ LegsAgree /\ ReversalExact /\ MoneyConserved /\ ReserveBacked)
BY ImplementsPosting, NeverOverdrawn, LegsAlwaysAgree, ReversalsAreExact, MoneyIsConserved,
   ReserveIsBacked, PTL DEF PostingSpec

(* Producer, consumer, callback and dispute finalize one reservation in any *)
(* order, and it still lives one life: granted once, and never brought back *)
(* from an outcome but by the reversal of a completed payment.              *)
THEOREM PipelineKeepsReservations == PipelineSpec => Aml!RSpec
<1>1. PipelineInit => Aml!RInit
  BY DEF PipelineInit, Aml!RInit
<1>2. PInv /\ [PipelineNext]_pipelineVars => [Aml!RNext]_aml
  <2> SUFFICES ASSUME PInv, [PipelineNext]_pipelineVars PROVE [Aml!RNext]_aml
    OBVIOUS
  <2>1. ASSUME NEW t \in Tx, NEW outcome \in Aml!Outcomes, Finalize(t, outcome)
        PROVE  Aml!RNext
    BY <2>1 DEF Finalize, Aml!RNext
  <2>2. {"COMPLETED", "RELEASED", "REVERSED"} = Aml!Outcomes
    BY DEF Aml!Outcomes
  <2>3. ASSUME NEW t \in Tx, ProducerStep(t) PROVE [Aml!RNext]_aml
    <3>1. CASE ReserveAml(t)
      BY <3>1 DEF ReserveAml, Aml!RNext
    <3>2. CASE ReleaseAml(t)
      BY <2>1, <2>2, <3>2 DEF ReleaseAml
    <3> QED
      BY <2>3, <3>1, <3>2 DEF ProducerStep, CheckFails, BypassAml, UpdateRequest, SendMessage,
         SubmissionFails, FailRequest, ProducerCrash
  <2>4. ASSUME NEW w \in Worker, WorkerStep(w) PROVE [Aml!RNext]_aml
    <3>1. CASE FinalizeAml(w)
      <4>1. TxOf(w) \in Tx
        BY <3>1 DEF FinalizeAml, PInv, HandlersBusy, WorkerBusy, TxOf
      <4> QED
        BY <2>1, <2>2, <3>1, <4>1 DEF FinalizeAml
    <3> QED
      BY <2>4, <3>1
      DEF WorkerStep, WorkerProgress, Deliver, Acknowledge, WorkerCrash, PostDirect, PostReserve,
          PostSettle, PostReject, PostCall, LookUpAttempt, MarkPending, SendToMerchant,
          DispatchedToKafka, HearDecision, HearNothing, Hear, SaveDecision, SavePosting
  <2>5. ASSUME NEW c \in Caller, CallerStep(c) PROVE [Aml!RNext]_aml
    <3>1. CASE FinalizeConfirmed(c)
      <4>1. ConfirmedTx(c) \in Tx /\ OutcomeOf(caller[c].decision) \in Aml!Outcomes
        BY <2>2, <3>1 DEF FinalizeConfirmed, CallerAt, PInv, HandlersBusy, ConfirmedTx, OutcomeOf
      <4> QED
        BY <2>1, <3>1, <4>1 DEF FinalizeConfirmed
    <3> QED
      BY <2>5, <3>1 DEF CallerStep, CallerProgress, Receive, InsertConfirmation, PostConfirmation,
         RecordConfirmation, RecordOnAttempt, CallerCrash
  <2>6. ASSUME NEW t \in Tx, DeskStep(t) PROVE [Aml!RNext]_aml
    <3>1. CASE FinalizeDispute(t)
      BY <2>1, <2>2, <3>1 DEF FinalizeDispute
    <3> QED
      BY <2>6, <3>1 DEF DeskStep, SubmitDispute, FindMode, PostReversal, RecordDispute,
         MarkReversed, DeskCrash
  <2>7. CASE OutsideStep \/ UNCHANGED pipelineVars
    BY <2>7 DEF OutsideStep, MerchantDecides, FlipProfile, CreateRefund, ChangeStatus, NotMoney,
       pipelineVars
  <2> QED
    BY <2>3, <2>4, <2>5, <2>6, <2>7 DEF PipelineNext, OutsideStep
<1> QED
  BY <1>1, <1>2, PInvariant, PTL DEF PipelineSpec, Aml!RSpec

-----------------------------------------------------------------------------
(* What each handler knows between two of its calls: the decision it acts   *)
(* on was given by the merchant, and the posting it is about to report has  *)
(* been made, by itself or by whoever was first.                            *)
WorkerKnows(w) ==
  worker[w].pc # "idle" =>
    /\ worker[w].answer \in Decision => worker[w].answer \in said[TxOf(w)]
    /\ Holds(w, "settle") => "APPROVED" \in said[TxOf(w)]
    /\ Holds(w, "reject") => "REJECTED" \in said[TxOf(w)]
    /\ Holds(w, "settled") => HasPosted(TxOf(w), "TWO_LEG_2")
    /\ Holds(w, "rejected") => HasPosted(TxOf(w), "TWO_LEG_REVERSE")
    /\ Holds(w, "complete") =>
         HasPosted(TxOf(w), "DIRECT_1") \/ HasPosted(TxOf(w), "TWO_LEG_2")

CallerKnows(c) ==
  caller[c].pc # "idle" =>
    /\ caller[c].decision \in said[ConfirmedTx(c)]
    /\ caller[c].pc \in {"post", "record"} =>
         caller[c].decision = confirmation[ConfirmedTx(c)].decision
    /\ caller[c].result = "COMPLETED" =>
         caller[c].decision = "APPROVED" /\ HasPosted(ConfirmedTx(c), "TWO_LEG_2")
    /\ caller[c].result = "REVERSED" =>
         caller[c].decision = "REJECTED" /\ HasPosted(ConfirmedTx(c), "TWO_LEG_REVERSE")
    /\ CallerAt(c, "aml") /\ caller[c].decision = "APPROVED" =>
         HasPosted(ConfirmedTx(c), "TWO_LEG_2")

DeskKnows(t) ==
  /\ desk[t].pc # "idle" => dispute[t] # "none"
  /\ desk[t].pc = "record" => desk[t].result # "none"
  /\ desk[t].result = "REVERSED" => GivenBack(t)
  /\ desk[t].pc \in {"posting", "aml"} => GivenBack(t)

(* What the rows say of a transaction, table by table.                      *)
AttemptTrue(t) ==
  /\ attempt[t].confirmation \in Decision => attempt[t].confirmation \in said[t]
  /\ attempt[t].posting = "COMPLETED" => HasPosted(t, "TWO_LEG_2")
  /\ attempt[t].posting = "REVERSED" => GivenBack(t)

ConfirmationTrue(t) ==
  /\ confirmation[t].processing = "COMPLETED" =>
       confirmation[t].decision = "APPROVED" /\ HasPosted(t, "TWO_LEG_2")
  /\ confirmation[t].processing = "REVERSED" =>
       confirmation[t].decision = "REJECTED" /\ HasPosted(t, "TWO_LEG_REVERSE")

DisputeTrue(t) == dispute[t] = "REVERSED" => GivenBack(t)

AmlTrue(t) ==
  /\ aml[t] = "COMPLETED" => HasPosted(t, "DIRECT_1") \/ HasPosted(t, "TWO_LEG_2")
  /\ aml[t] = "REVERSED" => GivenBack(t)

MoneyFollows(t) ==
  /\ HasPosted(t, "TWO_LEG_2") => "APPROVED" \in said[t]
  /\ HasPosted(t, "TWO_LEG_REVERSE") => "REJECTED" \in said[t] \/ dispute[t] # "none"
  /\ HasPosted(t, "DIRECT_REVERSE") => dispute[t] # "none"

HandlersKnow ==
  /\ \A w \in Worker : WorkerKnows(w)
  /\ \A c \in Caller : CallerKnows(c)
  /\ \A t \in Tx : DeskKnows(t)

RowsTrue ==
  \A t \in Tx : AttemptTrue(t) /\ ConfirmationTrue(t) /\ DisputeTrue(t) /\ AmlTrue(t)

KInv == PInv /\ IInv /\ HandlersKnow /\ RowsTrue /\ \A t \in Tx : MoneyFollows(t)

-----------------------------------------------------------------------------
(* Nothing that is known of a transaction is ever unlearnt: its journals,   *)
(* what the merchant said and the fact that it is disputed stay.            *)
Grows(t) ==
  /\ \A op \in Op : HasPosted(t, op) => HasPosted(t, op)'
  /\ said[t] \subseteq said'[t]
  /\ dispute[t] # "none" => dispute'[t] # "none"

LEMMA StepGrows ==
  ASSUME KInv, [PipelineNext]_pipelineVars, NEW t \in Tx
  PROVE  Grows(t)
<1>1. \A op \in Op : HasPosted(t, op) => HasPosted(t, op)'
  <2> SUFFICES ASSUME NEW op \in Op, HasPosted(t, op) PROVE HasPosted(t, op)'
    OBVIOUS
  <2>1. t \in AnyTx /\ TypeOK'
    BY PipelineStepType DEF AnyTx, KInv, PipelineTypeOK
  <2>2. StatusRank[journal'[t][op]] >= StatusRank[journal[t][op]]
    BY <2>1, MoneyStep, StepAppendOnly DEF KInv, HasPosted
  <2>3. journal[t][op] \in JournalStatus \ {"NONE"} /\ journal'[t][op] \in JournalStatus
    BY <2>1 DEF KInv, IInv, TypeOK, HasPosted
  <2>4. /\ StatusRank["NONE"] = 0
        /\ \A s \in JournalStatus \ {"NONE"} : StatusRank[s] \in {1, 2, 3}
    BY DEF StatusRank, JournalStatus
  <2> QED
    BY <2>2, <2>3, <2>4 DEF HasPosted
<1>2. said[t] \subseteq said'[t] /\ (dispute[t] # "none" => dispute'[t] # "none")
  <2>1. ASSUME UNCHANGED <<said, dispute>> PROVE <1>2!1 /\ <1>2!2
    BY <2>1
  <2>t. /\ said \in [Tx -> SUBSET Decision] /\ dispute \in [Tx -> DisputeStatus]
        /\ desk \in [Tx -> DeskType]
    BY DEF KInv, PInv, PipelineTypeOK, ServicesTypeOK
  <2>2. ASSUME NEW u \in Tx, ProducerStep(u) PROVE UNCHANGED <<said, dispute>>
    BY <2>2 DEF ProducerStep, CheckFails, ReserveAml, BypassAml, UpdateRequest, SendMessage,
         SubmissionFails, ReleaseAml, FailRequest, ProducerCrash, OtherThanProducer, merchantVars,
         disputeVars
  <2>3. ASSUME NEW w \in Worker, WorkerStep(w) PROVE said[t] \subseteq said'[t] /\ dispute' = dispute
    BY <2>t, <2>3 DEF WorkerStep, WorkerProgress, Deliver, Acknowledge, WorkerCrash, PostDirect,
         PostReserve, PostSettle, PostReject, PostCall, LookUpAttempt, MarkPending, SendToMerchant,
         DispatchedToKafka, HearDecision, HearNothing, Hear, SaveDecision, SavePosting,
         FinalizeAml, OtherThanWork, disputeVars
  <2>4. ASSUME NEW c \in Caller, CallerStep(c) PROVE said[t] \subseteq said'[t] /\ dispute' = dispute
    BY <2>t, <2>4 DEF CallerStep, CallerProgress, Receive, InsertConfirmation, PostConfirmation,
         RecordConfirmation, RecordOnAttempt, FinalizeConfirmed, CallerCrash, OtherThanConfirm,
         disputeVars
  <2>5. ASSUME NEW u \in Tx, DeskStep(u) PROVE <1>2!1 /\ <1>2!2
    <3>1. said' = said
      BY <2>5 DEF DeskStep, SubmitDispute, FindMode, PostReversal, RecordDispute, MarkReversed,
           FinalizeDispute, DeskCrash, OtherThanDispute, merchantVars
    <3>2. CASE RecordDispute(u)
      BY <2>t, <3>1, <3>2 DEF RecordDispute, DeskAt, KInv, HandlersKnow, DeskKnows
    <3>3. CASE SubmitDispute(u)
      BY <2>t, <3>1, <3>3 DEF SubmitDispute
    <3> QED
      BY <2>5, <3>1, <3>2, <3>3 DEF DeskStep, FindMode, PostReversal, MarkReversed,
           FinalizeDispute, DeskCrash
  <2>6. CASE OutsideStep \/ UNCHANGED pipelineVars
    BY <2>6 DEF OutsideStep, MerchantDecides, FlipProfile, CreateRefund, ChangeStatus, NotMoney,
         disputeVars, merchantVars, pipelineVars
  <2> QED
    BY <2>1, <2>2, <2>3, <2>4, <2>5, <2>6 DEF PipelineNext, OutsideStep
<1> QED
  BY <1>1, <1>2 DEF Grows

(* A posting call that answers success has its journal afterwards, whether  *)
(* it wrote it or found it.                                                 *)
LEMMA SuccessMeansPosted ==
  ASSUME TypeOK, NEW t \in AnyTx, NEW op \in Op, NEW p, Post(t, op, p), Outcome(t, op, p).success
  PROVE  HasPosted(t, op)'
<1>1. CASE Commit(t, op, p)
  <2>1. journal' = [journal EXCEPT ![t] = JournalAfter(t, op)]
    BY <1>1 DEF Commit, Write
  <2>2. JournalAfter(t, op)[op] # "NONE"
    BY DEF JournalAfter
  <2> QED
    BY <2>1, <2>2 DEF HasPosted, TypeOK
<1>2. CASE Decline(t, op, p)
  BY <1>2 DEF Decline, HasPosted
<1> QED
  BY <1>1, <1>2 DEF Post

(* "Already completed" answers a first leg that has been settled.           *)
LEMMA CompletedMeansSettled ==
  ASSUME IInv, NEW t \in Tx, NEW p,
         LET r == Outcome(t, "TWO_LEG_1", p) IN r.success /\ r.code = "ALREADY_COMPLETED"
  PROVE  HasPosted(t, "TWO_LEG_2")
<1>1. t \in AnyTx /\ "TWO_LEG_1" \in Op /\ "TWO_LEG_1" \notin ReverseOp
  BY DEF AnyTx, Op, PostOp, ReverseOp
<1>2. Posted("TWO_LEG_1") = "RESERVED"
  BY <1>1 DEF Posted
<1>3. journal[t]["TWO_LEG_1"] \notin {"NONE", "RESERVED", "REVERSED"}
  BY <1>1, <1>2 DEF Outcome, Repeated, Funding, Accept, Refuse, FirstLeg
<1>4. journal[t]["TWO_LEG_1"] = "SETTLED"
  BY <1>1, <1>3 DEF IInv, StatusShape
<1> QED
  BY <1>1, <1>4 DEF IInv, LegsAgree, HasPosted

(* Handlers and rows a step leaves alone know what they knew.               *)
LEMMA WorkerStays ==
  ASSUME NEW w \in Worker, WorkerKnows(w), worker'[w] = worker[w],
         worker[w].pc # "idle" => Grows(TxOf(w))
  PROVE  WorkerKnows(w)'
BY OpsAndModes DEF WorkerKnows, Grows, TxOf, Holds

LEMMA CallerStays ==
  ASSUME NEW c \in Caller, CallerKnows(c), caller'[c] = caller[c], ServicesTypeOK,
         caller[c].pc # "idle" => ConfirmedTx(c) \in Tx /\ Grows(ConfirmedTx(c)),
         \A t \in Tx : confirmation[t].decision # "none" =>
                         confirmation'[t].decision = confirmation[t].decision
  PROVE  CallerKnows(c)'
BY OpsAndModes DEF CallerKnows, Grows, ConfirmedTx, CallerAt, ServicesTypeOK, Decision

LEMMA GivenBackStays ==
  ASSUME NEW t, Grows(t), GivenBack(t)
  PROVE  GivenBack(t)'
BY OpsAndModes DEF Grows, GivenBack

LEMMA DeskStays ==
  ASSUME NEW t \in Tx, DeskKnows(t), desk'[t] = desk[t], Grows(t)
  PROVE  DeskKnows(t)'
BY GivenBackStays DEF DeskKnows, Grows

LEMMA RowsStay ==
  ASSUME NEW t \in Tx, Grows(t)
  PROVE  /\ AttemptTrue(t) /\ attempt'[t] = attempt[t] => AttemptTrue(t)'
         /\ ConfirmationTrue(t) /\ confirmation'[t] = confirmation[t] => ConfirmationTrue(t)'
         /\ DisputeTrue(t) /\ dispute'[t] = dispute[t] => DisputeTrue(t)'
         /\ AmlTrue(t) /\ aml'[t] = aml[t] => AmlTrue(t)'
BY GivenBackStays, OpsAndModes
DEF AttemptTrue, ConfirmationTrue, DisputeTrue, AmlTrue, Grows

(* A handler that finalizes a reservation knows the outcome to be true.     *)
LEMMA FinalizeTrue ==
  ASSUME ServicesTypeOK, \A t \in Tx : Grows(t) /\ AmlTrue(t),
         NEW u \in Tx, NEW outcome \in Aml!Outcomes, Finalize(u, outcome),
         outcome = "COMPLETED" => HasPosted(u, "DIRECT_1") \/ HasPosted(u, "TWO_LEG_2"),
         outcome = "REVERSED" => GivenBack(u),
         NEW t \in Tx
  PROVE  AmlTrue(t)'
<1>1. aml' = [aml EXCEPT ![u] = Aml!Finalized(aml[u], outcome)] /\ aml \in [Tx -> Aml!Status]
  BY DEF Finalize, Aml!Finalize, ServicesTypeOK
<1>2. CASE t # u
  BY <1>1, <1>2, RowsStay
<1>3. CASE t = u
  <2>1. aml'[t] = aml[t] \/ aml'[t] = outcome
    BY <1>1, <1>3 DEF Aml!Finalized
  <2>2. CASE aml'[t] = aml[t]
    BY <2>2, RowsStay
  <2>3. CASE aml'[t] = outcome
    BY <1>3, <2>3, GivenBackStays, OpsAndModes DEF AmlTrue, Grows
  <2> QED
    BY <2>1, <2>2, <2>3
<1> QED
  BY <1>2, <1>3

-----------------------------------------------------------------------------
(* The message handlers.                                                    *)

(* A handler goes where its call's answer sends it, and knows why.          *)
LEMMA WorkerLearns ==
  ASSUME KInv, NEW w \in Worker, WorkerStep(w), \A t \in Tx : Grows(t)
  PROVE  WorkerKnows(w)'
<1>w. /\ worker \in [Worker -> WorkerType] /\ worker[w] \in WorkerType /\ TypeOK /\ IInv
      /\ WorkerKnows(w) /\ (worker[w].pc # "idle" => TxOf(w) \in Tx)
      /\ "none" \notin Decision
  BY DEF KInv, PInv, PipelineTypeOK, ServicesTypeOK, HandlersBusy, WorkerBusy, HandlersKnow, TxOf,
         Decision
<1>1. ASSUME Throw(w) PROVE WorkerKnows(w)'
  BY <1>w, <1>1 DEF Throw, IdleWorker, WorkerKnows
<1>2. ASSUME NEW pc, Continue(w, pc)
      PROVE  /\ worker'[w].pc = pc /\ worker'[w].answer = "none"
             /\ TxOf(w)' = TxOf(w)
  BY <1>w, <1>2 DEF Continue, WorkerType, TxOf
<1>3. ASSUME NEW pc, GoOn(w, pc),
             pc = "settle" => "APPROVED" \in said'[TxOf(w)],
             pc = "reject" => "REJECTED" \in said'[TxOf(w)],
             pc = "settled" => journal'[TxOf(w)]["TWO_LEG_2"] # "NONE",
             pc = "rejected" => journal'[TxOf(w)]["TWO_LEG_REVERSE"] # "NONE",
             pc = "complete" => \/ journal'[TxOf(w)]["DIRECT_1"] # "NONE"
                                \/ journal'[TxOf(w)]["TWO_LEG_2"] # "NONE"
      PROVE  WorkerKnows(w)'
  <2>1. CASE pc = "throw"
    BY <1>1, <1>3, <2>1 DEF GoOn
  <2>2. CASE pc # "throw"
    BY <1>w, <1>2, <1>3, <2>2 DEF GoOn, WorkerKnows, Holds, HasPosted
  <2> QED
    BY <2>1, <2>2
<1>4. ASSUME NEW t \in Tx, Deliver(w, t) PROVE WorkerKnows(w)'
  BY <1>w, <1>4 DEF Deliver, IdleWorker, WorkerKnows, Holds
<1>5. CASE Acknowledge(w) \/ WorkerCrash(w)
  BY <1>1, <1>5 DEF Acknowledge, WorkerCrash
<1>6. ASSUME NEW op \in Op, TxOf(w) \in Tx, Post(TxOf(w), op, Amounts(TxOf(w), op)),
             Result(TxOf(w), op).success
      PROVE  journal'[TxOf(w)][op] # "NONE"
  BY <1>w, <1>6, SuccessMeansPosted DEF Result, AnyTx, HasPosted
<1>7. {"DIRECT_1", "TWO_LEG_1", "TWO_LEG_2", "TWO_LEG_REVERSE"} \subseteq Op
  BY DEF Op, PostOp, ReverseOp
<1>8. CASE PostDirect(w)
  BY <1>w, <1>3, <1>6, <1>7, <1>8
  DEF PostDirect, PostCall, Holds, AfterDirect, Accepted, FirstLegRefused, HasPosted
<1>9. CASE PostReserve(w)
  <2> DEFINE r == Result(TxOf(w), "TWO_LEG_1")
  <2>1. TxOf(w) \in Tx /\ GoOn(w, AfterReserve(r))
    BY <1>w, <1>9 DEF PostReserve, PostCall, Holds
  <2>2. AfterReserve(r) = "complete" => HasPosted(TxOf(w), "TWO_LEG_2")
    BY <1>w, <2>1, CompletedMeansSettled
    DEF AfterReserve, Accepted, FirstLegRefused, Result
  <2>3. HasPosted(TxOf(w), "TWO_LEG_2") => journal'[TxOf(w)]["TWO_LEG_2"] # "NONE"
    BY <2>1, OpsAndModes DEF Grows, HasPosted
  <2>4. AfterReserve(r) \in {"throw", "release", "complete", "lookup"}
    BY DEF AfterReserve, FirstLegRefused
  <2> HIDE DEF r
  <2> QED
    BY <1>3, <2>1, <2>2, <2>3, <2>4
<1>10. CASE PostSettle(w)
  BY <1>w, <1>3, <1>6, <1>7, <1>10
  DEF PostSettle, PostCall, Holds, AfterSettle, Accepted, Blocked, HasPosted
<1>11. CASE PostReject(w)
  BY <1>w, <1>3, <1>6, <1>7, <1>11
  DEF PostReject, PostCall, Holds, AfterReject, Accepted, Blocked, HasPosted
<1>12. CASE LookUpAttempt(w)
  <2>1. /\ TxOf(w)' = TxOf(w) /\ TxOf(w) \in Tx /\ worker'[w].answer = worker[w].answer
        /\ worker'[w].pc \in {"settle", "reject", "mark"}
        /\ worker'[w].pc = "settle" => attempt[TxOf(w)].confirmation = "APPROVED"
        /\ worker'[w].pc = "reject" => attempt[TxOf(w)].confirmation = "REJECTED"
        /\ said' = said
    BY <1>w, <1>12 DEF LookUpAttempt, WorkerType, Decision, TxOf, Holds
  <2>2. attempt[TxOf(w)].confirmation \in Decision =>
          attempt[TxOf(w)].confirmation \in said[TxOf(w)]
    BY <2>1 DEF KInv, RowsTrue, AttemptTrue
  <2> QED
    BY <1>w, <1>12, <2>1, <2>2 DEF WorkerKnows, Holds, Decision, LookUpAttempt
<1>13. CASE MarkPending(w) \/ SendToMerchant(w)
  BY <1>w, <1>2, <1>13 DEF MarkPending, SendToMerchant, WorkerKnows, Holds
<1>14. CASE DispatchedToKafka(w) \/ HearDecision(w) \/ HearNothing(w)
  <2>1. ASSUME NEW a, Hear(w, a)
        PROVE  /\ worker'[w].pc = "save" /\ worker'[w].answer = a /\ TxOf(w)' = TxOf(w)
    BY <1>w, <2>1 DEF Hear, WorkerType, TxOf
  <2>2. \E a : Hear(w, a) /\ (a \in Decision => a \in said'[TxOf(w)])
    <3>1. said \in [Tx -> SUBSET Decision] /\ {"PENDING", "UNKNOWN"} \cap Decision = {}
      BY DEF KInv, PInv, PipelineTypeOK, ServicesTypeOK, Decision
    <3>2. CASE HearDecision(w)
      BY <1>w, <3>1, <3>2 DEF HearDecision, Holds
    <3> QED
      BY <1>14, <3>1, <3>2 DEF DispatchedToKafka, HearNothing
  <2> QED
    BY <2>1, <2>2 DEF WorkerKnows, Holds
<1>15. CASE SaveDecision(w)
  <2>1. /\ TxOf(w) \in Tx /\ said' = said /\ GoOn(w, AfterAnswer(worker[w].answer))
        /\ worker[w].pc = "save"
    BY <1>w, <1>15 DEF SaveDecision, Holds
  <2>2. /\ AfterAnswer(worker[w].answer) \in {"ack", "settle", "reject", "throw"}
        /\ AfterAnswer(worker[w].answer) = "settle" => worker[w].answer = "APPROVED"
        /\ AfterAnswer(worker[w].answer) = "reject" => worker[w].answer = "REJECTED"
    BY DEF AfterAnswer
  <2> QED
    BY <1>w, <1>3, <2>1, <2>2 DEF WorkerKnows, Decision
<1>16. CASE SavePosting(w)
  <2>1. /\ TxOf(w) \in Tx /\ journal' = journal /\ GoOn(w, AfterSaving(worker[w].pc))
    BY <1>w, <1>16 DEF SavePosting, SavingPc, vars
  <2>2. /\ AfterSaving(worker[w].pc) \in {"complete", "release", "ack", "throw"}
        /\ AfterSaving(worker[w].pc) = "complete" => worker[w].pc = "settled"
    BY DEF AfterSaving
  <2> QED
    BY <1>w, <1>3, <2>1, <2>2 DEF WorkerKnows, Holds, HasPosted
<1>17. CASE FinalizeAml(w)
  BY <1>3, <1>17 DEF FinalizeAml
<1> QED
  BY <1>4, <1>5, <1>8, <1>9, <1>10, <1>11, <1>12, <1>13, <1>14, <1>15, <1>16, <1>17
  DEF WorkerStep, WorkerProgress

(* What it writes of its transaction is what it knows.                      *)
LEMMA WorkerRecords ==
  ASSUME KInv, NEW w \in Worker, WorkerStep(w), \A t \in Tx : Grows(t)
  PROVE  RowsTrue'
<1>w. /\ ServicesTypeOK /\ attempt \in [Tx -> AttemptType]
      /\ WorkerKnows(w) /\ (worker[w].pc # "idle" => TxOf(w) \in Tx)
      /\ \A t \in Tx : AttemptTrue(t) /\ ConfirmationTrue(t) /\ DisputeTrue(t) /\ AmlTrue(t)
  BY DEF KInv, PInv, PipelineTypeOK, ServicesTypeOK, HandlersBusy, WorkerBusy, HandlersKnow, TxOf,
         RowsTrue
<1>1. UNCHANGED <<confirmation, dispute>>
  BY DEF WorkerStep, WorkerProgress, Deliver, Acknowledge, WorkerCrash, PostDirect, PostReserve,
         PostSettle, PostReject, PostCall, LookUpAttempt, MarkPending, SendToMerchant,
         DispatchedToKafka, HearDecision, HearNothing, Hear, SaveDecision, SavePosting,
         FinalizeAml, OtherThanWork, confirmVars, disputeVars
<1>2. ASSUME NEW t \in Tx PROVE AmlTrue(t)'
  <2>1. CASE FinalizeAml(w)
    <3> DEFINE outcome == IF Holds(w, "complete") THEN "COMPLETED" ELSE "RELEASED"
    <3>1. /\ TxOf(w) \in Tx /\ Finalize(TxOf(w), outcome) /\ outcome \in Aml!Outcomes
          /\ outcome # "REVERSED"
          /\ outcome = "COMPLETED" =>
               HasPosted(TxOf(w), "DIRECT_1") \/ HasPosted(TxOf(w), "TWO_LEG_2")
      BY <1>w, <2>1 DEF FinalizeAml, Holds, Aml!Outcomes, WorkerKnows
    <3> HIDE DEF outcome
    <3> QED
      BY <1>w, <3>1, FinalizeTrue
  <2>2. CASE ~FinalizeAml(w)
    <3>1. aml' = aml
      BY <2>2 DEF WorkerStep, WorkerProgress, Deliver, Acknowledge, WorkerCrash, PostDirect,
           PostReserve, PostSettle, PostReject, PostCall, LookUpAttempt, MarkPending,
           SendToMerchant, DispatchedToKafka, HearDecision, HearNothing, Hear, SaveDecision,
           SavePosting, OtherThanWork
    <3> QED
      BY <1>w, <3>1, RowsStay
  <2> QED
    BY <2>1, <2>2
<1>3. ASSUME NEW t \in Tx PROVE AttemptTrue(t)'
  <2>1. CASE attempt'[t] = attempt[t]
    BY <1>w, <2>1, RowsStay
  <2>2. CASE attempt'[t] # attempt[t]
    <3>1. t = TxOf(w) /\ (MarkPending(w) \/ SaveDecision(w) \/ SavePosting(w))
      BY <1>w, <2>2
      DEF WorkerStep, WorkerProgress, Deliver, Acknowledge, WorkerCrash, PostDirect,
          PostReserve, PostSettle, PostReject, PostCall, LookUpAttempt, MarkPending,
          SendToMerchant, DispatchedToKafka, HearDecision, HearNothing, Hear, SaveDecision,
          SavePosting, FinalizeAml, SetPosting
    <3>2. CASE MarkPending(w) \/ SaveDecision(w)
      <4>1. /\ attempt'[t].posting = attempt[t].posting /\ said' = said /\ journal' = journal
            /\ attempt'[t].confirmation \in {"PENDING", worker[w].answer}
            /\ worker[w].pc # "idle"
        BY <1>w, <3>1, <3>2 DEF MarkPending, SaveDecision, AttemptType, Holds, vars
      <4>2. "PENDING" \notin Decision
        BY DEF Decision
      <4> QED
        BY <1>w, <3>1, <4>1, <4>2 DEF AttemptTrue, WorkerKnows, HasPosted, GivenBack
    <3>3. CASE SavePosting(w)
      <4>1. /\ attempt'[t].confirmation = attempt[t].confirmation
            /\ attempt'[t].posting = SavedPosting(worker[w].pc)
            /\ said' = said /\ journal' = journal /\ worker[w].pc \in SavingPc
        BY <1>w, <2>2, <3>1, <3>3 DEF SavePosting, SetPosting, AttemptType, vars
      <4>2. /\ SavedPosting(worker[w].pc) = "COMPLETED" => worker[w].pc = "settled"
            /\ SavedPosting(worker[w].pc) = "REVERSED" => worker[w].pc = "rejected"
        BY DEF SavedPosting
      <4> QED
        BY <1>w, <3>1, <4>1, <4>2, OpsAndModes
        DEF AttemptTrue, WorkerKnows, Holds, HasPosted, GivenBack
    <3> QED
      BY <3>1, <3>2, <3>3
  <2> QED
    BY <2>1, <2>2
<1> QED
  BY <1>w, <1>1, <1>2, <1>3, RowsStay DEF RowsTrue

LEMMA WorkerTells ==
  ASSUME KInv, NEW w \in Worker, WorkerStep(w), \A t \in Tx : Grows(t)
  PROVE  HandlersKnow' /\ RowsTrue'
<1>1. UNCHANGED <<caller, confirmation, desk>>
  BY DEF WorkerStep, WorkerProgress, Deliver, Acknowledge, WorkerCrash, PostDirect, PostReserve,
         PostSettle, PostReject, PostCall, LookUpAttempt, MarkPending, SendToMerchant,
         DispatchedToKafka, HearDecision, HearNothing, Hear, SaveDecision, SavePosting,
         FinalizeAml, OtherThanWork, confirmVars, disputeVars
<1>2. PInv /\ HandlersKnow /\ ServicesTypeOK /\ HandlersBusy
  BY DEF KInv, PInv, PipelineTypeOK
<1>3. \A v \in Worker : WorkerKnows(v)'
  <2>1. ASSUME NEW v \in Worker, v # w PROVE WorkerKnows(v)'
    BY <1>2, <2>1, WorkerMoves, WorkerStays DEF HandlersKnow, HandlersBusy, WorkerBusy, TxOf
  <2> QED
    BY <2>1, WorkerLearns
<1>4. \A c \in Caller : CallerKnows(c)'
  BY <1>1, <1>2, CallerStays DEF HandlersKnow, HandlersBusy, ConfirmedTx
<1>5. \A t \in Tx : DeskKnows(t)'
  BY <1>1, <1>2, DeskStays DEF HandlersKnow
<1> QED
  BY <1>3, <1>4, <1>5, WorkerRecords DEF HandlersKnow

-----------------------------------------------------------------------------
(* The callback handlers.                                                   *)

(* A confirmation keeps the decision it was inserted with.                  *)
LEMMA DecisionStays ==
  ASSUME ServicesTypeOK, NEW c \in Caller, CallerStep(c), NEW t \in Tx,
         confirmation[t].decision # "none"
  PROVE  confirmation'[t].decision = confirmation[t].decision
<1>1. confirmation \in [Tx -> [decision : Decision \cup {"none"}, processing : ProcessStatus]]
  BY DEF ServicesTypeOK
<1>2. CASE RecordConfirmation(c)
  BY <1>1, <1>2 DEF RecordConfirmation
<1>3. CASE InsertConfirmation(c)
  BY <1>1, <1>3 DEF InsertConfirmation
<1> QED
  BY <1>2, <1>3 DEF CallerStep, CallerProgress, Receive, PostConfirmation, RecordOnAttempt,
     FinalizeConfirmed, CallerCrash

LEMMA CallerLearns ==
  ASSUME KInv, NEW c \in Caller, CallerStep(c), \A t \in Tx : Grows(t)
  PROVE  CallerKnows(c)'
<1>c. /\ caller \in [Caller -> CallerType] /\ TypeOK /\ IInv /\ ServicesTypeOK
      /\ CallerKnows(c) /\ (caller[c].pc # "idle" => ConfirmedTx(c) \in Tx)
      /\ "none" \notin Decision
  BY DEF KInv, PInv, PipelineTypeOK, ServicesTypeOK, HandlersBusy, HandlersKnow, ConfirmedTx,
         Decision
<1>1. ASSUME Respond(c) PROVE CallerKnows(c)'
  BY <1>c, <1>1 DEF Respond, IdleCaller, CallerKnows
<1>2. ASSUME NEW pc, CallerGoto(c, pc)
      PROVE  /\ caller'[c].pc = pc /\ caller'[c].decision = caller[c].decision
             /\ caller'[c].result = caller[c].result
             /\ ConfirmedTx(c)' = ConfirmedTx(c)
  BY <1>c, <1>2 DEF CallerGoto, CallerType, ConfirmedTx
<1>3. ASSUME NEW t \in Tx, Receive(c, t) PROVE CallerKnows(c)'
  <2>1. CASE caller' = caller
    BY <1>c, <1>3, <2>1, CallerStays DEF Receive
  <2>2. CASE caller' # caller
    <3> DEFINE d == decided[t]
    <3>1. /\ caller'[c].tx = t /\ caller'[c].decision = d /\ caller'[c].result = "RECEIVED"
          /\ caller'[c].pc \in {"insert", "aml", "post"}
          /\ caller'[c].pc = "aml" => /\ confirmation[t].decision = d
                                      /\ confirmation[t].processing \in Processed
          /\ caller'[c].pc = "post" => confirmation[t].decision = d
      BY <1>c, <1>3, <2>2 DEF Receive, IdleCaller
    <3>2. d \in said'[t] /\ confirmation' = confirmation /\ journal' = journal
      BY <1>c, <1>3 DEF Receive, ServicesTypeOK, vars
    <3>3. caller'[c].pc = "aml" /\ d = "APPROVED" => HasPosted(t, "TWO_LEG_2")
      BY <3>1 DEF KInv, RowsTrue, ConfirmationTrue, Processed
    <3> HIDE DEF d
    <3> QED
      BY <3>1, <3>2, <3>3 DEF CallerKnows, ConfirmedTx, CallerAt, HasPosted
  <2> QED
    BY <2>1, <2>2
<1>4. CASE InsertConfirmation(c)
  <2>1. CASE confirmation[ConfirmedTx(c)].decision # "none"
    BY <1>1, <1>4, <2>1 DEF InsertConfirmation
  <2>2. CASE confirmation[ConfirmedTx(c)].decision = "none"
    <3>1. /\ ConfirmedTx(c) \in Tx /\ CallerGoto(c, "post") /\ caller[c].pc # "idle"
          /\ said' = said /\ journal' = journal
          /\ confirmation'[ConfirmedTx(c)].decision = caller[c].decision
      BY <1>c, <1>4, <2>2 DEF InsertConfirmation, CallerAt, vars, ServicesTypeOK
    <3> QED
      BY <1>c, <1>2, <3>1 DEF CallerKnows, CallerAt, HasPosted
  <2> QED
    BY <2>1, <2>2
<1>5. CASE PostConfirmation(c)
  <2> DEFINE t == ConfirmedTx(c)
             op == DecisionOp(caller[c].decision)
             r == Result(t, op)
  <2>1. /\ t \in Tx /\ t \in AnyTx /\ op \in Op /\ Post(t, op, Amounts(t, op))
        /\ caller' = [caller EXCEPT ![c].pc = "record",
                                    ![c].result = ResultOf(r, caller[c].decision)]
        /\ said' = said /\ confirmation' = confirmation /\ caller[c].pc = "post"
    BY <1>c, <1>5, OpsAndModes DEF PostConfirmation, CallerAt, AnyTx
  <2>2. r.success => journal'[t][op] # "NONE"
    BY <1>c, <2>1, SuccessMeansPosted DEF Result, HasPosted
  <2>3. /\ ResultOf(r, caller[c].decision) = "COMPLETED" =>
             r.success /\ caller[c].decision = "APPROVED"
        /\ ResultOf(r, caller[c].decision) = "REVERSED" =>
             r.success /\ caller[c].decision # "APPROVED"
    BY DEF ResultOf
  <2>4. caller[c].decision \in Decision
    BY <1>c, <2>1 DEF CallerKnows, ServicesTypeOK
  <2>5. /\ caller'[c].pc = "record" /\ caller'[c].decision = caller[c].decision
        /\ caller'[c].result = ResultOf(r, caller[c].decision)
        /\ ConfirmedTx(c)' = ConfirmedTx(c)
    BY <1>c, <2>1 DEF CallerType, ConfirmedTx
  <2>6. /\ op = "TWO_LEG_2" <=> caller[c].decision = "APPROVED"
        /\ op = "TWO_LEG_REVERSE" <=> caller[c].decision # "APPROVED"
    BY DEF DecisionOp
  <2> HIDE DEF r, op
  <2> QED
    BY <1>c, <2>1, <2>2, <2>3, <2>4, <2>5, <2>6 DEF CallerKnows, CallerAt, HasPosted, Decision
<1>6. CASE RecordConfirmation(c)
  <2>1. /\ CallerGoto(c, "recordAttempt") /\ journal' = journal /\ said' = said
        /\ caller[c].pc = "record"
    BY <1>6 DEF RecordConfirmation, CallerAt, vars
  <2> QED
    BY <1>c, <1>2, <2>1 DEF CallerKnows, CallerAt, HasPosted
<1>7. CASE RecordOnAttempt(c)
  <2>1. CASE caller[c].result \notin Processed
    BY <1>1, <1>7, <2>1 DEF RecordOnAttempt
  <2>2. CASE caller[c].result \in Processed
    <3>1. /\ CallerGoto(c, "aml") /\ journal' = journal /\ said' = said
          /\ caller[c].pc = "recordAttempt"
      BY <1>7, <2>2 DEF RecordOnAttempt, CallerAt, vars
    <3> QED
      BY <1>c, <1>2, <2>2, <3>1 DEF CallerKnows, CallerAt, HasPosted, Processed
  <2> QED
    BY <2>1, <2>2
<1>8. CASE FinalizeConfirmed(c) \/ CallerCrash(c)
  BY <1>1, <1>8 DEF FinalizeConfirmed, CallerCrash
<1> QED
  BY <1>3, <1>4, <1>5, <1>6, <1>7, <1>8 DEF CallerStep, CallerProgress

LEMMA CallerRecords ==
  ASSUME KInv, NEW c \in Caller, CallerStep(c), \A t \in Tx : Grows(t)
  PROVE  RowsTrue'
<1>c. /\ caller \in [Caller -> CallerType] /\ ServicesTypeOK /\ attempt \in [Tx -> AttemptType]
      /\ CallerKnows(c) /\ (caller[c].pc # "idle" => ConfirmedTx(c) \in Tx)
      /\ \A t \in Tx : AttemptTrue(t) /\ ConfirmationTrue(t) /\ DisputeTrue(t) /\ AmlTrue(t)
  BY DEF KInv, PInv, PipelineTypeOK, ServicesTypeOK, HandlersBusy, HandlersKnow, ConfirmedTx,
         RowsTrue
<1>1. dispute' = dispute
  BY DEF CallerStep, CallerProgress, Receive, InsertConfirmation, PostConfirmation,
         RecordConfirmation, RecordOnAttempt, FinalizeConfirmed, CallerCrash, OtherThanConfirm,
         disputeVars
<1>2. CASE InsertConfirmation(c) \/ RecordConfirmation(c)
  <2>1. /\ UNCHANGED <<attempt, aml, journal>> /\ caller[c].pc \in {"insert", "record"}
        /\ ConfirmedTx(c) \in Tx
    BY <1>2, <1>c DEF InsertConfirmation, RecordConfirmation, CallerAt, vars
  <2>2. ASSUME NEW t \in Tx PROVE ConfirmationTrue(t)'
    <3>1. CASE confirmation'[t] = confirmation[t]
      BY <1>c, <3>1, RowsStay
    <3>2. CASE InsertConfirmation(c) /\ confirmation'[t] # confirmation[t]
      <4>1. confirmation'[t].processing = "RECEIVED"
        BY <1>c, <3>2 DEF InsertConfirmation, ServicesTypeOK
      <4> QED
        BY <4>1 DEF ConfirmationTrue
    <3>3. CASE RecordConfirmation(c) /\ confirmation'[t] # confirmation[t]
      <4>1. /\ t = ConfirmedTx(c) /\ caller[c].pc = "record"
            /\ confirmation'[t].processing = caller[c].result
            /\ confirmation'[t].decision = confirmation[t].decision
        BY <1>c, <2>1, <3>3 DEF RecordConfirmation, ServicesTypeOK, CallerAt
      <4> QED
        BY <1>c, <2>1, <4>1 DEF ConfirmationTrue, CallerKnows, HasPosted
    <3> QED
      BY <1>2, <3>1, <3>2, <3>3
  <2> QED
    BY <1>c, <1>1, <2>1, <2>2, RowsStay DEF RowsTrue
<1>3. CASE RecordOnAttempt(c)
  <2>1. /\ UNCHANGED <<confirmation, aml, journal, said>> /\ caller[c].pc = "recordAttempt"
        /\ ConfirmedTx(c) \in Tx
    BY <1>3, <1>c DEF RecordOnAttempt, CallerAt, vars
  <2>2. ASSUME NEW t \in Tx PROVE AttemptTrue(t)'
    <3>1. CASE t # ConfirmedTx(c)
      <4>1. attempt'[t] = attempt[t]
        BY <1>3, <3>1, <1>c DEF RecordOnAttempt
      <4> QED
        BY <1>c, <4>1, RowsStay
    <3>2. CASE t = ConfirmedTx(c)
      <4>1. /\ attempt'[t].confirmation = caller[c].decision
            /\ attempt'[t].posting =
                 IF caller[c].result \in Processed THEN caller[c].result ELSE "BLOCKED"
        BY <1>3, <3>2, <1>c DEF RecordOnAttempt, AttemptType
      <4> QED
        BY <1>c, <2>1, <3>2, <4>1, OpsAndModes
        DEF AttemptTrue, CallerKnows, HasPosted, GivenBack, Processed
    <3> QED
      BY <3>1, <3>2
  <2> QED
    BY <1>c, <1>1, <2>1, <2>2, RowsStay DEF RowsTrue
<1>4. CASE FinalizeConfirmed(c)
  <2>1. /\ UNCHANGED <<confirmation, attempt>> /\ caller[c].pc = "aml" /\ ConfirmedTx(c) \in Tx
        /\ Finalize(ConfirmedTx(c), OutcomeOf(caller[c].decision))
    BY <1>4, <1>c DEF FinalizeConfirmed, CallerAt
  <2>2. /\ OutcomeOf(caller[c].decision) \in Aml!Outcomes
        /\ OutcomeOf(caller[c].decision) # "REVERSED"
        /\ OutcomeOf(caller[c].decision) = "COMPLETED" => HasPosted(ConfirmedTx(c), "TWO_LEG_2")
    BY <1>c, <2>1 DEF OutcomeOf, Aml!Outcomes, CallerKnows, CallerAt
  <2>3. \A t \in Tx : AmlTrue(t)'
    BY <1>c, <2>1, <2>2, FinalizeTrue
  <2> QED
    BY <1>c, <1>1, <2>1, <2>3, RowsStay DEF RowsTrue
<1>5. CASE PostConfirmation(c) \/ CallerCrash(c) \/ \E t \in Tx : Receive(c, t)
  <2>1. UNCHANGED <<confirmation, attempt, aml>>
    BY <1>5 DEF PostConfirmation, CallerCrash, Receive
  <2> QED
    BY <1>c, <1>1, <2>1, RowsStay DEF RowsTrue
<1> QED
  BY <1>2, <1>3, <1>4, <1>5 DEF CallerStep, CallerProgress

LEMMA CallerTells ==
  ASSUME KInv, NEW c \in Caller, CallerStep(c), \A t \in Tx : Grows(t)
  PROVE  HandlersKnow' /\ RowsTrue'
<1>1. UNCHANGED <<worker, desk>>
  BY DEF CallerStep, CallerProgress, Receive, InsertConfirmation, PostConfirmation,
         RecordConfirmation, RecordOnAttempt, FinalizeConfirmed, CallerCrash, OtherThanConfirm,
         disputeVars
<1>2. HandlersKnow /\ ServicesTypeOK /\ HandlersBusy
  BY DEF KInv, PInv, PipelineTypeOK
<1>3. \A w \in Worker : WorkerKnows(w)'
  BY <1>1, <1>2, WorkerStays DEF HandlersKnow, HandlersBusy, WorkerBusy, TxOf
<1>4. \A b \in Caller : CallerKnows(b)'
  <2>1. ASSUME NEW b \in Caller, b # c PROVE CallerKnows(b)'
    <3>1. caller'[b] = caller[b]
      BY <2>1 DEF CallerStep, CallerProgress, Receive, InsertConfirmation, PostConfirmation,
         RecordConfirmation, RecordOnAttempt, FinalizeConfirmed, CallerCrash, CallerGoto, Respond,
         KInv, PInv, PipelineTypeOK, ServicesTypeOK
    <3> QED
      BY <1>2, <3>1, CallerStays, DecisionStays DEF HandlersKnow, HandlersBusy, ConfirmedTx
  <2> QED
    BY <2>1, CallerLearns
<1>5. \A t \in Tx : DeskKnows(t)'
  BY <1>1, <1>2, DeskStays DEF HandlersKnow
<1> QED
  BY <1>3, <1>4, <1>5, CallerRecords DEF HandlersKnow

-----------------------------------------------------------------------------
(* The disputes, the producer, the merchant and the administrators.         *)

LEMMA DeskLearns ==
  ASSUME KInv, NEW t \in Tx, DeskStep(t), \A u \in Tx : Grows(u)
  PROVE  DeskKnows(t)'
<1>d. /\ desk \in [Tx -> DeskType] /\ dispute \in [Tx -> DisputeStatus] /\ TypeOK
      /\ DeskKnows(t) /\ Grows(t) /\ DisputeTrue(t)
      /\ t \in AnyTx
  BY DEF KInv, PInv, PipelineTypeOK, ServicesTypeOK, HandlersKnow, RowsTrue, AnyTx
<1>1. ASSUME Close(t) PROVE DeskKnows(t)'
  BY <1>d, <1>1 DEF Close, IdleDesk, DeskKnows
<1>2. GivenBack(t) => GivenBack(t)'
  BY <1>d, GivenBackStays
<1>3. CASE SubmitDispute(t)
  <2>1. /\ desk'[t].pc \in {"posting", "mode"} /\ desk'[t].result = desk[t].result
        /\ desk'[t].pc = "posting" => dispute[t] = "REVERSED"
        /\ dispute'[t] # "none"
    BY <1>d, <1>3 DEF SubmitDispute, DeskGoto, DeskType
  <2> QED
    BY <1>d, <1>2, <2>1 DEF DeskKnows, DisputeTrue
<1>4. CASE FindMode(t)
  <2>1. /\ desk'[t].pc \in {"record", "reverse"} /\ dispute' = dispute /\ desk[t].pc = "mode"
        /\ desk'[t].pc = "record" => desk'[t].result = "FAILED"
        /\ desk'[t].pc = "reverse" => desk'[t].result = desk[t].result
    BY <1>d, <1>4 DEF FindMode, DeskAt, DeskType
  <2> QED
    BY <1>d, <1>2, <2>1 DEF DeskKnows
<1>5. CASE PostReversal(t)
  <2> DEFINE op == ReverseOf(desk[t].mode)
             r == Outcome(t, op, NoPayload)
  <2>1. /\ op \in ReverseOp /\ op \in Op /\ Post(t, op, NoPayload) /\ dispute' = dispute
        /\ desk[t].pc = "reverse" /\ desk'[t].pc = "record"
        /\ desk'[t].result = ReversalResult(r)
    BY <1>d, <1>5, OpsAndModes
    DEF PostReversal, DeskAt, KInv, PInv, HandlersBusy
  <2>2. /\ ReversalResult(r) = "REVERSED" => r.success
        /\ ReversalResult(r) # "none"
    BY DEF ReversalResult, Accepted
  <2>3. r.success => GivenBack(t)'
    <3> HIDE DEF r
    <3>1. SUFFICES ASSUME r.success PROVE \E o \in ReverseOp : journal'[t][o] # "NONE"
      BY DEF GivenBack, HasPosted
    <3>2. \E o \in ReverseOp : o = op
      BY <2>1
    <3>3. PICK o \in ReverseOp : o = op
      BY <3>2
    <3> QED
      BY <1>d, <2>1, <3>1, <3>3, SuccessMeansPosted DEF HasPosted, r
  <2> HIDE DEF r, op
  <2> QED
    BY <1>d, <2>1, <2>2, <2>3 DEF DeskKnows
<1>6. CASE RecordDispute(t)
  <2>1. CASE desk[t].result # "REVERSED"
    BY <1>1, <1>6, <2>1 DEF RecordDispute
  <2>2. CASE desk[t].result = "REVERSED"
    <3>1. /\ desk'[t].pc = "posting" /\ desk'[t].result = "none" /\ dispute'[t] = "REVERSED"
      BY <1>d, <1>6, <2>2 DEF RecordDispute, IdleDesk
    <3> QED
      BY <1>d, <1>2, <2>2, <3>1 DEF DeskKnows
  <2> QED
    BY <2>1, <2>2
<1>7. CASE MarkReversed(t)
  <2>1. /\ desk'[t].pc = "aml" /\ desk'[t].result = desk[t].result /\ dispute' = dispute
        /\ desk[t].pc = "posting"
    BY <1>d, <1>7 DEF MarkReversed, DeskGoto, DeskAt, DeskType
  <2> QED
    BY <1>d, <1>2, <2>1 DEF DeskKnows
<1>8. CASE FinalizeDispute(t) \/ DeskCrash(t)
  BY <1>1, <1>8 DEF FinalizeDispute, DeskCrash
<1> QED
  BY <1>3, <1>4, <1>5, <1>6, <1>7, <1>8 DEF DeskStep

LEMMA DeskRecords ==
  ASSUME KInv, NEW t \in Tx, DeskStep(t), \A u \in Tx : Grows(u)
  PROVE  RowsTrue'
<1>d. /\ ServicesTypeOK /\ attempt \in [Tx -> AttemptType] /\ dispute \in [Tx -> DisputeStatus]
      /\ DeskKnows(t)
      /\ \A u \in Tx : AttemptTrue(u) /\ ConfirmationTrue(u) /\ DisputeTrue(u) /\ AmlTrue(u)
  BY DEF KInv, PInv, PipelineTypeOK, ServicesTypeOK, HandlersKnow, RowsTrue
<1>1. confirmation' = confirmation
  BY DEF DeskStep, SubmitDispute, FindMode, PostReversal, RecordDispute, MarkReversed,
         FinalizeDispute, DeskCrash, OtherThanDispute, confirmVars
<1>2. GivenBack(t) => GivenBack(t)'
  BY GivenBackStays
<1>3. CASE SubmitDispute(t) \/ RecordDispute(t)
  <2>1. UNCHANGED <<attempt, aml>>
    BY <1>3 DEF SubmitDispute, RecordDispute
  <2>2. ASSUME NEW u \in Tx PROVE DisputeTrue(u)'
    <3>1. CASE dispute'[u] = dispute[u]
      BY <1>d, <3>1, RowsStay
    <3>2. CASE dispute'[u] # dispute[u]
      <4>1. /\ u = t
            /\ \/ dispute'[t] = "REQUESTED"
               \/ dispute'[t] = desk[t].result
        BY <1>d, <1>3, <3>2 DEF SubmitDispute, RecordDispute
      <4> QED
        BY <1>d, <1>2, <4>1 DEF DisputeTrue, DeskKnows
    <3> QED
      BY <3>1, <3>2
  <2> QED
    BY <1>d, <1>1, <2>1, <2>2, RowsStay DEF RowsTrue
<1>4. CASE MarkReversed(t)
  <2>1. /\ UNCHANGED <<dispute, aml>> /\ GivenBack(t)' /\ said' = said
    BY <1>d, <1>2, <1>4 DEF MarkReversed, DeskKnows, DeskAt, OtherThanDispute, merchantVars
  <2>2. ASSUME NEW u \in Tx PROVE AttemptTrue(u)'
    <3>1. CASE attempt'[u] = attempt[u]
      BY <1>d, <3>1, RowsStay
    <3>2. CASE attempt'[u] # attempt[u]
      <4>1. /\ u = t /\ attempt'[u].posting = "REVERSED"
            /\ attempt'[u].confirmation = attempt[u].confirmation
        BY <1>d, <1>4, <3>2 DEF MarkReversed, SetPosting, AttemptType
      <4> QED
        BY <1>d, <2>1, <4>1 DEF AttemptTrue
    <3> QED
      BY <3>1, <3>2
  <2> QED
    BY <1>d, <1>1, <2>1, <2>2, RowsStay DEF RowsTrue
<1>5. CASE FinalizeDispute(t)
  <2>1. UNCHANGED <<dispute, attempt>> /\ Finalize(t, "REVERSED") /\ GivenBack(t)
    BY <1>d, <1>5 DEF FinalizeDispute, DeskKnows, DeskAt
  <2>2. \A u \in Tx : AmlTrue(u)'
    BY <1>d, <2>1, FinalizeTrue DEF Aml!Outcomes
  <2> QED
    BY <1>d, <1>1, <2>1, <2>2, RowsStay DEF RowsTrue
<1>6. CASE FindMode(t) \/ PostReversal(t) \/ DeskCrash(t)
  <2>1. UNCHANGED <<dispute, attempt, aml>>
    BY <1>6 DEF FindMode, PostReversal, DeskCrash
  <2> QED
    BY <1>d, <1>1, <2>1, RowsStay DEF RowsTrue
<1> QED
  BY <1>3, <1>4, <1>5, <1>6 DEF DeskStep

LEMMA DeskTells ==
  ASSUME KInv, NEW t \in Tx, DeskStep(t), \A u \in Tx : Grows(u)
  PROVE  HandlersKnow' /\ RowsTrue'
<1>1. UNCHANGED <<worker, caller, confirmation>>
  BY DEF DeskStep, SubmitDispute, FindMode, PostReversal, RecordDispute, MarkReversed,
         FinalizeDispute, DeskCrash, OtherThanDispute, confirmVars
<1>2. HandlersKnow /\ ServicesTypeOK /\ HandlersBusy
  BY DEF KInv, PInv, PipelineTypeOK
<1>3. \A w \in Worker : WorkerKnows(w)'
  BY <1>1, <1>2, WorkerStays DEF HandlersKnow, HandlersBusy, WorkerBusy, TxOf
<1>4. \A c \in Caller : CallerKnows(c)'
  BY <1>1, <1>2, CallerStays DEF HandlersKnow, HandlersBusy, ConfirmedTx
<1>5. \A u \in Tx : DeskKnows(u)'
  <2>1. \A u \in Tx \ {t} : desk'[u] = desk[u]
    BY <1>2 DEF DeskStep, SubmitDispute, FindMode, PostReversal, RecordDispute, MarkReversed,
         FinalizeDispute, DeskCrash, DeskGoto, Close, ServicesTypeOK
  <2> QED
    BY <1>2, <2>1, DeskStays, DeskLearns DEF HandlersKnow
<1> QED
  BY <1>3, <1>4, <1>5, DeskRecords DEF HandlersKnow

(* A step that leaves handlers and tables alone, but for a new reservation  *)
(* or a released one.                                                       *)
LEMMA OthersTell ==
  ASSUME KInv, \A t \in Tx : Grows(t),
         UNCHANGED <<worker, attempt, caller, confirmation, desk, dispute>>,
         \A t \in Tx : aml'[t] = aml[t] \/ aml'[t] \in {"PENDING", "RELEASED"}
  PROVE  HandlersKnow' /\ RowsTrue'
<1>1. HandlersKnow /\ RowsTrue /\ ServicesTypeOK /\ HandlersBusy
  BY DEF KInv, PInv, PipelineTypeOK
<1>2. \A w \in Worker : WorkerKnows(w)'
  BY <1>1, WorkerStays DEF HandlersKnow, HandlersBusy, WorkerBusy, TxOf
<1>3. \A c \in Caller : CallerKnows(c)'
  BY <1>1, CallerStays DEF HandlersKnow, HandlersBusy, ConfirmedTx
<1>4. \A t \in Tx : DeskKnows(t)'
  BY <1>1, DeskStays DEF HandlersKnow
<1>5. \A t \in Tx : AmlTrue(t)'
  BY <1>1, RowsStay DEF RowsTrue, AmlTrue
<1> QED
  BY <1>1, <1>2, <1>3, <1>4, <1>5, RowsStay DEF HandlersKnow, RowsTrue

LEMMA ProducerTells ==
  ASSUME KInv, NEW t \in Tx, ProducerStep(t), \A u \in Tx : Grows(u)
  PROVE  HandlersKnow' /\ RowsTrue'
<1>1. aml \in [Tx -> Aml!Status]
  BY DEF KInv, PInv, PipelineTypeOK, ServicesTypeOK
<1>2. UNCHANGED <<worker, attempt, caller, confirmation, desk, dispute>>
  BY DEF ProducerStep, CheckFails, ReserveAml, BypassAml, UpdateRequest, SendMessage,
         SubmissionFails, ReleaseAml, FailRequest, ProducerCrash, OtherThanProducer, workVars,
         confirmVars, disputeVars
<1>3. \A u \in Tx : aml'[u] = aml[u] \/ aml'[u] \in {"PENDING", "RELEASED"}
  BY <1>1 DEF ProducerStep, CheckFails, ReserveAml, BypassAml, UpdateRequest, SendMessage,
         SubmissionFails, ReleaseAml, FailRequest, ProducerCrash, Aml!Reserve, Finalize,
         Aml!Finalize, Aml!Finalized
<1> QED
  BY <1>2, <1>3, OthersTell

(* Whoever posts a second leg or a reversal knows the word it posts it on.  *)
LEMMA MoneyLearns ==
  ASSUME KInv, [PipelineNext]_pipelineVars, NEW t \in Tx, Grows(t)
  PROVE  MoneyFollows(t)'
<1> DEFINE New(op) == journal'[t][op] # "NONE" /\ journal[t][op] = "NONE"
           Founded == /\ New("TWO_LEG_2") => "APPROVED" \in said[t]
                      /\ New("TWO_LEG_REVERSE") => "REJECTED" \in said[t] \/ dispute[t] # "none"
                      /\ New("DIRECT_REVERSE") => dispute[t] # "none"
<1>i. PInv /\ TypeOK /\ HandlersKnow /\ t \in AnyTx
  BY DEF KInv, PInv, PipelineTypeOK, AnyTx
<1>o. {"TWO_LEG_2", "TWO_LEG_REVERSE", "DIRECT_REVERSE"} \subseteq Op
  BY DEF Op, PostOp, ReverseOp
<1>1. ASSUME NEW w \in Worker, WorkerPosts(w) PROVE Founded
  <2>1. PICK op \in Op :
              /\ Post(TxOf(w), op, Amounts(TxOf(w), op))
              /\ op = "TWO_LEG_2" => Holds(w, "settle")
              /\ op = "TWO_LEG_REVERSE" => Holds(w, "reject")
              /\ op # "DIRECT_REVERSE"
    BY <1>1, <1>i, WorkerPost
  <2>2. worker[w].pc # "idle" /\ TxOf(w) \in AnyTx /\ WorkerKnows(w)
    BY <1>1, <1>i, WorkerPost DEF HandlersKnow, AnyTx
  <2>3. \A o \in Op : New(o) => TxOf(w) = t /\ o = op
    BY <1>i, <2>1, <2>2, PostEffect
  <2> QED
    BY <1>o, <2>1, <2>2, <2>3 DEF WorkerKnows
<1>2. ASSUME NEW c \in Caller, PostConfirmation(c) PROVE Founded
  <2>1. PICK op \in Op :
              /\ Post(ConfirmedTx(c), op, Amounts(ConfirmedTx(c), op))
              /\ op = DecisionOp(caller[c].decision)
    BY <1>2, <1>i, CallerPost
  <2>2. caller[c].pc # "idle" /\ ConfirmedTx(c) \in Tx /\ ConfirmedTx(c) \in AnyTx /\ CallerKnows(c)
    BY <1>2, <1>i, CallerPost DEF HandlersKnow, AnyTx
  <2>3. \A o \in Op : New(o) => ConfirmedTx(c) = t /\ o = op
    BY <1>i, <2>1, <2>2, PostEffect
  <2>4. caller[c].decision \in Decision
    BY <2>2 DEF CallerKnows, KInv, PInv, PipelineTypeOK, ServicesTypeOK
  <2> QED
    BY <1>o, <2>1, <2>2, <2>3, <2>4 DEF CallerKnows, DecisionOp, Decision
<1>3. ASSUME NEW u \in Tx, PostReversal(u) PROVE Founded
  <2>1. PICK op \in ReverseOp : Post(u, op, NoPayload)
    BY <1>3, <1>i, DeskPost
  <2>2. u \in AnyTx /\ op \in Op /\ dispute[u] # "none"
    BY <1>3, <1>i, OpsAndModes DEF PostReversal, DeskAt, HandlersKnow, DeskKnows, AnyTx
  <2>3. \A o \in Op : New(o) => u = t /\ o = op
    BY <1>i, <2>1, <2>2, PostEffect
  <2> QED
    BY <1>o, <2>1, <2>2, <2>3 DEF ReverseOp
<1>4. ASSUME journal'[t] = journal[t] PROVE Founded
  BY <1>4
<1>5. Founded
  <2> HIDE DEF Founded
  <2>1. ASSUME NEW u \in Tx, ProducerStep(u) PROVE journal' = journal
    BY <2>1 DEF ProducerStep, CheckFails, ReserveAml, BypassAml, UpdateRequest, SendMessage,
         SubmissionFails, ReleaseAml, FailRequest, ProducerCrash, vars, MarkTransactionFailed
  <2>2. ASSUME NEW w \in Worker, WorkerStep(w), ~WorkerPosts(w) PROVE journal' = journal
    BY <2>2 DEF WorkerStep, WorkerProgress, WorkerPosts, Deliver, Acknowledge, WorkerCrash,
         LookUpAttempt, MarkPending, SendToMerchant, DispatchedToKafka, HearDecision, HearNothing,
         Hear, SaveDecision, SavePosting, FinalizeAml, vars
  <2>3. ASSUME NEW c \in Caller, CallerStep(c), ~PostConfirmation(c) PROVE journal' = journal
    BY <2>3 DEF CallerStep, CallerProgress, Receive, InsertConfirmation, RecordConfirmation,
         RecordOnAttempt, FinalizeConfirmed, CallerCrash, vars
  <2>4. ASSUME NEW u \in Tx, DeskStep(u), ~PostReversal(u) PROVE journal' = journal
    BY <2>4 DEF DeskStep, SubmitDispute, FindMode, RecordDispute, MarkReversed, FinalizeDispute,
         DeskCrash, vars
  <2>5. CASE OutsideStep
    <3>1. journal'[t] = journal[t]
      BY <1>i, <2>5, RequestAssumption
      DEF OutsideStep, MerchantDecides, FlipProfile, CreateRefund, RefundStep, MerchantRefund,
          ChangeStatus, StatusStep, ChangeWalletStatus, vars, TypeOK
    <3> QED
      BY <1>4, <3>1
  <2>6. CASE UNCHANGED pipelineVars
    BY <1>4, <2>6 DEF pipelineVars, vars
  <2> QED
    BY <1>1, <1>2, <1>3, <1>4, <2>1, <2>2, <2>3, <2>4, <2>5, <2>6 DEF PipelineNext, OutsideStep
<1>6. MoneyFollows(t)
  BY DEF KInv
<1> QED
  BY <1>5, <1>6 DEF MoneyFollows, HasPosted, Grows

LEMMA KInductive == KInv /\ [PipelineNext]_pipelineVars => KInv'
<1> SUFFICES ASSUME KInv, [PipelineNext]_pipelineVars PROVE KInv'
  OBVIOUS
<1>1. PInv' /\ IInv'
  BY PInductive, MoneyStep, StepInv DEF KInv
<1>2. \A t \in Tx : Grows(t) /\ MoneyFollows(t)'
  BY StepGrows, MoneyLearns
<1>3. HandlersKnow' /\ RowsTrue'
  <2>1. CASE OutsideStep
    <3>1. UNCHANGED <<worker, attempt, caller, confirmation, desk, dispute, aml>>
      BY <2>1 DEF OutsideStep, MerchantDecides, FlipProfile, CreateRefund, ChangeStatus, NotMoney,
         workVars, confirmVars, disputeVars
    <3> QED
      BY <1>2, <3>1, OthersTell
  <2>2. CASE UNCHANGED pipelineVars
    <3>1. UNCHANGED <<worker, attempt, caller, confirmation, desk, dispute, aml>>
      BY <2>2 DEF pipelineVars, workVars, confirmVars, disputeVars
    <3> QED
      BY <1>2, <3>1, OthersTell
  <2> QED
    BY <1>2, <2>1, <2>2, ProducerTells, WorkerTells, CallerTells, DeskTells
    DEF PipelineNext, OutsideStep
<1> QED
  BY <1>1, <1>2, <1>3 DEF KInv

LEMMA KInitially == PipelineInit => KInv
<1> SUFFICES ASSUME PipelineInit PROVE KInv
  OBVIOUS
<1>1. PInv /\ IInv
  BY PInitially, InitInv DEF PipelineInit
<1>2. HandlersKnow
  BY DEF PipelineInit, HandlersKnow, WorkerKnows, CallerKnows, DeskKnows, IdleWorker, IdleCaller,
         IdleDesk
<1>3. RowsTrue /\ \A t \in Tx : MoneyFollows(t)
  BY DEF PipelineInit, Init, RowsTrue, AttemptTrue, ConfirmationTrue, DisputeTrue, AmlTrue,
         MoneyFollows, HasPosted, NoAttempt, NoConfirmation, Decision, AnyTx, Op, PostOp, ReverseOp
<1> QED
  BY <1>1, <1>2, <1>3 DEF KInv

LEMMA KInvariant == PipelineSpec => []KInv
BY KInductive, KInitially, PTL DEF PipelineSpec

(* Money leaves the reserve, and comes back, only on the merchant's or a    *)
(* disputant's word, however many handlers are at work on the payment.      *)
THEOREM MoneyMovesOnWord == PipelineSpec => []MoneyFollowsDecision
<1>1. KInv => MoneyFollowsDecision
  BY DEF KInv, MoneyFollows, MoneyFollowsDecision
<1> QED
  BY <1>1, KInvariant, PTL

(* What the attempt, confirmation and dispute tables report has happened.   *)
THEOREM RecordsAreTrue == PipelineSpec => []RecordsTruthful
<1>1. KInv => RecordsTruthful
  BY DEF KInv, RowsTrue, AttemptTrue, ConfirmationTrue, DisputeTrue, RecordsTruthful
<1> QED
  BY <1>1, KInvariant, PTL

(* AML usage is counted only for payments made, and given back only for     *)
(* payments given back.                                                     *)
THEOREM AmlNeverAhead == PipelineSpec => []AmlBehindLedger
<1>1. KInv => AmlBehindLedger
  BY DEF KInv, RowsTrue, AmlTrue, AmlBehindLedger
<1> QED
  BY <1>1, KInvariant, PTL

-----------------------------------------------------------------------------
(* Retries.  A payment that competes with no other: what the first leg can  *)
(* take from a wallet no other payment reaches, nobody disputes or edits,   *)
(* and neither the merchant nor the broker contradicts itself.  Consumers,  *)
(* callbacks, crashes, deliveries and suspended wallets are as before.      *)
FirstDebit(t, op) ==
  [w \in Wallet |-> At(w, Request[t].source, Message[t].sourceDebit)
                  + (IF op = "DIRECT_1" THEN At(w, CommissionWallet, Message[t].commissionDebit) ELSE 0)]
Drawn(t)   == {w \in Wallet : FirstDebit(t, "DIRECT_1")[w] > 0}
Reached(t) == {Request[t].source, Request[t].destination, ChargeWallet, CommissionWallet, TempWallet}

Undisturbed ==
  /\ MaxDispute = 0 /\ MaxFlip = 0 /\ ~LostReply /\ ~FickleMerchant
  /\ \A t, u \in Tx : t # u => Drawn(t) \cap Reached(u) = {}

(* Whether the first leg can be paid does not depend on when it is tried.   *)
Payable(t, op) ==
  /\ Request[t].valid /\ Message[t].matches /\ Balanced(op, Message[t])
  /\ \A w \in Wallet : FirstDebit(t, op)[w] <= InitialAmount[w]

Fresh(t) == \A op \in FirstLeg : journal[t][op] = "NONE"

(* While nothing was posted of a payment, its wallet is as it was.          *)
Empty(w, u) == \A op \in Op : debit[u][op][w] = 0 /\ credit[u][op][w] = 0

Unspent ==
  \A t \in Tx :
    /\ request[t] # "absent"
    /\ Fresh(t) => \A w \in Drawn(t) : amount[w] = InitialAmount[w] /\ \A u \in AnyTx : Empty(w, u)

PaidOnlyPayable == \A t \in Tx, op \in FirstLeg : HasPosted(t, op) => Payable(t, op)

LEMMA MessageType == \A t \in Tx : Message[t] \in PayloadType
BY PipelineAssumption, RequestAssumption

LEMMA FirstDebits ==
  ASSUME NEW t \in Tx
  PROVE  /\ \A op \in FirstLeg : DebitLines(t, op, Message[t]) = FirstDebit(t, op)
         /\ \A op \in FirstLeg : FirstDebit(t, op) \in [Wallet -> Nat]
         /\ \A w \in Wallet : FirstDebit(t, "TWO_LEG_1")[w] <= FirstDebit(t, "DIRECT_1")[w]
<1>1. Message[t].sourceDebit \in Nat /\ Message[t].commissionDebit \in Nat
  BY MessageType DEF PayloadType
<1>2. \A w, x : \A n \in Nat : At(w, x, n) \in Nat
  BY DEF At
<1>3. \A n \in Nat : n + 0 = n
  OBVIOUS
<1>4. \A op \in FirstLeg : FirstDebit(t, op) \in [Wallet -> Nat]
  BY <1>1, <1>2 DEF FirstLeg, FirstDebit
<1>5. DebitLines(t, "DIRECT_1", Message[t]) = FirstDebit(t, "DIRECT_1")
  BY DEF DebitLines, FirstDebit
<1>6. DebitLines(t, "TWO_LEG_1", Message[t]) = FirstDebit(t, "TWO_LEG_1")
  BY <1>1, <1>2, <1>3 DEF DebitLines, FirstDebit
<1>7. \A w \in Wallet : FirstDebit(t, "TWO_LEG_1")[w] <= FirstDebit(t, "DIRECT_1")[w]
  BY <1>1, <1>2 DEF FirstDebit
<1> QED
  BY <1>4, <1>5, <1>6, <1>7 DEF FirstLeg

(* A wallet that a payment does not reach, and from which nothing was       *)
(* booked, keeps its money.                                                 *)
LEMMA LinesElsewhere ==
  ASSUME TypeOK, NEW u \in Tx, NEW op \in Op, NEW p \in PayloadType, NEW w \in Wallet,
         w \notin Reached(u), Empty(w, u)
  PROVE  DebitLines(u, op, p)[w] = 0 /\ CreditLines(u, op, p)[w] = 0
<1>1. \A n \in Nat, x \in Reached(u) : At(w, x, n) = 0
  BY DEF At
<1>2. p.sourceDebit \in Nat /\ p.destinationCredit \in Nat /\ p.chargeCredit \in Nat /\ p.commissionDebit \in Nat
      /\ p.sourceCommission \in Nat /\ p.destinationCommission \in Nat
  BY DEF PayloadType
<1>3. CASE op \in PostOp
  BY <1>1, <1>2, <1>3 DEF PostOp, Reached, DebitLines, CreditLines, FinalCredit
<1>4. CASE op \in ReverseOp
  <2>1. \A o \in PostOp : Standing(debit, u, o, w) = 0 /\ Standing(credit, u, o, w) = 0
    BY DEF Standing, Empty, Op
  <2>2. \A m : StandingOf(debit, u, m)[w] = 0 /\ StandingOf(credit, u, m)[w] = 0
    BY <2>1 DEF StandingOf, StandingDirect, StandingTwoLeg, PostOp
  <2> QED
    BY <1>4, <2>2 DEF ReverseOp, DebitLines, CreditLines
<1> QED
  BY <1>3, <1>4 DEF Op

LEMMA CommitElsewhere ==
  ASSUME TypeOK, NEW u \in Tx, NEW op \in Op, NEW p \in PayloadType, Commit(u, op, p), NEW w \in Wallet,
         w \notin Reached(u), \A v \in AnyTx : Empty(w, v)
  PROVE  amount'[w] = amount[w] /\ \A v \in AnyTx : Empty(w, v)'
<1> DEFINE e == Effective(u, op, p)
           d == DebitLines(u, op, e)
           c == CreditLines(u, op, e)
<1>1. /\ u \in AnyTx /\ e \in PayloadType /\ d \in [Wallet -> Nat] /\ c \in [Wallet -> Nat] /\ Move(d, c)
      /\ debit' = [debit EXCEPT ![u][op] = d] /\ credit' = [credit EXCEPT ![u][op] = c]
  BY CommitEffect DEF AnyTx
<1>2. d[w] = 0 /\ c[w] = 0
  BY <1>1, LinesElsewhere
<1> HIDE DEF e, d, c
<1>3. amount'[w] = amount[w]
  BY <1>1, <1>2 DEF Move, TypeOK
<1>4. ASSUME NEW v \in AnyTx PROVE Empty(w, v)'
  <2>1. ASSUME NEW o \in Op PROVE debit'[v][o][w] = 0 /\ credit'[v][o][w] = 0
    <3>1. debit[v][o][w] = 0 /\ credit[v][o][w] = 0
      BY DEF Empty
    <3>2. CASE v = u /\ o = op
      BY <1>1, <1>2, <3>2 DEF TypeOK
    <3>3. CASE ~(v = u /\ o = op)
      BY <1>1, <3>1, <3>3 DEF TypeOK
    <3> QED
      BY <3>2, <3>3
  <2> QED
    BY <2>1 DEF Empty
<1> QED
  BY <1>3, <1>4

LEMMA RefundElsewhere ==
  ASSUME TypeOK, NEW u \in AnyTx, NEW r \in RefundTx, MerchantRefund(u, r), NEW w \in Wallet,
         \A v \in AnyTx : Empty(w, v)
  PROVE  amount'[w] = amount[w] /\ \A v \in AnyTx : Empty(w, v)'
<1> DEFINE d == RefundLines(u, credit)
           c == RefundLines(u, debit)
<1>1. /\ r \in AnyTx /\ "DIRECT_1" \in Op /\ d \in [Wallet -> Nat] /\ c \in [Wallet -> Nat] /\ Move(d, c)
      /\ debit' = [debit EXCEPT ![r]["DIRECT_1"] = d] /\ credit' = [credit EXCEPT ![r]["DIRECT_1"] = c]
  BY RefundLinesType DEF AnyTx, MerchantRefund, Op, PostOp
<1>2. d[w] = 0 /\ c[w] = 0
  BY DEF RefundLines, Refundable, Empty, Op, PostOp
<1> HIDE DEF d, c
<1>3. amount'[w] = amount[w]
  BY <1>1, <1>2 DEF Move, TypeOK
<1>4. ASSUME NEW v \in AnyTx PROVE Empty(w, v)'
  <2>1. ASSUME NEW o \in Op PROVE debit'[v][o][w] = 0 /\ credit'[v][o][w] = 0
    <3>1. debit[v][o][w] = 0 /\ credit[v][o][w] = 0
      BY DEF Empty
    <3>2. CASE v = r /\ o = "DIRECT_1"
      BY <1>1, <1>2, <3>2 DEF TypeOK
    <3>3. CASE ~(v = r /\ o = "DIRECT_1")
      BY <1>1, <3>1, <3>3 DEF TypeOK
    <3> QED
      BY <3>2, <3>3
  <2> QED
    BY <2>1 DEF Empty
<1> QED
  BY <1>3, <1>4

(* Only a first leg is posted to a payment that has none.                   *)
LEMMA FreshFirst ==
  ASSUME IInv, NEW t \in Tx, NEW op \in Op, NEW p, Commit(t, op, p), Fresh(t)
  PROVE  op \in FirstLeg /\ ~Fresh(t)'
<1>1. t \in AnyTx /\ journal[t]["DIRECT_1"] = "NONE" /\ journal[t]["TWO_LEG_1"] = "NONE"
  BY DEF AnyTx, Fresh, FirstLeg
<1>2. journal[t]["TWO_LEG_2"] # "COMPLETED"
  BY <1>1 DEF IInv, LegsAgree
<1>3. journal[t]["TWO_LEG_2"] \in {"NONE", "REVERSED"}
  BY <1>1, <1>2 DEF IInv, StatusShape
<1>4. \A m \in {"DIRECT", "TWO_LEG"} : \A o \in PostsOf(m) : ~InForce(t, o)
  BY <1>1, <1>3 DEF PostsOf, InForce, InForceStatus
<1>5. op \in FirstLeg
  BY <1>1, <1>4, CommitGuards DEF Op, PostOp, ReverseOp, FirstLeg, ModeOf
<1>6. journal' = [journal EXCEPT ![t] = JournalAfter(t, op)] /\ JournalAfter(t, op)[op] # "NONE"
  BY DEF Commit, Write, JournalAfter
<1> QED
  BY <1>1, <1>5, <1>6 DEF Fresh, IInv, TypeOK

(* A first leg that is posted could be paid, and one that is refused for    *)
(* good could not.                                                          *)
LEMMA PostedIsPayable ==
  ASSUME IInv, Unspent, NEW t \in Tx, NEW op \in FirstLeg, Commit(t, op, Message[t]), Fresh(t)
  PROVE  Payable(t, op)
<1>1. t \in AnyTx /\ op \in Op /\ op \notin ReverseOp /\ op # "TWO_LEG_2"
  BY DEF AnyTx, FirstLeg, Op, PostOp, ReverseOp
<1>2. /\ Request[t].valid /\ Message[t].matches
      /\ Balanced(op, Message[t]) /\ \A w \in Wallet : FirstDebit(t, op)[w] > 0 => amount[w] >= FirstDebit(t, op)[w]
  <2>1. Outcome(t, op, Message[t]).success /\ journal[t][op] = "NONE"
    BY DEF Commit
  <2>2. Request[t].valid /\ Message[t].matches
    BY <2>1 DEF Outcome, Refuse
  <2>3. Balanced(op, Message[t]) /\ Covered(op, DebitLines(t, op, Message[t]), CreditLines(t, op, Message[t]))
    BY <1>1, CommitGuards DEF Effective
  <2>4. FirstDebit(t, op) \in [Wallet -> Nat] /\ amount \in [Wallet -> Int]
    BY FirstDebits DEF IInv, TypeOK
  <2> QED
    BY <1>1, <2>2, <2>3, <2>4, FirstDebits DEF Covered
<1>3. ASSUME NEW w \in Wallet PROVE FirstDebit(t, op)[w] <= InitialAmount[w]
  <2>1. FirstDebit(t, op)[w] \in Nat /\ FirstDebit(t, "DIRECT_1")[w] \in Nat /\ InitialAmount[w] \in Nat
        /\ FirstDebit(t, op)[w] <= FirstDebit(t, "DIRECT_1")[w]
    BY FirstDebits, WalletAssumption DEF FirstLeg
  <2>2. FirstDebit(t, op)[w] > 0 => w \in Drawn(t)
    BY <2>1 DEF Drawn
  <2>3. w \in Drawn(t) => amount[w] = InitialAmount[w]
    BY DEF Unspent
  <2> QED
    BY <1>2, <2>1, <2>2, <2>3
<1> QED
  BY <1>2, <1>3 DEF Payable

LEMMA RefusedIsUnpayable ==
  ASSUME IInv, Unspent, NEW t \in Tx, NEW op \in FirstLeg, Fresh(t),
         ~Outcome(t, op, Message[t]).success, ~Retryable(Outcome(t, op, Message[t]))
  PROVE  ~Payable(t, op)
<1>1. /\ t \in AnyTx /\ op \in Op /\ op \notin ReverseOp /\ op # "TWO_LEG_2"
      /\ journal[t][op] = "NONE" /\ request[t] # "absent"
  BY DEF AnyTx, FirstLeg, Op, PostOp, ReverseOp, Fresh, Unspent
<1> SUFFICES ASSUME Payable(t, op) PROVE FALSE
  OBVIOUS
<1>2. Outcome(t, op, Message[t]) = Funding(t, op, Message[t])
  BY <1>1 DEF Outcome, Payable, Effective
<1>3. Covered(op, DebitLines(t, op, Message[t]), CreditLines(t, op, Message[t]))
  <2>1. ASSUME NEW w \in Wallet, FirstDebit(t, op)[w] > 0 PROVE amount[w] + 0 >= FirstDebit(t, op)[w]
    <3>1. FirstDebit(t, op)[w] \in Nat /\ FirstDebit(t, "DIRECT_1")[w] \in Nat /\ InitialAmount[w] \in Nat
          /\ FirstDebit(t, op)[w] <= FirstDebit(t, "DIRECT_1")[w]
      BY FirstDebits, WalletAssumption DEF FirstLeg
    <3>2. w \in Drawn(t)
      BY <2>1, <3>1 DEF Drawn
    <3> QED
      BY <2>1, <3>1, <3>2 DEF Unspent, Payable
  <2> QED
    BY <1>1, <2>1, FirstDebits DEF Covered
<1>4. Outcome(t, op, Message[t]).code = "WALLET_NOT_AVAILABLE" \/ Outcome(t, op, Message[t]).success
  BY <1>2, <1>3 DEF Funding, Payable, Refuse, Accept
<1> QED
  BY <1>4 DEF Retryable, RetryableCodes

LegInUse == IF special THEN "TWO_LEG_1" ELSE "DIRECT_1"

NoDispute == \A t \in Tx : dispute[t] = "none" /\ aml[t] # "REVERSED"

(* The merchant's profile decides one way for all.                          *)
OneWay ==
  IF special
  THEN /\ \A t \in Tx : ~HasPosted(t, "DIRECT_1")
       /\ \A w \in Worker : ~Holds(w, "direct")
  ELSE /\ \A t \in Tx : ~HasPosted(t, "TWO_LEG_1") /\ ~HasAttempt(t) /\ said[t] = {}
       /\ \A w \in Worker : worker[w].pc \in {"idle", "direct", "complete", "release", "ack"}
       /\ \A c \in Caller : CallerAt(c, "idle")

(* All that the merchant said of a payment is what it decided.              *)
OneWord == \A t \in Tx : said[t] \subseteq {decided[t]}

(* What is known of a payment whose message is not in the topic: nothing.   *)
NotSent(t) ==
  /\ t \notin topic
  /\ \A op \in Op : ~HasPosted(t, op)
  /\ ~HasAttempt(t)
  /\ \A w \in Worker : worker[w].pc # "idle" => worker[w].tx # t
  /\ \A c \in Caller : caller[c].pc # "idle" => caller[c].tx # t

SentLast == \A t \in Tx : producer[t] # "done" => NotSent(t)

(* A payment that will never be made.                                       *)
Lost(t) == ~Payable(t, LegInUse) \/ "REJECTED" \in said[t]

LostReleases == \A w \in Worker : Holds(w, "release") => Lost(TxOf(w))

ReleasedRightly ==
  \A t \in Tx : aml[t] = "RELEASED" => (producer[t] \in {"fail", "done"} /\ NotSent(t)) \/ Lost(t)

RetryInv ==
  KInv /\ Unspent /\ PaidOnlyPayable /\ NoDispute /\ OneWay /\ OneWord /\ SentLast /\ LostReleases
  /\ ReleasedRightly

(* The steps that are left.                                                 *)
LEMMA NoDeskStep ==
  ASSUME Undisturbed, KInv, NoDispute, NEW t \in Tx
  PROVE  ~DeskStep(t)
<1>1. desk[t].pc = "idle" /\ submissions[t] \in 0..0
  BY DEF KInv, HandlersKnow, DeskKnows, NoDispute, PInv, PipelineTypeOK, ServicesTypeOK, Undisturbed
<1> QED
  BY <1>1 DEF DeskStep, SubmitDispute, FindMode, PostReversal, RecordDispute, MarkReversed, FinalizeDispute,
     DeskCrash, DeskAt, Undisturbed

LEMMA NoFlip ==
  ASSUME Undisturbed, KInv
  PROVE  ~FlipProfile
<1>1. flips \in 0..0
  BY DEF KInv, PInv, PipelineTypeOK, ServicesTypeOK, Undisturbed
<1> QED
  BY <1>1 DEF FlipProfile, Undisturbed

OtherStep == (\E t \in Tx : MerchantDecides(t)) \/ CreateRefund \/ ChangeStatus \/ UNCHANGED pipelineVars

LEMMA StepsLeft ==
  ASSUME Undisturbed, KInv, NoDispute, [PipelineNext]_pipelineVars
  PROVE  \/ \E t \in Tx : ProducerStep(t)
         \/ \E w \in Worker : WorkerStep(w)
         \/ \E c \in Caller : CallerStep(c)
         \/ OtherStep
BY NoDeskStep, NoFlip DEF PipelineNext, OtherStep

(* What they leave alone.                                                   *)
LEMMA ProducerLeaves ==
  ASSUME NEW t \in Tx, ProducerStep(t)
  PROVE  UNCHANGED <<special, worker, attempt, decided, said, caller, confirmation, dispute>>
         /\ UNCHANGED <<amount, journal, debit, credit>>
BY DEF ProducerStep, CheckFails, ReserveAml, BypassAml, UpdateRequest, SendMessage, SubmissionFails, ReleaseAml,
       FailRequest, ProducerCrash, OtherThanProducer, workVars, merchantVars, confirmVars, disputeVars, vars,
       MarkTransactionFailed

LEMMA WorkerLeaves ==
  ASSUME NEW w \in Worker, WorkerStep(w)
  PROVE  /\ UNCHANGED <<producer, special, decided, caller, confirmation, dispute>> /\ topic' \subseteq topic
         /\ (~WorkerPosts(w) => UNCHANGED vars) /\ (~FinalizeAml(w) => UNCHANGED aml)
         /\ (~HearDecision(w) => UNCHANGED said)
         /\ (~(MarkPending(w) \/ SaveDecision(w) \/ SavePosting(w)) => UNCHANGED attempt)
BY DEF WorkerStep, WorkerProgress, WorkerPosts, Deliver, Acknowledge, WorkerCrash, PostDirect, PostReserve,
       PostSettle, PostReject, PostCall, LookUpAttempt, MarkPending, SendToMerchant, DispatchedToKafka, HearDecision,
       HearNothing, Hear, SaveDecision, SavePosting, FinalizeAml, OtherThanWork, confirmVars, disputeVars

LEMMA CallerLeaves ==
  ASSUME NEW c \in Caller, CallerStep(c)
  PROVE  /\ UNCHANGED <<producer, special, decided, worker, topic, dispute>>
         /\ (~PostConfirmation(c) => UNCHANGED vars) /\ (~FinalizeConfirmed(c) => UNCHANGED aml)
         /\ (~(\E t \in Tx : Receive(c, t)) => UNCHANGED said) /\ (~RecordOnAttempt(c) => UNCHANGED attempt)
BY DEF CallerStep, CallerProgress, Receive, InsertConfirmation, PostConfirmation, RecordConfirmation,
       RecordOnAttempt, FinalizeConfirmed, CallerCrash, OtherThanConfirm, disputeVars

LEMMA OthersLeave ==
  ASSUME OtherStep
  PROVE  /\ UNCHANGED <<producer, aml, topic, special, worker, attempt, said, caller, confirmation, dispute>>
         /\ (~(\E t \in Tx : MerchantDecides(t)) => UNCHANGED decided)
         /\ (~CreateRefund => UNCHANGED <<amount, journal, debit, credit, request>>)
BY DEF OtherStep, MerchantDecides, CreateRefund, ChangeStatus, StatusStep, ChangeWalletStatus, NotMoney, workVars,
       merchantVars, confirmVars, disputeVars, pipelineVars, vars

LEMMA StillUndisputed ==
  ASSUME Undisturbed, RetryInv, [PipelineNext]_pipelineVars
  PROVE  special' = special /\ dispute' = dispute
BY StepsLeft, ProducerLeaves, WorkerLeaves, CallerLeaves, OthersLeave DEF RetryInv

LEMMA StepNoDispute ==
  ASSUME Undisturbed, RetryInv, [PipelineNext]_pipelineVars
  PROVE  NoDispute'
<1>1. aml \in [Tx -> Aml!Status] /\ KInv /\ NoDispute
  BY DEF RetryInv, KInv, PInv, PipelineTypeOK, ServicesTypeOK
<1>2. ASSUME NEW u, NEW outcome \in {"COMPLETED", "RELEASED"}, Finalize(u, outcome), NEW t \in Tx
      PROVE  aml'[t] # "REVERSED"
  BY <1>1, <1>2 DEF Finalize, Aml!Finalize, Aml!Finalized, NoDispute
<1>3. ASSUME NEW t \in Tx PROVE aml'[t] # "REVERSED"
  <2>1. ASSUME aml' = aml PROVE aml'[t] # "REVERSED"
    BY <1>1, <2>1 DEF NoDispute
  <2>2. ASSUME NEW u \in Tx, ProducerStep(u) PROVE aml'[t] # "REVERSED"
    <3>1. CASE ReserveAml(u)
      BY <1>1, <3>1 DEF ReserveAml, Aml!Reserve, NoDispute
    <3>2. CASE ReleaseAml(u)
      BY <1>2, <2>1, <3>2 DEF ReleaseAml
    <3> QED
      BY <2>1, <2>2, <3>1, <3>2 DEF ProducerStep, CheckFails, BypassAml, UpdateRequest, SendMessage,
         SubmissionFails, FailRequest, ProducerCrash
  <2>3. ASSUME NEW w \in Worker, WorkerStep(w) PROVE aml'[t] # "REVERSED"
    BY <1>2, <2>1, <2>3, WorkerLeaves DEF FinalizeAml
  <2>4. ASSUME NEW c \in Caller, CallerStep(c) PROVE aml'[t] # "REVERSED"
    BY <1>2, <2>1, <2>4, CallerLeaves DEF FinalizeConfirmed, OutcomeOf
  <2> QED
    BY <1>1, <2>1, <2>2, <2>3, <2>4, StepsLeft, OthersLeave
<1> QED
  BY <1>1, <1>3, StillUndisputed DEF NoDispute

LEMMA StepOneWord ==
  ASSUME Undisturbed, RetryInv, [PipelineNext]_pipelineVars
  PROVE  OneWord'
<1>1. said \in [Tx -> SUBSET Decision] /\ decided \in [Tx -> Decision \cup {"none"}] /\ KInv /\ NoDispute /\ OneWord
      /\ "none" \notin Decision
  BY DEF RetryInv, KInv, PInv, PipelineTypeOK, ServicesTypeOK, Decision
<1>2. ASSUME UNCHANGED <<said, decided>> PROVE OneWord'
  BY <1>1, <1>2 DEF OneWord
<1>3. ASSUME NEW w \in Worker, WorkerStep(w) PROVE OneWord'
  <2>1. CASE HearDecision(w)
    BY <1>1, <1>3, <2>1, WorkerLeaves DEF HearDecision, OneWord
  <2> QED
    BY <1>2, <1>3, <2>1, WorkerLeaves
<1>4. ASSUME NEW c \in Caller, CallerStep(c) PROVE OneWord'
  <2>1. ASSUME NEW t \in Tx, Receive(c, t) PROVE OneWord'
    BY <1>1, <1>4, <2>1, CallerLeaves DEF Receive, OneWord
  <2> QED
    BY <1>2, <1>4, <2>1, CallerLeaves
<1>5. ASSUME NEW t \in Tx, MerchantDecides(t) PROVE OneWord'
  <2>1. said[t] = {} /\ said' = said /\ \A u \in Tx \ {t} : decided'[u] = decided[u]
    BY <1>1, <1>5 DEF MerchantDecides, Undisturbed, OneWord, merchantVars
  <2> QED
    BY <1>1, <2>1 DEF OneWord
<1> QED
  BY <1>1, <1>2, <1>3, <1>4, <1>5, StepsLeft, ProducerLeaves, OthersLeave DEF OtherStep

(* How money may still move.                                                *)
LEMMA MoneyCases ==
  ASSUME Undisturbed, RetryInv, [PipelineNext]_pipelineVars
  PROVE  \/ UNCHANGED <<amount, journal, debit, credit>>
         \/ \E t \in Tx, op \in Op :
              /\ Commit(t, op, Amounts(t, op))
              /\ op = "DIRECT_1" => ~special
              /\ op = "TWO_LEG_1" => special
         \/ \E t \in AnyTx, r \in RefundTx : MerchantRefund(t, r)
<1>1. PInv /\ OneWay
  BY DEF RetryInv, KInv
<1>2. ASSUME NEW t \in Tx, NEW op \in Op, Post(t, op, Amounts(t, op)),
             op = "DIRECT_1" => ~special, op = "TWO_LEG_1" => special
      PROVE  \/ UNCHANGED <<amount, journal, debit, credit>>
             \/ \E u \in Tx, o \in Op : /\ Commit(u, o, Amounts(u, o))
                                        /\ o = "DIRECT_1" => ~special
                                        /\ o = "TWO_LEG_1" => special
  BY <1>2 DEF Post, Decline
<1>3. ASSUME NEW w \in Worker, WorkerPosts(w)
      PROVE  \E t \in Tx, op \in Op : /\ Post(t, op, Amounts(t, op))
                                      /\ op = "DIRECT_1" => ~special
                                      /\ op = "TWO_LEG_1" => special
  <2>1. TxOf(w) \in Tx /\ {"DIRECT_1", "TWO_LEG_1", "TWO_LEG_2", "TWO_LEG_REVERSE"} \subseteq Op
    BY <1>1, <1>3, WorkerPost DEF Op, PostOp, ReverseOp
  <2>2. CASE PostDirect(w)
    BY <1>1, <2>1, <2>2 DEF PostDirect, PostCall, OneWay, Holds
  <2>3. CASE PostReserve(w)
    BY <1>1, <2>1, <2>3 DEF PostReserve, PostCall, OneWay, Holds
  <2>4. CASE PostSettle(w) \/ PostReject(w)
    BY <2>1, <2>4 DEF PostSettle, PostReject, PostCall
  <2> QED
    BY <1>3, <2>2, <2>3, <2>4 DEF WorkerPosts
<1>4. ASSUME NEW c \in Caller, PostConfirmation(c)
      PROVE  \E t \in Tx, op \in Op : /\ Post(t, op, Amounts(t, op))
                                      /\ op = "DIRECT_1" => ~special
                                      /\ op = "TWO_LEG_1" => special
  BY <1>1, <1>4, CallerPost, OpsAndModes
<1>5. ASSUME NEW w \in Worker, WorkerStep(w)
      PROVE  WorkerPosts(w) \/ UNCHANGED <<amount, journal, debit, credit>>
  BY <1>5, WorkerLeaves DEF vars
<1>6. ASSUME NEW c \in Caller, CallerStep(c)
      PROVE  PostConfirmation(c) \/ UNCHANGED <<amount, journal, debit, credit>>
  BY <1>6, CallerLeaves DEF vars
<1>7. ASSUME OtherStep
      PROVE  \/ UNCHANGED <<amount, journal, debit, credit>>
             \/ \E t \in AnyTx, r \in RefundTx : MerchantRefund(t, r)
  BY <1>7, OthersLeave DEF CreateRefund, RefundStep
<1>8. KInv /\ NoDispute
  BY DEF RetryInv
<1>9. CASE \E t \in Tx : ProducerStep(t)
  BY <1>9, ProducerLeaves
<1>10. CASE \E w \in Worker : WorkerStep(w)
  BY <1>2, <1>3, <1>5, <1>10
<1>11. CASE \E c \in Caller : CallerStep(c)
  BY <1>2, <1>4, <1>6, <1>11
<1> QED
  BY <1>7, <1>8, <1>9, <1>10, <1>11, StepsLeft

LEMMA RequestStays ==
  ASSUME TypeOK, [Next]_vars, NEW t \in AnyTx, request[t] # "absent"
  PROVE  request'[t] # "absent"
<1>1. ASSUME NEW u \in AnyTx, NEW op \in Op, NEW p \in PayloadType, Commit(u, op, p)
      PROVE  request'[t] # "absent"
  <2>1. request' = [request EXCEPT ![u] = RequestAfter(op)]
    BY <1>1 DEF Commit, Write
  <2> QED
    BY <2>1 DEF RequestAfter, TypeOK
<1>2. ASSUME NEW u \in AnyTx, NEW op \in Op, NEW p \in PayloadType, Decline(u, op, p)
      PROVE  request'[t] # "absent"
  BY <1>2 DEF Decline, TypeOK
<1>3. ASSUME NEW u \in AnyTx, NEW r \in RefundTx, MerchantRefund(u, r) PROVE request'[t] # "absent"
  BY <1>3 DEF MerchantRefund, TypeOK
<1>4. ASSUME NEW u \in Tx, MarkTransactionFailed(u) PROVE request'[t] # "absent"
  BY <1>4 DEF MarkTransactionFailed, TypeOK
<1>5. ASSUME NEW w \in Wallet, ChangeWalletStatus(w) PROVE request'[t] # "absent"
  BY <1>5 DEF ChangeWalletStatus
<1>6. ASSUME UNCHANGED vars PROVE request'[t] # "absent"
  BY <1>6 DEF vars
<1> QED
  BY <1>1, <1>2, <1>3, <1>4, <1>5, <1>6, StepCases

LEMMA AmountsType ==
  \A t \in Tx, op \in Op :
    /\ Amounts(t, op) \in PayloadType
    /\ op \notin ReverseOp => Amounts(t, op) = Message[t]
BY MessageType DEF Amounts, NoPayload, PayloadType

LEMMA StepUnspent ==
  ASSUME Undisturbed, RetryInv, [PipelineNext]_pipelineVars
  PROVE  Unspent'
<1>1. KInv /\ Unspent /\ IInv /\ TypeOK /\ PInv /\ RefundTx \subseteq AnyTx
  BY DEF RetryInv, KInv, PInv, PipelineTypeOK, AnyTx
<1>2. ASSUME NEW t \in Tx PROVE request'[t] # "absent"
  BY <1>1, MoneyStep, RequestStays DEF Unspent, AnyTx
<1>3. ASSUME NEW t \in Tx, Fresh(t)' PROVE Fresh(t)
  <2>1. FirstLeg \subseteq Op
    BY DEF FirstLeg, Op, PostOp
  <2> QED
    BY <1>1, <1>3, <2>1, StepGrows DEF Grows, Fresh, HasPosted
<1>4. ASSUME NEW t \in Tx, Fresh(t)', NEW w \in Drawn(t)
      PROVE  amount'[w] = InitialAmount[w] /\ \A u \in AnyTx : Empty(w, u)'
  <2>1. Fresh(t) /\ w \in Wallet /\ amount[w] = InitialAmount[w] /\ \A u \in AnyTx : Empty(w, u)
    BY <1>1, <1>3, <1>4 DEF Unspent, Drawn
  <2>2. CASE UNCHANGED <<amount, journal, debit, credit>>
    BY <2>1, <2>2 DEF Empty
  <2>3. ASSUME NEW u \in Tx, NEW op \in Op, Commit(u, op, Amounts(u, op))
        PROVE  amount'[w] = InitialAmount[w] /\ \A v \in AnyTx : Empty(w, v)'
    <3>1. u # t
      BY <1>1, <1>4, <2>1, <2>3, FreshFirst
    <3>2. w \notin Reached(u)
      BY <1>4, <3>1 DEF Undisturbed
    <3> QED
      BY <1>1, <2>1, <2>3, <3>2, AmountsType, CommitElsewhere
  <2>4. ASSUME NEW u \in AnyTx, NEW r \in RefundTx, MerchantRefund(u, r)
        PROVE  amount'[w] = InitialAmount[w] /\ \A v \in AnyTx : Empty(w, v)'
    BY <1>1, <2>1, <2>4, RefundElsewhere
  <2> QED
    BY <2>2, <2>3, <2>4, MoneyCases
<1> QED
  BY <1>2, <1>4 DEF Unspent

LEMMA StepPaidOnlyPayable ==
  ASSUME Undisturbed, RetryInv, [PipelineNext]_pipelineVars
  PROVE  PaidOnlyPayable'
<1>1. IInv /\ TypeOK /\ Unspent /\ PaidOnlyPayable /\ OneWay
  BY DEF RetryInv, KInv, PInv, PipelineTypeOK
<1>2. ASSUME NEW t \in Tx, NEW op \in FirstLeg, HasPosted(t, op)' PROVE Payable(t, op)
  <2>1. t \in AnyTx /\ op \in Op /\ op \notin ReverseOp
    BY DEF AnyTx, FirstLeg, Op, PostOp, ReverseOp
  <2>2. CASE HasPosted(t, op)
    BY <1>1, <2>2 DEF PaidOnlyPayable
  <2>3. ASSUME ~HasPosted(t, op), NEW u \in Tx, NEW o \in Op, Commit(u, o, Amounts(u, o)),
               o = "DIRECT_1" => ~special, o = "TWO_LEG_1" => special
        PROVE  Payable(t, op)
    <3>1. u \in AnyTx /\ Post(u, o, Amounts(u, o))
      BY <2>3 DEF AnyTx, Post
    <3>2. u = t /\ o = op
      BY <1>1, <1>2, <2>1, <2>3, <3>1, PostEffect DEF HasPosted
    <3>3. Fresh(t)
      BY <1>1, <2>3, <3>2 DEF OneWay, Fresh, FirstLeg, HasPosted
    <3>4. Commit(t, op, Message[t])
      BY <2>1, <2>3, <3>2, AmountsType
    <3> QED
      BY <1>1, <3>3, <3>4, PostedIsPayable
  <2>4. ASSUME ~HasPosted(t, op), NEW u \in AnyTx, NEW r \in RefundTx, MerchantRefund(u, r)
        PROVE  FALSE
    BY <1>1, <1>2, <2>1, <2>4, RequestAssumption DEF MerchantRefund, HasPosted, TypeOK
  <2>5. CASE ~HasPosted(t, op) /\ UNCHANGED journal
    BY <1>2, <2>5 DEF HasPosted
  <2> QED
    BY <2>2, <2>3, <2>4, <2>5, MoneyCases
<1> QED
  BY <1>2 DEF PaidOnlyPayable, Payable

(* Where a message handler's steps lead.                                    *)
LEMMA WorkerGoes ==
  ASSUME KInv, NEW w \in Worker, WorkerStep(w)
  PROVE  /\ \/ worker'[w].pc = "idle"
            \/ Holds(w, "idle") /\ worker'[w].pc = IF special THEN "reserve" ELSE "direct"
            \/ Holds(w, "direct") /\ worker'[w].pc \in {"complete", "release"}
            \/ worker[w].pc \in {"complete", "release"} /\ worker'[w].pc = "ack"
            \/ /\ worker[w].pc \notin {"idle", "direct", "complete", "release", "ack"}
               /\ worker'[w].pc # "direct"
         /\ worker'[w].pc = "release" =>
              /\ worker'[w].tx = TxOf(w)
              /\ \/ Holds(w, "direct") /\ AfterDirect(Result(TxOf(w), "DIRECT_1")) = "release"
                 \/ Holds(w, "reserve") /\ AfterReserve(Result(TxOf(w), "TWO_LEG_1")) = "release"
                 \/ Holds(w, "rejected")
<1>w. worker \in [Worker -> WorkerType] /\ worker[w] \in WorkerType
  BY DEF KInv, PInv, PipelineTypeOK, ServicesTypeOK
<1>1. ASSUME NEW next, GoOn(w, next)
      PROVE  worker'[w].pc = "idle" \/ (worker'[w].pc = next /\ worker'[w].tx = TxOf(w))
  <2>1. CASE next = "throw"
    <3>1. Throw(w)
      BY <1>1, <2>1 DEF GoOn
    <3>2. worker'[w].pc = "idle"
      BY <1>w, <3>1 DEF Throw, IdleWorker
    <3> QED
      BY <3>2
  <2>2. CASE next # "throw"
    BY <1>w, <1>1, <2>2 DEF GoOn, Continue, WorkerType, TxOf
  <2> QED
    BY <2>1, <2>2
<1>2. CASE \E t \in Tx : Deliver(w, t)
  BY <1>w, <1>2 DEF Deliver, IdleWorker, Holds
<1>3. CASE Acknowledge(w) \/ WorkerCrash(w)
  BY <1>w, <1>3 DEF Acknowledge, WorkerCrash, Throw, IdleWorker
<1>4. CASE PostDirect(w)
  <2> DEFINE next == AfterDirect(Result(TxOf(w), "DIRECT_1"))
  <2>1. GoOn(w, next) /\ Holds(w, "direct")
    BY <1>4 DEF PostDirect, PostCall
  <2>2. next \in {"complete", "release", "throw"}
    BY DEF AfterDirect, FirstLegRefused
  <2>3. next = "throw" => worker'[w].pc = "idle"
    BY <1>w, <2>1 DEF GoOn, Throw, IdleWorker
  <2>4. worker'[w].pc = "idle" \/ (worker'[w].pc = next /\ worker'[w].tx = TxOf(w))
    BY <1>1, <2>1
  <2> HIDE DEF next
  <2>5. next = "release" => AfterDirect(Result(TxOf(w), "DIRECT_1")) = "release"
    BY DEF next
  <2> QED
    BY <2>1, <2>2, <2>3, <2>4, <2>5 DEF Holds
<1>5. CASE PostReserve(w)
  <2> DEFINE next == AfterReserve(Result(TxOf(w), "TWO_LEG_1"))
  <2>1. GoOn(w, next) /\ Holds(w, "reserve")
    BY <1>5 DEF PostReserve, PostCall
  <2>2. next \in {"lookup", "complete", "release", "throw"}
    BY DEF AfterReserve, FirstLegRefused
  <2>3. worker'[w].pc = "idle" \/ (worker'[w].pc = next /\ worker'[w].tx = TxOf(w))
    BY <1>1, <2>1
  <2> HIDE DEF next
  <2>4. next = "release" => AfterReserve(Result(TxOf(w), "TWO_LEG_1")) = "release"
    BY DEF next
  <2> QED
    BY <2>1, <2>2, <2>3, <2>4 DEF Holds
<1>6. CASE PostSettle(w) \/ PostReject(w) \/ SaveDecision(w)
  <2>1. PICK next \in {"settled", "rejected", "block", "blockRetry", "ack", "settle", "reject", "throw"} :
          GoOn(w, next)
    BY <1>6 DEF PostSettle, PostReject, PostCall, SaveDecision, AfterSettle, AfterReject, Blocked,
       AfterAnswer
  <2>2. worker[w].pc \in {"settle", "reject", "save"}
    BY <1>6 DEF PostSettle, PostReject, SaveDecision, Holds
  <2> QED
    BY <1>1, <2>1, <2>2 DEF Holds
<1>7. CASE SavePosting(w)
  <2>1. worker[w].pc \in SavingPc /\ GoOn(w, AfterSaving(worker[w].pc))
    BY <1>7 DEF SavePosting
  <2> QED
    BY <1>1, <2>1 DEF Holds, SavingPc, AfterSaving
<1>8. CASE FinalizeAml(w)
  <2>1. worker[w].pc \in {"complete", "release"} /\ (GoOn(w, "ack") \/ GoOn(w, "throw"))
    BY <1>8 DEF FinalizeAml
  <2>2. GoOn(w, "throw") => worker'[w].pc = "idle"
    BY <1>w DEF GoOn, Throw, IdleWorker
  <2> QED
    BY <1>1, <2>1, <2>2
<1>9. CASE LookUpAttempt(w)
  <2>1. worker'[w].pc \in {"settle", "reject", "mark"} /\ Holds(w, "lookup")
    BY <1>w, <1>9 DEF LookUpAttempt, WorkerType, Decision
  <2> QED
    BY <2>1 DEF Holds
<1>10. CASE MarkPending(w) \/ SendToMerchant(w)
  <2>1. worker'[w].pc \in {"dispatch", "await"} /\ worker[w].pc \in {"mark", "dispatch"}
    BY <1>w, <1>10 DEF MarkPending, SendToMerchant, Continue, Holds, WorkerType
  <2> QED
    BY <2>1
<1>11. CASE DispatchedToKafka(w) \/ HearDecision(w) \/ HearNothing(w)
  <2>1. worker'[w].pc = "save" /\ worker[w].pc \in {"dispatch", "await"}
    BY <1>w, <1>11 DEF DispatchedToKafka, HearDecision, HearNothing, Hear, Holds, WorkerType
  <2> QED
    BY <2>1
<1> QED
  BY <1>2, <1>3, <1>4, <1>5, <1>6, <1>7, <1>8, <1>9, <1>10, <1>11 DEF WorkerStep, WorkerProgress

LEMMA StepOneWay ==
  ASSUME Undisturbed, RetryInv, [PipelineNext]_pipelineVars
  PROVE  OneWay'
<1>1. KInv /\ PInv /\ IInv /\ TypeOK /\ OneWay /\ NoDispute /\ special' = special
  BY StillUndisputed DEF RetryInv, KInv, PInv, PipelineTypeOK
<1>2. ASSUME NEW t \in Tx, NEW op \in FirstLeg, ~HasPosted(t, op), op = "DIRECT_1" => special,
             op = "TWO_LEG_1" => ~special
      PROVE  ~HasPosted(t, op)'
  <2>1. t \in AnyTx /\ op \in Op
    BY DEF AnyTx, FirstLeg, Op, PostOp
  <2>2. ASSUME NEW u \in Tx, NEW o \in Op, Commit(u, o, Amounts(u, o)),
               o = "DIRECT_1" => ~special, o = "TWO_LEG_1" => special
        PROVE  ~HasPosted(t, op)'
    <3>1. u \in AnyTx /\ Post(u, o, Amounts(u, o)) /\ o # op
      BY <1>2, <2>2 DEF AnyTx, Post, FirstLeg
    <3> QED
      BY <1>1, <1>2, <2>1, <3>1, PostEffect DEF HasPosted
  <2>3. ASSUME NEW u \in AnyTx, NEW r \in RefundTx, MerchantRefund(u, r) PROVE ~HasPosted(t, op)'
    BY <1>1, <1>2, <2>1, <2>3, RequestAssumption DEF MerchantRefund, HasPosted, TypeOK
  <2>4. CASE UNCHANGED journal
    BY <1>2, <2>4 DEF HasPosted
  <2> QED
    BY <2>2, <2>3, <2>4, MoneyCases
<1>3. CASE special
  <2>1. ASSUME NEW v \in Worker PROVE ~Holds(v, "direct")'
    <3>1. ~Holds(v, "direct")
      BY <1>1, <1>3 DEF OneWay
    <3>2. CASE worker'[v] = worker[v]
      BY <3>1, <3>2 DEF Holds
    <3>3. CASE WorkerStep(v)
      BY <1>1, <1>3, <3>1, <3>3, WorkerGoes DEF Holds
    <3>4. ASSUME NEW w \in Worker \ {v}, WorkerStep(w) PROVE worker'[v] = worker[v]
      BY <1>1, <3>4, WorkerMoves
    <3> QED
      BY <1>1, <3>2, <3>3, <3>4, StepsLeft, ProducerLeaves, CallerLeaves, OthersLeave
  <2> QED
    BY <1>1, <1>2, <1>3, <2>1 DEF OneWay, FirstLeg
<1>4. CASE ~special
  <2>1. /\ \A t \in Tx : ~HasPosted(t, "TWO_LEG_1") /\ ~HasAttempt(t) /\ said[t] = {}
        /\ \A w \in Worker : worker[w].pc \in {"idle", "direct", "complete", "release", "ack"}
        /\ \A c \in Caller : CallerAt(c, "idle")
    BY <1>1, <1>4 DEF OneWay
  <2>2. \A c \in Caller : ~CallerStep(c)
    BY <2>1 DEF CallerStep, CallerProgress, Receive, InsertConfirmation, PostConfirmation,
       RecordConfirmation, RecordOnAttempt, FinalizeConfirmed, CallerCrash, CallerAt
  <2>3. ASSUME NEW w \in Worker, WorkerStep(w)
        PROVE  UNCHANGED <<attempt, said, caller>>
    <3>1. ~MarkPending(w) /\ ~SaveDecision(w) /\ ~SavePosting(w) /\ ~HearDecision(w)
      BY <2>1 DEF MarkPending, SaveDecision, SavePosting, SavingPc, HearDecision, Holds
    <3> QED
      BY <2>3, <3>1, WorkerLeaves
  <2>4. UNCHANGED <<attempt, said, caller>>
    BY <1>1, <2>2, <2>3, StepsLeft, ProducerLeaves, OthersLeave
  <2>5. ASSUME NEW v \in Worker
        PROVE  worker'[v].pc \in {"idle", "direct", "complete", "release", "ack"}
    <3>1. CASE WorkerStep(v)
      BY <1>1, <1>4, <2>1, <3>1, WorkerGoes
    <3>2. ASSUME NEW w \in Worker \ {v}, WorkerStep(w) PROVE worker'[v] = worker[v]
      BY <1>1, <3>2, WorkerMoves
    <3> QED
      BY <1>1, <2>1, <2>2, <3>1, <3>2, StepsLeft, ProducerLeaves, OthersLeave
  <2> QED
    BY <1>1, <1>2, <1>4, <2>1, <2>4, <2>5 DEF OneWay, FirstLeg, HasAttempt, CallerAt
<1> QED
  BY <1>3, <1>4

(* Nobody learns of a payment before its message is sent.                   *)
LEMMA StaysUnsent ==
  ASSUME Undisturbed, RetryInv, [PipelineNext]_pipelineVars, NEW t \in Tx, NotSent(t), ~SendMessage(t)
  PROVE  NotSent(t)'
<1>1. KInv /\ PInv /\ TypeOK /\ ServicesTypeOK /\ NoDispute /\ HandlersBusy /\ t \in AnyTx
  BY DEF RetryInv, KInv, PInv, PipelineTypeOK, AnyTx
<1>2. ASSUME journal'[t] = journal[t], attempt'[t] = attempt[t], t \in topic' => t \in topic,
             \A w \in Worker : worker'[w].pc # "idle" => worker'[w].tx # t,
             \A c \in Caller : caller'[c].pc # "idle" => caller'[c].tx # t
      PROVE  NotSent(t)'
  BY <1>2 DEF NotSent, HasPosted, HasAttempt
<1>3. ASSUME NEW u \in Tx, ProducerStep(u) PROVE NotSent(t)'
  <2>1. t \in topic' => t \in topic
    BY <1>3 DEF ProducerStep, CheckFails, ReserveAml, BypassAml, UpdateRequest, SendMessage, SubmissionFails,
       ReleaseAml, FailRequest, ProducerCrash
  <2> QED
    BY <1>2, <1>3, <2>1, ProducerLeaves DEF NotSent
<1>4. ASSUME NEW w \in Worker, WorkerStep(w) PROVE NotSent(t)'
  <2>1. worker[w].pc # "idle" => TxOf(w) \in Tx /\ TxOf(w) # t
    BY <1>1 DEF HandlersBusy, WorkerBusy, NotSent, TxOf
  <2>2. journal'[t] = journal[t]
    <3>1. CASE WorkerPosts(w)
      <4>1. PICK op \in Op : Post(TxOf(w), op, Amounts(TxOf(w), op))
        BY <1>1, <3>1, WorkerPost
      <4>2. TxOf(w) \in AnyTx /\ TxOf(w) # t
        BY <1>1, <2>1, <3>1, WorkerPost DEF AnyTx
      <4> QED
        BY <1>1, <4>1, <4>2, PostEffect
    <3> QED
      BY <1>4, <3>1, WorkerLeaves DEF vars
  <2>3. attempt'[t] = attempt[t]
    <3>1. CASE MarkPending(w) \/ SaveDecision(w) \/ SavePosting(w)
      <4>1. worker[w].pc # "idle"
        BY <3>1 DEF MarkPending, SaveDecision, SavePosting, SavingPc, Holds
      <4> QED
        BY <1>1, <2>1, <3>1, <4>1 DEF MarkPending, SaveDecision, SavePosting, SetPosting, ServicesTypeOK
    <3> QED
      BY <1>4, <3>1, WorkerLeaves
  <2>4. \A v \in Worker : worker'[v].pc # "idle" => worker'[v].tx # t
    BY <1>1, <1>4, WorkerMoves DEF NotSent
  <2> QED
    BY <1>2, <1>4, <2>2, <2>3, <2>4, WorkerLeaves DEF NotSent
<1>5. ASSUME NEW c \in Caller, CallerStep(c) PROVE NotSent(t)'
  <2>1. caller[c].pc # "idle" => ConfirmedTx(c) \in Tx /\ ConfirmedTx(c) # t
    BY <1>1 DEF HandlersBusy, NotSent, ConfirmedTx
  <2>2. journal'[t] = journal[t]
    <3>1. CASE PostConfirmation(c)
      <4>1. PICK op \in Op : Post(ConfirmedTx(c), op, Amounts(ConfirmedTx(c), op))
        BY <1>1, <3>1, CallerPost
      <4>2. ConfirmedTx(c) \in AnyTx /\ ConfirmedTx(c) # t
        BY <1>1, <2>1, <3>1, CallerPost DEF AnyTx
      <4> QED
        BY <1>1, <4>1, <4>2, PostEffect
    <3> QED
      BY <1>5, <3>1, CallerLeaves DEF vars
  <2>3. attempt'[t] = attempt[t]
    <3>1. CASE RecordOnAttempt(c)
      BY <1>1, <2>1, <3>1 DEF RecordOnAttempt, CallerAt, ServicesTypeOK
    <3> QED
      BY <1>5, <3>1, CallerLeaves
  <2>4. caller \in [Caller -> CallerType] /\ \A d \in Caller \ {c} : caller'[d] = caller[d]
    BY <1>1, <1>5 DEF ServicesTypeOK, CallerStep, CallerProgress, Receive, InsertConfirmation, PostConfirmation,
       RecordConfirmation, RecordOnAttempt, FinalizeConfirmed, CallerCrash, CallerGoto, Respond
  <2>5. caller'[c].pc # "idle" => caller'[c].tx # t
    <3>1. ASSUME NEW u \in Tx, Receive(c, u) PROVE caller'[c].pc # "idle" => caller'[c].tx # t
      <4>1. u # t
        BY <3>1 DEF Receive, NotSent
      <4> QED
        BY <2>4, <3>1, <4>1 DEF Receive, IdleCaller, CallerAt
    <3>2. CASE CallerProgress(c) \/ CallerCrash(c)
      <4>1. caller'[c].pc = "idle" \/ (caller[c].pc # "idle" /\ caller'[c].tx = caller[c].tx)
        BY <2>4, <3>2 DEF CallerProgress, InsertConfirmation, PostConfirmation, RecordConfirmation, RecordOnAttempt,
           FinalizeConfirmed, CallerCrash, CallerGoto, Respond, IdleCaller, CallerAt, CallerType
      <4> QED
        BY <2>1, <4>1 DEF ConfirmedTx
    <3> QED
      BY <1>5, <3>1, <3>2 DEF CallerStep
  <2>6. \A d \in Caller : caller'[d].pc # "idle" => caller'[d].tx # t
    BY <2>4, <2>5 DEF NotSent
  <2> QED
    BY <1>2, <1>5, <2>2, <2>3, <2>6, CallerLeaves DEF NotSent
<1>6. CASE OtherStep
  <2>1. journal'[t] = journal[t]
    <3>1. ASSUME NEW u \in AnyTx, NEW r \in RefundTx, MerchantRefund(u, r) PROVE journal'[t] = journal[t]
      BY <1>1, <3>1, RequestAssumption DEF MerchantRefund, TypeOK
    <3> QED
      BY <1>6, <3>1, OthersLeave DEF CreateRefund, RefundStep
  <2> QED
    BY <1>2, <1>6, <2>1, OthersLeave DEF NotSent
<1> QED
  BY <1>1, <1>3, <1>4, <1>5, <1>6, StepsLeft

(* Its producer knows.                                                      *)
LEMMA ProducerGoes ==
  ASSUME Undisturbed, RetryInv, [PipelineNext]_pipelineVars, NEW t \in Tx
  PROVE  /\ producer[t] = "done" => producer'[t] = "done"
         /\ SendMessage(t) => producer[t] = "send" /\ producer'[t] = "done"
         /\ producer[t] = "fail" => producer'[t] \in {"fail", "done"}
<1>1. KInv /\ NoDispute /\ producer \in [Tx -> ProducerPc] /\ ~LostReply
  BY DEF RetryInv, KInv, PInv, PipelineTypeOK, ServicesTypeOK, Undisturbed
<1>2. SendMessage(t) => producer[t] = "send" /\ producer'[t] = "done"
  BY <1>1 DEF SendMessage, Goto
<1>3. ASSUME NEW u \in Tx, ProducerStep(u)
      PROVE  /\ producer[t] = "done" => producer'[t] = "done"
             /\ producer[t] = "fail" => producer'[t] \in {"fail", "done"}
  BY <1>1, <1>3 DEF ProducerStep, CheckFails, ReserveAml, BypassAml, UpdateRequest, SendMessage, SubmissionFails,
     ReleaseAml, FailRequest, ProducerCrash, Goto
<1> QED
  BY <1>1, <1>2, <1>3, StepsLeft, WorkerLeaves, CallerLeaves, OthersLeave

LEMMA StepSentLast ==
  ASSUME Undisturbed, RetryInv, [PipelineNext]_pipelineVars
  PROVE  SentLast'
<1>1. SentLast
  BY DEF RetryInv
<1>2. ASSUME NEW t \in Tx, producer'[t] # "done" PROVE NotSent(t)'
  BY <1>1, <1>2, ProducerGoes, StaysUnsent DEF SentLast
<1> QED
  BY <1>2 DEF SentLast

LEMMA StaysLost ==
  ASSUME Undisturbed, RetryInv, [PipelineNext]_pipelineVars, NEW t \in Tx, Lost(t)
  PROVE  Lost(t)'
<1>1. special' = special /\ said[t] \subseteq said'[t]
  BY StillUndisputed, StepGrows DEF RetryInv, Grows
<1>2. LegInUse' = LegInUse
  BY <1>1 DEF LegInUse
<1> QED
  BY <1>1, <1>2 DEF Lost, Payable, FirstDebit, Balanced, At

(* A first leg is given up only when it cannot be paid or the merchant has  *)
(* rejected the payment.                                                    *)
LEMMA GivenUpIsLost ==
  ASSUME RetryInv, NEW t \in Tx, NEW op \in FirstLeg, op = LegInUse,
         op = "DIRECT_1" => AfterDirect(Result(t, op)) = "release",
         op = "TWO_LEG_1" => AfterReserve(Result(t, op)) = "release"
  PROVE  Lost(t)
<1>1. IInv /\ Unspent /\ OneWay /\ KInv /\ NoDispute /\ TypeOK /\ t \in AnyTx
  BY DEF RetryInv, KInv, PInv, PipelineTypeOK, AnyTx
<1>2. op \in Op /\ op \notin ReverseOp /\ Result(t, op) = Outcome(t, op, Message[t])
  BY AmountsType DEF Result, FirstLeg, Op, PostOp, ReverseOp
<1>3. CASE journal[t][op] = "NONE"
  <2>1. Fresh(t)
    BY <1>1, <1>3 DEF OneWay, LegInUse, Fresh, FirstLeg, HasPosted
  <2>2. ~Retryable(Result(t, op))
    BY DEF AfterDirect, AfterReserve, FirstLegRefused, FirstLeg
  <2>3. ~Result(t, op).success
    <3>1. Outcome(t, op, Message[t]).success => Outcome(t, op, Message[t]).code = Posted(op)
      BY <1>2, <1>3 DEF Outcome, Funding, Accept, Refuse, FirstLeg
    <3>2. Posted(op) = IF op = "DIRECT_1" THEN "COMPLETED" ELSE "RESERVED"
      BY <1>2 DEF Posted, FirstLeg
    <3> QED
      BY <1>2, <3>1, <3>2 DEF AfterDirect, AfterReserve, Accepted, FirstLeg
  <2> QED
    BY <1>1, <1>2, <2>1, <2>2, <2>3, RefusedIsUnpayable DEF Lost
<1>4. CASE journal[t][op] # "NONE"
  <2>1. Result(t, op) = Repeated(t, op)
    BY <1>1, <1>2, <1>4 DEF Outcome, Unspent
  <2>2. journal[t][op] = "REVERSED"
    <3>1. journal[t]["DIRECT_1"] # "RESERVED"
      BY <1>1 DEF IInv, StatusShape
    <3> QED
      BY <1>2, <1>4, <2>1, <3>1 DEF Repeated, Accept, AfterDirect, AfterReserve, Accepted, FirstLeg
  <2>3. op = "DIRECT_1" => HasPosted(t, "DIRECT_REVERSE")
    BY <1>1, <2>2 DEF IInv, LegsAgree, HasPosted
  <2>4. op = "TWO_LEG_1" => HasPosted(t, "TWO_LEG_REVERSE")
    BY <1>1, <2>2 DEF IInv, LegsAgree, HasPosted
  <2> QED
    BY <1>1, <2>3, <2>4 DEF KInv, MoneyFollows, NoDispute, Lost, FirstLeg
<1> QED
  BY <1>3, <1>4

LEMMA StepLostReleases ==
  ASSUME Undisturbed, RetryInv, [PipelineNext]_pipelineVars
  PROVE  LostReleases'
<1>1. KInv /\ PInv /\ OneWay /\ NoDispute /\ LostReleases
  BY DEF RetryInv, KInv
<1>2. ASSUME NEW v \in Worker, Holds(v, "release")' PROVE Lost(TxOf(v))'
  <2>1. ASSUME worker'[v] = worker[v] PROVE TxOf(v)' = TxOf(v) /\ TxOf(v) \in Tx /\ Lost(TxOf(v))
    BY <1>1, <1>2, <2>1 DEF LostReleases, Holds, PInv, HandlersBusy, WorkerBusy, TxOf
  <2>2. ASSUME WorkerStep(v) PROVE TxOf(v)' = TxOf(v) /\ TxOf(v) \in Tx /\ Lost(TxOf(v))
    <3>1. /\ worker'[v].pc = "release" /\ worker'[v].tx = TxOf(v)
          /\ \/ Holds(v, "direct") /\ AfterDirect(Result(TxOf(v), "DIRECT_1")) = "release"
             \/ Holds(v, "reserve") /\ AfterReserve(Result(TxOf(v), "TWO_LEG_1")) = "release"
             \/ Holds(v, "rejected")
      BY <1>1, <1>2, <2>2, WorkerGoes DEF Holds
    <3>2. TxOf(v) \in Tx /\ WorkerKnows(v) /\ worker[v].pc # "idle"
      BY <1>1, <3>1 DEF KInv, PInv, HandlersBusy, WorkerBusy, HandlersKnow, TxOf, Holds
    <3>3. ASSUME Holds(v, "direct") /\ AfterDirect(Result(TxOf(v), "DIRECT_1")) = "release" PROVE Lost(TxOf(v))
      <4>1. "DIRECT_1" = LegInUse /\ "DIRECT_1" \in FirstLeg
        BY <1>1, <3>3 DEF OneWay, LegInUse, FirstLeg
      <4> QED
        BY <3>2, <3>3, <4>1, GivenUpIsLost
    <3>4. ASSUME Holds(v, "reserve") /\ AfterReserve(Result(TxOf(v), "TWO_LEG_1")) = "release" PROVE Lost(TxOf(v))
      <4>1. "TWO_LEG_1" = LegInUse /\ "TWO_LEG_1" \in FirstLeg
        BY <1>1, <3>4 DEF OneWay, LegInUse, FirstLeg, Holds
      <4> QED
        BY <3>2, <3>4, <4>1, GivenUpIsLost
    <3>5. ASSUME Holds(v, "rejected") PROVE Lost(TxOf(v))
      BY <1>1, <3>2, <3>5 DEF WorkerKnows, KInv, MoneyFollows, NoDispute, Lost
    <3>6. TxOf(v)' = TxOf(v)
      BY <3>1 DEF TxOf
    <3> QED
      BY <3>1, <3>2, <3>3, <3>4, <3>5, <3>6
  <2>3. ASSUME NEW w \in Worker \ {v}, WorkerStep(w) PROVE worker'[v] = worker[v]
    BY <1>1, <2>3, WorkerMoves
  <2>4. TxOf(v)' = TxOf(v) /\ TxOf(v) \in Tx /\ Lost(TxOf(v))
    BY <1>1, <2>1, <2>2, <2>3, StepsLeft, ProducerLeaves, CallerLeaves, OthersLeave
  <2>5. PICK t \in Tx : t = TxOf(v) /\ Lost(t)
    BY <2>4
  <2>6. Lost(t)' /\ TxOf(v)' = t
    BY <2>4, <2>5, StaysLost
  <2> QED
    BY <2>6 DEF Lost
<1> QED
  BY <1>2 DEF LostReleases

(* A step that releases a reservation has a reason to.                      *)
LEMMA NewlyReleased ==
  ASSUME Undisturbed, RetryInv, [PipelineNext]_pipelineVars, NEW t \in Tx, aml[t] # "RELEASED", aml'[t] = "RELEASED"
  PROVE  ReleaseAml(t) \/ Lost(t)
<1>1. KInv /\ PInv /\ NoDispute /\ LostReleases /\ aml \in [Tx -> Aml!Status]
  BY DEF RetryInv, KInv, PInv, PipelineTypeOK, ServicesTypeOK
<1>2. ASSUME NEW u, NEW outcome \in {"COMPLETED", "RELEASED"}, Finalize(u, outcome)
      PROVE  u = t /\ outcome = "RELEASED"
  BY <1>1, <1>2 DEF Finalize, Aml!Finalize, Aml!Finalized
<1>3. ASSUME NEW u \in Tx, ProducerStep(u) PROVE ReleaseAml(t)
  <2>1. aml' # aml
    OBVIOUS
  <2>2. ~ReserveAml(u)
    BY <1>1 DEF ReserveAml, Aml!Reserve
  <2>3. ReleaseAml(u)
    BY <1>3, <2>1, <2>2 DEF ProducerStep, CheckFails, BypassAml, UpdateRequest, SendMessage, SubmissionFails,
       FailRequest, ProducerCrash
  <2> QED
    BY <1>2, <2>1, <2>3 DEF ReleaseAml
<1>4. ASSUME NEW w \in Worker, WorkerStep(w) PROVE Lost(t)
  <2>1. FinalizeAml(w)
    BY <1>4, WorkerLeaves
  <2>2. TxOf(w) = t /\ Holds(w, "release")
    BY <1>2, <2>1 DEF FinalizeAml, Holds
  <2> QED
    BY <1>1, <2>2 DEF LostReleases
<1>5. ASSUME NEW c \in Caller, CallerStep(c) PROVE Lost(t)
  <2>1. FinalizeConfirmed(c)
    BY <1>5, CallerLeaves
  <2>2. ConfirmedTx(c) = t /\ caller[c].decision # "APPROVED" /\ caller[c].pc # "idle"
    BY <1>2, <2>1 DEF FinalizeConfirmed, OutcomeOf, CallerAt
  <2>3. caller[c].decision \in said[t] /\ said[t] \subseteq Decision
    BY <1>1, <2>2 DEF KInv, HandlersKnow, CallerKnows, PInv, PipelineTypeOK, ServicesTypeOK
  <2> QED
    BY <2>2, <2>3 DEF Decision, Lost
<1> QED
  BY <1>1, <1>3, <1>4, <1>5, StepsLeft, OthersLeave

LEMMA StepReleasedRightly ==
  ASSUME Undisturbed, RetryInv, [PipelineNext]_pipelineVars
  PROVE  ReleasedRightly'
<1>1. ReleasedRightly /\ SentLast /\ producer \in [Tx -> ProducerPc]
  BY DEF RetryInv, KInv, PInv, PipelineTypeOK, ServicesTypeOK
<1>2. ASSUME NEW t \in Tx, aml'[t] = "RELEASED"
      PROVE  (producer'[t] \in {"fail", "done"} /\ NotSent(t)') \/ Lost(t)'
  <2>1. ASSUME Lost(t) PROVE Lost(t)'
    BY <2>1, StaysLost
  <2>2. ASSUME producer[t] \in {"fail", "done"}, NotSent(t)
        PROVE  producer'[t] \in {"fail", "done"} /\ NotSent(t)'
    BY <2>2, ProducerGoes, StaysUnsent
  <2>3. ASSUME ReleaseAml(t) PROVE producer'[t] \in {"fail", "done"} /\ NotSent(t)'
    <3>1. producer[t] = "release" /\ producer'[t] = "fail"
      BY <1>1, <2>3 DEF ReleaseAml, Goto
    <3> QED
      BY <1>1, <3>1, ProducerGoes, StaysUnsent DEF SentLast
  <2>4. CASE aml[t] = "RELEASED"
    BY <1>1, <2>1, <2>2, <2>4 DEF ReleasedRightly
  <2>5. CASE aml[t] # "RELEASED"
    <3>1. ReleaseAml(t) \/ Lost(t)
      BY <1>2, <2>5, NewlyReleased
    <3> QED
      BY <2>1, <2>3, <3>1
  <2> QED
    BY <2>4, <2>5
<1> QED
  BY <1>2 DEF ReleasedRightly

LEMMA RetryInductive == ASSUME Undisturbed PROVE RetryInv /\ [PipelineNext]_pipelineVars => RetryInv'
<1> SUFFICES ASSUME RetryInv, [PipelineNext]_pipelineVars PROVE RetryInv'
  OBVIOUS
<1>1. KInv'
  BY KInductive DEF RetryInv
<1> QED
  BY <1>1, StepUnspent, StepPaidOnlyPayable, StepNoDispute, StepOneWay, StepOneWord, StepSentLast, StepLostReleases,
     StepReleasedRightly DEF RetryInv

LEMMA RetryInitially == PipelineInit => RetryInv
<1> SUFFICES ASSUME PipelineInit PROVE RetryInv
  OBVIOUS
<1>1. KInv
  BY KInitially
<1>2. \A t \in Tx, op \in Op : ~HasPosted(t, op)
  BY DEF PipelineInit, Init, HasPosted, AnyTx
<1>3. FirstLeg \subseteq Op
  BY DEF FirstLeg, Op, PostOp
<1>4. Unspent
  BY DEF PipelineInit, Init, Unspent, Empty, NoLines, AnyTx, Drawn
<1>5. PaidOnlyPayable
  BY <1>2, <1>3 DEF PaidOnlyPayable
<1>6. /\ \A w \in Worker : worker[w].pc = "idle"
      /\ \A c \in Caller : caller[c].pc = "idle"
      /\ \A t \in Tx : attempt[t].confirmation = "none" /\ said[t] = {} /\ aml[t] = "NONE" /\ dispute[t] = "none"
      /\ topic = {}
  BY DEF PipelineInit, IdleWorker, IdleCaller, NoAttempt
<1>7. NoDispute /\ OneWord /\ SentLast /\ LostReleases /\ ReleasedRightly
  BY <1>2, <1>6 DEF NoDispute, OneWord, SentLast, NotSent, HasAttempt, LostReleases, Holds, ReleasedRightly
<1>8. OneWay
  BY <1>2, <1>3, <1>6 DEF OneWay, HasAttempt, Holds, CallerAt, FirstLeg
<1> QED
  BY <1>1, <1>4, <1>5, <1>7, <1>8 DEF RetryInv

LEMMA RetryInvariant == ASSUME Undisturbed PROVE PipelineSpec => []RetryInv
BY RetryInductive, RetryInitially, PTL DEF PipelineSpec

(* What was paid was sent and was never lost.                               *)
LEMMA PaidNotLost ==
  ASSUME RetryInv, NEW t \in Tx, HasPosted(t, "DIRECT_1") \/ HasPosted(t, "TWO_LEG_2")
  PROVE  ~Lost(t) /\ ~NotSent(t) /\ aml[t] \notin {"RELEASED", "REVERSED"}
<1>1. /\ KInv /\ IInv /\ PaidOnlyPayable /\ OneWay /\ OneWord /\ NoDispute /\ ReleasedRightly /\ t \in AnyTx
      /\ MoneyFollows(t)
  BY DEF RetryInv, KInv, AnyTx
<1>2. ~Lost(t)
  <2>1. CASE HasPosted(t, "DIRECT_1")
    <3>1. ~special /\ said[t] = {}
      BY <1>1, <2>1 DEF OneWay
    <3>2. Payable(t, "DIRECT_1")
      BY <1>1, <2>1 DEF PaidOnlyPayable, FirstLeg
    <3> QED
      BY <3>1, <3>2 DEF Lost, LegInUse
  <2>2. CASE HasPosted(t, "TWO_LEG_2")
    <3>1. "APPROVED" \in said[t]
      BY <1>1, <2>2 DEF MoneyFollows
    <3>2. special /\ "REJECTED" \notin said[t]
      BY <1>1, <3>1 DEF OneWay, OneWord
    <3>3. HasPosted(t, "TWO_LEG_1")
      BY <1>1, <2>2 DEF HasPosted, IInv, StatusShape, LegsAgree
    <3>4. Payable(t, "TWO_LEG_1")
      BY <1>1, <3>3 DEF PaidOnlyPayable, FirstLeg
    <3> QED
      BY <3>2, <3>4 DEF Lost, LegInUse
  <2> QED
    BY <2>1, <2>2
<1>3. ~NotSent(t)
  BY DEF NotSent, Op, PostOp
<1> QED
  BY <1>1, <1>2, <1>3 DEF ReleasedRightly, NoDispute

(* README.md 209-211, for the message handlers: however often a message is  *)
(* delivered, to however many handlers, and wherever they die, none finds   *)
(* its AML reservation in a state that refuses its outcome, as long as the  *)
(* payment competes with no other.                                          *)
THEOREM RetriesAlwaysSafe == ASSUME Undisturbed PROVE PipelineSpec => []RetriesSafe
<1>1. ASSUME RetryInv PROVE RetriesSafe
  <2>1. KInv /\ NoDispute /\ LostReleases
    BY <1>1 DEF RetryInv
  <2>2. ASSUME NEW w \in Worker, worker[w].pc # "idle" PROVE TxOf(w) \in Tx /\ WorkerKnows(w) /\ AmlTrue(TxOf(w))
    BY <2>1, <2>2 DEF KInv, PInv, HandlersBusy, WorkerBusy, HandlersKnow, RowsTrue, TxOf
  <2>3. ASSUME NEW w \in Worker, Holds(w, "complete") PROVE ~Throws(TxOf(w), "COMPLETED")
    <3>1. aml[TxOf(w)] \notin {"RELEASED", "REVERSED"}
      BY <1>1, <2>2, <2>3, PaidNotLost DEF WorkerKnows, Holds
    <3>2. aml[TxOf(w)] \in Aml!Status
      BY <2>1, <2>2, <2>3 DEF KInv, PInv, PipelineTypeOK, ServicesTypeOK, Holds
    <3> QED
      BY <3>1, <3>2 DEF Throws, Aml!FinalizeCode, Aml!Tolerated, Aml!Before, Aml!Status
  <2>4. ASSUME NEW w \in Worker, Holds(w, "release") PROVE ~Throws(TxOf(w), "RELEASED")
    <3>1. aml[TxOf(w)] \notin {"COMPLETED", "REVERSED"}
      BY <1>1, <2>1, <2>2, <2>4, PaidNotLost DEF LostReleases, AmlTrue, NoDispute, Holds
    <3>2. aml[TxOf(w)] \in Aml!Status
      BY <2>1, <2>2, <2>4 DEF KInv, PInv, PipelineTypeOK, ServicesTypeOK, Holds
    <3> QED
      BY <3>1, <3>2 DEF Throws, Aml!FinalizeCode, Aml!Tolerated, Aml!Before, Aml!Status
  <2> QED
    BY <2>3, <2>4 DEF RetriesSafe
<1> QED
  BY <1>1, RetryInvariant, PTL

(* README.md 209-211, for the merchant's callbacks, repeated or late.       *)
THEOREM CallbacksAlwaysSafe == ASSUME Undisturbed PROVE PipelineSpec => []CallbacksSafe
<1>1. ASSUME RetryInv PROVE CallbacksSafe
  <2>1. KInv /\ NoDispute
    BY <1>1 DEF RetryInv
  <2>2. ASSUME NEW c \in Caller, CallerAt(c, "aml") PROVE ~Throws(ConfirmedTx(c), OutcomeOf(caller[c].decision))
    <3>1. /\ ConfirmedTx(c) \in Tx /\ CallerKnows(c) /\ AmlTrue(ConfirmedTx(c)) /\ aml[ConfirmedTx(c)] \in Aml!Status
          /\ said[ConfirmedTx(c)] \subseteq Decision /\ caller[c].pc # "idle"
      BY <2>1, <2>2 DEF KInv, PInv, PipelineTypeOK, ServicesTypeOK, HandlersBusy, HandlersKnow, RowsTrue,
         ConfirmedTx, CallerAt
    <3>2. caller[c].decision \in said[ConfirmedTx(c)] /\ caller[c].decision \in {"APPROVED", "REJECTED"}
      BY <3>1 DEF CallerKnows, Decision
    <3>3. CASE caller[c].decision = "APPROVED"
      <4>1. aml[ConfirmedTx(c)] \notin {"RELEASED", "REVERSED"}
        BY <1>1, <2>2, <3>1, <3>3, PaidNotLost DEF CallerKnows
      <4> QED
        BY <3>1, <3>3, <4>1 DEF OutcomeOf, Throws, Aml!FinalizeCode, Aml!Tolerated, Aml!Before, Aml!Status
    <3>4. CASE caller[c].decision = "REJECTED"
      <4>1. aml[ConfirmedTx(c)] \notin {"COMPLETED", "REVERSED"}
        BY <1>1, <2>1, <3>1, <3>2, <3>4, PaidNotLost DEF Lost, AmlTrue, NoDispute
      <4> QED
        BY <3>1, <3>4, <4>1 DEF OutcomeOf, Throws, Aml!FinalizeCode, Aml!Tolerated, Aml!Before, Aml!Status
    <3> QED
      BY <3>2, <3>3, <3>4
  <2> QED
    BY <2>2 DEF CallbacksSafe
<1> QED
  BY <1>1, RetryInvariant, PTL

(* README.md 206: the capacity of a payment that was made is not given back *)
(* as if it had failed, whichever of its handlers is the last to finish.    *)
THEOREM ReleasedNeverPaid == ASSUME Undisturbed PROVE PipelineSpec => []ReleasedNotPaid
<1>1. ASSUME RetryInv PROVE ReleasedNotPaid
  <2>1. \A t \in Tx : Paid(t) => HasPosted(t, "DIRECT_1") \/ HasPosted(t, "TWO_LEG_2")
    BY DEF Paid, HasPosted
  <2> QED
    BY <1>1, <2>1, PaidNotLost DEF ReleasedNotPaid
<1> QED
  BY <1>1, RetryInvariant, PTL
=============================================================================
