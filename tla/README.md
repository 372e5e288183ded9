# Finify producer: verification project

This directory holds TLA+ modules for Finify, its payment path and the services around
it, the TLC configurations that check them on small instances, and TLAPS proofs of their
main safety theorems. Source paths below are relative to the repository root; migrations are
those of `database/migrations/`.

Contents: [the system](#1-the-system) · [what is hard](#2-what-is-hard-in-it) ·
[the modules](#3-the-modules-and-the-code) · [the runs](#4-the-runs) ·
[disagreements with the documentation](#5-where-code-and-documentation-disagree) ·
[the proofs](#6-the-proofs) · [limits](#7-abstractions-and-what-is-not-modelled) ·
[the plan](#8-the-plan)

## 1. The system

Finify is a mobile-wallet platform. A customer's transaction goes through these parts:

    client --HTTP--> producer API --Kafka topic--> consumer service --HTTP/Kafka--> merchant
                        |                            |        ^                        |
                        |                            |        +---- POST confirmation -+
                        v                            v
                   PostgreSQL: requests, AML reservations, wallets, journals, attempts,
                               confirmations, disputes, refunds

Nothing but PostgreSQL rows and Kafka messages is shared between services, and nothing
spans them: a handler is a chain of awaited calls, each of which commits on its own.

| Part | State | Operations | Correct when |
|---|---|---|---|
| Posting procedure, `sw_proc_direct_finify_transaction` (006) | wallets, request status, journals, entries, stored leg-1 payload | direct posting, leg 1, leg 2, reversal of either mode | no overdraft, money conserved, reserve backed, legs agree, a reversal is exact, the ledger is append-only, repeated calls change nothing |
| Refund procedure, `sw_proc_full_merchant_refund` (024) | `sw_tbl_merchant_refund`, a new request and journal | full refund | the same money properties |
| AML limits, `sw_proc_aml_reserve` and `_finalize` (011) | reservations, summary row per wallet and keyword | reserve, complete, release, reverse | pending and completed usage stay within the limits, the summary does not forget |
| Producer API, `src/modules/transaction/` | request row, Kafka message | create, check, reserve AML, update, send; compensate on error | a failed request is not paid, a sent one is not overwritten |
| Consumer service, `consumer-service/src/transactions/transaction-reader.service.ts` | merchant attempts | handle one message: direct, or reserve – ask the merchant – settle or reject | every message is finished, money follows the merchant's decision, AML follows the money |
| Merchant dispatch, `merchant-dispatch.service.ts` | – | send and interpret the answer | an ambiguous answer is not a decision |
| Confirmation callback, `merchant-confirmation.service.ts` | confirmations | first, repeated, contradicting callback | the first decision stands, whoever finishes it |
| Disputes, `dispute.controller.ts`, `processDisputeReversal` | disputes | submit, reverse | money given back and the books told so |
| Wallets and customers, `src/modules/wallets/`, `kyc-service/` | wallets, main wallet, profile, identity cases, opening requests | open, add, suspend, close, verify, review | a suspended wallet is not posted to, one usable main wallet, the profile agrees with its cases |
| Sanctions lists, `kyc-service/src/sanctions.service.ts` | records per list, runs, an advisory lock | download, upload, merge | customers are screened against whole lists |
| End-of-day accounting, `accounting-service/src/eod/` | business days, scheduler lease, run records | readiness, close, catch up, manual close, dry run | a day is closed once and with all its postings, and no due day stays open |
| Accounting configuration | effective-dated rows per currency | provision, create | exactly one configuration for every date |
| Reference data, `reference-data.service.ts` | live records, change requests | draft, queue, approve, reject, cancel | maker is not checker, nobody's work is overwritten |
| Prices, `pricing-rules/`, `transaction/charge.service.ts`, `commission.service.ts` | flows, headers, details, caches | validate, edit, review, activate, compute | one answer for one amount, the prices in force were reviewed, stale ones end |
| Treasury, `admin-operations/` | movement requests, documents, system wallets, control accounts | file, review, upload, remove | approved once, posted once, evidence kept |
| Merchant integration, `integration-config.service.ts` | versioned row, callback secret | upsert, switch | no secret is lost |
| Administrators, `admin-auth/` | accounts, sessions, authenticators, challenges | login, lockout, refresh, change, enrol, verify, recover | a super administrator remains, a code is used once |
| Onboarding, `onboarding/` (045, 046, 051) | versions of journeys and channels, graphs, running journeys | write, review, activate, walk | journeys in force were reviewed, a wallet is earned |
| Credit, `credit-rule-service/`, `credit-commercial/` | policies, terms, executions, review cases | edit, review, activate, evaluate, decide | what decides was reviewed, what is granted is within the policy |
| Administration console, `admin-ui/app/page.tsx`, `lib/session.ts`, `features/` | what a page shows and edits, cookies, requests in flight | set up, log in, poll, refresh the session; select, load, edit, save, decide, batch | the session lasts until it is logged out, what is written is what is displayed, no control stays disabled |
| Pricing studio, `features/pricing-flow/` | a definition being edited beside the stored flows | edit on a canvas, in fields or as text; save, step, simulate | what is drawn is what the service applies, one draft becomes one flow |
| Portal and onboarding editors, gateway, e-mail, assistant, flight finder | none of the system's | presentation and calls outwards | – |

`PROJECT.json` lists each of these parts with its sources and how far it is modelled. The
first eight rows are the payment path. The services below them keep tables of their own;
they read each other's tables, and no property of theirs spans two of them. The console calls
the services over HTTP with a session in two cookies, one for 15 minutes and one for days.

## 2. What is hard in it

* **Several writers of one row.** The request status is written by the producer (without
  looking), the posting procedure and the producer's catch block. A merchant attempt is
  written by the message handler, by another consumer after a rebalance, by the callback
  and by a dispute. An AML reservation is finalized by any of them.
* **State read before an await and used after it.** The consumer reads the attempt, asks
  the merchant and then writes; a dispute finds the posted mode and then reverses it; the
  merchant profile is read anew on every delivery.
* **Crashes between two commits.** After the posting and before AML finalization, after
  finalization and before the acknowledgement, between a callback's posting and its record.
* **Redelivery.** Kafka delivers again whatever was not acknowledged; merchants repeat
  callbacks, send them at once, or contradict themselves; timeouts leave it unknown whether
  a request arrived.
* **READ COMMITTED.** `sw_proc_aml_reserve` reads the summary and the pending reservations
  in two statements with two snapshots; the finalizer takes neither its advisory lock.
* **Calendar days.** `CURRENT_DATE` is the day a database transaction began on; a summary
  row has one date, which completions and reversals of other days rewrite.
* **Read, work, save the row.** Administrator sessions and credit policies are read without a
  lock and written later. A charge is read, changed and given to TypeORM's `save`, which reads the
  row again and updates the columns that differ from this second reading. Identity reviews,
  price-flow and journey activations decide on rows they do not lock.
* **One row for several records.** A lender's settlement wallet and allocation weight are shown in
  all its credit configurations, and every save of one of them overwrites them.
* **Two stores.** A treasury document is in a bucket and in a table, a charge in the table and
  in a cache, an onboarded wallet in one transaction and the journey that asked for it in
  another.
* **Leases and catching up.** Several processes run the end-of-day timer; the one that holds
  the lease may be killed, or lose it while it still closes days.
* **Answers in any order.** A console workspace has several requests in flight, most of its
  handlers take whatever answer comes, and one flag often stands for several requests. Two
  requests denied together both refresh the session, with the same secret.
* **Netting.** A reversal checks balances after its own credits; a leg 2 posts the payload
  leg 1 stored; several lines may hit one wallet.

Two hazards of the payment path have no property, because the code and its documents allow
the outcome. A payload whose full posting does not balance is reserved by leg 1, which tests only
that there is something to post (006, line 559), and stays reserved until a dispute. A
finalization that began before midnight and commits after another one has opened the next day's
row dates that row back (011, line 279); `MaxLate` below switches it on.

The list of hazards, with the line each one bites at and the properties aimed at it, is under
`hazards` in `PROJECT.json`.

## 3. The modules and the code

    PaymentLifecycle <--refines-- Posting <--refines-- TransactionPipeline
                                     ^                    = Producer + Consumer
    AmlReservation   <--refines-- AmlLimits                 + MerchantCallback + Disputes
          ^                                                 (all on PipelineState)
          +------------- used by PipelineState ---------------+

* **`Posting`** – the database side of money. One call of a stored procedure is one action,
  because each is one database transaction that locks the transaction id, the request and
  the wallets before it decides. `Outcome` gives the procedure's answer in the order of its
  early returns, `Funding` the tests made once the posting is known to be new and legal,
  `Write` everything a successful call changes, `Decline` what a refusal changes (it may set
  the request to failed). `DebitLines` and `CreditLines` are the accounting lines summed per
  wallet. `MerchantRefund` is the refund procedure, `MarkTransactionFailed` the producer's
  catch block, `ChangeWalletStatus` the administrator's action.
* **`PaymentLifecycle`** – what `Posting` promises of one payment in one mode: its money is
  nowhere, held, paid or returned, and moves only forward. `Posting` implements it under the
  mapping `Phase`.
* **`AmlLimits`** – reserve as the three steps `ReadSummary`, `ReadPending`, `Decide` under
  the advisory lock (`LockFree`), finalize as one step that any other call may fall between,
  and the calendar. One wallet and keyword: every row and lock the procedures touch belong to
  one pair.
* **`AmlReservation`** – the life of one reservation: none, pending, and completed, released
  or reversed. `AmlLimits` implements it, and the pipeline uses it (`Finalize`,
  `FinalizeCode`) as the AML procedures it calls.
* **`PipelineState`** – tables and handlers of the services. A handler is a record with the
  call it makes next (`pc`) and what it remembers; between two calls any other handler may
  run, and it may die.
* **`Producer`** – `transactionprocess` after the request row is there: AML reservation,
  status 2, Kafka send, and the catch block's release and failure. `LostReply` lets a call
  that took effect be seen as an error.
* **`Consumer`** – the Kafka handler: `PostDirect` (processDirect), `PostReserve`,
  `LookUpAttempt`, `MarkPending`, `SendToMerchant`, the answers, `SaveDecision`, `PostSettle`,
  `PostReject`, `SavePosting`, `FinalizeAml`, `Acknowledge`. A thrown error leaves the message
  to be delivered again. Two `Worker`s may hold one message, as after a rebalance. The
  merchant is modelled from what the code sends it and accepts from it.
* **`MerchantCallback`** – `MerchantConfirmationService.confirm`: receive (new, repeated or
  contradicting), insert, post leg 2 or the reversal, record, update the attempt, finalize.
* **`Disputes`** – submission, search for the posted mode, reversal, dispute row, attempt,
  AML.
* **`TransactionPipeline`** – all of it interleaved, its fairness and its properties.

The services around the payment path, one module each. A handler that is one database
transaction under a lock is one action; where rows are read before they are locked, or calls
are awaited in between, it is several, and what it read stays in a variable (`editing`,
`adminCalls`, `reviews`, `ruleCalls`, `job`, `updating`, `activating`, `drafts`).

* **`EodClose`** – the timer (`AcquireSchedule`), catch-up over currencies and days
  (`SchedulerStep`), the manual, batch and dry-run routes (`ManualRun`, `ManualStep`), readiness
  (`Ready`) and the close procedure, beside requests that are accepted on one day and posted
  on it or later. `Killed` and `CallThrows` are the failures; a lease expires on its own.
* **`AccountingConfig`** – provisionCurrency and create, with the statements other
  transactions can come between.
* **`Treasury`** – `Upload`, `RemoveUnattached`, `CreateFunding`, review in two steps under the
  row lock, and the wallets and control accounts an approval moves, while postings move them
  too.
* **`ReferenceData`** – a maker's read and merge (`Draft…`), the queueing transaction, and the
  decisions, shown on AML profiles; and the simulation of limits (`simulateAmlConfiguration`)
  beside the answer of the reservation (`ReserveAnswers`).
* **`IntegrationConfig`** – upsert in two steps under the merchant's lock, and the switch.
* **`PricingRules`** – what `validateDefinition` accepts and makes of a definition and what
  `simulate` computes, as operators; **`Tariffs`** – the charge and commission tables' answer:
  configuration, header, defaults of expired headers, detail row, amount. A negative charge value
  or bound is refused (`ChargeService`, line 265); `CommissionService` takes a negative
  commission as it is (line 190). Amounts are rounded half away from zero.
* **`PricingFlows`** – a flow from draft to retirement, activation in two steps;
  **`ChargeConfig`** – headers and details under maker and checker, nothing in a transaction,
  and the versioned cache. An operation reads the header (`ReadHeader`, `ReadParent`); its save
  reads it again (`Reload`) and updates the differing columns (`WriteHeader`, `Differing`).
* **`AdminAccounts`** – setup, login and lockout, sessions, changes of accounts;
  **`AdminMfa`** – challenges, codes by time slot, enrollment, the recovery PIN.
* **`CustomerAccounts`** – one customer's profile, cases, opening request and wallets;
  **`SanctionsLists`** – downloads and uploads under the advisory lock.
* **`OnboardingConfig`** – versions of journeys and channels; **`JourneyGraphs`** – the graph
  checks with their queue, and the simulation, against reachability as a definition;
  **`OnboardingJourney`** – one customer's journeys through every type of node.
* **`CreditRules`** – policies under unlocked edits and decisions. A policy has a scope: product,
  category and currency, compared as stored when another policy is activated (`SameScope`), and a
  band of scores. Its `author` began the version (`created_by`), its `maker` submitted the last
  request, and the history `reviewer` approved the content it has.
  **`CreditCommercial`** – terms with the screen's revision, and the row of the lender (`lenders`)
  that `createTerms` and `updateTerms` overwrite for all its configurations; **`CreditDecisions`** –
  the walk over the rules of a policy, and the manual review, which opens a case only if a queue
  is active.
* **`AdminConsole`** – `AdminPortal` and `CommandCenter`: `resolveEntry`, setup, the steps of a
  login, the poll `refreshSystemPulse` of two requests at once, `sessionFetch` with its refresh
  and second try, and on the server `refresh` in two steps (`refreshReads`, `refreshSaves`) beside
  the cookies (`jar`).
* **`ConsoleWorkspaces`** – thirteen workspaces of the console, one mounted. `pane` is what it
  shows: the record selected, whose details and whose form values stand there, and the flags that
  disable controls. `Reads` and `Writes` send a request; the answers (`loadDetail`, `CaseAnswers`,
  `ReferenceAnswers`, …) come in any order, or fail, or come after another workspace was mounted.
  `Writes` records in the history variable `wsPast.astray` a handler that writes for something
  else than what is displayed. The AML builder is part of it: a batch of creations and updates
  sent one after the other against limits that others change too.
* **`PricingStudio`** – `PricingFlowWorkspace`: editing one lane of a definition in the three modes,
  the studio's own check (`Accepts`), the drawing (`Wires`), and its requests. It uses the
  operators of `PricingRules`, so that what is drawn can be compared with what the service applies.
* **`Services`** – these twenty-two together. Nothing spans two of them, so one of them
  (`focus`) moves in a behaviour and the others stand at a first state; the conjunctions
  (`AccountingSound`, `CreditSound`, …) name what each area promises.

A definition named `Faulty…`, `Hasty…`, `Eager…`, `Lazy…` or `Raw…` is not part of the
model: it is a plausible bug, stated beside the definition it would replace, and each
property of the runs below is violated by (at least) one of them.

## 4. The runs

Deadlock checking is off in the pipeline, services and end-of-day runs only: once every
message, callback and dispute is done, every day closed, every answer computed or every
bound reached, the instance really has nothing left to do.

| Run | Instance | Shows |
|---|---|---|
| `posting` | two complete requests and an incomplete one, one refund, three payloads (right, tampered with, mispriced), balances that cover one payment but not always two, a payee that may be suspended; 20 k states | `TypeOK`, `NoOverdraft`, `MoneyConserved`, `ReserveBacked`, `LegsAgree`, `ReversalExact`, `LedgerAppendOnly`, `LifecycleSpec` |
| `aml_limits` | three transfers, limits that two of them fill, three days in two months, reserve calls up to a day late; 370 k states | `TypeOK`, `PendingAmountWithinLimits`, `PendingCountWithinLimits`, `SummaryCovers`, `ReservationSpec` |
| `callbacks` | one payment, two consumers of its message, two callbacks at once, both merchant channels, a payee that may be suspended; 830 k states up to symmetry | `RetriesSafe`, `ReleasedNotPaid`, `CallbacksSafe` |
| `disputes` | one payment over the Kafka channel, a merchant that changes its mind, one profile edit, one dispute, one crash, lost replies; 1.9 M states | `PipelineTypeOK`, `AmlBehindLedger`, `MoneyFollowsDecision`, `RecordsTruthful` |
| `delivery` | one payment, both channels, two crashes, one refund, fair scheduling; 6 k states | `Acknowledged`, `ReserveResolved`, `PaidIsCounted`, `PostingSpec` |
| `services` | one small instance of each of the twenty-two components, see below; 360 k states | `ServicesTypeOK`; `AccountingSound` (`ClosedOnce`, `ClosedDayWhole`, `OneConfiguration`), `TreasurySound` (`TreasuryBooks`, `EvidenceKept`), `SecretsKept`, `QuotesSound` (`StoredPricingSound`, `TariffSound`), `ActiveFlowReviewed`, `ApprovedHeaderReviewed`, `AdminsSound` (`SuperRemains`, `ClaimsCurrent`), `SecondFactorOnce`, `CustomersSound` (`MainWalletUsable`, `KycAgrees`, `ListsWhole`), `JourneysGoverned` (`ConfigGoverned`, `GraphsJudged`, `WalletEarned`), `ConsoleSound` (`SessionKept`, `PinKept`, `WritesOnDisplay`, `OneRecordShown`, `ControlsFreed`, `BatchesSound`, `SimulatorAgrees`, `CanvasTruthful`, `DraftsCreatedOnce`, `ConnectsPicked`), `CreditSound` (`PolicyReviewed`, `TermsAsApproved`, `CreditWithinPolicy`), `LiveOnlyByApproval`, `DueDaysClose`, `StaleChargesEnd` |
| `eod_order` | one process, an operator who closes day 3, four days | a documented claim is violated, see section 5 |
| `aml_race`, `shortfall`, `redelivery`, `disputed`, `flip` | the smallest instance with the behaviour | a documented claim is violated, see section 5 |

Why the bounds are enough.

* *Posting* keeps no memory between calls but the tables, and a call reads its own
  transaction, the wallets and nothing of any other transaction. Two transactions that share
  every wallet and a balance that does not suffice for both give all interactions; a third,
  incomplete one is there for the refusals.
* *AML*: three transfers are needed for a check to race with another reservation and a
  finalization. Two days share a month and the third opens another, so a row can be stale by
  a day and by a month. `MaxStraddle = 1` lets a reserve call begin before midnight and
  commit after it. `MaxLate = 0`: a *finalize* call that begins on one day and commits on the
  next can date the summary row back and drop what the new day had; `SummaryCovers` does not
  hold then, and is claimed only without.
* *Callbacks* has no crash bound: for a safety property a handler that dies is one that is
  never scheduled again, and with two consumers and two callbacks the other one can redo the
  work of a dead one. Handlers are interchangeable and only invariants are checked, so
  symmetry is sound.
* *Disputes* has one crash, since there is a single consumer and a single callback handler.
* *Delivery* runs each handler that is not crashed to its end; two crashes hit two handlers,
  or one message twice.
* Amounts 4, 3, 1 and 1 make every leg, charge and commission line different from the others
  in wallet or amount. `Purse` is 4 where one payment must exhaust the payer, 8 where it must
  not.

* *Services.* Two administrators wherever four eyes matter, so that maker and checker, or two
  overlapping calls, are there; two rows wherever rows compete (flows, bindings, wallets,
  cases, journeys, policies).
  * End of day: an operator beside one process with a request to close day 2; two processes
    and one thrown call; one process over three days. `MaxDaysPerTick = 2` makes a catch-up
    take two ticks. `ManualDays = {2}` keeps the order of the days in this run; `eod_order`
    drops that. Only due days are closed by hand: the route also accepts a day that is not
    over.
  * Accounts: `MaxAdminCalls = 2` calls in progress. Once an overlap has suspended
    `SuperRemains` no further call begins (`Began`).
  * Credit policies: seven calls on two policies, two of them in flight with one scope, or one at
    a time with three scopes: the low scores of a category, all its scores, any category
    (`MCBudget`). The second policy begins when the first one is approved (`inTurn`), and the first
    master's code and author are fixed, which loses only renamings.
  * Credit terms: two rows of one lender, two shared terms. `MaxRevisions = 4` bounds edits and
    submissions (`MayEdit`, `MaySubmit`), the second row's sooner. The first maker and the first
    row's shared terms are fixed, and the second row is drafted once the first was approved, before which
    rows of one product do not compete. The theorem has any number of rows and lenders.
  * Prices: every definition and table of a small grammar is an initial state; amounts 1 to 3
    cents lie below, on and above every limit in it. Graphs: every subset of eight edges on
    four nodes, 256 graphs.
  * Console: three scopes. The server is out of reach and the entry is tried again; one poll
    after another in a portal that is entered twice; one poll whose requests or answers are lost. One poll is two requests,
    which is what meets.
  * Workspaces: two records and two requests in flight (`MaxConsoleCalls`), so that a second choice
    overtakes the first. In the AML builder other administrators act once in a behaviour.
  * Studio: three edits of a commission lane or one of a charge lane on the canvas, one edit in the
    other two modes, three requests with a second administrator at work. `RangeSpan` and
    `WidestRange` are 2 and 5 in place of 100 000 and 10 000 000, and amounts 0 to 6 lie below, in,
    between and above the ranges.
  * Simulation of limits: every admissible choice of limits from 1 to 2, uses up to 2, amounts
    1 and 2.
  * Journey: two journeys of one customer, one handoff, one code sent twice, two attempts.

Exceptions. Some services can be overtaken in a way the code leaves open and no document
excludes. A history variable marks exactly that, and the property is claimed without it:
`overlapped` (two changes that each take a super administrator away commit together), the
field `raced` of a session (a login or refresh saved a row that a change had overtaken),
`kycRaced` (two reviews of one customer overlap, or a stored result is failed late),
`activationsOverlapped` (two journeys of one scope are activated together), `entangled` (two
management calls on one policy overlap), `crossed` (another save of a charge header came between
the second reading and the update of the last one), and the field `savedFor` of a lender (its
shared terms were last saved for another configuration).
Those of the console are fields of its history variables: `consolePast.met` (two refreshes of one
secret met), `unread` with `retried` (a retry of the entry was on its way), `wsPast.crossed`
(requests overlapped) and `failed`, `batch.disturbed` and `beyond` (others acted, an answer was
lost; a row is not on the page), `studioPast.overlapped` and `failed`.

### Four eyes on credit and charges

The following is what the code does, and what the properties above leave open. The first two
disagree with a document; they are stated here without a run of their own.

* *Terms in force change without approval.* Saving a draft writes the settlement wallet and the
  allocation weight to the lender's row (migration 055, lines 177-180), which the view of every configuration of that
  lender reads (lines 75, 78). So an active configuration changes, its revision does not, and nobody
  approves. `docs/credit-commercial-configuration.md` says that *"`ACTIVE` is reserved for
  maker-checker-approved `PRODUCTION` configurations"* (line 9); it also lists what the function
  updates (line 17). `TermsAsApproved` excepts the shared terms when they were saved for another
  row, and nothing else: saves for the row itself must show what was approved.
* *The last editor approves.* Approval compares the checker with `created_by`
  (`credit-rule-management.service.ts`, line 474), which an edit by somebody else does not change; submission
  keeps the maker of the request, and a CHECK of migration 014 (line 225) refuses him as its checker. Who neither
  began nor submitted a version may therefore approve the rules he wrote last.
  `credit-rule-service/README.md` asks that *"the maker and checker must be different people"*
  (lines 60-61). Price flows and journeys compare the last editor.
* *Several policies for one customer.* Activation supersedes the live policies of the same product,
  category and currency whose bands meet (lines 518-524). The evaluator also takes one for category
  `ANY` or without a currency (`credit-rule-evaluator.service.ts`, lines 439-442), and of all that match the
  one with the highest version. `PolicyReviewed` says what activation promises, one live policy per scope,
  and not that one policy decides alone.
* *Charges active with content nobody saw.* An approval writes only status, checker and date when
  the row, read again, is what it had read first. An edit that commits after this second reading is not
  seen: its content and the approval's status stand side by side. The same with a detail changed
  before its header is marked. `ApprovedHeaderReviewed` is claimed when no save came in between
  (`~crossed`), and not of details. Commissions are saved the same way.

### What the console does

These are consequences of the code that no document excludes. They are written into the
properties, as exceptions that are as narrow as the code allows.

* The access token ends after 15 minutes, and a poll sends two requests at once. Both are denied,
  both refresh with the same secret, and the service revokes the session of the second.
* A logout after the access token has ended is denied: the page shows the login, the session stays.
  `/admin/auth/me`, asked when the page starts, is not refreshed either.
* A retry of the entry that is answered late can take the recovery PIN off the page.
* Saving a wallet's routing, the reason of an identity decision, the rules of a policy, an exported
  report and the end-of-day schedule can act for something else than what is displayed
  (`KnownAstray`), because their values outlive the record or come before its answer. Terms move on
  without edits that are displayed. An editor of access or reference data is closed when the save
  of another record is answered.
* An approval can be given without its evidence once two reviews overlapped; the settings form
  can save its defaults after a load that failed.
* The AML page reads the first 100 configurations. Later rows are sent as creations and refused.
* In the studio any request that ends clears `busy`, and after a failed reload a draft still counts
  as unsaved: either way it can be created twice. A range added after an open-ended one overlaps it
  and is refused by the check. Fields and text let through what the service refuses (ids are put in
  upper case, so a default may dangle; a lane that is off is checked by the service only).

Conditions. `RetriesSafe`, `CallbacksSafe` and `ReleasedNotPaid` are checked for a payment
nobody disputes and that competes with no other for the payer's money, with a fixed merchant
profile, producer replies that are not lost and a merchant that keeps its decision. Each of
these conditions is needed. The runs `redelivery` and `shortfall` drop the first two. In
`MCCallbacks.cfg`, an edited profile (`MaxFlip = 1`, with `Purse = 8`) breaks `ReleasedNotPaid`.
A lost reply (`LostReply = TRUE`) breaks all three: the broker accepts the message, the producer
sees an error and releases the reservation, and the consumer pays all the same. A merchant that
answers APPROVED and calls back with REJECTED (`FickleMerchant = TRUE`) breaks `RetriesSafe`: one
handler books the payment as completed, the callback reverses it, and a second delivery of the
message finds leg 1 reversed and would release what is COMPLETED. The run has one payment, two
handlers of each kind and no crash; section 6 has the theorem for any number of them, with
crashes, under the same conditions (`Undisturbed`).

### Fairness

`FairPipelineSpec` assumes that

* an unacknowledged message is delivered (weak fairness of `Deliver`): Kafka keeps the offset;
* a handler that has started makes its next call (weak fairness of `WorkerProgress` and
  `CallerProgress`): Node runs every resolved promise, and each call has a timeout;
* a request that is sent again for ever reaches the merchant at some time and is answered at
  some time (strong fairness of `SendToMerchant` and of the answer): without it a merchant
  that is never reachable keeps the message and the reserve for ever, which is what the code
  intends;
* the merchant decides once it was asked, and repeats its callback (strong fairness of
  `Receive`): a callback that was answered with an error is retried by the merchant, and no
  code of Finify polls for a decision.

No fairness is assumed of the producer, crashes, disputes, edits or refunds.

`DueDaysClose` assumes `EodFairness`: the timer polls (strong fairness of `AcquireSchedule`,
since a lease may be taken and lost for ever), the call of a process that lives returns, a lease
runs out, the consumer finishes what it accepted, and accountants repair what blocks a day:
without the last a failed control keeps the day open, as it should. `StaleChargesEnd` assumes
`ChargeFairness`: a load that began ends, and an entry expires after its 300 seconds. Nothing
is assumed of administrators; the property is about the time after their last change.

## 5. Where code and documentation disagree

Each is a run that finds the documented sentence violated by what the code does.

* `aml_race` / `GrantedWithinLimit` (README 197-200): the check *"includes both completed
  summary usage and other pending Kafka reservations"*. The summary is read first and the
  pending reservations in the next statement; a finalization that commits in between is in
  neither figure.
* `shortfall` / `ReleasedNotPaid` (README 206): `RELEASED` *"after a terminal failure or
  merchant rejection"*. `INSUFFICIENT_BALANCE` releases, but leaves no journal; if the
  handler dies before the acknowledgement and the payer gets money, the redelivered message
  is paid.
* `redelivery` / `RetriesSafe` (README 209-211): *"Kafka retries … are safe because … every
  finalization outcome is idempotent"*. After a dispute reversal a redelivered message gets
  `ALREADY_REVERSED`, tries to release a reservation that is final and throws, on every
  delivery.
* `disputed` / `ReversedOnceDisputed` (README 207): `REVERSED` *"after a completed
  transaction reversal"*. A dispute of a payment whose reservation is still pending gives the
  money back and cannot mark the reservation.
* `flip` / `OneMode` (006 line 1005): *"Posts idempotent direct or two-leg Kafka
  transactions"*. A merchant made special between two deliveries has one transaction posted
  in both modes: idempotency is per mode.

* `eod_order` / `NeverOverFailed` (accounting-service/README 43-45): the scheduler *"stops at
  the first blocked date so a later day can never close over a failed prior day"*. It starts
  after the *latest* closed day. Once an operator has closed a later day, which the manual
  route allows whatever state the earlier days are in, the scheduler goes on from there over
  the failed day and does not come back to it.

## 6. The proofs

Eight modules are checked by TLAPS to the last leaf.

| Module | What it proves about |
| --- | --- |
| `SumProofs` | sums of a function over a finite set; induction over subsets and over numbers |
| `AmlProofs` | `AmlLimits`, and `AmlReservation` which it implements |
| `PipelineProofs` | `Posting`, and `PaymentLifecycle` which it implements; `TransactionPipeline` with `Producer`, `Consumer`, `MerchantCallback`, `Disputes` |
| `BackOfficeProofs` | `EodClose`, `AccountingConfig`, `Treasury`; `AdminMfa`, `AdminAccounts`, `CustomerAccounts`, `IntegrationConfig`, `SanctionsLists`, `OnboardingJourney` |
| `ReviewProofs` | `CreditCommercial`, `ChargeConfig`, `PricingFlows`, `ReferenceData`, `CreditRules`, `CreditDecisions`, `OnboardingConfig`, `JourneyGraphs`, `PricingRules`, `Tariffs` |
| `ConsoleProofs` | `AdminConsole`, `ConsoleWorkspaces`, the simulator of `ReferenceData` |
| `StudioProofs` | `PricingStudio` |
| `ServiceProofs` | `Services`: every invariant the run `services` checks, for all of these parts together; the types |

**Assumptions.** The theorems hold for every value of the constants that the named assumptions
allow, and TLC evaluates those assumptions on the instances it checks. They say of the
payment path that the three system wallets are wallets, initial balances are not negative, payload
amounts are natural numbers, and payments and refunds have different ids (`WalletAssumption`,
`RequestAssumption`, `PipelineAssumption`); that AML limits are natural numbers and amounts above
zero (`LimitsAssumption`). The sums need finitely many wallets and payments (`FiniteAssumption`),
and `ReserveIsBacked` that no request pays from or into the reserve wallet (`ReserveAssumption`):
migration 006 gives it a row and a number of its own. The other modules
need that bounds are natural numbers, that the names for nobody are nobody's, that sets named as
parts of others are, that policies and graphs have the shape their tables give them
(`CreditAssumption`, `GraphAssumption`), that a definition as it arrives has numbers and flags where they belong,
but maybe none (`PricingAssumption`), that charge headers have the columns of their table and are finitely many
(`TariffAssumption`), that the limits include the one of the profile that is there at the start
(`ReferenceAssumption`), that a one-time code may be tried between one and twenty times, the CHECK
of `otp_policies` in migration 045 (`JourneyAssumption`), that a workspace has a record and at least one request in
flight (`WorkspaceAssumption`), and that a number of things is finite. `StudioAssumption` says that there is a range between two others
(`RangeSpan < WidestRange`), that a lane may have two ranges, and that a lane typed as text has
the fields of a lane, whatever their values. Five theorems have a hypothesis of their own:

* `SummaryAlwaysCovers` assumes `MaxLate = 0`, as the run `aml_limits` does: a finalization commits
  on the day it began. One that commits after midnight under-reports; that is stated in section 4.
* `JourneysAlwaysGoverned` assumes `WalletsGuarded`: in the graph of the journey no way from the
  entry leads to a wallet but through the successful one-time code and the approved identity
  check. The journey seeded by migration 049 has this. `validateGraph` does not ask for it, so
  that a published journey without it would give wallets to customers who were not identified.
* `RetriesAlwaysSafe`, `CallbacksAlwaysSafe` and `ReleasedNeverPaid` assume `Undisturbed`: there are no
  disputes (`MaxDispute = 0`), the merchant's profile is not edited (`MaxFlip = 0`), the producer's
  replies are not lost, the merchant does not contradict itself, and no wallet that the first leg of one payment draws on
  is reached by another payment. Each of these is
  needed, as section 4 shows, and the run `callbacks` is an instance of them all.

**Sums.** The library's induction takes an operator as a parameter, which the provers cannot
instantiate. `SumProofs` does without: the set of subsets on which a claim holds is named, and if it is not
the whole power set, a smallest subset outside of it exists because strict inclusion is
well-founded on finite sets. So a fold is the table of its partial sums, is independent of the order, grows
by the element that is added, and follows an update of one value.

**Posting.** `TypeCorrect`, `NeverOverdrawn`, `LegsAlwaysAgree`, `ReversalsAreExact`,
`AppendOnly` and `ImplementsLifecycle` follow from one inductive invariant

    IInv == TypeOK /\ StatusShape /\ UnwrittenEmpty /\ AbsentEmpty
            /\ NoOverdraft /\ LegsAgree /\ ReversalExact

None of the three properties is inductive alone. A reversal mirrors the lines of the journals
*in force*; that this is everything booked needs `UnwrittenEmpty` (a journal that was not
written has no lines) and `LegsAgree` (a leg is in force unless it was reversed, and then the
reversal is written and no other can be). `StatusShape` says which statuses each operation's
journal can have. A refund writes a journal under a new id, which must be empty before:
`AbsentEmpty`. The proof has one lemma per action (`CommitInv`, `DeclineInv`, `RefundInv`),
and under `CommitInv` one step per conjunct.

`MoneyIsConserved` and `ReserveIsBacked` add the sums:

    MoneyInv == IInv /\ JournalsBalanced /\ Conserved /\ ReserveLines /\ Backed

A step writes one journal and adds its lines to the wallets, so that money is conserved if every journal is
balanced; a reversal is balanced because what it mirrors is, a refund because the posting it
returns is. For the reserve, a leg 1 puts into the temporary wallet the amount it stores, and
leg 2 or the reversal takes out *that* amount and not the one of its own payload (`ReserveLines`);
so the sum over the open reservations and the wallet change alike.

**AML.** The limits rest on the lock:

    IInv == TypeOK /\ OneLocked /\ LockedIsNew /\ Decided /\ Limited

One call at a time is past the lock, and `Decided` ties the figures it has added up to what is
pending now: others cannot reserve in between, so the pending set can only shrink until it inserts. Amounts
and numbers are the same sum with different weights, and `PendingAmountBounded` and
`PendingCountBounded` the same argument. `ImplementsReservation` adds that a call that
found no reservation still finds none when it inserts. `SummaryAlwaysCovers` is about the
summary row, which keeps one date: nothing completed is later than that date, which never runs
ahead of today (`Dated`), and the two figures cover the completions of the date and of its
month (`Covered`). A completion of an earlier day that is reversed, or a first one of a new
month, rewrites figures and date together.

**Pipeline.** `ImplementsPosting` shows that every step of every handler is a step of `Posting`
or leaves the money alone, and `PipelineKeepsReservations` the same of AML reservations. The
delicate step is the producer's `UpdateRequest`, which sets
status 2 whatever the row says and would take a completed request back. The invariant

    PInv == PipelineTypeOK /\ HandlersBusy /\ EarlyUntouched

carries it: until the producer has sent the message no handler, attempt or dispute knows the
transaction and the row is still queued. `PipelineTypeCorrect` is its first conjunct, and
`PipelineMoneySafe` transfers the theorems of `Posting` to the pipeline, the sums included.

`MoneyMovesOnWord`, `RecordsAreTrue` and `AmlNeverAhead` are about what the tables say while
several handlers are at work on one payment, with crashes, lost replies, disputes, an edited profile
and a merchant that contradicts itself:

    KInv == PInv /\ IInv /\ HandlersKnow /\ RowsTrue /\ \A t : MoneyFollows(t)

`HandlersKnow` says what a handler between two calls has found out: one about to settle has heard
APPROVED, one about to record COMPLETED has seen leg 2 posted. Nothing so found out is ever
unlearnt (`Grows`): journals stay written, words stay said, a dispute stays. So every other
handler's step keeps it, and a row that is written from it is true when it is written and remains so.

The theorems about retries are of any number of `Undisturbed` payments, message handlers, callbacks,
deliveries, crashes, refunds and suspended wallets:

    RetryInv == KInv /\ Unspent /\ PaidOnlyPayable /\ NoDispute /\ OneWay /\ OneWord
                /\ SentLast /\ LostReleases /\ ReleasedRightly

A handler releases a reservation because its first leg was refused, or the merchant rejected the
payment. Would another handler, earlier or later, have paid? While nothing is
posted of a payment, the wallets it draws on have what they had at first and no journal has lines on them (`Unspent`),
so a refund or a settlement elsewhere does not touch them; whether the first leg can be paid is then
a matter of the request, the message and the first balance (`Payable`), and not of the time. A refusal
for a suspended wallet is retried, so that a release means `~Payable`, and a posted leg means `Payable`
(`PaidOnlyPayable`). `OneWay`: all handlers use the same mode; `OneWord`: what was said of a payment is
one decision, so that a rejected one was not approved. Together they make `Lost` and paid exclude each
other, and neither is ever undone. The producer releases as well: then the message was never sent and nobody
knows the payment (`SentLast`). `ReleasedRightly` says that these are all the reasons there are.

**Books.** `DaysClosedWhole`: for any currencies, processes, operators, days and kills, a
day is closed by one run and its snapshot holds every journal ever dated on it.

    EodInv == EodTypeOK /\ DueIsOver /\ FirstClosed /\ JobsSound /\ PostedLater
              /\ ClosedIsSettled /\ ClosedOnce /\ ClosedDayWhole

A job works on due days only, and due days are over (`DueIsOver`), so nothing new is accepted
on them; what readiness found settled stays settled until the close (`JobsSound`), because a
posting is dated on the day of its request or later (`PostedLater`); and no posting in progress
is dated on a closed day (`ClosedIsSettled`). That the days to catch up begin after an existing
latest closed day needs a greatest element, taken from the library's well-founded relations.

`EveryDateConfigured`: the configurations of a currency are a chain (`RowsInOrder`): any two follow one
another, and a row that ends has one that begins the day after. A transaction that has run its
UPDATE keeps the open row to itself (`OpenRowHeld`), so the row it inserts continues the chain.
`TreasuryAlwaysSound`: a movement is approved once because a review locks a pending one of somebody
else (`ReviewsLocked`), so the balance, a sum over the approved movements, grows by one of them;
and the document of a movement is attached, which no removal touches (`DocumentsHeld`).

**Reviews.** `TermsAlwaysAsApproved` ties a screen to its row: a screen with the row's revision
shows the row's terms, and the lender's unless these were saved for another row since: a save of
this row raises its revision. `HeadersAlwaysReviewed` follows a save through its two statements.
Columns that do not differ from the second reading are taken from the row; as long as this is what
was read (`~crossed`), the whole row becomes the one to be saved. An approval's row has the content
its call read and a checker who is not its maker. `FlowsAlwaysReviewed` needs `Locking`: a flow under activation is
locked, so that it still is the approved one when the activation commits, and the unique index
decides between two. `LiveAlwaysByApproval` (an action property) follows a merged record
from the draft to the approval: it is ordered, and outside the named fields it is the record the
maker read, which the approval compares with the live one.

Credit policies check without a lock and write later. `RuleInv` keeps a history of which masters
had calls that disturb each other; what any other call has checked still holds when it writes
(`ChecksHold`), and an activation knows every live policy of an overlapping band (`RivalsKnown`). For
a decision `CreditInv` follows the walk through the rules: limits stay within base and maximum, a rule
that refuses ends the walk (`WalkEnds`), and a case is opened by a finished walk alone. It
is proved for every policy, request and answer of the sources, where TLC takes some.

Versions of journeys: an activation checks that its scope is free and commits later. One that
overlaps no other still finds it free (`ActivationsWait`). The validation of a graph is a
breadth-first walk; `GraphInv` says that what it reached can be reached, and that what the
reached nodes lead to is reached or queued: once the queue is empty, the reached set is closed
under the edges and so is everything reachable. Reachability is defined as the least closed set, and both
inclusions are proved for any finite graph.

**Quotes.** Ranges are put in order by their minimum, equal ones as they came. `SortOrder` chooses that order, so the
proofs first show that there is one, by inserting element after element (`OneInserted`, `Enumerated`), and that it leaves a table
alone that is in order (`IncreasingIsIdentity`). A stored definition is therefore read again as it is
(`ChargeStays`, `CommissionStays`), and ranges that are in order and do not overlap have one member for an amount (`OneMatch`).
A header that expired leads to its successor. Each step of that recursion visits a header it had not visited, so
there is a table of answers for every visited set, built from the fullest set down (`Solved`), and the
recursive function satisfies its own equation (`FollowTableSolves`); what it ends at is approved and in
force (`FollowedInForce`).

**Identity.** `SecondFactorAlwaysOnce`: a secret is drawn for one challenge, belongs to one
authenticator and has spent nothing before; the codes spent of a secret in use are not later than
its last slot; an answered challenge is consumed. `AdminsAlwaysSound`: while one change takes a
super administrator away no other does, and somebody else remains (`OneRemoves`); what a token
claims was true when the role was read, and a change since then has revoked or marked it
(`ClaimsHold`). `CustomersAlwaysSound`: the customer's own number is the first wallet, so a main wallet is not opened
beside another; a review that runs alone knows whether there is an approved case. `SecretsAlwaysKept`,
`ListsAlwaysWhole`: a lock keeps what an operation in progress has read true until it writes.

Journeys: the nodes behind the one-time code and those behind the identity check are named as the
sets `WalletsGuarded` speaks of. Who stands at such a node, or comes back to one through a handoff, has
passed the check (`NodeEarned`); a step leads out of neither set but by the outcome that guards
it, so a wallet node is only reached by who is entitled to it.

**Console.** `ConsoleAlwaysKept` rests on two invariants. `ConsoleInv` is about the session: as long as no
two refreshes met, at most one request of one poll refreshes (`OneRefreshes`), it holds the secret that
is in force or brings the new one (`RefreshHolds`), and when none does the browser holds it (`JarHolds`); the
entry is resolved a second time only on a retry, which is what could take the PIN away (`EntryInv`).
`WorkInv` has one part per workspace, which says what its flags, details and form mean in terms of
the requests in flight: a control is disabled only while a request is under way that will free it,
details that are missing are being read for the record that is selected. Without overlaps there is one
request at a time (`OneCall`). Each handler that sends and each answer that arrives has a lemma, since a request
of a workspace left behind may be answered in another one. `BatchesAlwaysSound`: a record stays `fresh` while
nobody else touches it, and as long as it is, the page and the row agree on whether it has a limit and a change
waiting, which is all the service asks. The simulator tries five limits in order, and so does the reservation; that both name
the first one exceeded needs the least element of a set of indices.

**Studio.** `StudioAlwaysTruthful` is about a definition that is edited on a canvas, in fields and
as text while the flows are stored, listed and stepped by requests that overlap:

    StudioInv == studioScope \in StudioScope /\ EditorKept /\ WireKept /\ FlowsKept /\ CallsKept
                 /\ RoomKept /\ PastKept /\ OneAtATime /\ DraftsKept

*What is drawn is what applies.* As long as nobody has typed it as text, a lane is `Drawable`
(`EditorKept`): its calculations and its ranges have ids, no two the same, and the default is one of
the calculations. A calculation that is added takes an id nobody has, a range is appended
behind the last one, and each edit has a lemma that it leaves the lane drawable. The
service does not read what was drawn: it sorts the ranges, names those without an id, fills in
defaults and reads its own result again. For a drawable lane that the studio's check finds right the
proofs show that the service accepts it (`DrawnAccepted`), that its reading of what it stores is its
reading of what it was sent (`ReadBack`), and that the wire an amount follows on the canvas ends at
the calculation the service applies to it (`DrawnIsApplied`). *One draft, one flow.* While no flag
was cleared under a request there is one that writes (`OneAtATime`); a request carries the number of
the draft it was sent for, and a draft that became a flow is neither carried by another request nor,
until the list shows its flow, still in the editor (`DraftsKept`). `RoomKept` counts: whoever is
storing a new flow has a free row, by the bound of the model, and needs the library's cardinalities.
*The range that was picked.* A wire begun on a range ends on it unless the range has moved or is
gone in between (`WireKept`); no step that is offered is refused for the row on display
(`PastKept`).

**Services.** A step of `Services` is a step of one service and a stutter of every other
(`OneMoves`), so the invariants above hold of all services together. The theorems of
`ServiceProofs` are the properties the run `services` checks. `ConsoleAlwaysSound` puts the console together from
`ConsoleAlwaysKept`, `BatchesAlwaysSound` and `StudioAlwaysTruthful`.

`ServicesTypeCorrect` has the types and bounds of every service, as three invariants: the back
office (`OfficeInv`), what is reviewed before it is in force (`ReviewInv`) and the console
(`ScreenInv`). Most are part of the invariants above. Where they were not, the bound rests on
something else: `runs.RUNNING` is never below zero because whoever ends a run is in one, and one
lock serves all operations (`RunsCounted`); a simulation of a graph that goes on has looked at no
more nodes than there are (`LooksBounded`); a code that is pending has a try left, so the wrong
one that is counted is within the policy (`OtpBounded` in `JourneyTyped`, which needs no
`WalletsGuarded`); and what a maker proposes is a whole profile, whichever columns the request
named (`RefTyped`). The proof was also a check of the model: `Tariffs` had let a negative charge
through that `ChargeService` refuses, because no instance had a negative detail; now it has
the guard, and the run has such details.

Model-checked only: liveness (`Acknowledged`, `ReserveResolved`, `PaidIsCounted`, `DueDaysClose`,
`StaleChargesEnd`), which is outside the prover. Every invariant that a passing run checks is a theorem.

## 7. Abstractions and what is not modelled

* Amounts are whole numbers; the code has `numeric(24,6)` and compares exactly.
* The keyword, PIN, charge and commission checks before the AML reservation are one step
  that may fail. Whether a keyword bypasses AML is a free choice (`BypassAml`).
* A payload is the set of amounts a posting reads and whether it matches its request; the
  procedure compares the rest of the payload with the request row in the same test.
* `OPERATION_IN_PROGRESS` is left out: it answers a journal status nothing commits.
* The topic is a set of unacknowledged messages. Order within a partition does not matter to
  one transaction; that a message that keeps throwing blocks those behind it is not shown.
* A transaction has one dispute reference; a repeated submission keeps its row.
* A callback under a correlation id that is not the stored one is answered 404 and not
  modelled further. Authorization and field mapping of callbacks are left out.
* The HTTP retry loop of a dispatch, its token cache and merchant login are abstracted to
  whether the request arrived and what was heard.
* Refunds: the posting is modelled, the idempotency by client reference is not.
* AML: one wallet and keyword. The pipeline takes the outcome of the limit check as a free
  choice; the limits themselves are the business of `AmlLimits`.
* End of day: the control queries of the close procedure are one fault per day, which an
  accountant repairs. Changing the schedule is left out. Manual closes of days that are not
  over, and manual journals with a `value_date` in a closed day, are not covered by
  `ClosedDayWhole`: the code accepts both.
* Charge and commission lines credit fixed wallets; in the procedure the payload names them (006,
  lines 505-506). Negative amounts (`INVALID_AMOUNT`, lines 508-517) are refused
  and write nothing; payload amounts here are natural numbers.
* The merchant profile may change between two deliveries (`FlipProfile`). No code of the
  repository changes it but its seeds; that somebody does is taken from the consumer, which reads the
  profile on every delivery.
* A save of terms also sets the merchant's default wallet (055, line 177), which the configuration does
  not show; it is left out.
* A save of an administrator's account or session writes the row as it was read, in one step. TypeORM
  (`admin-auth.service.ts`, lines 102, 147, 156, 213, 261) reads the row again first and updates what
  differs; a change committed between these two statements survives as if it had come after the save.
* Reference data is shown on AML profiles; the other resource types have other columns and the
  same operations. Commission configuration has the operations of charge configuration.
* Credit: whether a source's answer meets a rule's condition is free; the condition engine, the
  score providers and two of the limit actions (a limit set from a source's value or from
  a multiple of an input) are left out, as are the variants of a child rule's fields.
* Onboarding: the contents of forms, and which fields a node type requires; the clients of
  channels. A one-time code is right or wrong.
* Administrators: roles other than super administrator, biometrics (an outside service),
  password rules and captchas.
* Identity checks: text recognition and name matching are free outcomes.
* Console: layout, wording, filters, paging other than the AML builder's, and calls that only read.
  Of a record the workspaces keep only which one it is; the studio follows one lane at a time and
  of the other whether it is on.
* Not modelled, because they keep no state a property could be about: reports and statements
  (they read), registration and user stubs, the portal, the onboarding editors (the services check
  again what they send), e-mail, the assistant, lookups, gateway configuration, scripts, the
  mock merchant, the flight finder.

## 8. The plan

What remains, the most consequential first.

1. **Refund requests.** The idempotency by client reference (024) in front of `MerchantRefund`.
2. **Conditions.** The condition engine of credit rules against a reference evaluation over
   bounded conditions.
