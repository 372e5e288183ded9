--------------------------- MODULE ConsoleWorkspaces ---------------------------
(***************************************************************************)
(* The workspaces of the administration console.  One is mounted; it shows *)
(* a record beside a list, reads its details with a request, and writes    *)
(* with a request that is followed by another read.  Nothing keeps the     *)
(* answers in the order of the requests, and most handlers take whatever   *)
(* answer comes: what matters is that a write goes to what is displayed.   *)
(***************************************************************************)
EXTENDS Naturals, FiniteSets

CONSTANTS
  ConsoleRecord,    \* the records of a list: customers, cases, policies, reports, requests
  MaxConsoleCalls   \* bound on the requests in flight

ASSUME WorkspaceAssumption == MaxConsoleCalls \in Nat \ {0} /\ ConsoleRecord # {} /\ "none" \notin ConsoleRecord

VARIABLES
  workspace,     \* the module that is mounted
  pane,          \* its state: the record selected, whose details are shown, whose values stand in the
                 \* form, an owner or choice kept aside, and the flags that disable controls
  wsCalls,       \* requests in flight: the handler that awaits the answer, and the record
  wsPast,        \* history since mounting: writes for what was not displayed, requests together, failures
  batch          \* the AML builder: what the server holds, what the page knows of it, a batch of requests

workspaceVars == <<workspace, pane, wsCalls, wsPast, batch>>

Workspaces == {"customers", "transactions", "kyc", "credit", "aml", "accounting", "approvals",
               "settings", "funding", "access", "reference", "terms", "builder"}
None == "none"
OrNone == ConsoleRecord \cup {None}
CallSlot == 1..MaxConsoleCalls
NoCall == [by |-> None, of |-> None]
Empty == [selected |-> None, detail |-> None, form |-> None, aside |-> None,
          editing |-> FALSE, loading |-> FALSE, busy |-> FALSE]
Calm == [astray |-> {}, crossed |-> FALSE, failed |-> FALSE]

(* What a workspace shows when it mounts: most read their list at once.     *)
FirstPane(w) ==
  CASE w \in {"settings", "accounting"} -> [Empty EXCEPT !.form = "default", !.loading = (w = "settings")]
    [] w \in {"credit", "reference"} -> [Empty EXCEPT !.loading = TRUE]
    [] w = "terms" -> [Empty EXCEPT !.form = "default", !.busy = TRUE]
    [] OTHER -> Empty

FirstCalls == [settings |-> "settings", accounting |-> "settings", credit |-> "masters", access |-> "list",
               reference |-> "refList", terms |-> "termsList"]
FirstCall(w) == IF w \in DOMAIN FirstCalls THEN [by |-> FirstCalls[w], of |-> None] ELSE NoCall

Mounts(w, p, c) ==
  /\ p = FirstPane(w)
  /\ c = [s \in CallSlot |-> IF s = 1 THEN FirstCall(w) ELSE NoCall]

(* The AML builder: services and wallets are combined, and one request per  *)
(* combination is sent after the other, a creation or an update by what the *)
(* page knows; then the configurations are read, then what is pending.  The *)
(* choice has no other effect than on the batch, so it is made at the click.*)
NoOne == [c \in ConsoleRecord |-> None]
LimitSet == {"a", "b"}

(* rows and waiting are the server's: limits in force, limits requested;    *)
(* beyond are the rows after the hundred that the page asks for.            *)
Resting(b) ==
  [b EXCEPT !.phase = "idle", !.limits = None, !.asked = {}, !.todo = {}, !.creates = {}, !.fresh = {},
            !.accepted = {}, !.failed = {}, !.refused = {}]

FirstBatch(rows, beyond) ==
  [rows |-> rows, beyond |-> beyond, waiting |-> NoOne, known |-> NoOne, shown |-> {}, ready |-> FALSE,
   reading |-> {"configs", "pending"}, phase |-> "idle", limits |-> None, asked |-> {}, todo |-> {},
   creates |-> {}, fresh |-> {}, accepted |-> {}, failed |-> {}, refused |-> {}, others |-> FALSE, disturbed |-> FALSE]

NoBatch == FirstBatch(NoOne, {})

Mounted(w) ==
  IF w # "builder" THEN batch' = NoBatch
  ELSE \E rows \in [ConsoleRecord -> {None, "a"}] :
         \E beyond \in SUBSET {c \in ConsoleRecord : rows[c] # None} : batch' = FirstBatch(rows, beyond)

WorkspaceInit ==
  /\ workspace = None /\ pane = Empty /\ wsCalls = [s \in CallSlot |-> NoCall] /\ wsPast = Calm
  /\ batch = NoBatch

(* Navigation unmounts a workspace, and the answers on their way find       *)
(* nobody; then it mounts another.                                          *)
Leave ==
  /\ workspace # None /\ workspace' = None /\ pane' = Empty /\ wsCalls' = [s \in CallSlot |-> NoCall]
  /\ wsPast' = Calm /\ batch' = NoBatch

Navigate(w) == workspace = None /\ workspace' = w /\ Mounts(w, pane', wsCalls') /\ Mounted(w) /\ UNCHANGED wsPast

-----------------------------------------------------------------------------
Quiet == \A s \in CallSlot : wsCalls[s] = NoCall
FreeSlots == {s \in CallSlot : wsCalls[s] = NoCall}

(* A request is sent; past is the history with what the handler adds to it. *)
Sends(by, r, past) ==
  /\ FreeSlots # {}
  /\ LET s == CHOOSE x \in FreeSlots : \A y \in FreeSlots : x <= y
     IN  wsCalls' = [wsCalls EXCEPT ![s] = [by |-> by, of |-> r]]
  /\ wsPast' = [past EXCEPT !.crossed = @ \/ ~Quiet]

Reads(by, r) == Sends(by, r, wsPast)

(* A handler writes to record r.  Displayed is what the administrator sees. *)
Writes(handler, by, r, displayed) ==
  Sends(by, r, [wsPast EXCEPT !.astray = IF displayed = {r} THEN @ ELSE @ \cup {handler}])

(* The answer is there; the handler goes on with another request, or ends.  *)
Continues(s, by, r) == wsCalls' = [wsCalls EXCEPT ![s] = IF by = None THEN NoCall ELSE [by |-> by, of |-> r]]
Answered(s) == Continues(s, None, None)
Fails(s) == Answered(s) /\ wsPast' = [wsPast EXCEPT !.failed = TRUE]

InFront(w) == workspace = w
OnDisplay == {pane.selected, pane.detail}

-----------------------------------------------------------------------------
(* Customers and transactions: a drawer over the list.  Its content shows   *)
(* when details are there and none are being loaded.                        *)
Offered == pane.selected # None /\ pane.detail # None /\ ~pane.loading

openCustomer(r) ==
  /\ InFront("customers") /\ pane.selected = None /\ Reads("detail", r)
  /\ pane' = [pane EXCEPT !.selected = r, !.detail = None, !.form = r, !.editing = FALSE, !.loading = TRUE]
  /\ UNCHANGED workspace

openTransaction(r) ==
  /\ InFront("transactions") /\ pane.selected = None /\ Reads("detail", r)
  /\ pane' = [pane EXCEPT !.selected = r, !.detail = None, !.loading = TRUE]
  /\ UNCHANGED workspace

(* The answer replaces what is shown and what stands in the form, whichever *)
(* record was opened since.                                                 *)
loadDetail(s, ok) ==
  LET r == wsCalls[s].of
  IN  /\ workspace \in {"customers", "transactions"} /\ wsCalls[s].by = "detail"
      /\ IF ok
         THEN /\ pane' = [pane EXCEPT !.selected = r, !.detail = r, !.form = IF InFront("customers") THEN r ELSE @,
                                      !.loading = FALSE]
              /\ Answered(s) /\ UNCHANGED wsPast
         ELSE pane' = [pane EXCEPT !.loading = FALSE] /\ Fails(s)
      /\ UNCHANGED workspace

(* The list of transactions: aside is the filter, form that of its rows.    *)
searchTransactions(q) ==
  /\ InFront("transactions") /\ pane.selected = None /\ pane.aside # q /\ Reads("list", q)
  /\ pane' = [pane EXCEPT !.aside = q] /\ UNCHANGED workspace

ListLoaded(s, ok) ==
  /\ InFront("transactions") /\ wsCalls[s].by = "list"
  /\ IF ok THEN pane' = [pane EXCEPT !.form = wsCalls[s].of] /\ Answered(s) /\ UNCHANGED wsPast
     ELSE Fails(s) /\ UNCHANGED pane
  /\ UNCHANGED workspace

CloseDrawer ==
  /\ workspace \in {"customers", "transactions"} /\ pane.selected # None
  /\ pane' = [pane EXCEPT !.selected = None] /\ UNCHANGED <<workspace, wsCalls, wsPast>>

(* The editor of the profile, and the routing form of one of the wallets.   *)
CustomerTabs ==
  /\ InFront("customers") /\ Offered
  /\ \/ pane' = [pane EXCEPT !.editing = ~@]
     \/ pane' = [pane EXCEPT !.aside = pane.detail]
     \/ pane.aside # None /\ pane' = [pane EXCEPT !.aside = None]
  /\ UNCHANGED <<workspace, wsCalls, wsPast>>

(* changeStatus, setDefaultWallet, setWalletStatus: rows of the details.    *)
changeCustomer ==
  /\ InFront("customers") /\ Offered /\ Writes("changeCustomer", "write", pane.detail, OnDisplay)
  /\ UNCHANGED <<workspace, pane>>

(* completeAccountOpening, addCurrencyWallet: the customer selected.        *)
addCurrencyWallet ==
  /\ InFront("customers") /\ Offered /\ Writes("addCurrencyWallet", "write", pane.selected, OnDisplay)
  /\ UNCHANGED <<workspace, pane>>

saveProfile ==
  /\ InFront("customers") /\ Offered /\ pane.editing
  /\ Writes("saveProfile", "saveProfile", pane.selected, OnDisplay \cup {pane.form})
  /\ UNCHANGED <<workspace, pane>>

(* The wallet was chosen when its form opened.  Opening another customer    *)
(* does not close the form.                                                 *)
saveRouting ==
  /\ InFront("customers") /\ Offered /\ pane.aside # None
  /\ LET sent == [wsPast EXCEPT !.astray = IF OnDisplay = {pane.aside} THEN @ ELSE @ \cup {"saveRouting"}]
     IN  Sends("saveRouting", pane.selected, sent)
  /\ UNCHANGED <<workspace, pane>>

createCustomer(r) ==
  /\ InFront("customers") /\ pane.selected = None /\ Reads("create", r) /\ UNCHANGED <<workspace, pane>>

(* A write is followed by a load of the record that was selected then.      *)
CustomerSaved(s, ok) ==
  LET c == wsCalls[s]
  IN  /\ InFront("customers") /\ c.by \in {"write", "saveProfile", "saveRouting", "create"}
      /\ IF ok
         THEN /\ pane' = [pane EXCEPT !.editing = @ /\ c.by # "saveProfile", !.loading = TRUE,
                                      !.aside = IF c.by = "saveRouting" THEN None ELSE @]
              /\ Continues(s, "detail", c.of) /\ UNCHANGED wsPast
         ELSE UNCHANGED pane /\ Fails(s)
      /\ UNCHANGED workspace

-----------------------------------------------------------------------------
(* KYC: the list stays in reach beside the case; the form is the reason of  *)
(* a decision, which stays when another case is opened.                     *)
openCase(r) == InFront("kyc") /\ Reads("open", r) /\ UNCHANGED <<workspace, pane>>

TypeReason ==
  /\ InFront("kyc") /\ pane.selected # None /\ pane' = [pane EXCEPT !.form = pane.selected]
  /\ UNCHANGED <<workspace, wsCalls, wsPast>>

createCase(r) ==
  /\ InFront("kyc") /\ ~pane.busy /\ Reads("created", r)
  /\ pane' = [pane EXCEPT !.busy = TRUE] /\ UNCHANGED workspace

uploadAndVerify(by) ==
  /\ InFront("kyc") /\ ~pane.busy /\ pane.selected # None
  /\ Writes(by, by, pane.selected, {pane.selected})
  /\ pane' = [pane EXCEPT !.busy = TRUE] /\ UNCHANGED workspace

decideIdentity ==
  /\ InFront("kyc") /\ ~pane.busy /\ pane.selected # None /\ pane.form # None
  /\ Writes("decideIdentity", "decided", pane.selected, {pane.selected, pane.form})
  /\ pane' = [pane EXCEPT !.busy = TRUE] /\ UNCHANGED workspace

(* upload goes on with open, and so does a verification that failed.        *)
CaseAnswers(s, ok) ==
  LET c == wsCalls[s]
      again == c.by = (IF ok THEN "upload" ELSE "verify")
  IN  /\ InFront("kyc") /\ c # NoCall
      /\ pane' = [pane EXCEPT !.selected = IF ok /\ c.by # "upload" THEN c.of ELSE @,
                              !.form = IF ok /\ c.by = "decided" THEN None ELSE @,
                              !.busy = @ /\ (again \/ c.by = "open")]
      /\ IF again
         THEN Continues(s, "reopen", c.of) /\ wsPast' = [wsPast EXCEPT !.failed = @ \/ ~ok]
         ELSE IF ok THEN Answered(s) /\ UNCHANGED wsPast ELSE Fails(s)
      /\ UNCHANGED workspace

-----------------------------------------------------------------------------
(* Credit: the rules on the canvas are read after a policy is selected, and *)
(* those of the last one stay until the answer comes.                       *)
MastersLoad(s, ok) ==
  LET first == IF pane.selected = None THEN CHOOSE r \in ConsoleRecord : TRUE ELSE pane.selected
  IN  /\ InFront("credit") /\ wsCalls[s].by = "masters"
      /\ pane' = [pane EXCEPT !.loading = FALSE, !.selected = IF ok THEN first ELSE @]
      /\ IF ~ok THEN Fails(s)
         ELSE UNCHANGED wsPast /\ IF pane.selected = None THEN Continues(s, "rules", first) ELSE Answered(s)
      /\ UNCHANGED workspace

selectPolicy(r) ==
  /\ InFront("credit") /\ pane.selected \notin {None, r} /\ Reads("rules", r)
  /\ pane' = [pane EXCEPT !.selected = r] /\ UNCHANGED workspace

RulesLoad(s, ok) ==
  /\ InFront("credit") /\ wsCalls[s].by = "rules"
  /\ IF ok THEN pane' = [pane EXCEPT !.detail = wsCalls[s].of] /\ Answered(s) /\ UNCHANGED wsPast
     ELSE Fails(s) /\ UNCHANGED pane
  /\ UNCHANGED workspace

transitionPolicy ==
  /\ InFront("credit") /\ pane.selected # None /\ ~pane.loading
  /\ Writes("transitionPolicy", "transition", pane.selected, OnDisplay) /\ UNCHANGED <<workspace, pane>>

createRule ==
  /\ InFront("credit") /\ pane.selected # None
  /\ Writes("createRule", "createRule", pane.selected, OnDisplay) /\ UNCHANGED <<workspace, pane>>

createPolicy(r) ==
  /\ InFront("credit") /\ pane.selected # r /\ Reads("createPolicy", r) /\ UNCHANGED <<workspace, pane>>

simulatePolicy ==
  /\ InFront("credit") /\ pane.selected # None /\ Reads("simulate", pane.selected)
  /\ pane' = [pane EXCEPT !.busy = TRUE] /\ UNCHANGED workspace

(* A transition reloads the list, a new rule the rules of its policy; a new *)
(* policy is selected once the list is there.                               *)
CreditSaved(s, ok) ==
  LET c == wsCalls[s]
      next == [transition |-> "masters", createRule |-> "rules", createPolicy |-> "rules", simulate |-> None]
  IN  /\ InFront("credit") /\ c.by \in DOMAIN next
      /\ IF ok THEN UNCHANGED wsPast /\ Continues(s, next[c.by], c.of) ELSE Fails(s)
      /\ pane' = [pane EXCEPT !.busy = @ /\ c.by # "simulate",
                              !.loading = @ \/ (ok /\ c.by = "transition"),
                              !.selected = IF ok /\ c.by = "createPolicy" THEN c.of ELSE @]
      /\ UNCHANGED workspace

-----------------------------------------------------------------------------
(* AML: the rows themselves carry the controls.                             *)
decideCase(r) ==
  /\ InFront("aml") /\ Writes("decideCase", "decideCase", r, {r}) /\ UNCHANGED <<workspace, pane>>

AmlReloads(s, ok) ==
  LET c == wsCalls[s]
  IN  /\ InFront("aml") /\ c # NoCall
      /\ IF ok /\ c.by = "decideCase" THEN Continues(s, "list", c.of) /\ UNCHANGED wsPast
         ELSE IF ok THEN Answered(s) /\ UNCHANGED wsPast ELSE Fails(s)
      /\ UNCHANGED <<workspace, pane>>

-----------------------------------------------------------------------------
(* Accounting: a view with its filters is selected, its report is shown.    *)
(* Another view clears the report, another filter does not.  The control    *)
(* and currency views have no report.                                       *)
changeView(r) ==
  /\ InFront("accounting") /\ pane.selected # r
  /\ IF r = None THEN UNCHANGED <<wsCalls, wsPast>> ELSE Reads("report", r)
  /\ pane' = [pane EXCEPT !.selected = r, !.detail = None, !.loading = @ \/ r # None]
  /\ UNCHANGED workspace

changeFilter(r) ==
  /\ InFront("accounting") /\ pane.selected \notin {None, r} /\ Reads("report", r)
  /\ pane' = [pane EXCEPT !.selected = r, !.loading = TRUE] /\ UNCHANGED workspace

loadReport(s, ok) ==
  /\ InFront("accounting") /\ wsCalls[s].by = "report"
  /\ pane' = [pane EXCEPT !.detail = IF ok THEN wsCalls[s].of ELSE @, !.loading = FALSE]
  /\ IF ok THEN Answered(s) /\ UNCHANGED wsPast ELSE Fails(s)
  /\ UNCHANGED workspace

(* The rows that are there, under the name of the view and its filters.     *)
exportRows ==
  /\ InFront("accounting") /\ pane.selected # None /\ pane.detail # None
  /\ wsPast' = [wsPast EXCEPT !.astray = IF pane.detail = pane.selected THEN @ ELSE @ \cup {"exportRows"}]
  /\ UNCHANGED <<workspace, pane, wsCalls>>

(* dryRun, runSchedulerNow and the batches reload the schedule, and with it *)
(* the values in its form.                                                  *)
runClose ==
  /\ InFront("accounting") /\ Reads("close", None) /\ UNCHANGED <<workspace, pane>>

saveSchedule ==
  /\ InFront("accounting") /\ ~pane.busy
  /\ Writes("saveSchedule", "save", None, IF pane.form = "default" THEN {} ELSE {None})
  /\ pane' = [pane EXCEPT !.busy = TRUE] /\ UNCHANGED workspace

(* Security, and the assistant: the form is hidden while it loads.          *)
saveSettings ==
  /\ InFront("settings") /\ ~pane.loading /\ ~pane.busy
  /\ Writes("saveSettings", "save", None, IF pane.form = "default" THEN {} ELSE {None})
  /\ pane' = [pane EXCEPT !.busy = TRUE] /\ UNCHANGED workspace

SettingsAnswer(s, ok) ==
  LET c == wsCalls[s]
  IN  /\ workspace \in {"accounting", "settings"} /\ c.by \in {"settings", "close", "save"}
      /\ pane' = [pane EXCEPT !.form = IF ok /\ c.by = "settings" THEN "stored" ELSE @,
                              !.loading = @ /\ (InFront("accounting") \/ c.by # "settings"),
                              !.busy = @ /\ c.by # "save"]
      /\ IF ~ok THEN Fails(s)
         ELSE UNCHANGED wsPast /\ IF c.by = "close" THEN Continues(s, "settings", None) ELSE Answered(s)
      /\ UNCHANGED workspace

-----------------------------------------------------------------------------
(* Approvals: the answer of openReview is taken only for the request that   *)
(* is open, but whichever comes ends the loading, and a failure closes it.  *)
(* Faulty: it is taken for any.                                             *)
openReview(r) ==
  /\ InFront("approvals") /\ pane.selected = None /\ Reads("review", r)
  /\ pane' = [pane EXCEPT !.selected = r, !.detail = None, !.form = None, !.loading = TRUE]
  /\ UNCHANGED workspace

FaultyReviewLoaded(s, ok) ==
  /\ InFront("approvals") /\ wsCalls[s].by = "review"
  /\ pane' = [pane EXCEPT !.detail = wsCalls[s].of, !.loading = FALSE]
  /\ Answered(s) /\ UNCHANGED <<workspace, wsPast>>

ReviewLoaded(s, ok) ==
  LET r == wsCalls[s].of
  IN  /\ InFront("approvals") /\ wsCalls[s].by = "review"
      /\ pane' = [pane EXCEPT !.detail = IF ok /\ pane.selected = r THEN r ELSE @,
                              !.selected = IF ok THEN @ ELSE None, !.loading = FALSE]
      /\ IF ok THEN Answered(s) /\ UNCHANGED wsPast ELSE Fails(s)
      /\ UNCHANGED workspace

CloseReview ==
  /\ InFront("approvals") /\ pane.selected # None /\ ~pane.busy
  /\ pane' = [pane EXCEPT !.selected = None] /\ UNCHANGED <<workspace, wsCalls, wsPast>>

TypeComment ==
  /\ InFront("approvals") /\ pane.selected # None
  /\ pane' = [pane EXCEPT !.form = pane.selected] /\ UNCHANGED <<workspace, wsCalls, wsPast>>

(* A rejection needs a comment, an approval that nothing is being loaded.   *)
decideRequest(verdict) ==
  /\ InFront("approvals") /\ pane.selected # None /\ ~pane.busy
  /\ IF verdict = "approve" THEN ~pane.loading ELSE pane.form # None
  /\ IF verdict = "approve" THEN Writes("approve", "decide", pane.selected, OnDisplay)
     ELSE Writes("reject", "decide", pane.selected, {pane.selected, pane.form})
  /\ pane' = [pane EXCEPT !.busy = TRUE] /\ UNCHANGED workspace

RequestDecided(s, ok) ==
  /\ InFront("approvals") /\ wsCalls[s].by = "decide"
  /\ pane' = [pane EXCEPT !.busy = FALSE, !.selected = IF ok THEN None ELSE @, !.form = IF ok THEN None ELSE @]
  /\ IF ok THEN Answered(s) /\ UNCHANGED wsPast ELSE Fails(s)
  /\ UNCHANGED workspace

-----------------------------------------------------------------------------
(* Funding: the evidence is uploaded, then the request is made with it, and *)
(* when that fails the evidence is removed.                                 *)
openFunding ==
  /\ InFront("funding") /\ ~pane.editing /\ pane' = [pane EXCEPT !.editing = TRUE]
  /\ UNCHANGED <<workspace, wsCalls, wsPast>>

submitFunding(r) ==
  /\ InFront("funding") /\ pane.editing /\ ~pane.busy /\ Reads("upload", r)
  /\ pane' = [pane EXCEPT !.busy = TRUE] /\ UNCHANGED workspace

FundingAnswers(s, ok) ==
  LET c == wsCalls[s]
      goesOn == (c.by = "upload" /\ ok) \/ (c.by = "request" /\ ~ok)
  IN  /\ InFront("funding") /\ c # NoCall
      /\ IF goesOn THEN Continues(s, IF ok THEN "request" ELSE "remove", c.of) /\ UNCHANGED wsPast
         ELSE IF ok THEN Answered(s) /\ UNCHANGED wsPast ELSE Fails(s)
      /\ pane' = [pane EXCEPT !.busy = @ /\ goesOn, !.editing = @ /\ ~(ok /\ c.by = "request"),
                              !.aside = IF ok /\ c.by = "request" THEN c.of ELSE @,
                              !.detail = IF ok /\ c.by \in {"upload", "remove"}
                                         THEN (IF c.by = "upload" THEN c.of ELSE None) ELSE @]
      /\ UNCHANGED workspace

-----------------------------------------------------------------------------
(* Access: a drawer whose editor has a flag of its own.  Closing the drawer *)
(* forgets the flag and not the request; the answer of a request that was   *)
(* forgotten still closes the drawer, whatever it shows by then.            *)
openAccess(r) ==
  /\ InFront("access") /\ ~pane.editing
  /\ pane' = [pane EXCEPT !.selected = r, !.editing = TRUE] /\ UNCHANGED <<workspace, wsCalls, wsPast>>

Forgotten == [saveAccess |-> "lateSave", resetMfa |-> "lateReset", resetList |-> "list"]

WithoutEditor(calls) ==
  [s \in CallSlot |-> IF calls[s].by \in DOMAIN Forgotten THEN [calls[s] EXCEPT !.by = Forgotten[@]] ELSE calls[s]]

NoEditor(p) == [p EXCEPT !.selected = None, !.editing = FALSE, !.busy = FALSE, !.aside = None]

closeAccess ==
  /\ InFront("access") /\ pane.editing
  /\ pane' = NoEditor(pane) /\ wsCalls' = WithoutEditor(wsCalls) /\ UNCHANGED <<workspace, wsPast>>

saveAccess ==
  /\ InFront("access") /\ pane.editing /\ ~pane.busy /\ Reads("saveAccess", pane.selected)
  /\ pane' = [pane EXCEPT !.busy = TRUE] /\ UNCHANGED workspace

resetMfa ==
  /\ InFront("access") /\ pane.editing /\ pane.selected # None /\ pane.aside = None
  /\ Reads("resetMfa", pane.selected)
  /\ pane' = [pane EXCEPT !.aside = pane.selected] /\ UNCHANGED workspace

(* onSaved closes the drawer, and every change that was made loads the list.*)
AccessAnswers(s, ok) ==
  LET c == wsCalls[s]
      closes == ok /\ c.by \in {"saveAccess", "lateSave"}
      next == IF ~ok \/ c.by \in {"list", "resetList"} THEN NoCall
              ELSE [by |-> IF c.by = "resetMfa" THEN "resetList" ELSE "list", of |-> None]
      calls == [wsCalls EXCEPT ![s] = next]
      reset == c.by = "resetList" \/ (c.by = "resetMfa" /\ ~ok)
  IN  /\ InFront("access") /\ c # NoCall
      /\ IF closes THEN pane' = NoEditor(pane) /\ wsCalls' = WithoutEditor(calls)
         ELSE /\ wsCalls' = calls
              /\ pane' = [pane EXCEPT !.busy = @ /\ c.by # "saveAccess", !.aside = IF reset THEN None ELSE @]
      /\ wsPast' = [wsPast EXCEPT !.failed = @ \/ ~ok,
           !.astray = IF closes /\ c.by = "lateSave" /\ pane.editing THEN @ \cup {"editorClosed"} ELSE @]
      /\ UNCHANGED workspace

-----------------------------------------------------------------------------
(* Reference data: one flag says what is under way, a load, a save or the   *)
(* deactivation of a record; every handler sets it, and every end clears it.*)
UnderWay(what, r) ==
  [pane EXCEPT !.loading = (what = "refList"), !.busy = (what = "saveReference"),
               !.aside = IF what = "deactivate" THEN r ELSE None]

NothingUnderWay == ~pane.loading /\ ~pane.busy /\ pane.aside = None

refreshReference ==
  /\ InFront("reference") /\ ~pane.loading /\ ~pane.editing /\ Reads("refList", None)
  /\ pane' = UnderWay("refList", None) /\ UNCHANGED workspace

(* openKeyword, openWallet: a row while nothing is under way, a new record  *)
(* at any time.                                                             *)
openReference(r) ==
  /\ InFront("reference") /\ ~pane.editing /\ (r # None => NothingUnderWay)
  /\ pane' = [pane EXCEPT !.selected = r, !.editing = TRUE] /\ UNCHANGED <<workspace, wsCalls, wsPast>>

closeReference ==
  /\ InFront("reference") /\ pane.editing
  /\ pane' = [pane EXCEPT !.selected = None, !.editing = FALSE] /\ UNCHANGED <<workspace, wsCalls, wsPast>>

(* saveKeyword, saveWallet: the button waits for a save and for nothing     *)
(* else.                                                                    *)
saveReference ==
  LET twice == ~wsPast.crossed /\ \E s \in CallSlot : wsCalls[s] = [by |-> "saveReference", of |-> pane.selected]
  IN  /\ InFront("reference") /\ pane.editing /\ ~pane.busy
      /\ Sends("saveReference", pane.selected,
               [wsPast EXCEPT !.astray = IF twice THEN @ \cup {"sentTwice"} ELSE @])
      /\ pane' = UnderWay("saveReference", None) /\ UNCHANGED workspace

deactivate(r) ==
  /\ InFront("reference") /\ ~pane.editing /\ NothingUnderWay /\ Reads("deactivate", r)
  /\ pane' = UnderWay("deactivate", r) /\ UNCHANGED workspace

(* A change that was made is followed by a load, and closes the editor that *)
(* is open, be it another record's.                                         *)
ReferenceAnswers(s, ok) ==
  LET c == wsCalls[s]
      goesOn == ok /\ c.by # "refList"
      closes == ok /\ c.by = "saveReference"
      shown == UnderWay(IF goesOn THEN "refList" ELSE None, None)
  IN  /\ InFront("reference") /\ c # NoCall
      /\ pane' = IF closes THEN [shown EXCEPT !.selected = None, !.editing = FALSE] ELSE shown
      /\ IF goesOn THEN Continues(s, "refList", None) ELSE Answered(s)
      /\ wsPast' = [wsPast EXCEPT !.failed = @ \/ ~ok,
           !.astray = IF closes /\ pane.editing /\ pane.selected # c.of THEN @ \cup {"editorClosed"} ELSE @]
      /\ UNCHANGED workspace

-----------------------------------------------------------------------------
(* Commercial terms: the form is edited beside the list, and busy disables  *)
(* the writes but neither the list nor the form.  A load selects the first  *)
(* configuration and waits for its audit trail (the detail); a write goes   *)
(* on with a load and with the configuration it wrote.  The form field of   *)
(* the pane says whether the list was read.                                 *)
FirstTerms == CHOOSE r \in ConsoleRecord : TRUE

selectTerms(r) ==
  /\ InFront("terms") /\ pane.form = "stored" /\ Reads("audit", r)
  /\ pane' = [pane EXCEPT !.selected = r, !.editing = FALSE] /\ UNCHANGED workspace

NewTerms ==
  /\ InFront("terms") /\ (pane.selected # None \/ pane.editing)
  /\ pane' = [pane EXCEPT !.selected = None, !.detail = None, !.editing = FALSE]
  /\ UNCHANGED <<workspace, wsCalls, wsPast>>

EditTerms ==
  /\ InFront("terms") /\ ~pane.editing /\ pane' = [pane EXCEPT !.editing = TRUE]
  /\ UNCHANGED <<workspace, wsCalls, wsPast>>

refreshTerms ==
  /\ InFront("terms") /\ ~pane.busy /\ Reads("termsList", None)
  /\ pane' = [pane EXCEPT !.busy = TRUE] /\ UNCHANGED workspace

(* The server names a configuration that is new.                            *)
saveTerms(r) ==
  /\ InFront("terms") /\ ~pane.busy /\ pane.selected \in {None, r} /\ Reads("savedTerms", r)
  /\ pane' = [pane EXCEPT !.busy = TRUE] /\ UNCHANGED workspace

(* submit, approve, reject, activate, retire: what is stored moves on, what *)
(* was typed since is not sent.                                             *)
transitionTerms ==
  /\ InFront("terms") /\ ~pane.busy /\ pane.selected # None
  /\ Writes("transitionTerms", "savedTerms", pane.selected, IF pane.editing THEN {} ELSE {pane.selected})
  /\ pane' = [pane EXCEPT !.busy = TRUE] /\ UNCHANGED workspace

simulateTerms ==
  /\ InFront("terms") /\ ~pane.busy /\ Reads("simulateTerms", None)
  /\ pane' = [pane EXCEPT !.busy = TRUE] /\ UNCHANGED workspace

Selects(r) == [pane EXCEPT !.selected = r, !.editing = FALSE]

(* The end of a load: busy is cleared, and after a write the configuration  *)
(* that was written is selected.                                            *)
LoadEnds(s, shown) ==
  LET next == wsCalls[s].of
  IN  IF next = None THEN pane' = [shown EXCEPT !.busy = FALSE] /\ Answered(s)
      ELSE /\ pane' = [shown EXCEPT !.busy = FALSE, !.selected = next, !.editing = FALSE]
           /\ Continues(s, "lastAudit", next)

TermsAnswers(s, ok) ==
  LET c == wsCalls[s]
      trail == IF ok THEN (IF c.by = "firstAudit" THEN FirstTerms ELSE c.of) ELSE None
  IN  /\ InFront("terms") /\ c # NoCall
      /\ wsPast' = [wsPast EXCEPT !.failed = @ \/ ~ok]
      /\ \/ /\ c.by = "savedTerms"
            /\ IF ok THEN Continues(s, "termsList", c.of) ELSE Answered(s)
            /\ pane' = [pane EXCEPT !.busy = ok]
         \/ /\ c.by = "termsList"
            /\ IF ok THEN /\ Continues(s, "firstAudit", c.of)
                          /\ pane' = [Selects(FirstTerms) EXCEPT !.form = "stored"]
               ELSE LoadEnds(s, pane)
         \/ c.by = "firstAudit" /\ LoadEnds(s, [pane EXCEPT !.detail = trail])
         \/ /\ c.by \in {"audit", "lastAudit"} /\ Answered(s)
            /\ pane' = [pane EXCEPT !.detail = trail, !.busy = @ /\ c.by = "audit"]
         \/ c.by = "simulateTerms" /\ Answered(s) /\ pane' = [pane EXCEPT !.busy = FALSE]
      /\ UNCHANGED workspace
-----------------------------------------------------------------------------
(* The AML builder at work.                                                *)
Stays == InFront("builder") /\ UNCHANGED <<workspace, pane, wsCalls, wsPast>>

(* What the page knows of c is what the server holds.                       *)
InSync(c) == batch.known[c] = batch.rows[c] /\ (c \in batch.shown <=> batch.waiting[c] # None)

(* load of the AML workspace, after a batch and on demand; it answers with  *)
(* the rows of the moment, or leaves what was there.                        *)
ReadConfigs(ok) ==
  LET seen == [c \in ConsoleRecord |-> IF c \in batch.beyond THEN None ELSE batch.rows[c]]
  IN  /\ Stays /\ (batch.phase = "idle" \/ "configs" \in batch.reading)
      /\ batch' = [batch EXCEPT
           !.known = IF ok THEN seen ELSE @, !.disturbed = @ \/ ~ok,
           !.reading = (@ \ {"configs"}) \cup (IF batch.phase = "closing" THEN {"pending"} ELSE {})]

(* loadReferenceData: the choices, and what is pending.                     *)
loadReferenceData(ok) ==
  LET read == [batch EXCEPT
        !.shown = IF ok THEN {c \in ConsoleRecord : batch.waiting[c] # None} ELSE @,
        !.ready = @ \/ ok, !.reading = @ \ {"pending"}, !.disturbed = @ \/ ~ok]
  IN  /\ Stays /\ "pending" \in batch.reading
      /\ batch' = IF batch.phase = "closing" THEN Resting(read) ELSE read

actionableCombinations(chosen, limits) == {c \in chosen : batch.known[c] # limits}

(* Faulty: combinations that wait for a checker are not held back.          *)
FaultyBlockedCombinations(S) == {}
blockedCombinations(S) == S \cap batch.shown

submitBatch(chosen, limits) ==
  LET asked == actionableCombinations(chosen, limits)
  IN  /\ Stays /\ batch.phase = "idle" /\ batch.ready /\ "pending" \notin batch.reading
      /\ asked # {} /\ blockedCombinations(asked) = {}
      /\ batch' = [batch EXCEPT
           !.phase = "sending", !.limits = limits, !.asked = asked, !.todo = asked,
           !.creates = {c \in asked : batch.known[c] = None}, !.fresh = {c \in asked : InSync(c)},
           !.disturbed = @ \/ "configs" \in batch.reading]

(* queue of the service, as in ReferenceData; lost: the answer is, or the   *)
(* request before it.                                                       *)
SendNext(c, fate) ==
  LET accepts == /\ (c \in batch.creates) <=> (batch.rows[c] = None)
                 /\ batch.rows[c] # batch.limits /\ batch.waiting[c] = None
      taken == accepts /\ fate # "lost"
  IN  /\ Stays /\ batch.phase = "sending" /\ c \in batch.todo
      /\ batch' = [batch EXCEPT
           !.todo = @ \ {c}, !.waiting[c] = IF taken THEN batch.limits ELSE @,
           !.accepted = IF taken THEN @ \cup {c} ELSE @,
           !.failed = IF taken /\ fate = "answered" THEN @ ELSE @ \cup {c},
           !.refused = IF accepts THEN @ ELSE @ \cup {c}, !.disturbed = @ \/ fate # "answered"]

BatchSent ==
  /\ Stays /\ batch.phase = "sending" /\ batch.todo = {}
  /\ batch' = [batch EXCEPT !.phase = "closing", !.reading = @ \cup {"configs"}]

(* A checker decides, or another maker submits; the bound is once.          *)
OthersAct(c) ==
  LET acted == [batch EXCEPT !.fresh = @ \ {c}, !.others = TRUE, !.disturbed = TRUE]
      limits == batch.waiting[c]
  IN  /\ Stays /\ ~batch.others
      /\ \/ limits # None /\ batch' = [acted EXCEPT !.rows[c] = limits, !.waiting[c] = None]
         \/ limits # None /\ batch' = [acted EXCEPT !.waiting[c] = None]
         \/ /\ limits = None
            /\ \E l \in LimitSet \ {batch.rows[c]} : batch' = [acted EXCEPT !.waiting[c] = l]

BuilderNext ==
  \/ BatchSent
  \/ \E ok \in BOOLEAN : ReadConfigs(ok) \/ loadReferenceData(ok)
  \/ \E chosen \in SUBSET ConsoleRecord, limits \in LimitSet : submitBatch(chosen, limits)
  \/ \E c \in ConsoleRecord :
       OthersAct(c) \/ \E fate \in {"answered", "lost", "answer lost"} : SendNext(c, fate)

PaneNext ==
  \/ CloseDrawer \/ CustomerTabs \/ changeCustomer \/ addCurrencyWallet \/ saveProfile \/ saveRouting
  \/ TypeReason \/ decideIdentity \/ transitionPolicy \/ createRule \/ simulatePolicy
  \/ exportRows \/ runClose \/ saveSchedule \/ saveSettings \/ CloseReview \/ TypeComment \/ openFunding
  \/ closeAccess \/ saveAccess \/ resetMfa \/ refreshReference \/ closeReference \/ saveReference
  \/ NewTerms \/ EditTerms \/ refreshTerms \/ transitionTerms \/ simulateTerms
  \/ \E r \in ConsoleRecord :
       \/ openCustomer(r) \/ openTransaction(r) \/ createCustomer(r) \/ openCase(r) \/ createCase(r)
       \/ selectPolicy(r) \/ createPolicy(r) \/ decideCase(r) \/ changeFilter(r) \/ openReview(r)
       \/ submitFunding(r) \/ searchTransactions(r) \/ deactivate(r) \/ selectTerms(r) \/ saveTerms(r)
  \/ \E r \in OrNone : changeView(r) \/ openAccess(r) \/ openReference(r)
  \/ \E by \in {"upload", "verify"} : uploadAndVerify(by)
  \/ \E verdict \in {"approve", "reject"} : decideRequest(verdict)
  \/ \E s \in CallSlot, ok \in BOOLEAN :
       \/ loadDetail(s, ok) \/ ListLoaded(s, ok) \/ CustomerSaved(s, ok) \/ CaseAnswers(s, ok)
       \/ MastersLoad(s, ok) \/ RulesLoad(s, ok) \/ CreditSaved(s, ok) \/ AmlReloads(s, ok) \/ loadReport(s, ok)
       \/ SettingsAnswer(s, ok) \/ ReviewLoaded(s, ok) \/ RequestDecided(s, ok) \/ FundingAnswers(s, ok)
       \/ AccessAnswers(s, ok) \/ ReferenceAnswers(s, ok) \/ TermsAnswers(s, ok)

WorkspaceNext ==
  \/ Leave \/ \E w \in Workspaces : Navigate(w)
  \/ PaneNext /\ UNCHANGED batch
  \/ BuilderNext

WorkspaceTypeOK ==
  /\ workspace \in Workspaces \cup {None}
  /\ {pane.selected, pane.detail, pane.aside} \subseteq OrNone
  /\ pane.form \in OrNone \cup {"default", "stored"}
  /\ {pane.editing, pane.loading, pane.busy} \subseteq BOOLEAN
  /\ {batch.rows, batch.waiting, batch.known} \subseteq [ConsoleRecord -> LimitSet \cup {None}]
  /\ batch.phase \in {"idle", "sending", "closing"} /\ batch.todo \subseteq batch.asked

-----------------------------------------------------------------------------
(* Handlers that may send for something other than what is displayed, even  *)
(* when every request is answered before the next: the routing form and the *)
(* reason of a decision outlive their record, the rules and the report of   *)
(* the last choice stay until the answer comes, the schedule shows its      *)
(* defaults until it has loaded, and terms move on without the edits that   *)
(* are displayed.  An editor of access or reference data is closed by the   *)
(* save of another record.                                                  *)
KnownAstray == {"saveRouting", "decideIdentity", "transitionPolicy", "createRule", "exportRows", "saveSchedule",
                "transitionTerms", "editorClosed"}

(* Every other handler writes to the record on display; an approval without *)
(* its evidence needs two reviews that overlapped, and settings are         *)
(* overwritten by the defaults of the form only after a load that failed.   *)
(* No form is sent twice unless other requests overlapped.                  *)
WritesOnDisplay ==
  /\ wsPast.astray \subseteq KnownAstray \cup {"approve", "saveSettings"}
  /\ "approve" \in wsPast.astray => wsPast.crossed
  /\ "saveSettings" \in wsPast.astray => wsPast.failed

(* A drawer shows one record: the heading, the details and the form agree,  *)
(* whatever the order of the answers; and once every answer is there, what  *)
(* is shown is what was chosen last, unless answers overtook each other or  *)
(* one failed.                                                              *)
OneRecordShown ==
  /\ workspace \in {"customers", "transactions", "approvals"} /\ pane.selected # None /\ pane.detail # None =>
       pane.detail = pane.selected
  /\ InFront("customers") /\ pane.selected # None => pane.form = pane.selected
  /\ Quiet /\ ~wsPast.crossed /\ ~wsPast.failed =>
       /\ workspace \in {"kyc", "access", "reference"} \/ pane.selected \in {None, pane.detail}
       /\ InFront("transactions") => pane.form = pane.aside

(* No control stays disabled when every answer is there; the editor of      *)
(* access is disabled exactly while its own request is under way, and so is *)
(* that of reference data as long as no requests overlapped.                *)
ControlsFreed ==
  LET underWay(handlers) == \E s \in CallSlot : wsCalls[s].by \in handlers
  IN  /\ Quiet => ~pane.busy /\ ~pane.loading
      /\ InFront("access") =>
           /\ pane.busy <=> underWay({"saveAccess"})
           /\ pane.aside # None <=> underWay({"resetMfa", "resetList"})
      /\ InFront("reference") /\ ~wsPast.crossed =>
           /\ pane.busy <=> underWay({"saveReference"})
           /\ pane.aside # None <=> underWay({"deactivate"})

(* A batch of AML limits: the service refuses no request about a record the *)
(* page had right; a batch said to be submitted whole was accepted whole;   *)
(* and after it the page knows again what the server holds, unless others   *)
(* acted, a request or an answer was lost, or the row is not on the page.   *)
BatchesSound ==
  /\ batch.refused \cap batch.fresh = {}
  /\ batch.todo = {} /\ batch.failed = {} => batch.accepted = batch.asked
  /\ InFront("builder") /\ batch.phase = "idle" /\ batch.reading = {} /\ ~batch.disturbed =>
       \A c \in ConsoleRecord \ batch.beyond : InSync(c)
=============================================================================
