--------------------------- MODULE CreditCommercial ---------------------------
(***************************************************************************)
(* The commercial terms of credit products: drafted, submitted, approved by *)
(* another administrator, activated for testing or for production, edited   *)
(* again, retired.  Every call runs in one database function that locks the *)
(* row and compares the revision its caller had on the screen.              *)
(* The settlement wallet and the allocation weight that a configuration     *)
(* shows are those of its lender: one row for all configurations of the     *)
(* lender, which every save of one of them overwrites.                      *)
(***************************************************************************)
EXTENDS Naturals

CONSTANTS
  LastBinding,    \* bound: rows of credit_product_bindings, all for one product and channel
  TermsAdmin,
  FirstMaker,     \* bound: who drafts the first row, the administrators being interchangeable
  Terms,          \* commercial terms of a row's own; those in Incomplete miss a value
  Incomplete,
  Lender,
  SharedTerms,    \* settlement wallets with allocation weights
  MaxRevisions    \* bound: past it the first row is neither edited nor submitted, the next one sooner

ASSUME CommercialAssumption ==
  /\ LastBinding \in Nat /\ MaxRevisions \in Nat /\ Incomplete \subseteq Terms
  /\ "nobody" \notin TermsAdmin /\ FirstMaker \in TermsAdmin /\ "none" \notin Lender

Binding == 1..LastBinding

Environment == {"TEST", "PRODUCTION"}

VARIABLES
  bindings,
  lenders,        \* credit_lenders: the shared terms, and (history) for which row they were saved
  screen,         \* what an administrator last looked at: the row's revision and all its terms
  approvals       \* history: per row, the terms its approver had on the screen

commercialVars == <<bindings, lenders, screen, approvals>>

NoBinding == [status |-> "none", env |-> "TEST", terms |-> "none", lender |-> "none",
              revision |-> 0, maker |-> "nobody", checker |-> "nobody"]

NoTerms == [terms |-> "none", lender |-> "none", shared |-> "none"]
NoScreen == [row |-> 0, revision |-> 0, view |-> NoTerms]

CommercialInit ==
  /\ bindings = [b \in Binding |-> NoBinding]
  /\ lenders = [l \in Lender |-> [shared |-> "none", savedFor |-> 0]]
  /\ screen = [a \in TermsAdmin |-> NoScreen]
  /\ approvals = [b \in Binding |-> NoTerms]

-----------------------------------------------------------------------------
(* The view of a row and its lender, which get and list answer with; the    *)
(* other calls answer with the view of the row as they left it.             *)
Shown(a, b, row, shared) ==
  screen' = [screen EXCEPT ![a] =
    [row |-> b, revision |-> row.revision,
     view |-> [terms |-> row.terms, lender |-> row.lender, shared |-> shared]]]

View(a, b) ==
  /\ bindings[b] # NoBinding /\ Shown(a, b, bindings[b], lenders[bindings[b].lender].shared)
  /\ UNCHANGED <<bindings, lenders, approvals>>

(* What the function that applies terms to row b writes: the row and, at    *)
(* once and for all rows of the lender, the shared terms.                   *)
Saved(a, env, terms, lender, revision) ==
  [status |-> "DRAFT", env |-> env, terms |-> terms, lender |-> lender, revision |-> revision,
   maker |-> a, checker |-> "nobody"]

TermsApplied(a, b, env, terms, lender, shared, revision) ==
  /\ bindings' = [bindings EXCEPT ![b] = Saved(a, env, terms, lender, revision)]
  /\ lenders' = [lenders EXCEPT ![lender] = [shared |-> shared, savedFor |-> b]]
  /\ Shown(a, b, bindings'[b], shared) /\ UNCHANGED approvals

(* Bound: the first row is drafted with these, all being interchangeable.   *)
FirstShared == CHOOSE shared \in SharedTerms : TRUE

(* create inserts the row and applies the terms to it.  Bound: a row is     *)
(* drafted when the earlier ones have been approved.                        *)
createTerms(a, b, env, terms, lender, shared) ==
  /\ bindings[b] = NoBinding /\ \A x \in 1..(b - 1) : bindings[x].checker # "nobody"
  /\ b = 1 => a = FirstMaker /\ shared = FirstShared
  /\ TermsApplied(a, b, env, terms, lender, shared, 2)

(* Faulty: the expected revision is not compared.                           *)
FaultyCurrent(a) == screen[a].row # 0

(* The row is as the caller saw it.                                         *)
Current(a) ==
  /\ screen[a].row # 0
  /\ bindings[screen[a].row].revision = screen[a].revision

(* Bounds, not guards of the code, on the edits and submissions of a row:   *)
(* its other changes are finite.                                            *)
MayEdit(b) == bindings[b].revision + 2 * b <= MaxRevisions + 1
MaySubmit(b) == bindings[b].revision + b <= MaxRevisions

(* update: a test-active row becomes a draft again.                         *)
updateTerms(a, env, terms, lender, shared) ==
  LET b == screen[a].row IN
  /\ Current(a)
  /\ bindings[b].status \in {"DRAFT", "REJECTED", "TEST_ACTIVE"}
  /\ MayEdit(b)
  /\ TermsApplied(a, b, env, terms, lender, shared, bindings[b].revision + 1)

Target(row) == IF row.env = "TEST" THEN "TEST_ACTIVE" ELSE "ACTIVE"

(* Where each transition starts, and what else it asks for.                 *)
Admits(a, row) ==
  [SUBMIT   |-> row.status \in {"DRAFT", "REJECTED"} /\ row.terms \notin Incomplete,
   APPROVE  |-> row.status = "PENDING_APPROVAL" /\ row.maker # a,
   REJECT   |-> row.status = "PENDING_APPROVAL" /\ row.maker # a,
   ACTIVATE |-> row.status = "APPROVED" /\ row.terms \notin Incomplete,
   RETIRE   |-> row.status \in {"ACTIVE", "TEST_ACTIVE", "APPROVED"}]

Leaves(row) ==
  [SUBMIT |-> "PENDING_APPROVAL", APPROVE |-> "APPROVED", REJECT |-> "REJECTED",
   ACTIVATE |-> Target(row), RETIRE |-> "RETIRED"]

(* Activation retires the row it replaces.                                  *)
Replaced(b, action) ==
  {x \in Binding \ {b} : action = "ACTIVATE" /\ bindings[x].status = Target(bindings[b])}

transition(a, action) ==
  LET b == screen[a].row
      row == bindings[b]
  IN
  /\ Current(a) /\ Admits(a, row)[action] /\ (action = "SUBMIT" => MaySubmit(b))
  /\ bindings' = [x \in Binding |->
       IF x = b
       THEN [row EXCEPT !.status = Leaves(row)[action], !.revision = @ + 1,
                        !.checker = IF action = "APPROVE" THEN a ELSE @]
       ELSE IF x \in Replaced(b, action)
       THEN [bindings[x] EXCEPT !.status = "RETIRED", !.revision = @ + 1]
       ELSE bindings[x]]
  /\ approvals' = IF action = "APPROVE" THEN [approvals EXCEPT ![b] = screen[a].view]
                  ELSE approvals
  /\ Shown(a, b, bindings'[b], lenders[row.lender].shared) /\ UNCHANGED lenders

CommercialNext ==
  \E a \in TermsAdmin :
    \/ \E b \in Binding : View(a, b)
    \/ \E env \in Environment, terms \in Terms, lender \in Lender, shared \in SharedTerms :
         \/ \E b \in Binding : createTerms(a, b, env, terms, lender, shared)
         \/ updateTerms(a, env, terms, lender, shared)
    \/ \E action \in {"SUBMIT", "APPROVE", "REJECT", "ACTIVATE", "RETIRE"} : transition(a, action)

CommercialSpec == CommercialInit /\ [][CommercialNext]_commercialVars

-----------------------------------------------------------------------------
BindingRow ==
  [status : {"none", "DRAFT", "PENDING_APPROVAL", "APPROVED", "TEST_ACTIVE", "ACTIVE",
             "REJECTED", "RETIRED"},
   env : Environment, terms : Terms \cup {"none"}, lender : Lender \cup {"none"}, revision : Nat,
   maker : TermsAdmin \cup {"nobody"}, checker : TermsAdmin \cup {"nobody"}]

ShownTerms ==
  [terms : Terms \cup {"none"}, lender : Lender \cup {"none"}, shared : SharedTerms \cup {"none"}]

CommercialTypeOK ==
  /\ bindings \in [Binding -> BindingRow]
  /\ lenders \in [Lender -> [shared : SharedTerms \cup {"none"}, savedFor : Binding \cup {0}]]
  /\ screen \in [TermsAdmin -> [row : Binding \cup {0}, revision : Nat, view : ShownTerms]]
  /\ approvals \in [Binding -> ShownTerms]

TermsInForce(row) == row.status \in {"TEST_ACTIVE", "ACTIVE"}

(* The lender's terms are as the approver of row b saw them, unless they    *)
(* were saved for another row.                                              *)
SharedAsApproved(b) ==
  LET lender == lenders[bindings[b].lender]
  IN  lender.savedFor = b => lender.shared = approvals[b].shared

(* Approved terms are complete and are the terms another administrator had  *)
(* on the screen when approving, whatever was saved in between, the shared  *)
(* ones as far as no save of another row of the lender changed them: that,  *)
(* which asks for no approval, is the only way by which terms in force      *)
(* change.  Rows in force are the only ones of their product in their       *)
(* environment.                                                             *)
TermsAsApproved ==
  \A b \in Binding :
    /\ TermsInForce(bindings[b]) \/ bindings[b].status = "APPROVED" =>
         /\ bindings[b].terms \notin Incomplete
         /\ bindings[b].terms = approvals[b].terms /\ bindings[b].lender = approvals[b].lender
         /\ SharedAsApproved(b)
         /\ bindings[b].checker \notin {bindings[b].maker, "nobody"}
    /\ TermsInForce(bindings[b]) => \A x \in Binding \ {b} : bindings[x].status # bindings[b].status
=============================================================================
