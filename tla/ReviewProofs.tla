------------------------------- MODULE ReviewProofs -------------------------------
(***************************************************************************)
(* Proofs that what was put in force is what somebody else approved, for   *)
(* every number of administrators, rows, calls, edits and revisions: the   *)
(* commercial terms of credit products, charge headers, pricing flows,     *)
(* reference data, credit policies, and the versions of onboarding journeys*)
(* and channels; that a credit decision grants what its policy allows, for *)
(* all policies, requests and source answers; that the walk of a journey's *)
(* graph finds what its entry leads to, for every graph; and that a stored *)
(* price is read as it was stored, and every charge leads to its header.   *)
(***************************************************************************)
EXTENDS CreditCommercial, ChargeConfig, PricingFlows, PricingRules, Tariffs, ReferenceData,
        CreditRules, CreditDecisions, OnboardingConfig, JourneyGraphs, SumProofs, FiniteSetTheorems, WellFoundedInduction, TLAPS

USE CommercialAssumption

(* Commercial terms.  What is shown of row b are its terms, and those of its*)
(* lender where they were last saved for b.                                 *)
ViewSound(b, row, lender, view) ==
  /\ view.terms = row.terms /\ view.lender = row.lender
  /\ lender.savedFor = b => view.shared = lender.shared

LenderOf(b) == lenders[bindings[b].lender]

(* A screen may be behind its row, and shows a row that it is not behind:   *)
(* every save of the row raises its revision.                               *)
Screens ==
  \A a \in TermsAdmin : screen[a].row # 0 =>
    LET b == screen[a].row IN
    /\ 1 <= screen[a].revision /\ screen[a].revision <= bindings[b].revision
    /\ screen[a].revision = bindings[b].revision => ViewSound(b, bindings[b], LenderOf(b), screen[a].view)

Existing ==
  \A b \in Binding :
    IF bindings[b].revision = 0 THEN bindings[b] = NoBinding ELSE bindings[b].lender \in Lender

BindingStatus ==
  {"none", "DRAFT", "PENDING_APPROVAL", "APPROVED", "TEST_ACTIVE", "ACTIVE", "REJECTED", "RETIRED"}

Sound(b, row, lender, approved) ==
  /\ row.status \in {"PENDING_APPROVAL", "APPROVED", "TEST_ACTIVE", "ACTIVE"} => row.terms \notin Incomplete
  /\ row.status \in {"APPROVED", "TEST_ACTIVE", "ACTIVE"} =>
       ViewSound(b, row, lender, approved) /\ row.checker # row.maker /\ row.checker # "nobody"

RowsSound == \A b \in Binding : Sound(b, bindings[b], LenderOf(b), approvals[b])

AloneInForce ==
  \A b, x \in Binding : TermsInForce(bindings[b]) /\ x # b => bindings[x].status # bindings[b].status

CommercialInv == CommercialTypeOK /\ Screens /\ Existing /\ RowsSound /\ AloneInForce

LenderRow == [shared : SharedTerms \cup {"none"}, savedFor : Binding \cup {0}]
ScreenRow == [row : Binding \cup {0}, revision : Nat, view : ShownTerms]

LEMMA CommercialStart == CommercialInit => CommercialInv
<1> SUFFICES ASSUME CommercialInit PROVE CommercialInv
  OBVIOUS
<1>1. NoBinding \in BindingRow /\ NoBinding.status = "none" /\ NoBinding.revision = 0
  BY DEF NoBinding, BindingRow, Environment
<1>2. NoScreen \in ScreenRow /\ NoScreen.row = 0 /\ NoTerms \in ShownTerms
  BY DEF NoScreen, ScreenRow, NoTerms, ShownTerms
<1>3. CommercialTypeOK
  BY <1>1, <1>2 DEF CommercialInit, CommercialTypeOK, ScreenRow
<1> QED BY <1>1, <1>2, <1>3 DEF CommercialInit, CommercialInv, Screens, Existing, RowsSound, Sound, AloneInForce, TermsInForce

LEMMA CommercialTypes ==
  ASSUME CommercialInv
  PROVE  /\ bindings \in [Binding -> BindingRow] /\ approvals \in [Binding -> ShownTerms]
         /\ lenders \in [Lender -> LenderRow] /\ screen \in [TermsAdmin -> ScreenRow]
         /\ \A b \in Binding : bindings[b] \in BindingRow /\ bindings[b].revision \in Nat
         /\ Binding \subseteq Nat \ {0}
BY DEF CommercialInv, CommercialTypeOK, BindingRow, LenderRow, ScreenRow, Binding

LEMMA ShownScreen ==
  ASSUME CommercialInv, NEW a \in TermsAdmin, NEW b \in Binding, NEW row \in BindingRow,
         NEW shared \in SharedTerms \cup {"none"}, Shown(a, b, row, shared)
  PROVE  /\ screen' \in [TermsAdmin -> ScreenRow]
         /\ screen'[a].row = b /\ screen'[a].revision = row.revision
         /\ screen'[a].view.terms = row.terms /\ screen'[a].view.lender = row.lender
         /\ screen'[a].view.shared = shared
         /\ \A d \in TermsAdmin : d # a => screen'[d] = screen[d]
<1> DEFINE view == [terms |-> row.terms, lender |-> row.lender, shared |-> shared]
           new == [row |-> b, revision |-> row.revision, view |-> view]
<1>1. view \in ShownTerms
  BY DEF ShownTerms, BindingRow
<1>2. new \in ScreenRow
  BY <1>1 DEF ScreenRow, BindingRow
<1>3. screen' = [screen EXCEPT ![a] = new]
  BY DEF Shown
<1>4. screen'[a] = new /\ screen' \in [TermsAdmin -> ScreenRow] /\ \A d \in TermsAdmin : d # a => screen'[d] = screen[d]
  <2> HIDE DEF new
  <2> QED BY <1>2, <1>3, CommercialTypes
<1> QED BY <1>4

(* A call that leaves row b at a later revision, shown to its caller, the   *)
(* other rows as they were or retired, and every lender as it was or saved  *)
(* for b.                                                                   *)
LEMMA RowSaved ==
  ASSUME CommercialInv, NEW a \in TermsAdmin, NEW b \in Binding,
         bindings' \in [Binding -> BindingRow], approvals' \in [Binding -> ShownTerms],
         lenders' \in [Lender -> LenderRow],
         \A l \in Lender : lenders'[l] = lenders[l] \/ lenders'[l].savedFor = b,
         bindings'[b].lender \in Lender,
         bindings[b].revision < bindings'[b].revision,
         Shown(a, b, bindings'[b], LenderOf(b)'.shared),
         \A x \in Binding : x # b =>
           /\ approvals'[x] = approvals[x]
           /\ \/ bindings'[x] = bindings[x]
              \/ /\ bindings'[x].status = "RETIRED" /\ bindings[x].revision < bindings'[x].revision
                 /\ bindings'[x].lender = bindings[x].lender /\ bindings[x].revision # 0,
         Sound(b, bindings'[b], LenderOf(b)', approvals'[b]),
         TermsInForce(bindings'[b]) => \A x \in Binding : x # b => bindings'[x].status # bindings'[b].status
  PROVE  CommercialInv'
<1>1. /\ bindings \in [Binding -> BindingRow] /\ approvals \in [Binding -> ShownTerms]
      /\ screen \in [TermsAdmin -> ScreenRow] /\ lenders \in [Lender -> LenderRow] /\ Binding \subseteq Nat \ {0}
  BY CommercialTypes
<1>2. /\ \A x \in Binding : bindings[x].revision \in Nat /\ bindings'[x].revision \in Nat
      /\ \A x \in Binding : bindings'[x].revision >= bindings[x].revision
      /\ \A x \in Binding : bindings'[x].revision = bindings[x].revision => x # b /\ bindings'[x] = bindings[x]
  BY <1>1 DEF BindingRow
<1>3. bindings'[b] \in BindingRow /\ bindings'[b].revision > 0 /\ LenderOf(b)'.shared \in SharedTerms \cup {"none"}
  BY <1>2 DEF LenderOf, LenderRow
<1>4. /\ screen' \in [TermsAdmin -> ScreenRow]
      /\ screen'[a].row = b /\ screen'[a].revision = bindings'[b].revision
      /\ ViewSound(b, bindings'[b], LenderOf(b)', screen'[a].view)
      /\ \A d \in TermsAdmin : d # a => screen'[d] = screen[d]
  BY <1>3, ShownScreen DEF ViewSound
<1>5. ASSUME NEW x \in Binding, x # b, bindings[x].revision # 0, NEW view, NEW row, NEW new,
             ViewSound(x, row, LenderOf(x), view), new.terms = row.terms, new.lender = row.lender,
             bindings'[x].lender = bindings[x].lender
      PROVE  ViewSound(x, new, LenderOf(x)', view)
  <2>1. bindings[x].lender \in Lender
    BY <1>5 DEF CommercialInv, Existing
  <2>2. LenderOf(x)' = LenderOf(x) \/ LenderOf(x)'.savedFor = b
    BY <1>5, <2>1 DEF LenderOf
  <2> QED BY <1>5, <2>2 DEF ViewSound
<1>6. Screens'
  <2> SUFFICES ASSUME NEW d \in TermsAdmin, screen'[d].row # 0
               PROVE  LET x == screen'[d].row IN
                      /\ 1 <= screen'[d].revision /\ screen'[d].revision <= bindings'[x].revision
                      /\ screen'[d].revision = bindings'[x].revision =>
                           ViewSound(x, bindings'[x], lenders'[bindings'[x].lender], screen'[d].view)
    BY DEF Screens, LenderOf
  <2>1. CASE d = a
    BY <1>2, <1>3, <1>4, <2>1 DEF LenderOf
  <2>2. CASE d # a
    <3> DEFINE x == screen[d].row
    <3>1. /\ x \in Binding /\ screen[d].revision \in Nat /\ 1 <= screen[d].revision
          /\ screen[d].revision <= bindings[x].revision
          /\ screen[d].revision = bindings[x].revision => ViewSound(x, bindings[x], LenderOf(x), screen[d].view)
      BY <1>1, <1>4, <2>2 DEF CommercialInv, Screens, ScreenRow
    <3>2. screen'[d] = screen[d]
      BY <1>4, <2>2
    <3> HIDE DEF x
    <3>3. 1 <= screen[d].revision /\ screen[d].revision <= bindings'[x].revision
      BY <1>2, <3>1
    <3>4. ASSUME screen[d].revision = bindings'[x].revision
          PROVE  ViewSound(x, bindings'[x], lenders'[bindings'[x].lender], screen[d].view)
      <4>1. /\ bindings'[x].revision = bindings[x].revision /\ bindings[x].revision # 0
            /\ x # b /\ bindings'[x] = bindings[x]
        BY <1>2, <3>1, <3>4
      <4> QED BY <1>5, <3>1, <3>4, <4>1 DEF LenderOf
    <3> QED BY <3>2, <3>3, <3>4 DEF x
  <2> QED BY <2>1, <2>2
<1>7. Existing'
  <2> SUFFICES ASSUME NEW x \in Binding
               PROVE  IF bindings'[x].revision = 0 THEN bindings'[x] = NoBinding ELSE bindings'[x].lender \in Lender
    BY DEF Existing
  <2> QED BY <1>2, <1>3 DEF CommercialInv, Existing
<1>8. RowsSound'
  <2> SUFFICES ASSUME NEW x \in Binding, x # b
               PROVE  Sound(x, bindings'[x], LenderOf(x)', approvals'[x])
    BY DEF RowsSound, LenderOf
  <2>1. CASE bindings'[x].status = "RETIRED"
    BY <2>1 DEF Sound
  <2>2. CASE bindings'[x].status # "RETIRED"
    <3>1. bindings'[x] = bindings[x] /\ approvals'[x] = approvals[x] /\ Sound(x, bindings[x], LenderOf(x), approvals[x])
      BY <2>2 DEF CommercialInv, RowsSound
    <3>2. CASE bindings[x].revision = 0
      BY <3>1, <3>2 DEF CommercialInv, Existing, NoBinding, Sound
    <3>3. CASE bindings[x].revision # 0
      BY <1>5, <3>1, <3>3 DEF Sound
    <3> QED BY <3>2, <3>3
  <2> QED BY <2>1, <2>2
<1>9. AloneInForce'
  BY <1>1 DEF CommercialInv, AloneInForce, TermsInForce
<1> QED BY <1>4, <1>6, <1>7, <1>8, <1>9 DEF CommercialInv, CommercialTypeOK, ScreenRow, LenderRow

LEMMA ViewStep == ASSUME CommercialInv, NEW a \in TermsAdmin, NEW b \in Binding, View(a, b) PROVE CommercialInv'
<1>1. /\ bindings[b].revision \in Nat \ {0} /\ bindings[b] \in BindingRow /\ b # 0 /\ bindings[b].lender \in Lender
      /\ UNCHANGED <<bindings, lenders, approvals>>
  BY CommercialTypes DEF View, CommercialInv, Existing
<1>2. LenderOf(b) \in LenderRow /\ LenderOf(b).shared \in SharedTerms \cup {"none"}
  BY <1>1, CommercialTypes DEF LenderOf, LenderRow
<1>3. /\ screen' \in [TermsAdmin -> ScreenRow] /\ screen'[a].row = b /\ screen'[a].revision = bindings[b].revision
      /\ ViewSound(b, bindings[b], LenderOf(b), screen'[a].view)
      /\ \A d \in TermsAdmin : d # a => screen'[d] = screen[d]
  BY <1>1, <1>2, ShownScreen DEF View, LenderOf, ViewSound
<1>4. Screens'
  BY <1>1, <1>3 DEF CommercialInv, Screens, LenderOf
<1> QED BY <1>1, <1>3, <1>4 DEF CommercialInv, CommercialTypeOK, ScreenRow, Existing, RowsSound, LenderOf,
                                AloneInForce, TermsInForce

(* Create and update apply terms to a row.                                  *)
LEMMA AppliedStep ==
  ASSUME CommercialInv, NEW a \in TermsAdmin, NEW b \in Binding, NEW env \in Environment, NEW terms \in Terms,
         NEW lender \in Lender, NEW shared \in SharedTerms, NEW n \in Nat, bindings[b].revision < n,
         TermsApplied(a, b, env, terms, lender, shared, n)
  PROVE  CommercialInv'
<1> DEFINE row == Saved(a, env, terms, lender, n)
           new == [shared |-> shared, savedFor |-> b]
<1>1. row \in BindingRow /\ row.revision = n /\ row.status = "DRAFT" /\ row.lender = lender
  BY DEF Saved, BindingRow
<1>2. new \in LenderRow /\ new.savedFor = b /\ new.shared = shared
  BY DEF LenderRow
<1>3. /\ bindings' = [bindings EXCEPT ![b] = row] /\ lenders' = [lenders EXCEPT ![lender] = new]
      /\ Shown(a, b, bindings'[b], shared) /\ approvals' = approvals
  BY DEF TermsApplied
<1> HIDE DEF row, new
<1>4. /\ bindings' \in [Binding -> BindingRow] /\ bindings'[b] = row
      /\ \A x \in Binding : x # b => bindings'[x] = bindings[x]
  BY <1>1, <1>3, CommercialTypes
<1>5. /\ lenders' \in [Lender -> LenderRow] /\ LenderOf(b)' = new
      /\ \A l \in Lender : lenders'[l] = lenders[l] \/ lenders'[l].savedFor = b
  BY <1>1, <1>2, <1>3, <1>4, CommercialTypes DEF LenderOf
<1>6. Sound(b, row, new, approvals'[b]) /\ ~TermsInForce(row)
  BY <1>1 DEF Sound, TermsInForce
<1>7. approvals' \in [Binding -> ShownTerms] /\ bindings[b].revision < bindings'[b].revision
  BY <1>1, <1>3, <1>4, CommercialTypes
<1> QED BY <1>1, <1>2, <1>3, <1>4, <1>5, <1>6, <1>7, RowSaved

LEMMA CreateStep ==
  ASSUME CommercialInv, NEW a \in TermsAdmin, NEW b \in Binding, NEW env \in Environment, NEW terms \in Terms,
         NEW lender \in Lender, NEW shared \in SharedTerms, createTerms(a, b, env, terms, lender, shared)
  PROVE  CommercialInv'
<1>1. bindings[b].revision = 0 /\ TermsApplied(a, b, env, terms, lender, shared, 2)
  BY DEF createTerms, NoBinding
<1> QED BY <1>1, AppliedStep

LEMMA UpdateTermsStep ==
  ASSUME CommercialInv, NEW a \in TermsAdmin, NEW env \in Environment, NEW terms \in Terms,
         NEW lender \in Lender, NEW shared \in SharedTerms, updateTerms(a, env, terms, lender, shared)
  PROVE  CommercialInv'
<1>1. PICK b \in Binding : b = screen[a].row
  BY CommercialTypes DEF updateTerms, Current, ScreenRow
<1>2. bindings[b].revision \in Nat /\ TermsApplied(a, b, env, terms, lender, shared, bindings[b].revision + 1)
  BY <1>1, CommercialTypes DEF updateTerms
<1>3. bindings[b].revision + 1 \in Nat /\ bindings[b].revision < bindings[b].revision + 1
  BY <1>2
<1> QED BY <1>1, <1>2, <1>3, AppliedStep

LEMMA RetiredRow ==
  ASSUME NEW row \in BindingRow
  PROVE  LET old == [row EXCEPT !.status = "RETIRED", !.revision = @ + 1]
         IN  /\ old \in BindingRow /\ old.status = "RETIRED" /\ old.revision = row.revision + 1
             /\ old.lender = row.lender
<1>1. row.revision + 1 \in Nat
  BY DEF BindingRow
<1> QED BY <1>1 DEF BindingRow

Action == {"SUBMIT", "APPROVE", "REJECT", "ACTIVATE", "RETIRE"}

LEMMA TransitionStep ==
  ASSUME CommercialInv, NEW a \in TermsAdmin, NEW action \in Action, transition(a, action)
  PROVE  CommercialInv'
<1>0. PICK b \in Binding : b = screen[a].row
  BY CommercialTypes DEF transition, Current, ScreenRow
<1> DEFINE row == bindings[b]
           status == Leaves(row)[action]
           checker == IF action = "APPROVE" THEN a ELSE row.checker
           new == [row EXCEPT !.status = status, !.revision = @ + 1, !.checker = checker]
           Old(x) == [bindings[x] EXCEPT !.status = "RETIRED", !.revision = @ + 1]
<1>1. /\ row \in BindingRow /\ row.revision \in Nat /\ row.revision # 0 /\ row.lender \in Lender
      /\ ViewSound(b, row, LenderOf(b), screen[a].view) /\ screen[a].view \in ShownTerms
  <2>1. screen[a].view \in ShownTerms /\ screen[a].revision = row.revision /\ b # 0
    BY <1>0, CommercialTypes DEF transition, Current, ScreenRow
  <2>2. row \in BindingRow /\ row.revision \in Nat
    BY <2>1, CommercialTypes
  <2>3. 1 <= row.revision /\ ViewSound(b, row, LenderOf(b), screen[a].view)
    BY <1>0, <2>1 DEF CommercialInv, Screens
  <2>4. row.lender \in Lender
    BY <2>1, <2>2, <2>3 DEF CommercialInv, Existing
  <2> QED BY <2>1, <2>2, <2>3, <2>4
<1>2. /\ status \in BindingStatus /\ checker \in TermsAdmin \cup {"nobody"}
  BY <1>1 DEF Leaves, Target, BindingStatus, Action, BindingRow
<1>3. Admits(a, row)[action] /\ Shown(a, b, bindings'[b], LenderOf(b).shared) /\ lenders' = lenders
  BY <1>0 DEF transition, LenderOf
<1>4. bindings' = [x \in Binding |-> IF x = b THEN new
                                     ELSE IF x \in Replaced(b, action) THEN Old(x) ELSE bindings[x]]
  BY <1>0 DEF transition
<1>5. approvals' = IF action = "APPROVE" THEN [approvals EXCEPT ![b] = screen[a].view] ELSE approvals
  BY <1>0 DEF transition
<1>6. /\ new \in BindingRow /\ new.status = status /\ new.revision = row.revision + 1
      /\ new.checker = checker /\ new.terms = row.terms /\ new.maker = row.maker /\ new.lender = row.lender
  <2>1. row \in BindingRow /\ status \in BindingStatus /\ checker \in TermsAdmin \cup {"nobody"}
    BY <1>1, <1>2
  <2> HIDE DEF status, checker, row
  <2>2. row.revision + 1 \in Nat
    BY <2>1 DEF BindingRow
  <2> QED BY <2>1, <2>2 DEF BindingRow, BindingStatus
<1>7. \A x \in Binding : /\ Old(x) \in BindingRow /\ Old(x).status = "RETIRED"
                         /\ Old(x).revision = bindings[x].revision + 1 /\ Old(x).lender = bindings[x].lender
  BY CommercialTypes, RetiredRow
<1>8. Sound(b, new, LenderOf(b), approvals'[b])
  <2>0. /\ Sound(b, row, LenderOf(b), approvals[b])
        /\ approvals'[b] = IF action = "APPROVE" THEN screen[a].view ELSE approvals[b]
    BY <1>1, <1>5, CommercialTypes DEF CommercialInv, RowsSound
  <2>1. CASE action = "SUBMIT"
    <3>1. Admits(a, row)["SUBMIT"] = (row.status \in {"DRAFT", "REJECTED"} /\ row.terms \notin Incomplete)
      BY DEF Admits
    <3>2. status = "PENDING_APPROVAL"
      BY <2>1 DEF Leaves
    <3> QED BY <1>3, <1>6, <2>1, <3>1, <3>2 DEF Sound
  <2>2. CASE action = "APPROVE"
    BY <1>1, <1>3, <1>6, <2>0, <2>2 DEF Sound, ViewSound, Admits, Leaves, CommercialAssumption
  <2>3. CASE action = "REJECT"
    BY <1>6, <2>3 DEF Sound, Leaves
  <2>4. CASE action = "ACTIVATE"
    BY <1>3, <1>6, <2>0, <2>4 DEF Sound, ViewSound, Admits, Leaves, Target
  <2>5. CASE action = "RETIRE"
    BY <1>6, <2>5 DEF Sound, Leaves
  <2> QED BY <2>1, <2>2, <2>3, <2>4, <2>5 DEF Action
<1>9. TermsInForce(new) => action = "ACTIVATE" /\ status = Target(row)
  BY <1>6 DEF TermsInForce, Leaves, Target, Action
<1> HIDE DEF new, Old, status, checker
<1>10. /\ bindings' \in [Binding -> BindingRow] /\ bindings'[b] = new
       /\ \A x \in Binding : x # b => bindings'[x] = IF x \in Replaced(b, action) THEN Old(x) ELSE bindings[x]
  BY <1>1, <1>4, <1>6, <1>7, CommercialTypes
<1>11. approvals' \in [Binding -> ShownTerms] /\ \A x \in Binding : x # b => approvals'[x] = approvals[x]
  BY <1>1, <1>5, CommercialTypes
<1>12. bindings[b].revision < bindings'[b].revision
  BY <1>1, <1>6, <1>10
<1>13. TermsInForce(new) => \A x \in Binding : x # b => bindings'[x].status # new.status
  BY <1>6, <1>7, <1>9, <1>10 DEF Replaced, TermsInForce
<1>14. \A x \in Binding : x # b =>
         \/ bindings'[x] = bindings[x]
         \/ /\ bindings'[x].status = "RETIRED" /\ bindings[x].revision < bindings'[x].revision
            /\ bindings'[x].lender = bindings[x].lender /\ bindings[x].revision # 0
  <2>1. \A x \in Replaced(b, action) : bindings[x].status # "none"
    BY DEF Replaced, Target
  <2> QED BY <1>7, <1>10, <2>1, CommercialTypes DEF CommercialInv, Existing, NoBinding
<1>15. LenderOf(b)' = LenderOf(b) /\ bindings'[b].lender \in Lender /\ lenders' \in [Lender -> LenderRow]
  <2>1. bindings'[b].lender = bindings[b].lender
    BY <1>6, <1>10
  <2> QED BY <1>1, <1>3, <2>1, CommercialTypes DEF LenderOf
<1>16. Shown(a, b, bindings'[b], LenderOf(b)'.shared)
  BY <1>3, <1>15
<1> HIDE DEF row
<1>17. Sound(b, bindings'[b], LenderOf(b)', approvals'[b])
  BY <1>8, <1>10, <1>15
<1>18. TermsInForce(bindings'[b]) => \A x \in Binding : x # b => bindings'[x].status # bindings'[b].status
  BY <1>10, <1>13
<1>19. \A l \in Lender : lenders'[l] = lenders[l]
  BY <1>3
<1> QED BY <1>10, <1>11, <1>12, <1>14, <1>15, <1>16, <1>17, <1>18, <1>19, RowSaved

LEMMA CommercialStep == CommercialInv /\ [CommercialNext]_commercialVars => CommercialInv'
<1> SUFFICES ASSUME CommercialInv, [CommercialNext]_commercialVars PROVE CommercialInv'
  OBVIOUS
<1>1. CASE CommercialNext
  BY <1>1, ViewStep, CreateStep, UpdateTermsStep, TransitionStep DEF CommercialNext, Action
<1>2. CASE UNCHANGED commercialVars
  BY <1>2 DEF commercialVars, CommercialInv, CommercialTypeOK, Screens, Existing, RowsSound, LenderOf,
              AloneInForce, TermsInForce
<1> QED BY <1>1, <1>2

LEMMA CommercialKept == CommercialInv => CommercialTypeOK /\ TermsAsApproved
BY DEF CommercialInv, TermsAsApproved, SharedAsApproved, RowsSound, Sound, ViewSound, LenderOf, AloneInForce,
       TermsInForce

(* Whatever is edited, rejected, submitted again or looked at by whom and   *)
(* when, terms in force are complete, are the ones their approver saw, those*)
(* of their lender unless saved for another row, and are alone in force for *)
(* their product.                                                           *)
THEOREM TermsAlwaysAsApproved == CommercialSpec => [](CommercialTypeOK /\ TermsAsApproved)
BY CommercialStart, CommercialStep, CommercialKept, PTL DEF CommercialSpec

-----------------------------------------------------------------------------
(* Charge headers.  The rows that operations hold are rows of the table, and*)
(* one that an operation is about to make active has its caller as approver *)
(* and another maker.                                                       *)
HeaderRow ==
  [content : Nat, maker : Accountant, approver : Accountant \cup {"nobody"}, active : BOOLEAN]

ChargeCall ==
  [pc : {"idle", "mark", "reload", "write", "delete", "bump"}, row : HeaderRow, seen : HeaderRow, n : Nat]

Checked(a, call) ==
  call.pc \in {"reload", "write"} /\ call.row.active => call.row.approver = a /\ call.row.maker # a

ChargeInv ==
  /\ header \in HeaderRow /\ edits \in Nat
  /\ editing \in [Accountant -> ChargeCall]
  /\ \A a \in Accountant : Checked(a, editing[a])
  /\ ApprovedHeaderReviewed

LEMMA ChargeStart == ChargeInit => ChargeInv
<1> SUFFICES ASSUME ChargeInit PROVE ChargeInv
  OBVIOUS
<1>0. header.content = 1 /\ header.maker \in Accountant /\ header.approver = "nobody" /\ header.active = FALSE
  BY DEF ChargeInit, FirstHeader
<1>1. header \in HeaderRow /\ ~header.active
  <2>1. header = [content |-> header.content, maker |-> header.maker, approver |-> header.approver,
                  active |-> header.active]
    BY DEF ChargeInit, FirstHeader
  <2>2. header.content \in Nat
    BY <1>0
  <2>3. header.active \in BOOLEAN
    BY <1>0, Zenon
  <2> QED BY <1>0, <2>1, <2>2, <2>3, Zenon DEF HeaderRow
<1>2. editing \in [Accountant -> ChargeCall] /\ \A a \in Accountant : Checked(a, editing[a])
  BY <1>1 DEF ChargeInit, ChargeCall, Checked
<1> QED BY <1>1, <1>2 DEF ChargeInit, ChargeInv, ApprovedHeaderReviewed

(* Each column of what an update leaves is the saved or the present one, and*)
(* where the row is as it was read again, all of them are the saved ones.   *)
LEMMA RowUpdated ==
  ASSUME NEW row \in HeaderRow, NEW seen \in HeaderRow, header \in HeaderRow
  PROVE  /\ RowAsUpdated(row, seen) \in HeaderRow
         /\ seen = header => RowAsUpdated(row, seen) = row
<1> DEFINE new == RowAsUpdated(row, seen)
<1>1. DOMAIN row = {"content", "maker", "approver", "active"}
  BY DEF HeaderRow
<1>2. new = [column \in DOMAIN row |-> IF row[column] # seen[column] THEN row[column] ELSE header[column]]
  BY DEF RowAsUpdated, Differing
<1>3. \A column \in DOMAIN row : new[column] = row[column] \/ new[column] = header[column]
  BY <1>2
<1>4. new = [content |-> new["content"], maker |-> new["maker"], approver |-> new["approver"], active |-> new["active"]]
  BY <1>1, <1>2
<1>5. /\ new["content"] \in Nat /\ new["maker"] \in Accountant /\ new["approver"] \in Accountant \cup {"nobody"}
      /\ new["active"] \in BOOLEAN
  <2> HIDE DEF new
  <2>1. /\ row["content"] \in Nat /\ row["maker"] \in Accountant /\ row["approver"] \in Accountant \cup {"nobody"}
        /\ row["active"] \in BOOLEAN
    BY Zenon DEF HeaderRow
  <2>2. /\ header["content"] \in Nat /\ header["maker"] \in Accountant /\ header["approver"] \in Accountant \cup {"nobody"}
        /\ header["active"] \in BOOLEAN
    BY Zenon DEF HeaderRow
  <2> QED BY <1>1, <1>3, <2>1, <2>2, Zenon
<1>6. new \in HeaderRow
  <2> HIDE DEF new
  <2> QED BY <1>4, <1>5, Zenon DEF HeaderRow
<1>7. ASSUME seen = header PROVE new = row
  <2>1. new = [column \in DOMAIN row |-> row[column]]
    BY <1>2, <1>7, Zenon
  <2>2. row = [column \in DOMAIN row |-> row[column]]
    BY DEF HeaderRow
  <2> QED BY <2>1, <2>2
<1> QED BY <1>6, <1>7

LEMMA WriteStep == ASSUME ChargeInv, NEW a \in Accountant, WriteHeader(a) PROVE ChargeInv'
<1> DEFINE row == editing[a].row
           seen == editing[a].seen
<1>1. /\ row \in HeaderRow /\ seen \in HeaderRow /\ header \in HeaderRow
      /\ row.active => row.approver = a /\ row.maker # a
  BY DEF ChargeInv, ChargeCall, Checked, WriteHeader
<1>2. /\ header' = RowAsUpdated(row, seen) /\ crossed' = (seen # header)
      /\ reviewed' = IF row.active THEN row.content ELSE reviewed
  BY DEF WriteHeader
<1> HIDE DEF row, seen
<1>3. header' \in HeaderRow /\ (seen = header => header' = row)
  BY <1>1, <1>2, RowUpdated
<1>4. ApprovedHeaderReviewed'
  BY <1>1, <1>2, <1>3, ChargeAssumption DEF ApprovedHeaderReviewed
<1>5. edits' = edits /\ editing' = [editing EXCEPT ![a].pc = "delete"]
  BY DEF WriteHeader, NextCall
<1> QED BY <1>3, <1>4, <1>5 DEF ChargeInv, ChargeCall, Checked

(* What the operations save of a row they have read.                        *)
LEMMA RowsMade ==
  ASSUME header \in HeaderRow, edits \in Nat, NEW a \in Accountant
  PROVE  /\ Deactivated(a) \in HeaderRow /\ ~Deactivated(a).active
         /\ Edited(a) \in HeaderRow /\ ~Edited(a).active
         /\ Approved(a) \in HeaderRow /\ Approved(a).approver = a /\ Approved(a).maker = header.maker
<1>1. Deactivated(a) \in HeaderRow /\ ~Deactivated(a).active
  BY DEF Deactivated, HeaderRow
<1>2. Edited(a) \in HeaderRow /\ ~Edited(a).active
  <2>1. 2 + edits \in Nat
    OBVIOUS
  <2> QED BY <1>1, <2>1 DEF Edited, HeaderRow
<1>3. Approved(a) \in HeaderRow /\ Approved(a).approver = a /\ Approved(a).maker = header.maker
  BY DEF Approved, HeaderRow
<1> QED BY <1>1, <1>2, <1>3

(* The other operations leave the header, and read it if anything.          *)
LEMMA OtherSteps ==
  ASSUME ChargeInv, NEW a \in Accountant, UNCHANGED <<header, reviewed, crossed>>, edits' \in Nat,
         \/ editing' = editing
         \/ \E pc \in {"idle", "mark", "bump"} : NextCall(a, pc)
         \/ \E row \in HeaderRow, n \in Nat :
              Saves(a, row, n) /\ (row.active => row.approver = a /\ row.maker # a)
         \/ \E n \in Nat : editing' = [editing EXCEPT ![a].pc = "mark", ![a].n = n]
         \/ /\ editing[a].pc = "reload"
            /\ editing' = [editing EXCEPT ![a].pc = "write", ![a].seen = header]
  PROVE  ChargeInv'
<1>1. header \in HeaderRow /\ editing[a] \in ChargeCall /\ Checked(a, editing[a])
  BY DEF ChargeInv
<1> DEFINE Kept(call) == call \in ChargeCall /\ Checked(a, call) /\ editing' = [editing EXCEPT ![a] = call]
<1>2. ASSUME NEW pc \in {"idle", "mark", "bump"}, NextCall(a, pc) PROVE \E call : Kept(call)
  <2>1. Kept([editing[a] EXCEPT !.pc = pc])
    BY <1>1, <1>2 DEF ChargeCall, Checked, NextCall, ChargeInv
  <2> QED BY <2>1
<1>3. ASSUME NEW n \in Nat, editing' = [editing EXCEPT ![a].pc = "mark", ![a].n = n] PROVE \E call : Kept(call)
  <2>1. Kept([editing[a] EXCEPT !.pc = "mark", !.n = n])
    BY <1>1, <1>3 DEF ChargeCall, Checked, ChargeInv
  <2> QED BY <2>1
<1>4. ASSUME editing[a].pc = "reload", editing' = [editing EXCEPT ![a].pc = "write", ![a].seen = header]
      PROVE  \E call : Kept(call)
  <2>1. Kept([editing[a] EXCEPT !.pc = "write", !.seen = header])
    BY <1>1, <1>4 DEF ChargeCall, Checked, ChargeInv
  <2> QED BY <2>1
<1>5. ASSUME NEW row \in HeaderRow, NEW n \in Nat, Saves(a, row, n), row.active => row.approver = a /\ row.maker # a
      PROVE  \E call : Kept(call)
  <2>1. Kept([pc |-> "reload", row |-> row, seen |-> row, n |-> n])
    BY <1>5 DEF ChargeCall, Checked, Saves
  <2> QED BY <2>1
<1> HIDE DEF Kept
<1>6. editing' = editing \/ \E call : Kept(call)
  BY <1>2, <1>3, <1>4, <1>5
<1> QED BY <1>6 DEF Kept, ChargeInv, ApprovedHeaderReviewed

LEMMA ChargeStep == ChargeInv /\ [ChargeNext]_chargeVars => ChargeInv'
<1> SUFFICES ASSUME ChargeInv, [ChargeNext]_chargeVars PROVE ChargeInv'
  OBVIOUS
<1>0. edits \in Nat /\ edits + 1 \in Nat /\ header \in HeaderRow /\ \A a \in Accountant : editing[a].n \in Nat
  BY DEF ChargeInv, ChargeCall
<1>1. CASE UNCHANGED <<header, reviewed, crossed, edits, editing>>
  BY <1>1 DEF ChargeInv, Checked, ApprovedHeaderReviewed
<1>2. ASSUME NEW a \in Accountant, ReadHeader(a) \/ ReadParent(a) PROVE ChargeInv'
  <2>1. \E row \in HeaderRow, n \in Nat : Saves(a, row, n) /\ (row.active => row.approver = a /\ row.maker # a)
    BY <1>0, <1>2, RowsMade DEF ReadHeader, ReadParent
  <2> QED BY <1>0, <1>2, <2>1, OtherSteps DEF ReadHeader, ReadParent
<1>3. ASSUME NEW a \in Accountant, SaveDetail(a) \/ Reload(a) PROVE ChargeInv'
  BY <1>0, <1>3, OtherSteps DEF SaveDetail, Reload
<1>4. ASSUME NEW a \in Accountant, DeletePattern(a) \/ BumpVersion(a) \/ BreakOff(a) PROVE ChargeInv'
  BY <1>0, <1>4, OtherSteps DEF DeletePattern, BumpVersion, BreakOff
<1> QED BY <1>1, <1>2, <1>3, <1>4, WriteStep DEF ChargeNext, chargeVars, StartLoad, FinishLoad, Expire

(* Whatever rows the operations of several administrators have read, and    *)
(* whichever they save last, an active charge header whose last save was not*)
(* crossed by another is the one its checker's call had read.               *)
THEOREM HeadersAlwaysReviewed == ChargeSpec => []ApprovedHeaderReviewed
<1>1. ChargeInv => ApprovedHeaderReviewed
  BY DEF ChargeInv
<1> QED BY ChargeStart, ChargeStep, <1>1, PTL DEF ChargeSpec

-----------------------------------------------------------------------------
(* Pricing flows.                                                           *)
FlowRow ==
  [status : {"DRAFT", "SUBMITTED", "APPROVED", "ACTIVE", "RETIRED", "REJECTED"}, route : Route,
   creator : Editor \cup {"nobody"}, editor : Editor \cup {"nobody"}, approver : Editor \cup {"nobody"},
   reviewed : Route]

FlowsTyped ==
  /\ flows \in Seq(FlowRow)
  /\ activation \in [Editor -> [flow : Nat, retire : SUBSET Nat]]

(* An activation holds the row of its flow, which is approved meanwhile.    *)
Locking ==
  \A a \in Editor :
    /\ activation[a].flow = 0 => activation[a] = NoActivation
    /\ activation[a].flow # 0 =>
         /\ activation[a].flow \in DOMAIN flows /\ flows[activation[a].flow].status = "APPROVED"
         /\ \A b \in Editor \ {a} : activation[b].flow # activation[a].flow

Reviewed(f) ==
  f.status \in {"APPROVED", "ACTIVE"} =>
    /\ f.route = f.reviewed /\ f.approver # "nobody"
    /\ f.approver \in SuperEditor \/ f.approver # Maker(f)

FlowsReviewed == \A i \in DOMAIN flows : Reviewed(flows[i])

AlonePrimary ==
  \A i, j \in DOMAIN flows : flows[i].status = "ACTIVE" /\ flows[j].status = "ACTIVE" /\ i # j =>
    ~SamePrimary(flows[i].route, flows[j].route)

FlowInv == FlowsTyped /\ Locking /\ FlowsReviewed /\ AlonePrimary

LEMMA FlowStart == FlowInit => FlowInv
BY DEF FlowInit, FlowInv, FlowsTyped, Locking, FlowsReviewed, AlonePrimary, NoActivation

(* A call that writes one row nobody is activating, and makes no flow       *)
(* active.                                                                  *)
LEMMA RowWritten ==
  ASSUME FlowInv, NEW i \in DOMAIN flows, RowUnlocked(i), NEW row \in FlowRow,
         Reviewed(row), row.status # "ACTIVE",
         flows' = [flows EXCEPT ![i] = row], UNCHANGED activation
  PROVE  FlowInv'
<1>1. /\ flows' \in Seq(FlowRow) /\ DOMAIN flows' = DOMAIN flows
      /\ \A j \in DOMAIN flows : flows'[j] = IF j = i THEN row ELSE flows[j]
  BY DEF FlowInv, FlowsTyped
<1>2. FlowsTyped' /\ FlowsReviewed' /\ AlonePrimary'
  BY <1>1 DEF FlowInv, FlowsTyped, FlowsReviewed, AlonePrimary
<1>3. Locking'
  BY <1>1 DEF FlowInv, Locking, RowUnlocked
<1> QED BY <1>2, <1>3 DEF FlowInv

LEMMA FlowTypes == ASSUME FlowInv, NEW i \in DOMAIN flows PROVE flows[i] \in FlowRow /\ Reviewed(flows[i]) /\ i \in Nat \ {0}
BY DEF FlowInv, FlowsTyped, FlowsReviewed

LEMMA CreateFlowStep == ASSUME FlowInv, NEW a \in Editor, CreateFlow(a) PROVE FlowInv'
<1>1. PICK row \in FlowRow : flows' = Append(flows, row) /\ row.status = "DRAFT" /\ activation' = activation
  BY DEF CreateFlow, FlowRow
<1>2. /\ flows' \in Seq(FlowRow) /\ DOMAIN flows' = DOMAIN flows \cup {Len(flows) + 1}
      /\ \A j \in DOMAIN flows' : flows'[j] = IF j = Len(flows) + 1 THEN row ELSE flows[j]
      /\ Len(flows) + 1 \notin DOMAIN flows
  BY <1>1 DEF FlowInv, FlowsTyped
<1>3. FlowsTyped' /\ FlowsReviewed' /\ AlonePrimary' /\ Locking'
  BY <1>1, <1>2 DEF FlowInv, FlowsTyped, FlowsReviewed, Reviewed, AlonePrimary, Locking
<1> QED BY <1>3 DEF FlowInv

LEMMA UpdateFlowStep == ASSUME FlowInv, NEW a \in Editor, NEW i \in DOMAIN flows, UpdateFlow(a, i) PROVE FlowInv'
<1>1. PICK r \in Route :
        flows' = [flows EXCEPT ![i].route = r, ![i].status = "DRAFT", ![i].editor = a, ![i].approver = "nobody"]
  BY DEF UpdateFlow
<1> DEFINE row == [flows[i] EXCEPT !.route = r, !.status = "DRAFT", !.editor = a, !.approver = "nobody"]
<1>2. flows' = [flows EXCEPT ![i] = row]
  BY <1>1, FlowTypes DEF FlowInv, FlowsTyped, FlowRow
<1>3. row \in FlowRow /\ row.status = "DRAFT"
  BY FlowTypes DEF FlowRow
<1> HIDE DEF row
<1> QED BY <1>2, <1>3, RowWritten DEF UpdateFlow, Reviewed

LEMMA TransitionFlowStep ==
  ASSUME FlowInv, NEW i \in DOMAIN flows, SubmitFlow(i) \/ RejectFlow(i) \/ RetireFlow(i) PROVE FlowInv'
<1>1. PICK to \in {"SUBMITTED", "REJECTED", "RETIRED"} :
        /\ RowUnlocked(i) /\ flows' = [flows EXCEPT ![i].status = to] /\ UNCHANGED activation
  BY DEF SubmitFlow, RejectFlow, RetireFlow, Transition
<1> DEFINE row == [flows[i] EXCEPT !.status = to]
<1>2. flows' = [flows EXCEPT ![i] = row]
  BY <1>1, FlowTypes DEF FlowInv, FlowsTyped, FlowRow
<1>3. row \in FlowRow /\ row.status = to
  BY FlowTypes DEF FlowRow
<1> HIDE DEF row
<1> QED BY <1>1, <1>2, <1>3, RowWritten DEF Reviewed

LEMMA ApproveFlowStep == ASSUME FlowInv, NEW a \in Editor, NEW i \in DOMAIN flows, ApproveFlow(a, i) PROVE FlowInv'
<1> DEFINE row == [flows[i] EXCEPT !.status = "APPROVED", !.approver = a, !.reviewed = flows[i].route]
<1>1. flows' = [flows EXCEPT ![i] = row]
  BY FlowTypes DEF ApproveFlow, FlowInv, FlowsTyped, FlowRow
<1>2. row \in FlowRow /\ row.status = "APPROVED"
  BY FlowTypes DEF FlowRow
<1>3. Reviewed(row)
  BY FlowTypes, FlowAssumption DEF ApproveFlow, Reviewed, Maker, FlowRow
<1> HIDE DEF row
<1> QED BY <1>1, <1>2, <1>3, RowWritten DEF ApproveFlow

LEMMA BeginActivationStep ==
  ASSUME FlowInv, NEW a \in Editor, NEW i \in DOMAIN flows, BeginActivation(a, i) PROVE FlowInv'
<1>1. /\ i \in Nat \ {0} /\ Conflicting(i) \in SUBSET Nat /\ flows[i].status = "APPROVED" /\ flows' = flows
      /\ \A b \in Editor : activation[b].flow # i
  BY FlowTypes DEF BeginActivation, Conflicting, RowUnlocked
<1>2. /\ activation' \in [Editor -> [flow : Nat, retire : SUBSET Nat]]
      /\ activation'[a].flow = i /\ \A b \in Editor : b # a => activation'[b] = activation[b]
  BY <1>1 DEF BeginActivation, FlowInv, FlowsTyped
<1>3. Locking'
  BY <1>1, <1>2 DEF FlowInv, Locking
<1> QED BY <1>1, <1>2, <1>3 DEF FlowInv, FlowsTyped, FlowsReviewed, AlonePrimary

(* The unique index refuses what a concurrent activation has made a         *)
(* conflict since the active flows were read.                               *)
LEMMA FinishActivationStep == ASSUME FlowInv, NEW a \in Editor, FinishActivation(a) PROVE FlowInv'
<1> DEFINE n == activation[a].flow
<1>1. /\ n # 0 /\ n \in DOMAIN flows /\ flows[n].status = "APPROVED" /\ n \notin activation[a].retire
      /\ \A b \in Editor \ {a} : activation[b].flow # n
      /\ \A j \in activation[a].retire : RowUnlocked(j)
  BY DEF FinishActivation, FlowInv, Locking, RowUnlocked
<1>2. /\ activation' \in [Editor -> [flow : Nat, retire : SUBSET Nat]] /\ activation'[a] = NoActivation
      /\ \A b \in Editor : b # a => activation'[b] = activation[b]
  BY DEF FinishActivation, NoActivation, FlowInv, FlowsTyped
<1>3. CASE ~Indexed(a)
  <2>1. flows' = flows
    BY <1>3 DEF FinishActivation
  <2>2. Locking'
    BY <1>2, <2>1 DEF FlowInv, Locking, NoActivation
  <2> QED BY <1>2, <2>1, <2>2 DEF FlowInv, FlowsTyped, FlowsReviewed, AlonePrimary
<1>4. CASE Indexed(a)
  <2> DEFINE active == [flows[n] EXCEPT !.status = "ACTIVE"]
             Retired(j) == [flows[j] EXCEPT !.status = "RETIRED"]
  <2>1. /\ DOMAIN flows' = DOMAIN flows
        /\ \A j \in DOMAIN flows : flows'[j] = IF j = n THEN active
                                               ELSE IF j \in activation[a].retire THEN Retired(j) ELSE flows[j]
    BY <1>1, <1>4 DEF FinishActivation
  <2>2. /\ active \in FlowRow /\ active.status = "ACTIVE" /\ active.route = flows[n].route
        /\ Reviewed(active)
    <3>1. flows[n] \in FlowRow /\ Reviewed(flows[n])
      BY <1>1, FlowTypes
    <3>2. /\ active \in FlowRow /\ active.status = "ACTIVE" /\ active.route = flows[n].route
          /\ active.reviewed = flows[n].reviewed /\ active.approver = flows[n].approver
          /\ active.editor = flows[n].editor /\ active.creator = flows[n].creator
      <4> HIDE DEF n
      <4> QED BY <3>1 DEF FlowRow
    <3> HIDE DEF active
    <3> QED BY <1>1, <3>1, <3>2 DEF Reviewed, Maker
  <2>3. \A j \in DOMAIN flows : Retired(j) \in FlowRow /\ Retired(j).status = "RETIRED"
    BY FlowTypes DEF FlowRow
  <2> HIDE DEF active, Retired, n
  <2>4. \A j \in DOMAIN flows : flows'[j] \in FlowRow
    BY <2>1, <2>2, <2>3, FlowTypes
  <2>5. flows' \in Seq(FlowRow)
    <3>1. Len(flows) \in Nat /\ DOMAIN flows = 1..Len(flows)
      BY DEF FlowInv, FlowsTyped
    <3>2. flows' = [j \in DOMAIN flows |-> flows'[j]]
      BY <1>4 DEF FinishActivation
    <3>3. flows' \in [1..Len(flows) -> FlowRow]
      BY <2>4, <3>1, <3>2
    <3> QED BY <3>1, <3>3
  <2>6. FlowsReviewed'
    BY <2>1, <2>2, <2>3, FlowTypes DEF FlowsReviewed, Reviewed
  <2>7. AlonePrimary'
    <3>1. \A j \in DOMAIN flows : flows'[j].status = "ACTIVE" /\ j # n =>
            /\ flows'[j] = flows[j] /\ ~SamePrimary(flows[j].route, flows[n].route)
      BY <1>4, <2>1, <2>3 DEF Indexed, n
    <3>2. \A r, s : SamePrimary(r, s) <=> SamePrimary(s, r)
      BY DEF SamePrimary
    <3> QED BY <2>1, <2>2, <3>1, <3>2 DEF FlowInv, AlonePrimary
  <2>8. Locking'
    <3> SUFFICES ASSUME NEW b \in Editor
                 PROVE  /\ activation'[b].flow = 0 => activation'[b] = NoActivation
                        /\ activation'[b].flow # 0 =>
                             /\ activation'[b].flow \in DOMAIN flows'
                             /\ flows'[activation'[b].flow].status = "APPROVED"
                             /\ \A d \in Editor \ {b} : activation'[d].flow # activation'[b].flow
      BY DEF Locking
    <3>1. CASE b = a
      BY <1>2, <3>1 DEF NoActivation
    <3>2. CASE b # a
      <4>1. activation'[b] = activation[b] /\ activation[b].flow # n
        BY <1>1, <1>2, <3>2 DEF n
      <4>2. activation[b].flow \notin activation[a].retire
        BY <1>1 DEF RowUnlocked
      <4> QED BY <1>2, <2>1, <4>1, <4>2 DEF FlowInv, Locking, NoActivation
    <3> QED BY <3>1, <3>2
  <2> QED BY <1>2, <2>5, <2>6, <2>7, <2>8 DEF FlowInv, FlowsTyped
<1> QED BY <1>3, <1>4

LEMMA FlowStep == FlowInv /\ [FlowNext]_flowVars => FlowInv'
<1> SUFFICES ASSUME FlowInv, [FlowNext]_flowVars PROVE FlowInv'
  OBVIOUS
<1>1. CASE FlowNext
  BY <1>1, CreateFlowStep, FinishActivationStep, UpdateFlowStep, TransitionFlowStep, ApproveFlowStep,
     BeginActivationStep DEF FlowNext
<1>2. CASE UNCHANGED flowVars
  BY <1>2 DEF flowVars, FlowInv, FlowsTyped, Locking, FlowsReviewed, Reviewed, AlonePrimary
<1> QED BY <1>1, <1>2

(* Whatever is edited, rejected and activated at once, a flow in force has  *)
(* the prices its approver saw, who was not its last editor, and no other   *)
(* is in force under its first keyword and source.                          *)
THEOREM FlowsAlwaysReviewed == FlowSpec => []ActiveFlowReviewed
<1>1. FlowInv => ActiveFlowReviewed
  BY DEF FlowInv, FlowsReviewed, Reviewed, AlonePrimary, ActiveFlowReviewed, Maker
<1> QED BY FlowStart, FlowStep, <1>1, PTL DEF FlowSpec
-----------------------------------------------------------------------------

Column == {"max", "daily", "active"}
Row    == [max : Nat, daily : Nat, active : BOOLEAN]
ChangeAction == {"CREATE", "UPDATE", "DELETE"}

(* What the merge of a payload into the record read guarantees.             *)
Merged(action, base, proposed, named) ==
  /\ proposed \in Row /\ Ordered(proposed)
  /\ action = "CREATE" => named = Column
  /\ action # "CREATE" => \A f \in Column \ named : proposed[f] = base[f]

DraftRow  == [action : ChangeAction, key : RefKey, base : Row, proposed : Row, named : SUBSET Column]
ChangeRow == [action : ChangeAction, key : RefKey, base : Row, proposed : Row, named : SUBSET Column,
              maker : Clerk, checker : Clerk \cup {"nobody"},
              status : {"PENDING", "APPROVED", "REJECTED", "CANCELLED"}]

LiveSound    == live \in [RefKey -> Row] /\ \A k \in RefKey : Ordered(live[k])
DraftsSound  ==
  /\ drafts \in [Clerk -> DraftRow \cup {NoDraft}]
  /\ \A a \in Clerk : drafts[a] # NoDraft =>
       Merged(drafts[a].action, drafts[a].base, drafts[a].proposed, drafts[a].named)
ChangesSound ==
  /\ changes \in Seq(ChangeRow)
  /\ \A i \in DOMAIN changes :
       Merged(changes[i].action, changes[i].base, changes[i].proposed, changes[i].named)

RefInv == LiveSound /\ DraftsSound /\ ChangesSound

-----------------------------------------------------------------------------
(* A row is a function on the three columns.                                *)
LEMMA RowColumns == \A r \in Row : DOMAIN r = Column
BY DEF Row, Column

(* The empty record and the one an installation starts with are rows.       *)
LEMMA FirstRows ==
  /\ NoProfile \in Row /\ Ordered(NoProfile)
  /\ [max |-> 1, daily |-> 1, active |-> TRUE] \in Row
  /\ Ordered([max |-> 1, daily |-> 1, active |-> TRUE])
BY DEF NoProfile, Row, Ordered

(* A profile a maker may give is a row.                                     *)
LEMMA ProfilesAreRows == Profile \subseteq Row
BY ReferenceAssumption DEF Profile, Row

(* updateAmlConfiguration merges one limit into a row.                      *)
LEMMA LimitMerged ==
  ASSUME NEW r \in Row, NEW f \in LimitField, NEW v \in Limit
  PROVE  /\ [r EXCEPT ![f] = v] \in Row
         /\ \A g \in Column \ {f} : [r EXCEPT ![f] = v][g] = r[g]
<1>1. v \in Nat BY ReferenceAssumption
<1>2. CASE f = "max" BY <1>1, <1>2 DEF Row, Column
<1>3. CASE f = "daily" BY <1>1, <1>3 DEF Row, Column
<1> QED BY <1>2, <1>3 DEF LimitField

(* deleteAmlConfiguration switches the row off.                             *)
LEMMA Switched ==
  ASSUME NEW r \in Row, Ordered(r)
  PROVE  /\ [r EXCEPT !.active = FALSE] \in Row
         /\ Ordered([r EXCEPT !.active = FALSE])
         /\ \A g \in Column \ {"active"} : [r EXCEPT !.active = FALSE][g] = r[g]
<1>1. [r EXCEPT !.active = FALSE] \in Row BY DEF Row
<1>2. \A g \in Column \ {"active"} : [r EXCEPT !.active = FALSE][g] = r[g] BY DEF Row, Column
<1> QED BY <1>1, <1>2 DEF Ordered, Row

-----------------------------------------------------------------------------
(* A maker's draft is well merged.                                          *)
LEMMA DraftStep ==
  ASSUME RefInv, NEW a \in Clerk, NEW action \in ChangeAction, NEW k \in RefKey, NEW base \in Row,
         NEW proposed \in Row, NEW named \in SUBSET Column,
         Merged(action, base, proposed, named), Draft(a, action, k, base, proposed, named)
  PROVE  RefInv'
<1> DEFINE d == [action |-> action, key |-> k, base |-> base, proposed |-> proposed, named |-> named]
<1>1. d \in DraftRow BY DEF DraftRow
<1>2. d.action = action /\ d.base = base /\ d.proposed = proposed /\ d.named = named OBVIOUS
<1>3. drafts' = [drafts EXCEPT ![a] = d] /\ UNCHANGED <<live, changes>> BY DEF Draft
<1> HIDE DEF d
<1>4. drafts' \in [Clerk -> DraftRow \cup {NoDraft}] BY <1>1, <1>3 DEF RefInv, DraftsSound
<1>5. ASSUME NEW b \in Clerk, drafts'[b] # NoDraft
      PROVE  Merged(drafts'[b].action, drafts'[b].base, drafts'[b].proposed, drafts'[b].named)
  <2>1. CASE b = a BY <1>2, <1>3, <2>1 DEF RefInv, DraftsSound
  <2>2. CASE b # a BY <1>3, <1>5, <2>2 DEF RefInv, DraftsSound
  <2> QED BY <2>1, <2>2
<1>6. DraftsSound' BY <1>4, <1>5 DEF DraftsSound
<1>7. LiveSound' /\ ChangesSound' BY <1>3 DEF RefInv, LiveSound, ChangesSound
<1> QED BY <1>6, <1>7 DEF RefInv

(* The three kinds of payload.                                              *)
LEMMA MakerSteps ==
  ASSUME RefInv, NEW a \in Clerk, NEW k \in RefKey,
         DraftCreate(a, k) \/ DraftUpdate(a, k) \/ DraftDelete(a, k)
  PROVE  RefInv'
<1>0. live[k] \in Row /\ Ordered(live[k]) BY DEF RefInv, LiveSound
<1>1. CASE DraftCreate(a, k)
  <2>1. PICK p \in Profile : Ordered(p) /\ Draft(a, "CREATE", k, NoProfile, p, DOMAIN p)
    BY <1>1 DEF DraftCreate
  <2>2. p \in Row /\ DOMAIN p = Column BY ProfilesAreRows, RowColumns
  <2>3. Merged("CREATE", NoProfile, p, Column) BY <2>1, <2>2 DEF Merged
  <2>4. Draft(a, "CREATE", k, NoProfile, p, Column) BY <2>1, <2>2
  <2>5. "CREATE" \in ChangeAction /\ Column \in SUBSET Column BY DEF ChangeAction
  <2> QED BY <2>2, <2>3, <2>4, <2>5, FirstRows, DraftStep
<1>2. CASE DraftUpdate(a, k)
  <2>1. PICK f \in LimitField, v \in Limit :
          /\ Ordered([live[k] EXCEPT ![f] = v])
          /\ Draft(a, "UPDATE", k, live[k], [live[k] EXCEPT ![f] = v], {f})
    BY <1>2 DEF DraftUpdate
  <2>2. /\ [live[k] EXCEPT ![f] = v] \in Row
        /\ \A g \in Column \ {f} : [live[k] EXCEPT ![f] = v][g] = live[k][g]
    BY <1>0, LimitMerged
  <2>3. Merged("UPDATE", live[k], [live[k] EXCEPT ![f] = v], {f}) BY <2>1, <2>2 DEF Merged
  <2>4. "UPDATE" \in ChangeAction /\ {f} \in SUBSET Column BY DEF ChangeAction, LimitField, Column
  <2> QED BY <1>0, <2>1, <2>2, <2>3, <2>4, DraftStep
<1>3. CASE DraftDelete(a, k)
  <2>1. Draft(a, "DELETE", k, live[k], [live[k] EXCEPT !.active = FALSE], {"active"})
    BY <1>3 DEF DraftDelete
  <2>2. /\ [live[k] EXCEPT !.active = FALSE] \in Row
        /\ Ordered([live[k] EXCEPT !.active = FALSE])
        /\ \A g \in Column \ {"active"} : [live[k] EXCEPT !.active = FALSE][g] = live[k][g]
    BY <1>0, Switched
  <2>3. Merged("DELETE", live[k], [live[k] EXCEPT !.active = FALSE], {"active"}) BY <2>2 DEF Merged
  <2>4. "DELETE" \in ChangeAction /\ {"active"} \in SUBSET Column BY DEF ChangeAction, Column
  <2> QED BY <1>0, <2>1, <2>2, <2>3, <2>4, DraftStep
<1> QED BY <1>1, <1>2, <1>3

(* A queued request is the draft.                                           *)
LEMMA QueueStep == ASSUME RefInv, NEW a \in Clerk, Queue(a) PROVE RefInv'
<1> DEFINE d == drafts[a]
           c == [action |-> d.action, key |-> d.key, base |-> d.base, proposed |-> d.proposed,
                 named |-> d.named, maker |-> a, checker |-> "nobody", status |-> "PENDING"]
<1>1. d \in DraftRow /\ Merged(d.action, d.base, d.proposed, d.named)
  BY DEF RefInv, DraftsSound, Queue
<1>2. c \in ChangeRow BY <1>1 DEF DraftRow, ChangeRow
<1>3. Merged(c.action, c.base, c.proposed, c.named) BY <1>1
<1>4. changes' = Append(changes, c) \/ changes' = changes BY DEF Queue
<1> HIDE DEF c
<1>5. changes \in Seq(ChangeRow) BY DEF RefInv, ChangesSound
<1>6. ChangesSound'
  <2>1. CASE changes' = changes BY <2>1 DEF RefInv, ChangesSound
  <2>2. CASE changes' = Append(changes, c)
    <3>1. changes' \in Seq(ChangeRow) BY <1>2, <1>5, <2>2
    <3>2. ASSUME NEW i \in DOMAIN changes'
          PROVE  changes'[i] = c \/ (i \in DOMAIN changes /\ changes'[i] = changes[i])
      BY <1>5, <2>2
    <3> QED BY <1>3, <3>1, <3>2 DEF RefInv, ChangesSound
  <2> QED BY <1>4, <2>1, <2>2
<1>7. drafts' = [drafts EXCEPT ![a] = NoDraft] /\ live' = live BY DEF Queue
<1>8. DraftsSound' BY <1>7 DEF RefInv, DraftsSound
<1>9. LiveSound' BY <1>7 DEF RefInv, LiveSound
<1> QED BY <1>6, <1>8, <1>9 DEF RefInv

(* A cancellation keeps what a request proposes.                            *)
LEMMA CancelledRow ==
  ASSUME NEW c \in ChangeRow, NEW d, d = [c EXCEPT !.status = "CANCELLED"]
  PROVE  /\ d \in ChangeRow
         /\ d.action = c.action /\ d.base = c.base /\ d.proposed = c.proposed /\ d.named = c.named
BY DEF ChangeRow

(* One request is replaced by one that proposes the same.                   *)
LEMMA OneDecided ==
  ASSUME ChangesSound, NEW i \in DOMAIN changes, NEW d \in ChangeRow,
         d.action = changes[i].action, d.base = changes[i].base,
         d.proposed = changes[i].proposed, d.named = changes[i].named,
         changes' = [changes EXCEPT ![i] = d]
  PROVE  ChangesSound' /\ changes'[i] = d
<1>1. changes \in Seq(ChangeRow) BY DEF ChangesSound
<1>2. changes' \in Seq(ChangeRow) /\ DOMAIN changes' = DOMAIN changes BY <1>1
<1>3. \A j \in DOMAIN changes : changes'[j] = IF j = i THEN d ELSE changes[j] BY <1>1
<1> QED BY <1>2, <1>3 DEF ChangesSound

(* assertDifferentUser and the constraint of the table.                     *)
LEMMA DecisionStep ==
  ASSUME RefInv, NEW a \in Clerk, NEW i \in DOMAIN changes, NEW s \in {"APPROVED", "REJECTED"},
         MayDecide(a, i), Decided(a, i, s)
  PROVE  /\ ChangesSound'
         /\ changes'[i].status = s /\ changes'[i].checker # changes[i].maker
<1> DEFINE d == [changes[i] EXCEPT !.status = s, !.checker = a]
<1>1. changes[i] \in ChangeRow BY DEF RefInv, ChangesSound
<1>2. d = [changes[i] EXCEPT !.status = s, !.checker = a] OBVIOUS
<1>3. changes' = [changes EXCEPT ![i] = d] BY DEF Decided
<1> HIDE DEF d
<1>4. /\ d \in ChangeRow /\ d.status = s /\ d.checker = a
      /\ d.action = changes[i].action /\ d.base = changes[i].base
      /\ d.proposed = changes[i].proposed /\ d.named = changes[i].named
  BY <1>1, <1>2 DEF ChangeRow
<1>5. ChangesSound' /\ changes'[i] = d BY <1>3, <1>4, OneDecided DEF RefInv
<1> QED BY <1>4, <1>5 DEF MayDecide

(* An approval: the record is still the one the change was merged into.     *)
LEMMA ApprovalStep ==
  ASSUME RefInv, NEW a \in Clerk, NEW i \in DOMAIN changes, ApproveChange(a, i)
  PROVE  /\ RefInv'
         /\ \A k \in RefKey : live'[k] # live[k] =>
              /\ k = changes[i].key /\ Ordered(live'[k])
              /\ \A f \in Column \ changes[i].named : live'[k][f] = live[k][f]
<1> DEFINE c == changes[i]
<1>1. c \in ChangeRow /\ Merged(c.action, c.base, c.proposed, c.named)
  BY DEF RefInv, ChangesSound
<1>2. c.key \in RefKey BY <1>1 DEF ChangeRow
<1>3. StillBase(c) /\ live' = [live EXCEPT ![c.key] = c.proposed] /\ drafts' = drafts
  BY DEF ApproveChange
<1>4. ChangesSound' BY DecisionStep DEF ApproveChange
<1>5. DraftsSound' BY <1>3 DEF RefInv, DraftsSound
<1> HIDE DEF c
<1>6. c.proposed \in Row /\ Ordered(c.proposed) BY <1>1 DEF Merged
<1>7. /\ live \in [RefKey -> Row] /\ live' \in [RefKey -> Row] /\ live'[c.key] = c.proposed
      /\ \A k \in RefKey \ {c.key} : live'[k] = live[k]
  BY <1>2, <1>3, <1>6 DEF RefInv, LiveSound
<1>8. LiveSound' BY <1>6, <1>7 DEF RefInv, LiveSound
<1>9. \A f \in Column \ c.named : c.proposed[f] = live[c.key][f]
  BY <1>1, <1>3 DEF Merged, StillBase
<1>10. \A k \in RefKey : live'[k] # live[k] =>
         k = c.key /\ Ordered(live'[k]) /\ \A f \in Column \ c.named : live'[k][f] = live[k][f]
  BY <1>6, <1>7, <1>9
<1> QED BY <1>4, <1>5, <1>8, <1>10 DEF RefInv, c

(* The other decisions leave the records alone.                             *)
LEMMA RefusalStep ==
  ASSUME RefInv, NEW a \in Clerk, NEW i \in DOMAIN changes, RejectChange(a, i) \/ CancelChange(a, i)
  PROVE  RefInv'
<1>1. UNCHANGED <<live, drafts>> BY DEF RejectChange, CancelChange
<1>2. CASE RejectChange(a, i)
  <2>1. ChangesSound' BY <1>2, DecisionStep DEF RejectChange
  <2> QED BY <1>1, <2>1 DEF RefInv, LiveSound, DraftsSound
<1>3. CASE CancelChange(a, i)
  <2> DEFINE d == [changes[i] EXCEPT !.status = "CANCELLED"]
  <2>1. changes[i] \in ChangeRow BY DEF RefInv, ChangesSound
  <2>2. /\ d \in ChangeRow
        /\ d.action = changes[i].action /\ d.base = changes[i].base
        /\ d.proposed = changes[i].proposed /\ d.named = changes[i].named
    BY <2>1, CancelledRow
  <2>3. changes' = [changes EXCEPT ![i] = d] BY <1>3 DEF CancelChange
  <2> HIDE DEF d
  <2>4. ChangesSound' BY <2>2, <2>3, OneDecided DEF RefInv
  <2> QED BY <1>1, <2>4 DEF RefInv, LiveSound, DraftsSound
<1> QED BY <1>2, <1>3

(* The first records are ordered and nothing is drafted or queued.          *)
LEMMA RefInit_RefInv == ASSUME RefInit PROVE RefInv
<1>1. LiveSound BY FirstRows DEF RefInit, LiveSound
<1>2. DraftsSound BY DEF RefInit, DraftsSound
<1>3. ChangesSound BY DEF RefInit, ChangesSound
<1> QED BY <1>1, <1>2, <1>3 DEF RefInv

(* What a step may do to a live record.                                     *)
Governed ==
  \A k \in RefKey : live'[k] # live[k] =>
    /\ Ordered(live'[k])
    /\ \E i \in Pending(k) :
         /\ changes'[i].status = "APPROVED" /\ changes'[i].checker # changes[i].maker
         /\ \A f \in DOMAIN live[k] \ changes[i].named : live'[k][f] = live[k][f]

(* Every step keeps the invariant and changes records by approval only.     *)
LEMMA RefStep == ASSUME RefInv, RefNext PROVE RefInv' /\ Governed
<1> PICK a \in Clerk :
      \/ \E k \in RefKey : DraftCreate(a, k) \/ DraftUpdate(a, k) \/ DraftDelete(a, k)
      \/ Queue(a)
      \/ \E i \in DOMAIN changes : ApproveChange(a, i) \/ RejectChange(a, i) \/ CancelChange(a, i)
  BY DEF RefNext
<1>1. CASE \E k \in RefKey : DraftCreate(a, k) \/ DraftUpdate(a, k) \/ DraftDelete(a, k)
  BY <1>1, MakerSteps DEF Governed, DraftCreate, DraftUpdate, DraftDelete, Draft
<1>2. CASE Queue(a) BY <1>2, QueueStep DEF Governed, Queue
<1>3. CASE \E i \in DOMAIN changes : RejectChange(a, i) \/ CancelChange(a, i)
  BY <1>3, RefusalStep DEF Governed, RejectChange, CancelChange
<1>4. CASE \E i \in DOMAIN changes : ApproveChange(a, i)
  <2>1. PICK i \in DOMAIN changes : ApproveChange(a, i) BY <1>4
  <2>2. changes'[i].status = "APPROVED" /\ changes'[i].checker # changes[i].maker
    BY <2>1, DecisionStep DEF ApproveChange
  <2>3. changes[i].status = "PENDING" BY <2>1 DEF ApproveChange, MayDecide
  <2>4. \A k \in RefKey : DOMAIN live[k] = Column BY RowColumns DEF RefInv, LiveSound
  <2>5. ASSUME NEW k \in RefKey, live'[k] # live[k]
        PROVE  /\ Ordered(live'[k]) /\ i \in Pending(k)
               /\ \A f \in DOMAIN live[k] \ changes[i].named : live'[k][f] = live[k][f]
    BY <2>1, <2>3, <2>4, <2>5, ApprovalStep DEF Pending
  <2>6. Governed BY <2>2, <2>5 DEF Governed
  <2> QED BY <2>1, <2>6, ApprovalStep
<1> QED BY <1>1, <1>2, <1>3, <1>4

(* Whatever makers read and when, and however their requests are queued,    *)
(* decided and cancelled, a live record changes only by the approval of     *)
(* somebody else than the maker, in the fields the approved change names.   *)
THEOREM LiveAlwaysByApproval == RefSpec => LiveOnlyByApproval
<1>1. RefInv /\ [RefNext]_refVars => RefInv'
  <2>1. CASE UNCHANGED refVars
    BY <2>1 DEF refVars, RefInv, LiveSound, DraftsSound, ChangesSound
  <2> QED BY <2>1, RefStep
<1>2. RefInv /\ [RefNext]_refVars => [Governed]_refVars BY RefStep
<1> QED BY <1>1, <1>2, RefInit_RefInv, PTL DEF RefSpec, LiveOnlyByApproval, Governed

-----------------------------------------------------------------------------
(* Credit policies.  Calls check without a lock and write later: what an    *)
(* undisturbed call checked still holds when it writes, and an activation   *)
(* knows every live policy it meets.                                        *)
(* The rows, the calls on them and the bounds.                              *)
BudgetRow == [masters : Nat, scopes : SUBSET PolicyScope, inTurn : BOOLEAN, atOnce : Nat, calls : Nat]

MasterShape ==
  /\ \E n \in Nat : Masters = 1..n
  /\ masters \in [Masters -> MasterRow]
  /\ ruleCalls \subseteq RuleCall
  /\ httpActive \in [by : RuleAdmin, active : BOOLEAN]
  /\ entangled \subseteq Masters
  /\ budget \in BudgetRow
  /\ \A c \in ruleCalls : c.master \in Masters

(* Two open calls that disturb each other have entangled their masters.     *)
OverlapsKnown ==
  \A c, d \in ruleCalls : c # d /\ Disturbs(c, d.op, d.master) => {c.master, d.master} \subseteq entangled

(* What a call checked is still so, unless it was disturbed.                *)
StatusFor(op) ==
  CASE op \in {"updateMaster", "changeRule", "submit"} -> {"DRAFT", "REJECTED"}
    [] op \in {"approve", "reject"} -> {"PENDING_APPROVAL"}
    [] op = "activate" -> {"APPROVED"}
    [] op = "retire" -> {"ACTIVE", "SUPERSEDED"}
ChecksHold ==
  \A c \in ruleCalls : c.master \notin entangled =>
    /\ ~c.stale /\ masters[c.master].status \in StatusFor(c.op)
    /\ c.op = "approve" => masters[c.master].author # c.by

(* A version awaits its decision by a request.                              *)
RequestsPending ==
  \A m \in Masters \ entangled : masters[m].status = "PENDING_APPROVAL" => masters[m].pending

(* An activation is only ever open beside activations of its master.        *)
ActivationsAlone ==
  \A c, d \in ruleCalls : c.master = d.master /\ c.op = "activate" => d.op = "activate"

(* An activation knows every live master it meets, or they overlapped.      *)
RivalsKnown ==
  \A c \in ruleCalls : c.op = "activate" =>
    \A o \in Masters \ ({c.master} \cup c.rivals) :
      masters[o].status = "ACTIVE" /\ SameScope(masters[o].scope, masters[c.master].scope) =>
        {o, c.master} \subseteq entangled

RuleInv == MasterShape /\ OverlapsKnown /\ ChecksHold /\ RequestsPending /\ ActivationsAlone /\ RivalsKnown /\ PolicyReviewed

LEMMA RuleStart == CreditRuleInit => RuleInv
<1> SUFFICES ASSUME CreditRuleInit PROVE RuleInv
  OBVIOUS
<1>1. DOMAIN masters = 1..0 /\ Masters = {}
  BY DEF CreditRuleInit, Masters
<1>2. Author \in RuleAdmin
  BY CreditRuleAssumption DEF CreditRuleAssumption, Author
<1>3. MasterShape
  <2>1. masters \in [Masters -> MasterRow]
    BY <1>1 DEF CreditRuleInit, Masters
  <2>2. budget \in BudgetRow
    BY CreditRuleAssumption DEF CreditRuleAssumption, CreditRuleInit, BudgetRow
  <2> QED
    BY <1>1, <1>2, <2>1, <2>2 DEF CreditRuleInit, MasterShape, Masters
<1> QED
  BY <1>1, <1>3 DEF CreditRuleInit, RuleInv, OverlapsKnown, ChecksHold, RequestsPending, ActivationsAlone, RivalsKnown, PolicyReviewed, Masters

LEMMA NewMaster == ASSUME MasterShape PROVE NextMaster \notin Masters /\ \E n \in Nat : NextMaster = n + 1 /\ Masters = 1..n
<1>1. PICK n \in Nat : Masters = 1..n
  BY DEF MasterShape
<1>2. Cardinality(Masters) = n
  BY <1>1, FS_Interval
<1> QED
  BY <1>1, <1>2 DEF NextMaster

(* A new version: a draft nobody has reviewed.                              *)
LEMMA MasterAdded ==
  ASSUME RuleInv, NEW row \in MasterRow, row.status = "DRAFT",
         masters' = [m \in Masters \union {NextMaster} |-> IF m = NextMaster THEN row ELSE masters[m]],
         UNCHANGED <<ruleCalls, httpActive, entangled, budget>>
  PROVE  RuleInv'
<1> DEFINE new == NextMaster
<1>1. PICK n \in Nat : new = n + 1 /\ Masters = 1..n /\ new \notin Masters
  BY NewMaster DEF RuleInv
<1>2. Masters' = Masters \cup {new} /\ Masters' = 1..(n + 1)
  BY <1>1 DEF Masters
<1>3. /\ masters'[new] = row /\ \A m \in Masters : masters'[m] = masters[m] /\ m # new
  BY <1>1
<1>4. masters' \in [Masters' -> MasterRow]
  BY <1>2 DEF RuleInv, MasterShape
<1> HIDE DEF new
<1>5. MasterShape'
  BY <1>1, <1>2, <1>4 DEF RuleInv, MasterShape
<1>6. OverlapsKnown'
  BY DEF RuleInv, OverlapsKnown, Disturbs
<1>7. ChecksHold'
  BY <1>3 DEF RuleInv, MasterShape, ChecksHold
<1>8. ActivationsAlone'
  BY DEF RuleInv, ActivationsAlone
<1>9. RivalsKnown'
  <2>1. \A c \in ruleCalls : c.master \in Masters /\ masters'[c.master] = masters[c.master]
    BY <1>3 DEF RuleInv, MasterShape
  <2>2. \A o \in Masters' : masters'[o].status = "ACTIVE" => o \in Masters /\ masters'[o] = masters[o]
    BY <1>2, <1>3
  <2>3. ASSUME NEW c \in ruleCalls, c.op = "activate", NEW o \in Masters' \ ({c.master} \cup c.rivals),
               masters'[o].status = "ACTIVE", SameScope(masters'[o].scope, masters'[c.master].scope)
        PROVE  {o, c.master} \subseteq entangled
    <3>1. /\ o \in Masters \ ({c.master} \cup c.rivals) /\ masters[o].status = "ACTIVE"
          /\ masters'[o] = masters[o] /\ masters'[c.master] = masters[c.master]
      BY <2>1, <2>2, <2>3
    <3>2. SameScope(masters[o].scope, masters[c.master].scope)
      BY <2>3, <3>1
    <3>3. RivalsKnown
      BY DEF RuleInv
    <3> QED
      BY <2>3, <3>1, <3>2, <3>3 DEF RivalsKnown
  <2>4. ruleCalls' = ruleCalls /\ entangled' = entangled
    OBVIOUS
  <2> QED
    BY <2>3, <2>4 DEF RivalsKnown
<1>10. PolicyReviewed'
  BY <1>2, <1>3 DEF RuleInv, PolicyReviewed
<1>11. RequestsPending'
  BY <1>2, <1>3 DEF RuleInv, RequestsPending
<1> QED
  BY <1>5, <1>6, <1>7, <1>8, <1>9, <1>10, <1>11 DEF RuleInv

LEMMA CreateMasterStep ==
  ASSUME RuleInv, NEW code \in RuleCode, NEW by \in RuleAdmin, NEW scope \in budget.scopes, createMaster(code, by, scope)
  PROVE  RuleInv'
<1> DEFINE row == [code |-> code, status |-> "DRAFT", author |-> by, scope |-> scope, rules |-> "none",
                   maker |-> Nobody, pending |-> FALSE, reviewer |-> Nobody]
<1>0. scope \in PolicyScope
  BY DEF RuleInv, MasterShape, BudgetRow
<1>1. row \in MasterRow /\ row.status = "DRAFT"
  BY <1>0 DEF MasterRow, MasterStatus, RuleContent
<1>2. masters' = [m \in Masters \union {NextMaster} |-> IF m = NextMaster THEN row ELSE masters[m]]
  BY DEF createMaster
<1> HIDE DEF row
<1> QED
  BY <1>1, <1>2, MasterAdded DEF createMaster

LEMMA CloneMasterStep ==
  ASSUME RuleInv, NEW source \in Masters, NEW by \in RuleAdmin, cloneMaster(source, by)
  PROVE  RuleInv'
<1> DEFINE row == [masters[source] EXCEPT !.status = "DRAFT", !.author = by, !.maker = Nobody,
                                       !.pending = FALSE, !.reviewer = Nobody]
<1>1. row \in MasterRow /\ row.status = "DRAFT"
  <2>1. masters[source] \in MasterRow
    BY DEF RuleInv, MasterShape
  <2> QED
    BY <2>1 DEF MasterRow, MasterStatus
<1>2. masters' = [m \in Masters \union {NextMaster} |-> IF m = NextMaster THEN row ELSE masters[m]]
  BY DEF cloneMaster
<1> HIDE DEF row
<1> QED
  BY <1>1, <1>2, MasterAdded DEF cloneMaster

(* What a permitted operation found.                                        *)
LEMMA ChecksFound ==
  ASSUME NEW op \in RuleOp, NEW m, NEW by, Permitted(op, m, by)
  PROVE  /\ m \in Masters /\ masters[m].status \in StatusFor(op)
         /\ op = "approve" => masters[m].author # by
         /\ op = "retire" => masters[m].status = "ACTIVE"
BY DEF RuleOp, Permitted, EditableMaster, InStatus, StatusFor

(* Statuses tell the operations apart, except where they are of one kind.   *)
LEMMA OneKind ==
  ASSUME NEW op \in RuleOp, NEW other \in RuleOp, StatusFor(op) \cap StatusFor(other) # {}, "activate" \in {op, other}
  PROVE  op = "activate" /\ other = "activate"
BY DEF RuleOp, StatusFor

LEMMA BeginRuleStep ==
  ASSUME RuleInv, NEW op \in RuleOp, NEW m \in Masters, NEW by \in RuleAdmin, beginRuleCall(op, m, by)
  PROVE  RuleInv'
<1> DEFINE others == {c \in ruleCalls : Disturbs(c, op, m)}
           call == [op |-> op, master |-> m, by |-> by, stale |-> FALSE,
                    rivals |-> IF op = "activate" THEN Rivals(m) ELSE {}]
<1>1. /\ m \notin entangled /\ Permitted(op, m, by) /\ masters' = masters /\ httpActive' = httpActive
      /\ ruleCalls' = ruleCalls \cup {call} /\ budget.calls > 0 /\ budget' = [budget EXCEPT !.calls = @ - 1]
  BY DEF beginRuleCall
<1>2. entangled' = IF others = {} THEN entangled ELSE entangled \cup {m} \cup {c.master : c \in others}
  BY DEF beginRuleCall
<1>3. /\ \A c \in ruleCalls : c \in RuleCall /\ c.op \in RuleOp /\ c.master \in Masters /\ c.by \in RuleAdmin
      /\ Masters \subseteq MasterId /\ entangled \subseteq Masters
  BY DEF RuleInv, MasterShape, RuleCall, MasterId
<1>4. /\ call \in RuleCall /\ call.op = op /\ call.master = m /\ call.by = by /\ call.stale = FALSE
      /\ op = "activate" => call.rivals = Rivals(m)
  <2>1. Rivals(m) \subseteq MasterId /\ m \in MasterId
    BY <1>3 DEF Rivals
  <2> QED
    BY <2>1 DEF RuleCall
<1>5. Masters' = Masters
  BY <1>1 DEF Masters
<1>6. /\ entangled \subseteq entangled' /\ entangled' \subseteq Masters
      /\ \A c \in ruleCalls : Disturbs(c, op, m) => {c.master, m} \subseteq entangled'
  BY <1>2, <1>3
<1> HIDE DEF others, call
<1>7. \A c \in ruleCalls : Disturbs(c, call.op, call.master) <=> Disturbs(call, c.op, c.master)
  BY <1>4 DEF Disturbs
<1>8. MasterShape'
  <2>0. budget \in BudgetRow
    BY DEF RuleInv, MasterShape
  <2>1. budget' \in BudgetRow
    BY <1>1, <2>0 DEF BudgetRow
  <2>2. ruleCalls' \subseteq RuleCall /\ \A c \in ruleCalls' : c.master \in Masters
    BY <1>1, <1>3, <1>4
  <2> QED
    BY <1>1, <1>5, <1>6, <2>1, <2>2 DEF RuleInv, MasterShape
<1>9. OverlapsKnown'
  BY <1>1, <1>4, <1>6, <1>7 DEF RuleInv, OverlapsKnown
<1>10. ChecksHold'
  <2>1. masters[m].status \in StatusFor(op) /\ (op = "approve" => masters[m].author # by)
    BY <1>1, ChecksFound
  <2> QED
    BY <1>1, <1>4, <1>6, <2>1 DEF RuleInv, ChecksHold
<1>11. ActivationsAlone'
  <2>1. \A c \in ruleCalls : c.master = m => c.op \in RuleOp /\ masters[m].status \in StatusFor(c.op)
    BY <1>1, <1>3 DEF RuleInv, ChecksHold
  <2>2. masters[m].status \in StatusFor(op)
    BY <1>1, ChecksFound
  <2>3. \A c \in ruleCalls : c.master = m /\ "activate" \in {op, c.op} => op = "activate" /\ c.op = "activate"
    BY <2>1, <2>2, OneKind
  <2> QED
    BY <1>1, <1>4, <2>3 DEF RuleInv, ActivationsAlone
<1>12. RivalsKnown'
  <2>1. ASSUME op = "activate", NEW o \in Masters \ ({m} \cup call.rivals), masters[o].status = "ACTIVE",
               SameScope(masters[o].scope, masters[m].scope)
        PROVE  FALSE
    BY <1>4, <2>1 DEF Rivals
  <2> QED
    BY <1>1, <1>4, <1>5, <1>6, <2>1 DEF RuleInv, RivalsKnown
<1>13. PolicyReviewed'
  BY <1>1, <1>5, <1>6 DEF RuleInv, PolicyReviewed
<1>14. RequestsPending'
  BY <1>1, <1>5, <1>6 DEF RuleInv, RequestsPending
<1> QED
  BY <1>8, <1>9, <1>10, <1>11, <1>12, <1>13, <1>14 DEF RuleInv

(* What a write leaves and changes.                                         *)
PolicyWritten(c) ==
  /\ masters' \in [Masters -> MasterRow]
  /\ \A o \in Masters : masters'[o].author = masters[o].author /\ masters'[o].code = masters[o].code
  /\ \A o \in Masters \ {c.master} :
       /\ masters'[o].scope = masters[o].scope /\ masters'[o].reviewer = masters[o].reviewer
       /\ masters'[o].maker = masters[o].maker /\ masters'[o].pending = masters[o].pending
       /\ \/ masters'[o].status = masters[o].status /\ (c.op = "activate" /\ o \in c.rivals => masters[o].status # "ACTIVE")
          \/ masters'[o].status = "SUPERSEDED" /\ masters[o].status = "ACTIVE" /\ c.op = "activate"
  /\ \/ c.op = "updateMaster"
     \/ masters'[c.master].scope = masters[c.master].scope
  /\ c.op # "submit" => masters'[c.master].maker = masters[c.master].maker
  /\ \/ c.op = "updateMaster" /\ masters'[c.master].status = "DRAFT"
     \/ c.op = "changeRule" /\ masters'[c.master].status = masters[c.master].status
     \/ c.op = "submit" /\ masters'[c.master].status = "PENDING_APPROVAL" /\ masters'[c.master].pending = TRUE
     \/ /\ c.op = "approve" /\ masters'[c.master].status = "APPROVED" /\ (~c.stale => masters'[c.master].reviewer = c.by)
        /\ masters[c.master].pending => masters[c.master].maker # c.by
     \/ c.op = "reject" /\ masters'[c.master].status = "REJECTED"
     \/ c.op = "retire" /\ masters'[c.master].status = "RETIRED" /\ masters'[c.master].reviewer = masters[c.master].reviewer
     \/ /\ c.op = "activate" /\ masters'[c.master].status = "ACTIVE" /\ masters'[c.master].reviewer = masters[c.master].reviewer
        /\ \A o \in Masters \ {c.master} : masters'[o].status = "ACTIVE" => masters[o].code # masters[c.master].code

LEMMA MasterStored ==
  ASSUME MasterShape, NEW c \in ruleCalls, NEW row \in MasterRow, masters' = [masters EXCEPT ![c.master] = row]
  PROVE  /\ masters' \in [Masters -> MasterRow] /\ masters'[c.master] = row
         /\ \A o \in Masters \ {c.master} : masters'[o] = masters[o]
BY DEF MasterShape

LEMMA WriteSummarised ==
  ASSUME MasterShape, NEW c \in ruleCalls, Write(c)
  PROVE  PolicyWritten(c)
<1> DEFINE m == c.master
           old == masters[m]
<1>1. c \in RuleCall /\ m \in Masters /\ old \in MasterRow /\ c.by \in RuleAdmin
  BY DEF MasterShape, RuleCall
<1>2. CASE c.op = "updateMaster"
  <2>1. PICK scope \in budget.scopes : masters' = [masters EXCEPT ![m] = [old EXCEPT !.status = "DRAFT", !.scope = scope, !.reviewer = Nobody]]
    BY <1>2 DEF Write
  <2> DEFINE row == [old EXCEPT !.status = "DRAFT", !.scope = scope, !.reviewer = Nobody]
  <2>0. scope \in PolicyScope
    BY DEF MasterShape, BudgetRow
  <2>2. row \in MasterRow /\ row.status = "DRAFT" /\ row.author = old.author /\ row.code = old.code /\ row.maker = old.maker
    BY <1>1, <2>0 DEF MasterRow, MasterStatus
  <2> HIDE DEF row
  <2> QED
    BY <1>2, <2>1, <2>2, MasterStored DEF PolicyWritten, row
<1>3. CASE c.op = "changeRule"
  <2>1. PICK rules \in RuleContent : masters' = [masters EXCEPT ![m] = [old EXCEPT !.rules = rules, !.reviewer = Nobody]]
    BY <1>3 DEF Write
  <2> DEFINE row == [old EXCEPT !.rules = rules, !.reviewer = Nobody]
  <2>2. /\ row \in MasterRow /\ row.status = old.status /\ row.author = old.author /\ row.code = old.code
        /\ row.scope = old.scope /\ row.maker = old.maker
    BY <1>1 DEF MasterRow, MasterStatus
  <2> HIDE DEF row
  <2> QED
    BY <1>3, <2>1, <2>2, MasterStored DEF PolicyWritten, row
<1>4. CASE c.op = "submit"
  <2> DEFINE row == [old EXCEPT !.status = "PENDING_APPROVAL", !.maker = c.by, !.pending = TRUE]
  <2>1. masters' = [masters EXCEPT ![m] = row]
    BY <1>4 DEF Write
  <2>2. /\ row \in MasterRow /\ row.status = "PENDING_APPROVAL" /\ row.author = old.author /\ row.code = old.code
        /\ row.scope = old.scope /\ row.pending = TRUE
    BY <1>1 DEF MasterRow, MasterStatus
  <2> HIDE DEF row
  <2> QED
    BY <1>4, <2>1, <2>2, MasterStored DEF PolicyWritten
<1>5. CASE c.op = "approve"
  <2> DEFINE reviewer == IF c.stale THEN Nobody ELSE c.by
             row == [old EXCEPT !.status = "APPROVED", !.pending = FALSE, !.reviewer = reviewer]
  <2>1. masters' = [masters EXCEPT ![m] = row] /\ (old.pending => old.maker # c.by)
    BY <1>5 DEF Write
  <2>2. reviewer \in RuleAdmin \cup {Nobody} /\ (~c.stale => reviewer = c.by)
    BY <1>1
  <2> HIDE DEF reviewer
  <2>3. /\ row \in MasterRow /\ row.status = "APPROVED" /\ row.author = old.author /\ row.code = old.code
        /\ row.scope = old.scope /\ row.maker = old.maker /\ row.reviewer = reviewer
    BY <1>1, <2>2 DEF MasterRow, MasterStatus
  <2> HIDE DEF row
  <2> QED
    BY <1>5, <2>1, <2>2, <2>3, MasterStored DEF PolicyWritten
<1>6. CASE c.op = "reject"
  <2> DEFINE row == [old EXCEPT !.status = "REJECTED", !.pending = FALSE]
  <2>1. masters' = [masters EXCEPT ![m] = row]
    BY <1>6 DEF Write
  <2>2. /\ row \in MasterRow /\ row.status = "REJECTED" /\ row.author = old.author /\ row.code = old.code
        /\ row.scope = old.scope /\ row.maker = old.maker
    BY <1>1 DEF MasterRow, MasterStatus
  <2> HIDE DEF row
  <2> QED
    BY <1>6, <2>1, <2>2, MasterStored DEF PolicyWritten
<1>7. CASE c.op = "retire"
  <2> DEFINE row == [old EXCEPT !.status = "RETIRED"]
  <2>1. masters' = [masters EXCEPT ![m] = row]
    BY <1>7 DEF Write
  <2>2. /\ row \in MasterRow /\ row.status = "RETIRED" /\ row.author = old.author /\ row.code = old.code
        /\ row.scope = old.scope /\ row.maker = old.maker /\ row.reviewer = old.reviewer
    BY <1>1 DEF MasterRow, MasterStatus
  <2> HIDE DEF row
  <2> QED
    BY <1>7, <2>1, <2>2, MasterStored DEF PolicyWritten
<1>8. CASE c.op = "activate"
  <2>1. \A o \in Masters \ ({m} \cup c.rivals) : ~(masters[o].status = "ACTIVE" /\ masters[o].code = old.code)
    BY <1>8 DEF Write
  <2>2. masters' = [o \in Masters |->
             IF o = m THEN [old EXCEPT !.status = "ACTIVE"]
             ELSE IF o \in c.rivals /\ masters[o].status = "ACTIVE"
             THEN [masters[o] EXCEPT !.status = "SUPERSEDED"] ELSE masters[o]]
    BY <1>8 DEF Write
  <2>3. ASSUME NEW row \in MasterRow, NEW status \in MasterStatus
        PROVE  LET new == [row EXCEPT !.status = status]
               IN /\ new \in MasterRow /\ new.status = status /\ new.author = row.author /\ new.code = row.code
                  /\ new.scope = row.scope /\ new.reviewer = row.reviewer
                  /\ new.maker = row.maker /\ new.pending = row.pending
    BY DEF MasterRow
  <2>4. \A o \in Masters : masters[o] \in MasterRow
    BY DEF MasterShape
  <2>5. "ACTIVE" \in MasterStatus /\ "SUPERSEDED" \in MasterStatus
    BY DEF MasterStatus
  <2>6. /\ masters'[m] = [old EXCEPT !.status = "ACTIVE"]
        /\ \A o \in Masters \ {m} : masters'[o] = IF o \in c.rivals /\ masters[o].status = "ACTIVE"
                                               THEN [masters[o] EXCEPT !.status = "SUPERSEDED"] ELSE masters[o]
    BY <1>1, <2>2
  <2>7. /\ masters'[m] \in MasterRow /\ masters'[m].status = "ACTIVE" /\ masters'[m].author = old.author
        /\ masters'[m].code = old.code /\ masters'[m].scope = old.scope /\ masters'[m].reviewer = old.reviewer
        /\ masters'[m].maker = old.maker
    BY <1>1, <2>3, <2>5, <2>6
  <2>8. ASSUME NEW o \in Masters \ {m}
        PROVE  /\ masters'[o] \in MasterRow /\ masters'[o].author = masters[o].author
               /\ masters'[o].code = masters[o].code /\ masters'[o].scope = masters[o].scope /\ masters'[o].reviewer = masters[o].reviewer
               /\ masters'[o].maker = masters[o].maker /\ masters'[o].pending = masters[o].pending
               /\ IF o \in c.rivals /\ masters[o].status = "ACTIVE" THEN masters'[o].status = "SUPERSEDED"
                  ELSE masters'[o].status = masters[o].status
    <3>1. CASE o \in c.rivals /\ masters[o].status = "ACTIVE"
      <4>1. masters'[o] = [masters[o] EXCEPT !.status = "SUPERSEDED"] /\ masters[o] \in MasterRow
        BY <2>4, <2>6, <3>1
      <4> HIDE <2>6
      <4> QED
        BY <2>3, <2>5, <3>1, <4>1
    <3>2. CASE ~(o \in c.rivals /\ masters[o].status = "ACTIVE")
      BY <2>4, <2>6, <3>2
    <3> QED
      BY <3>1, <3>2
  <2>9. masters' \in [Masters -> MasterRow]
    <3>1. masters' = [o \in Masters |-> masters'[o]]
      BY <2>2
    <3> QED
      BY <2>7, <2>8, <3>1
  <2> QED
    BY <1>8, <2>1, <2>7, <2>8, <2>9 DEF PolicyWritten
<1> QED
  BY <1>2, <1>3, <1>4, <1>5, <1>6, <1>7, <1>8 DEF Write

LEMMA CommitRuleStep ==
  ASSUME RuleInv, NEW c \in ruleCalls, commitRuleCall(c)
  PROVE  RuleInv'
<1> DEFINE m == c.master
           Mark(d) == [d EXCEPT !.stale = d.stale \/ (d.master = c.master /\ c.op \in {"updateMaster", "changeRule"})]
<1>1. PolicyWritten(c) /\ c \in RuleCall /\ m \in Masters /\ c.by \in RuleAdmin
  BY WriteSummarised DEF commitRuleCall, RuleInv, MasterShape, RuleCall
<1>2. UNCHANGED <<httpActive, entangled, budget>>
  BY DEF commitRuleCall
<1>3. /\ masters' \in [Masters -> MasterRow] /\ Masters' = Masters
      /\ \A o \in Masters : masters[o] \in MasterRow /\ masters'[o] \in MasterRow
  BY <1>1 DEF PolicyWritten, Masters, RuleInv, MasterShape
<1>4. \A e \in ruleCalls' : \E d \in ruleCalls :
        /\ d # c /\ e \in RuleCall /\ e.op = d.op /\ e.master = d.master /\ e.by = d.by /\ e.rivals = d.rivals
        /\ e.stale = (d.stale \/ (d.master = m /\ c.op \in {"updateMaster", "changeRule"}))
        /\ e = Mark(d)
  <2>1. ruleCalls' = {Mark(d) : d \in ruleCalls \ {c}}
    BY DEF commitRuleCall, StillOpen
  <2>2. ASSUME NEW d \in ruleCalls
        PROVE  /\ Mark(d) \in RuleCall /\ Mark(d).op = d.op /\ Mark(d).master = d.master /\ Mark(d).by = d.by
               /\ Mark(d).rivals = d.rivals
               /\ Mark(d).stale = (d.stale \/ (d.master = m /\ c.op \in {"updateMaster", "changeRule"}))
    <3> DEFINE stale == d.stale \/ (d.master = c.master /\ c.op \in {"updateMaster", "changeRule"})
    <3>1. d \in RuleCall
      BY DEF RuleInv, MasterShape
    <3>2. stale \in BOOLEAN
      BY <3>1 DEF RuleCall
    <3> HIDE DEF stale
    <3>3. LET e == [d EXCEPT !.stale = stale]
          IN e \in RuleCall /\ e.op = d.op /\ e.master = d.master /\ e.by = d.by /\ e.rivals = d.rivals /\ e.stale = stale
      BY <3>1, <3>2 DEF RuleCall
    <3> QED
      BY <3>3 DEF stale
  <2> HIDE DEF Mark
  <2> QED
    BY <2>1, <2>2
<1> HIDE DEF Mark
<1>5. MasterShape'
  <2>1. ruleCalls' \subseteq RuleCall /\ \A e \in ruleCalls' : e.master \in Masters
    BY <1>4 DEF RuleInv, MasterShape
  <2> QED
    BY <1>2, <1>3, <2>1 DEF RuleInv, MasterShape
<1>6. OverlapsKnown'
  <2> SUFFICES ASSUME NEW e \in ruleCalls', NEW f \in ruleCalls', e # f, Disturbs(e, f.op, f.master)
               PROVE  {e.master, f.master} \subseteq entangled
    BY <1>2 DEF OverlapsKnown, Disturbs
  <2>1. PICK d \in ruleCalls : e.op = d.op /\ e.master = d.master /\ e = Mark(d)
    BY <1>4
  <2>2. PICK g \in ruleCalls : f.op = g.op /\ f.master = g.master /\ f = Mark(g)
    BY <1>4
  <2>3. d # g /\ Disturbs(d, g.op, g.master)
    BY <2>1, <2>2 DEF Disturbs
  <2> QED
    BY <2>1, <2>2, <2>3 DEF RuleInv, OverlapsKnown
(* An undisturbed call is the only one on its master.                       *)
<1>7. \A d \in ruleCalls : d # c /\ d.master \notin entangled => d.master # m /\ (c.op = "activate" => d.op # "activate")
  BY DEF RuleInv, OverlapsKnown, Disturbs
<1>8. ChecksHold'
  <2> SUFFICES ASSUME NEW e \in ruleCalls', e.master \notin entangled
               PROVE  /\ ~e.stale /\ masters'[e.master].status \in StatusFor(e.op)
                      /\ e.op = "approve" => masters'[e.master].author # e.by
    BY <1>2 DEF ChecksHold
  <2>1. PICK d \in ruleCalls :
        /\ d # c /\ e.op = d.op /\ e.master = d.master /\ e.by = d.by
        /\ e.stale = (d.stale \/ (d.master = m /\ c.op \in {"updateMaster", "changeRule"}))
    BY <1>4
  <2>2. d.master # m /\ ~d.stale /\ masters[d.master].status \in StatusFor(d.op) /\ d.op \in RuleOp /\ d.master \in Masters
    BY <1>7, <2>1 DEF RuleInv, ChecksHold, MasterShape, RuleCall
  <2>3. masters'[d.master].author = masters[d.master].author
    BY <1>1, <2>2 DEF PolicyWritten
  <2>4. \/ masters'[d.master].status = masters[d.master].status
        \/ masters[d.master].status = "ACTIVE" /\ masters'[d.master].status = "SUPERSEDED"
    BY <1>1, <2>2 DEF PolicyWritten
  <2>5. masters'[d.master].status \in StatusFor(d.op)
    BY <2>2, <2>4 DEF RuleOp, StatusFor
  <2> QED
    BY <2>1, <2>2, <2>3, <2>5 DEF RuleInv, ChecksHold
<1>9. ActivationsAlone'
  <2> SUFFICES ASSUME NEW e \in ruleCalls', NEW f \in ruleCalls', e.master = f.master, e.op = "activate"
               PROVE  f.op = "activate"
    BY DEF ActivationsAlone
  <2> QED
    BY <1>4 DEF RuleInv, ActivationsAlone
<1>10. RivalsKnown'
  <2> SUFFICES ASSUME NEW e \in ruleCalls', e.op = "activate", NEW o \in Masters \ ({e.master} \cup e.rivals),
                      masters'[o].status = "ACTIVE", SameScope(masters'[o].scope, masters'[e.master].scope)
               PROVE  {o, e.master} \subseteq entangled
    BY <1>2, <1>3 DEF RivalsKnown
  <2>1. PICK d \in ruleCalls : d # c /\ d.op = "activate" /\ e.master = d.master /\ e.rivals = d.rivals /\ d.master \in Masters
    BY <1>4 DEF RuleInv, MasterShape
  <2>2. CASE c.op = "activate"
    <3>1. {c.master, d.master} \subseteq entangled
      BY <2>1, <2>2 DEF RuleInv, OverlapsKnown, Disturbs
    <3>2. CASE o = m
      BY <2>1, <3>1, <3>2
    <3>3. CASE o # m
      <4>1. /\ masters[o].status = "ACTIVE" /\ masters'[o].scope = masters[o].scope
            /\ masters'[d.master].scope = masters[d.master].scope
        BY <1>1, <2>1, <2>2, <3>3 DEF PolicyWritten
      <4> QED
        BY <2>1, <4>1 DEF RuleInv, RivalsKnown
    <3> QED
      BY <3>2, <3>3
  <2>3. CASE c.op # "activate"
    <3>1. d.master # m
      BY <2>1, <2>3 DEF RuleInv, ActivationsAlone
    <3>2. masters'[d.master].scope = masters[d.master].scope
      BY <1>1, <2>1, <3>1 DEF PolicyWritten
    <3>3. masters[o].status = "ACTIVE" /\ masters'[o].scope = masters[o].scope
      BY <1>1, <2>3 DEF PolicyWritten
    <3> QED
      BY <2>1, <3>2, <3>3 DEF RuleInv, RivalsKnown
  <2> QED
    BY <2>2, <2>3
<1>11. ASSUME NEW o \in Masters \ entangled, masters'[o].status \in {"APPROVED", "ACTIVE", "SUPERSEDED", "RETIRED"}
       PROVE  masters'[o].reviewer \notin {Nobody, masters'[o].author, masters'[o].maker}
  <2>1. masters'[o].author = masters[o].author
    BY <1>1 DEF PolicyWritten
  <2>2. CASE o # m
    <3>1. /\ masters'[o].reviewer = masters[o].reviewer /\ masters'[o].maker = masters[o].maker
          /\ masters[o].status \in {"APPROVED", "ACTIVE", "SUPERSEDED", "RETIRED"}
      BY <1>1, <1>11, <2>2 DEF PolicyWritten
    <3> QED
      BY <2>1, <3>1 DEF RuleInv, PolicyReviewed
  <2>3. CASE o = m
    <3>1. /\ ~c.stale /\ masters[m].status \in StatusFor(c.op) /\ (c.op = "approve" => masters[m].author # c.by)
      BY <2>3 DEF RuleInv, ChecksHold
    <3>2. CASE c.op = "approve"
      <4>0. masters[m].pending
        BY <2>3, <3>1, <3>2 DEF RuleInv, RequestsPending, StatusFor
      <4>1. masters'[m].reviewer = c.by /\ masters'[m].maker = masters[m].maker /\ masters[m].maker # c.by
        BY <1>1, <3>1, <3>2, <4>0 DEF PolicyWritten
      <4>2. c.by # Nobody
        BY <1>1, CreditRuleAssumption DEF CreditRuleAssumption, Nobody
      <4> QED
        BY <2>1, <2>3, <3>1, <3>2, <4>1, <4>2
    <3>3. CASE c.op \in {"retire", "activate"}
      <4>1. masters'[m].reviewer = masters[m].reviewer /\ masters'[m].maker = masters[m].maker
        BY <1>1, <3>3 DEF PolicyWritten
      <4>2. masters[m].status \in {"APPROVED", "ACTIVE", "SUPERSEDED"}
        BY <3>1, <3>3 DEF StatusFor
      <4> QED
        BY <2>1, <2>3, <4>1, <4>2 DEF RuleInv, PolicyReviewed
    <3>4. CASE c.op = "changeRule"
      <4>1. masters'[m].status \in {"DRAFT", "REJECTED"}
        BY <1>1, <3>1, <3>4 DEF PolicyWritten, StatusFor
      <4> QED
        BY <1>11, <2>3, <4>1
    <3>5. CASE c.op \notin {"approve", "retire", "activate", "changeRule"}
      <4>1. masters'[m].status \in {"DRAFT", "REJECTED", "PENDING_APPROVAL"}
        BY <1>1, <3>5 DEF PolicyWritten
      <4> QED
        BY <1>11, <2>3, <4>1
    <3> QED
      BY <3>2, <3>3, <3>4, <3>5
  <2> QED
    BY <2>2, <2>3
<1>12. ASSUME NEW o \in Masters, NEW q \in Masters, o # q, o # m, masters'[o].status = "ACTIVE", masters'[q].status = "ACTIVE"
       PROVE  masters'[o].code # masters'[q].code /\ (SameScope(masters'[o].scope, masters'[q].scope) => {o, q} \subseteq entangled)
  <2>1. /\ masters'[o].code = masters[o].code /\ masters'[q].code = masters[q].code
        /\ masters[o].status = "ACTIVE" /\ masters'[o].scope = masters[o].scope
        /\ c.op = "activate" => o \notin c.rivals
    BY <1>1, <1>12 DEF PolicyWritten
  <2>2. CASE q = m /\ c.op = "activate"
    <3>1. masters[o].code # masters[q].code /\ masters'[q].scope = masters[q].scope
      BY <1>1, <1>12, <2>2 DEF PolicyWritten
    <3>2. SameScope(masters[o].scope, masters[q].scope) => {o, q} \subseteq entangled
      BY <1>12, <2>1, <2>2 DEF RuleInv, RivalsKnown
    <3> QED
      BY <2>1, <3>1, <3>2
  <2>3. CASE ~(q = m /\ c.op = "activate")
    <3>1. masters[q].status = "ACTIVE" /\ masters'[q].scope = masters[q].scope
      <4>1. CASE q # m
        BY <1>1, <1>12, <4>1 DEF PolicyWritten
      <4>2. CASE q = m
        BY <1>1, <1>12, <2>3, <4>2 DEF PolicyWritten
      <4> QED
        BY <4>1, <4>2
    <3> QED
      BY <1>12, <2>1, <3>1 DEF RuleInv, PolicyReviewed
  <2> QED
    BY <2>2, <2>3
<1>13. PolicyReviewed'
  <2>1. \A a, b : SameScope(a, b) <=> SameScope(b, a)
    BY DEF SameScope, Meet
  <2>2. ASSUME NEW o \in Masters, NEW q \in Masters, o # q, masters'[o].status = "ACTIVE", masters'[q].status = "ACTIVE"
        PROVE  masters'[o].code # masters'[q].code /\ (SameScope(masters'[o].scope, masters'[q].scope) => {o, q} \subseteq entangled)
    <3>1. CASE o # m
      BY <1>12, <2>2, <3>1
    <3>2. CASE o = m
      <4>1. masters'[q].code # masters'[o].code /\ (SameScope(masters'[q].scope, masters'[o].scope) => {q, o} \subseteq entangled)
        BY <1>12, <2>2, <3>2
      <4> QED
        BY <2>1, <4>1
    <3> QED
      BY <3>1, <3>2
  <2> QED
    BY <1>2, <1>3, <1>11, <2>2 DEF PolicyReviewed
<1>14. RequestsPending'
  <2> SUFFICES ASSUME NEW o \in Masters \ entangled, masters'[o].status = "PENDING_APPROVAL"
               PROVE  masters'[o].pending
    BY <1>2, <1>3 DEF RequestsPending
  <2>1. CASE o # m
    <3>1. masters'[o].pending = masters[o].pending /\ masters[o].status = "PENDING_APPROVAL"
      BY <1>1, <2>1 DEF PolicyWritten
    <3> QED
      BY <3>1 DEF RuleInv, RequestsPending
  <2>2. CASE o = m
    <3>1. masters[m].status \in StatusFor(c.op)
      BY <2>2 DEF RuleInv, ChecksHold
    <3>2. c.op # "changeRule"
      BY <1>1, <2>2, <3>1 DEF PolicyWritten, StatusFor
    <3> QED
      BY <1>1, <2>2, <3>2 DEF PolicyWritten
  <2> QED
    BY <2>1, <2>2
<1> QED
  BY <1>5, <1>6, <1>8, <1>9, <1>10, <1>13, <1>14 DEF RuleInv

LEMMA AbandonRuleStep ==
  ASSUME RuleInv, NEW c \in ruleCalls, abandonRuleCall(c)
  PROVE  RuleInv'
<1>1. ruleCalls' = ruleCalls \ {c} /\ UNCHANGED <<masters, httpActive, entangled, budget>>
  BY DEF abandonRuleCall
<1> QED
  BY <1>1 DEF RuleInv, MasterShape, OverlapsKnown, ChecksHold, RequestsPending, ActivationsAlone, RivalsKnown, PolicyReviewed, Masters, Disturbs

LEMMA RuleStep == RuleInv /\ [CreditRuleNext]_creditRuleVars => RuleInv'
<1> SUFFICES ASSUME RuleInv, [CreditRuleNext]_creditRuleVars PROVE RuleInv'
  OBVIOUS
<1>1. ASSUME UNCHANGED <<masters, ruleCalls, entangled, budget>>, httpActive' \in [by : RuleAdmin, active : BOOLEAN]
      PROVE  RuleInv'
  BY <1>1 DEF RuleInv, MasterShape, OverlapsKnown, ChecksHold, RequestsPending, ActivationsAlone, RivalsKnown, PolicyReviewed, Masters, Disturbs
<1>2. httpActive \in [by : RuleAdmin, active : BOOLEAN]
  BY DEF RuleInv, MasterShape
<1>a. CASE UNCHANGED creditRuleVars
  BY <1>1, <1>2, <1>a DEF creditRuleVars
<1>b. CASE updateIntegration
  BY <1>1, <1>2, <1>b DEF updateIntegration
<1>3. ASSUME NEW by \in RuleAdmin, approveIntegration(by) PROVE RuleInv'
  BY <1>1, <1>2, <1>3 DEF approveIntegration
<1>4. ASSUME NEW c \in ruleCalls, commitRuleCall(c) \/ abandonRuleCall(c) PROVE RuleInv'
  BY <1>4, CommitRuleStep, AbandonRuleStep
<1>5. ASSUME NEW op \in RuleOp, NEW m \in Masters, NEW by \in RuleAdmin, beginRuleCall(op, m, by) PROVE RuleInv'
  BY <1>5, BeginRuleStep
<1> QED
  BY <1>a, <1>b, <1>3, <1>4, <1>5, CreateMasterStep, CloneMasterStep DEF CreditRuleNext

LEMMA RuleKept == RuleInv => CreditRuleTypeOK /\ PolicyReviewed
<1> SUFFICES ASSUME RuleInv PROVE CreditRuleTypeOK /\ PolicyReviewed
  OBVIOUS
<1>1. Masters \subseteq MasterId
  BY DEF RuleInv, MasterShape, MasterId
<1> QED
  BY <1>1 DEF RuleInv, MasterShape, CreditRuleTypeOK, BudgetRow

-----------------------------------------------------------------------------
(* Credit decisions.                                                        *)
ExecutionRow ==
  [policy : CreditPolicy, request : CreditRequest, phase : {"scoring", "walking", "done", "lost"},
   outcome : Outcome, next : Nat, limit : Int, groups : SUBSET STRING, refused : BOOLEAN,
   allocated : Nat, available : Nat, policyLimit : Nat]
CaseRow == [status : {"none", "PENDING", "RECOMMENDED", "APPROVED", "REJECTED"}, advice : Nat,
            adviser : CreditOfficer \cup {NoOfficer}, decider : CreditOfficer \cup {NoOfficer}]

DecisionShape ==
  /\ execution \in ExecutionRow /\ reviewCase \in CaseRow /\ bindingLive \in BOOLEAN
  /\ execution.next \in 1..Len(execution.policy.rules) + 1

(* A walk that a rule has ended stays ended, and what a rule refused is     *)
(* rejected.                                                                *)
WalkEnds ==
  /\ execution.refused => execution.outcome = "REJECTED"
  /\ execution.phase # "done" =>
       execution.outcome \in {"PROCESSING", "REJECTED", "MANUAL_REVIEW"} /\ execution.allocated = execution.policyLimit
  /\ execution.phase = "scoring" => execution.outcome = "PROCESSING"
  /\ execution.phase = "walking" /\ execution.outcome # "PROCESSING" => ~More

(* A case is opened by a finished execution alone, stays within what the    *)
(* policy calculated, and needs an adviser to be decided.                   *)
CaseFollows ==
  /\ reviewCase.status # "none" => execution.phase = "done"
  /\ reviewCase.status \in {"PENDING", "RECOMMENDED"} =>
       execution.outcome = "MANUAL_REVIEW" /\ execution.allocated = execution.policyLimit
  /\ reviewCase.status = "RECOMMENDED" => reviewCase.adviser # NoOfficer
  /\ execution.policyLimit <= execution.policy.maximum

CreditInv == DecisionShape /\ WalkEnds /\ CaseFollows /\ CreditWithinPolicy

LEMMA Given ==
  ASSUME NEW p \in CreditPolicy
  PROVE  /\ p.base \in Nat /\ p.minimum \in Nat /\ p.maximum \in Nat /\ p.maximum > 0 /\ p.rules \in Seq(CreditRule)
         /\ p.auto \in BOOLEAN /\ p.otherwise \in {"REJECTED", "MANUAL_REVIEW"}
<1>1. /\ {p.base, p.minimum} \subseteq Nat /\ p.maximum \in Nat \ {0} /\ p.rules \in Seq(CreditRule)
      /\ p.auto \in BOOLEAN /\ p.otherwise \in {"REJECTED", "MANUAL_REVIEW"}
  BY CreditAssumption DEF CreditAssumption
<1>2. p.maximum \in Nat /\ p.maximum # 0
  BY <1>1
<1>3. p.maximum > 0
  BY <1>2
<1> QED
  BY <1>1, <1>2, <1>3

LEMMA CreditStart == CreditDecisionInit => CreditInv
<1> SUFFICES ASSUME CreditDecisionInit PROVE CreditInv
  OBVIOUS
<1>1. PICK policy \in CreditPolicy, request \in CreditRequest :
        execution = [policy |-> policy, request |-> request, phase |-> "scoring", outcome |-> "PROCESSING",
                     next |-> 1, limit |-> policy.base, groups |-> {}, refused |-> FALSE,
                     allocated |-> 0, available |-> 0, policyLimit |-> 0]
  BY DEF CreditDecisionInit, FirstExecution
<1>2. /\ policy.base \in Int /\ policy.maximum \in Nat /\ Len(policy.rules) \in Nat
  BY Given
<1>3. reviewCase = NoReviewCase /\ bindingLive \in BOOLEAN
  BY DEF CreditDecisionInit
<1>4. execution \in ExecutionRow /\ reviewCase \in CaseRow
  BY <1>1, <1>2, <1>3 DEF ExecutionRow, Outcome, Granted, CaseRow, NoReviewCase
<1>5. DecisionShape
  BY <1>1, <1>2, <1>3, <1>4 DEF DecisionShape
<1> QED
  BY <1>1, <1>2, <1>3, <1>5 DEF CreditInv, WalkEnds, CaseFollows, CreditWithinPolicy, NoReviewCase, Granted

(* The end of an evaluation, with the row f it finishes.                    *)
LEMMA EvaluationEnds ==
  ASSUME CreditInv, NEW f \in ExecutionRow, Finish(f), execution.phase \in {"scoring", "walking"},
         f.next \in 1..Len(f.policy.rules) + 1, f.refused => f.outcome = "REJECTED",
         f.allocated = f.policyLimit, f.policyLimit <= f.policy.maximum,
         f.outcome \in Granted =>
           LET left == f.allocated - f.request.exposure - f.request.reserved
           IN /\ f.allocated \in 1..f.policy.maximum /\ f.available = NotNegative(left)
              /\ f.policy.auto /\ f.allocated >= f.policy.minimum /\ left > 0
              /\ f.outcome = "AUTO_APPROVED" <=> left >= f.request.requested
  PROVE  CreditInv'
<1> DEFINE e == [f EXCEPT !.phase = "done"]
<1>1. reviewCase.status = "none"
  BY DEF CreditInv, CaseFollows, DecisionShape, CaseRow
<1>2. /\ e \in ExecutionRow /\ e.phase = "done" /\ e.policy = f.policy /\ e.request = f.request /\ e.outcome = f.outcome
      /\ e.next = f.next /\ e.refused = f.refused /\ e.allocated = f.allocated /\ e.available = f.available
      /\ e.policyLimit = f.policyLimit
  BY DEF ExecutionRow
<1>3. execution' = e /\ bindingLive' = bindingLive
  BY DEF Finish
<1> HIDE DEF e
<1>4. /\ reviewCase' \in CaseRow
      /\ \/ reviewCase'.status = "none"
         \/ reviewCase'.status = "PENDING" /\ e.outcome = "MANUAL_REVIEW"
  <2>1. [NoReviewCase EXCEPT !.status = "PENDING"] \in CaseRow /\ [NoReviewCase EXCEPT !.status = "PENDING"].status = "PENDING"
    BY DEF CaseRow, NoReviewCase
  <2>2. \/ f.outcome = "MANUAL_REVIEW" /\ reviewCase' = [NoReviewCase EXCEPT !.status = "PENDING"]
        \/ reviewCase' = reviewCase
    BY DEF Finish
  <2> QED
    BY <1>1, <1>2, <2>1, <2>2 DEF CreditInv, DecisionShape
<1>5. DecisionShape'
  BY <1>2, <1>3, <1>4 DEF CreditInv, DecisionShape
<1>6. WalkEnds'
  BY <1>2, <1>3 DEF WalkEnds
<1>7. CaseFollows'
  BY <1>2, <1>3, <1>4 DEF CaseFollows
<1>8. CreditWithinPolicy'
  BY <1>2, <1>3, <1>4 DEF CreditWithinPolicy, Granted
<1> QED
  BY <1>5, <1>6, <1>7, <1>8 DEF CreditInv

LEMMA ScoredStep == ASSUME CreditInv, scored PROVE CreditInv'
<1>1. /\ execution \in ExecutionRow /\ execution.phase = "scoring" /\ execution.policy \in CreditPolicy
      /\ execution.next \in 1..Len(execution.policy.rules) + 1 /\ reviewCase.status = "none"
      /\ execution.outcome = "PROCESSING" /\ ~execution.refused
  BY DEF scored, CreditInv, DecisionShape, WalkEnds, CaseFollows, ExecutionRow, CaseRow
<1>2. execution.policyLimit \in Nat /\ execution.policyLimit <= execution.policy.maximum /\ execution.allocated \in Nat
  BY DEF CreditInv, DecisionShape, CaseFollows, ExecutionRow
<1>3. ASSUME NEW outcome \in {"RESCORE_REQUIRED", "NO_MASTER_RULE", "MANUAL_REVIEW"}, Finish([execution EXCEPT !.outcome = outcome])
      PROVE  CreditInv'
  <2> DEFINE f == [execution EXCEPT !.outcome = outcome]
  <2>1. /\ f \in ExecutionRow /\ f.outcome = outcome /\ f.policy = execution.policy /\ f.next = execution.next
        /\ f.refused = execution.refused /\ f.allocated = execution.allocated /\ f.policyLimit = execution.policyLimit
    BY <1>1 DEF ExecutionRow, Outcome, Granted
  <2>2. outcome \notin Granted
    BY DEF Granted
  <2> HIDE DEF f
  <2>3. f.allocated = f.policyLimit
    BY <1>1, <2>1 DEF CreditInv, WalkEnds
  <2> QED
    BY <1>1, <1>2, <1>3, <2>1, <2>2, <2>3, EvaluationEnds DEF f
<1>4. ASSUME execution' = [execution EXCEPT !.phase = "walking"], UNCHANGED <<reviewCase, bindingLive>>
      PROVE  CreditInv'
  <2>1. LET f == [execution EXCEPT !.phase = "walking"]
        IN /\ f \in ExecutionRow /\ f.phase = "walking" /\ f.outcome = execution.outcome /\ f.policy = execution.policy
           /\ f.next = execution.next /\ f.refused = execution.refused /\ f.allocated = execution.allocated
           /\ f.policyLimit = execution.policyLimit
    BY <1>1 DEF ExecutionRow
  <2> QED
    BY <1>1, <1>4, <2>1 DEF CreditInv, DecisionShape, WalkEnds, CaseFollows, CreditWithinPolicy, Granted
<1> QED
  BY <1>3, <1>4 DEF scored

(* A turn of the walk: f is the row after it.                               *)
LEMMA WalkGoesOn ==
  ASSUME CreditInv, NEW f \in ExecutionRow, execution' = f, UNCHANGED <<reviewCase, bindingLive>>,
         execution.phase \in {"scoring", "walking"}, f.phase \in {"walking", "lost"}, f.policy = execution.policy,
         f.allocated = execution.allocated, f.policyLimit = execution.policyLimit,
         f.next \in 1..Len(f.policy.rules) + 1,
         f.outcome \in {"PROCESSING", "REJECTED", "MANUAL_REVIEW"},
         f.refused => f.outcome = "REJECTED",
         f.phase = "walking" /\ f.outcome # "PROCESSING" => ~(f.next <= Len(f.policy.rules))
  PROVE  CreditInv'
<1>1. reviewCase.status = "none"
  BY DEF CreditInv, DecisionShape, CaseFollows, CaseRow
<1>2. DecisionShape'
  BY DEF CreditInv, DecisionShape
<1>3. WalkEnds'
  BY DEF CreditInv, WalkEnds, More
<1>4. CaseFollows'
  BY <1>1 DEF CreditInv, CaseFollows
<1>5. CreditWithinPolicy'
  BY DEF CreditWithinPolicy, Granted
<1> QED
  BY <1>2, <1>3, <1>4, <1>5 DEF CreditInv

LEMMA InWalk ==
  ASSUME CreditInv, More, execution.phase = "walking"
  PROVE  /\ execution \in ExecutionRow /\ execution.policy \in CreditPolicy /\ Len(execution.policy.rules) \in Nat
         /\ execution.outcome = "PROCESSING" /\ ~execution.refused /\ execution.allocated = execution.policyLimit
         /\ execution.next \in Nat /\ execution.next + 1 \in 1..Len(execution.policy.rules) + 1
         /\ execution.next + 1 \in Nat /\ execution.next \in 1..Len(execution.policy.rules) + 1 /\ Rule \in CreditRule
<1>1. execution \in ExecutionRow /\ execution.policy \in CreditPolicy /\ execution.next \in Nat
      /\ execution.next \in 1..Len(execution.policy.rules) + 1
  BY DEF CreditInv, DecisionShape, ExecutionRow
<1>2. execution.policy.rules \in Seq(CreditRule) /\ Len(execution.policy.rules) \in Nat
  BY <1>1, Given
<1>3. execution.next \in 1..Len(execution.policy.rules)
  BY <1>1, <1>2 DEF More
<1>4. Rule \in CreditRule
  BY <1>2, <1>3 DEF Rule
<1> QED
  BY <1>1, <1>2, <1>3, <1>4 DEF CreditInv, WalkEnds, ExecutionRow

LEMMA SkipStep == ASSUME CreditInv, skipRule PROVE CreditInv'
<1> DEFINE f == [execution EXCEPT !.next = @ + 1]
<1>1. /\ execution \in ExecutionRow /\ execution.phase = "walking" /\ execution.outcome = "PROCESSING" /\ ~execution.refused
      /\ execution.next + 1 \in 1..Len(execution.policy.rules) + 1 /\ execution.next \in Nat
  BY InWalk DEF skipRule
<1>2. /\ f \in ExecutionRow /\ f.phase = execution.phase /\ f.policy = execution.policy /\ f.outcome = execution.outcome
      /\ f.refused = execution.refused /\ f.next = execution.next + 1 /\ f.allocated = execution.allocated
      /\ f.policyLimit = execution.policyLimit
  BY <1>1 DEF ExecutionRow
<1>3. execution' = f /\ UNCHANGED <<reviewCase, bindingLive>>
  BY DEF skipRule
<1> HIDE DEF f
<1> QED
  BY <1>1, <1>2, <1>3, WalkGoesOn

LEMMA LoseStep == ASSUME CreditInv, loseEvaluation PROVE CreditInv'
<1> DEFINE f == [execution EXCEPT !.phase = "lost"]
<1>1. /\ execution \in ExecutionRow /\ execution.phase \in {"scoring", "walking"}
      /\ execution.next \in 1..Len(execution.policy.rules) + 1
  BY DEF loseEvaluation, CreditInv, DecisionShape
<1>2. /\ f \in ExecutionRow /\ f.phase = "lost" /\ f.policy = execution.policy /\ f.outcome = execution.outcome
      /\ f.refused = execution.refused /\ f.next = execution.next /\ f.allocated = execution.allocated
      /\ f.policyLimit = execution.policyLimit
  BY <1>1 DEF ExecutionRow
<1>3. execution' = f /\ UNCHANGED <<reviewCase, bindingLive>>
  BY DEF loseEvaluation
<1> HIDE DEF f
<1>4. /\ execution.refused => execution.outcome = "REJECTED"
      /\ execution.outcome \in {"PROCESSING", "REJECTED", "MANUAL_REVIEW"}
  BY <1>1 DEF CreditInv, WalkEnds
<1> QED
  BY <1>1, <1>2, <1>3, <1>4, WalkGoesOn

(* A limit stays a number, when the action has the number it needs.         *)
LEMMA LimitIsNumber ==
  ASSUME NEW action \in CreditAction, NEW value \in Int, NEW limit \in Int
  PROVE  LimitAfter(action, value, limit) \in Int
<1>1. action.value \in Int
  BY DEF CreditAction
<1> DEFINE v == action.value
<1> HIDE DEF v
<1>2. v \in Int /\ value * v \in Int /\ limit + v \in Int /\ limit - v \in Int
  BY <1>1 DEF v
<1>3. \A x, y \in Int : Least(x, y) \in Int /\ Greatest(x, y) \in Int
  BY DEF Least, Greatest
<1>4. Greatest(0, limit - v) \in Int /\ Least(limit, v) \in Int /\ Least(limit, value * v) \in Int
  BY <1>2, <1>3
<1>5. CASE action.type \in {"SET_LIMIT_FIXED", "SET_CREDIT_OFFER"}
  BY <1>2, <1>5 DEF LimitAfter, v
<1>6. CASE action.type = "ADD_LIMIT_FIXED"
  BY <1>2, <1>6 DEF LimitAfter, v
<1>7. CASE action.type = "SUBTRACT_LIMIT_FIXED"
  BY <1>4, <1>7 DEF LimitAfter, v
<1>8. CASE action.type = "CAP_LIMIT_FIXED"
  BY <1>4, <1>8 DEF LimitAfter, v
<1>9. CASE action.type = "SET_LIMIT_FROM_VALUE_MULTIPLIER"
  BY <1>2, <1>9 DEF LimitAfter, v
<1>10. CASE action.type = "CAP_LIMIT_FROM_VALUE_MULTIPLIER"
  BY <1>4, <1>10 DEF LimitAfter, v
<1>11. CASE action.type \notin {"SET_LIMIT_FIXED", "SET_CREDIT_OFFER", "ADD_LIMIT_FIXED", "SUBTRACT_LIMIT_FIXED", "CAP_LIMIT_FIXED",
                                "SET_LIMIT_FROM_VALUE_MULTIPLIER", "CAP_LIMIT_FROM_VALUE_MULTIPLIER"}
  BY <1>11 DEF LimitAfter
<1> QED
  BY <1>5, <1>6, <1>7, <1>8, <1>9, <1>10, <1>11

LEMMA PastTheEnd == ASSUME NEW last \in Nat PROVE last + 1 \in Nat /\ last + 1 \in 1..last + 1 /\ ~(last + 1 <= last)
OBVIOUS

LEMMA ApplyStep ==
  ASSUME CreditInv, NEW answer \in {"error", "match", "no match"}, NEW value \in Int, applyRule(answer, value)
  PROVE  CreditInv'
<1> DEFINE action == CASE answer = "error" -> Rule.onFailure
                       [] answer = "match" -> Rule.onMatch [] answer = "no match" -> Rule.onNoMatch
           outcome == OutcomeAfter(action, execution.outcome)
           stop == \/ outcome \in {"REJECTED", "MANUAL_REVIEW"}
                   \/ answer = "match" /\ Rule.stopOnMatch
                   \/ answer = "no match" /\ Rule.stopOnNoMatch
           limit == LimitAfter(action, value, execution.limit)
           refused == execution.refused \/ action.type = "REJECT"
           groups == IF answer = "match" /\ Rule.group # "" THEN execution.groups \union {Rule.group} ELSE execution.groups
           next == IF stop THEN Len(execution.policy.rules) + 1 ELSE execution.next + 1
           f == [execution EXCEPT !.limit = limit, !.outcome = outcome, !.refused = refused, !.groups = groups, !.next = next]
           lost == [execution EXCEPT !.phase = "lost"]
<1>1. /\ execution \in ExecutionRow /\ execution.phase = "walking" /\ execution.outcome = "PROCESSING" /\ ~execution.refused
      /\ execution.next + 1 \in 1..Len(execution.policy.rules) + 1 /\ execution.next + 1 \in Nat /\ Rule \in CreditRule
      /\ execution.next \in 1..Len(execution.policy.rules) + 1 /\ Len(execution.policy.rules) \in Nat
  BY InWalk DEF applyRule
<1>2. UNCHANGED <<reviewCase, bindingLive>> /\ execution' = IF Throws(action, value) THEN lost ELSE f
  BY DEF applyRule
<1>3. action \in CreditAction
  BY <1>1 DEF CreditRule
<1> HIDE DEF action
<1>4. outcome \in {"PROCESSING", "REJECTED", "MANUAL_REVIEW"} /\ (action.type = "REJECT" => outcome = "REJECTED")
  BY <1>1 DEF OutcomeAfter
<1>5. limit \in Int
  BY <1>1, <1>3, LimitIsNumber DEF ExecutionRow
<1>6. groups \in SUBSET STRING
  BY <1>1 DEF ExecutionRow, CreditRule
<1>7. /\ next \in Nat /\ next \in 1..Len(execution.policy.rules) + 1
      /\ outcome # "PROCESSING" => ~(next <= Len(execution.policy.rules))
  <2> DEFINE last == Len(execution.policy.rules)
  <2>1. last \in Nat /\ execution.next + 1 \in Nat /\ execution.next + 1 \in 1..last + 1 /\ (outcome # "PROCESSING" => stop)
    BY <1>1, <1>4
  <2>2. next = IF stop THEN last + 1 ELSE execution.next + 1
    OBVIOUS
  <2> HIDE DEF last, next, stop, outcome
  <2>3. next \in Nat /\ next \in 1..last + 1 /\ (outcome # "PROCESSING" => ~(next <= last))
    <3>1. CASE stop
      <4>1. next = last + 1
        BY <2>2, <3>1
      <4>2. last \in Nat
        BY <2>1
      <4>3. next \in Nat /\ next \in 1..last + 1 /\ ~(next <= last)
        BY <4>1, <4>2, PastTheEnd
      <4> QED
        BY <4>3
    <3>2. CASE ~stop
      <4>1. next = execution.next + 1 /\ outcome = "PROCESSING"
        BY <2>1, <2>2, <3>2
      <4>4. next \in Nat /\ next \in 1..last + 1
        BY <2>1, <4>1
      <4> QED
        BY <4>1, <4>4
    <3> QED
      BY <3>1, <3>2
  <2> QED
    BY <2>3 DEF last
<1>8. refused \in BOOLEAN /\ (refused => outcome = "REJECTED")
  BY <1>1, <1>4
<1> HIDE DEF outcome, stop, limit, refused, groups, next
<1>9. CASE Throws(action, value)
  <2>1. /\ lost \in ExecutionRow /\ lost.phase = "lost" /\ lost.policy = execution.policy /\ lost.outcome = execution.outcome
        /\ lost.refused = execution.refused /\ lost.next = execution.next /\ lost.allocated = execution.allocated
        /\ lost.policyLimit = execution.policyLimit
    BY <1>1 DEF ExecutionRow
  <2> HIDE DEF lost, f
  <2> QED
    BY <1>1, <1>2, <1>9, <2>1, WalkGoesOn
<1>10. CASE ~Throws(action, value)
  <2>1. /\ f \in ExecutionRow /\ f.phase = "walking" /\ f.policy = execution.policy /\ f.outcome = outcome
        /\ f.refused = refused /\ f.next = next /\ f.allocated = execution.allocated
        /\ f.policyLimit = execution.policyLimit
    BY <1>1, <1>4, <1>5, <1>6, <1>7, <1>8 DEF ExecutionRow, Outcome
  <2> HIDE DEF lost, f
  <2> QED
    BY <1>1, <1>2, <1>4, <1>7, <1>8, <1>10, <2>1, WalkGoesOn
<1> QED
  BY <1>9, <1>10

(* The totals: within the maximum, and never negative.                      *)
LEMMA Totals ==
  ASSUME NEW e \in ExecutionRow
  PROVE  /\ Allocated(e) \in Nat /\ Allocated(e) <= e.policy.maximum /\ Available(e) \in Nat
         /\ Available(e) = NotNegative(Allocated(e) - e.request.exposure - e.request.reserved)
<1>1. e.policy.maximum \in Nat /\ e.limit \in Int
  BY Given DEF ExecutionRow
<1>2. e.request.exposure \in Nat /\ e.request.reserved \in Nat
  BY CreditAssumption DEF CreditAssumption, ExecutionRow
<1>3. NotNegative(e.limit) \in Nat
  BY <1>1 DEF NotNegative, Greatest
<1>4. Allocated(e) \in Nat /\ Allocated(e) <= e.policy.maximum
  BY <1>1, <1>3 DEF Allocated, Least
<1>5. Available(e) \in Nat
  BY <1>2, <1>4 DEF Available, NotNegative, Greatest
<1> QED
  BY <1>4, <1>5 DEF Available

LEMMA Concluded ==
  ASSUME NEW e \in ExecutionRow, e.outcome \in {"PROCESSING", "REJECTED", "MANUAL_REVIEW"}
  PROVE  /\ FinalOutcome(e) \in Outcome
         /\ e.outcome = "REJECTED" => FinalOutcome(e) = "REJECTED"
         /\ FinalOutcome(e) \in Granted =>
              LET left == Allocated(e) - e.request.exposure - e.request.reserved
              IN /\ Allocated(e) \in 1..e.policy.maximum
                 /\ e.policy.auto /\ Allocated(e) >= e.policy.minimum /\ left > 0
                 /\ FinalOutcome(e) = "AUTO_APPROVED" <=> left >= e.request.requested
<1>1. /\ e.policy.maximum \in Nat /\ e.policy.minimum \in Nat /\ e.policy.otherwise \in {"REJECTED", "MANUAL_REVIEW"}
      /\ e.policy.auto \in BOOLEAN
  BY Given DEF ExecutionRow
<1>2. e.request.exposure \in Nat /\ e.request.reserved \in Nat /\ e.request.requested \in Nat
  BY CreditAssumption DEF CreditAssumption, ExecutionRow
<1>3. /\ Allocated(e) \in Nat /\ Allocated(e) <= e.policy.maximum /\ Available(e) \in Nat
      /\ Available(e) = NotNegative(Allocated(e) - e.request.exposure - e.request.reserved)
  BY Totals
<1>4. CASE e.outcome # "PROCESSING"
  BY <1>4 DEF FinalOutcome, Automatic, Outcome, Granted
<1>5. CASE e.outcome = "PROCESSING" /\ (~e.policy.auto \/ Allocated(e) < e.policy.minimum \/ Available(e) <= 0)
  BY <1>1, <1>5 DEF FinalOutcome, Automatic, Outcome, Granted
<1>6. CASE e.outcome = "PROCESSING" /\ e.policy.auto /\ ~(Allocated(e) < e.policy.minimum \/ Available(e) <= 0)
  <2>1. Automatic(e) = IF Available(e) >= e.request.requested THEN "AUTO_APPROVED" ELSE "COUNTER_OFFER"
    BY <1>6 DEF Automatic
  <2>2. FinalOutcome(e) \in {"MANUAL_REVIEW", Automatic(e)}
    BY DEF FinalOutcome
  <2> DEFINE a == Allocated(e)
             v == Available(e)
             x == e.request.exposure
             r == e.request.reserved
  <2>3. a \in Nat /\ v \in Nat /\ x \in Nat /\ r \in Nat /\ v = NotNegative(a - x - r) /\ ~(v <= 0) /\ ~(a < e.policy.minimum)
    BY <1>2, <1>3, <1>6
  <2> HIDE DEF a, v, x, r
  <2>4. v = a - x - r /\ a - x - r > 0 /\ a >= 1 /\ a >= e.policy.minimum
    BY <1>1, <2>3 DEF NotNegative, Greatest
  <2>5. a \in 1..e.policy.maximum
    BY <1>1, <1>3, <2>3, <2>4 DEF a
  <2>6. Automatic(e) \in Granted /\ (Automatic(e) = "AUTO_APPROVED" <=> a - x - r >= e.request.requested)
    BY <2>1, <2>4 DEF Granted, v
  <2> QED
    BY <1>6, <2>2, <2>4, <2>5, <2>6 DEF Outcome, Granted, a, x, r
<1> QED
  BY <1>4, <1>5, <1>6

LEMMA DecideStep == ASSUME CreditInv, decideExecution PROVE CreditInv'
<1> DEFINE e == execution
           outcome == FinalOutcome(e)
           limit == Allocated(e)
           available == Available(e)
           f == [e EXCEPT !.outcome = outcome, !.allocated = limit, !.available = available, !.policyLimit = limit]
<1>1. /\ e \in ExecutionRow /\ e.phase = "walking" /\ e.outcome \in {"PROCESSING", "REJECTED", "MANUAL_REVIEW"}
      /\ e.refused => e.outcome = "REJECTED"
      /\ e.next \in 1..Len(e.policy.rules) + 1
  BY DEF decideExecution, CreditInv, DecisionShape, WalkEnds
<1>2. Finish(f)
  BY DEF decideExecution
<1>3. /\ limit \in Nat /\ limit <= e.policy.maximum /\ available \in Nat
      /\ available = NotNegative(limit - e.request.exposure - e.request.reserved)
  BY <1>1, Totals
<1>4. /\ outcome \in Outcome /\ (e.outcome = "REJECTED" => outcome = "REJECTED")
      /\ outcome \in Granted =>
              LET left == limit - e.request.exposure - e.request.reserved
              IN /\ limit \in 1..e.policy.maximum
                 /\ e.policy.auto /\ limit >= e.policy.minimum /\ left > 0
                 /\ outcome = "AUTO_APPROVED" <=> left >= e.request.requested
  BY <1>1, Concluded
<1> HIDE DEF outcome, limit, available
<1>5. /\ f \in ExecutionRow /\ f.outcome = outcome /\ f.allocated = limit /\ f.available = available /\ f.policyLimit = limit
      /\ f.policy = e.policy /\ f.request = e.request /\ f.next = e.next /\ f.refused = e.refused
  BY <1>1, <1>3, <1>4 DEF ExecutionRow
<1> HIDE DEF f
<1> QED
  BY <1>1, <1>2, <1>3, <1>4, <1>5, EvaluationEnds

(* A reviewer's step: the case and the row after it.                        *)
LEMMA AskedIsNumber == \A n \in Asked : n \in Nat
<1> SUFFICES ASSUME NEW n \in Asked PROVE n \in Nat
  OBVIOUS
<1>1. PICK p \in CreditPolicy : n \in 0..p.maximum + 1
  BY DEF Asked
<1> QED
  BY <1>1, Given

LEMMA RecommendStep ==
  ASSUME CreditInv, NEW by \in CreditOfficer, NEW limit \in Asked, recommend(by, limit)
  PROVE  CreditInv'
<1> DEFINE c == [reviewCase EXCEPT !.status = "RECOMMENDED", !.adviser = by, !.advice = limit]
<1>1. limit \in Nat /\ reviewCase \in CaseRow /\ by # NoOfficer
  BY AskedIsNumber, CreditAssumption DEF CreditInv, DecisionShape, CreditAssumption, NoOfficer
<1>2. c \in CaseRow /\ c.status = "RECOMMENDED" /\ c.adviser = by
  BY <1>1 DEF CaseRow
<1>3. reviewCase' = c /\ reviewCase.status = "PENDING" /\ UNCHANGED <<execution, bindingLive>>
  BY DEF recommend
<1> HIDE DEF c
<1>4. DecisionShape' /\ CaseFollows'
  BY <1>1, <1>2, <1>3 DEF CreditInv, DecisionShape, CaseFollows
<1>5. WalkEnds'
  BY <1>3 DEF CreditInv, WalkEnds, More
<1>6. CreditWithinPolicy'
  BY <1>3 DEF CreditInv, CaseFollows, CreditWithinPolicy, Granted
<1> QED
  BY <1>4, <1>5, <1>6 DEF CreditInv

LEMMA ApproveCreditStep ==
  ASSUME CreditInv, NEW by \in CreditOfficer, NEW asked \in Asked, approveCredit(by, asked)
  PROVE  CreditInv'
<1> DEFINE e == execution
           limit == IF asked # 0 THEN asked ELSE IF reviewCase.advice # 0 THEN reviewCase.advice ELSE execution.allocated
           available == Greatest(0, limit - e.request.exposure - e.request.reserved)
           f == [e EXCEPT !.outcome = "AUTO_APPROVED", !.allocated = limit, !.available = available]
           c == [reviewCase EXCEPT !.status = "APPROVED", !.decider = by]
<1>1. /\ reviewCase.status = "RECOMMENDED" /\ reviewCase.adviser # by /\ limit > 0 /\ limit <= e.allocated
      /\ reviewCase' = c /\ execution' = f /\ bindingLive' = bindingLive
  BY DEF approveCredit, MayDecideCase
<1>2. e \in ExecutionRow /\ reviewCase \in CaseRow /\ bindingLive \in BOOLEAN /\ e.next \in 1..Len(e.policy.rules) + 1
  BY DEF CreditInv, DecisionShape
<1>3. asked \in Nat /\ reviewCase.advice \in Nat /\ e.allocated \in Nat /\ e.policyLimit \in Nat
  BY <1>2, AskedIsNumber DEF ExecutionRow, CaseRow
<1>4. limit \in Nat
  BY <1>3
<1> HIDE DEF limit
<1>5. e.request.exposure \in Nat /\ e.request.reserved \in Nat /\ e.policy.maximum \in Nat
  BY <1>2, Given, CreditAssumption DEF CreditAssumption, ExecutionRow
<1>6. available \in Nat /\ available = NotNegative(limit - e.request.exposure - e.request.reserved)
  BY <1>4, <1>5 DEF Greatest, NotNegative
<1> HIDE DEF available
<1>7. /\ e.phase = "done" /\ e.outcome = "MANUAL_REVIEW" /\ e.allocated = e.policyLimit /\ e.policyLimit <= e.policy.maximum
      /\ ~e.refused /\ reviewCase.adviser # NoOfficer
  BY <1>1, <1>2 DEF CreditInv, CaseFollows, WalkEnds, ExecutionRow
<1>8. /\ f \in ExecutionRow /\ f.phase = "done" /\ f.outcome = "AUTO_APPROVED" /\ f.allocated = limit /\ f.available = available
      /\ f.policy = e.policy /\ f.request = e.request /\ f.refused = e.refused /\ f.policyLimit = e.policyLimit /\ f.next = e.next
  BY <1>2, <1>4, <1>6, <1>7 DEF ExecutionRow, Outcome, Granted
<1>9. c \in CaseRow /\ c.status = "APPROVED" /\ c.decider = by /\ c.adviser = reviewCase.adviser
  BY <1>2 DEF CaseRow
<1> HIDE DEF e, f, c
<1>10. DecisionShape' /\ WalkEnds' /\ CaseFollows'
  BY <1>1, <1>2, <1>7, <1>8, <1>9 DEF DecisionShape, WalkEnds, CaseFollows
<1>11. limit \in 1..e.policy.maximum /\ limit <= e.policyLimit
  BY <1>1, <1>3, <1>4, <1>5, <1>7
<1>12. CreditWithinPolicy'
  BY <1>1, <1>6, <1>7, <1>8, <1>9, <1>11 DEF CreditWithinPolicy
<1> QED
  BY <1>10, <1>12 DEF CreditInv

LEMMA RejectCreditStep ==
  ASSUME CreditInv, NEW by \in CreditOfficer, rejectCredit(by)
  PROVE  CreditInv'
<1> DEFINE e == execution
           f == [e EXCEPT !.outcome = "REJECTED", !.allocated = 0, !.available = 0]
           c == [reviewCase EXCEPT !.status = "REJECTED", !.decider = by]
<1>1. /\ reviewCase.status = "RECOMMENDED" /\ reviewCase' = c /\ execution' = f /\ bindingLive' = bindingLive
  BY DEF rejectCredit, MayDecideCase
<1>2. e \in ExecutionRow /\ reviewCase \in CaseRow /\ bindingLive \in BOOLEAN /\ e.next \in 1..Len(e.policy.rules) + 1
  BY DEF CreditInv, DecisionShape
<1>3. e.phase = "done" /\ e.policyLimit <= e.policy.maximum
  BY <1>1 DEF CreditInv, CaseFollows
<1>4. /\ f \in ExecutionRow /\ f.phase = e.phase /\ f.outcome = "REJECTED" /\ f.policy = e.policy
      /\ f.policyLimit = e.policyLimit /\ f.next = e.next
  BY <1>2 DEF ExecutionRow, Outcome
<1>5. c \in CaseRow /\ c.status = "REJECTED"
  BY <1>2 DEF CaseRow
<1> HIDE DEF e, f, c
<1> QED
  BY <1>1, <1>2, <1>3, <1>4, <1>5 DEF CreditInv, DecisionShape, WalkEnds, CaseFollows, CreditWithinPolicy, Granted

LEMMA CreditStep == CreditInv /\ [CreditDecisionNext]_creditVars => CreditInv'
<1> SUFFICES ASSUME CreditInv, [CreditDecisionNext]_creditVars PROVE CreditInv'
  OBVIOUS
<1>1. ASSUME UNCHANGED <<execution, reviewCase>>, bindingLive' \in BOOLEAN PROVE CreditInv'
  BY <1>1 DEF CreditInv, DecisionShape, WalkEnds, CaseFollows, CreditWithinPolicy, More
<1>2. CASE UNCHANGED creditVars \/ bindingChanges
  BY <1>1, <1>2 DEF creditVars, bindingChanges, CreditInv, DecisionShape
<1>3. CASE scored \/ skipRule \/ decideExecution \/ loseEvaluation
  BY <1>3, ScoredStep, SkipStep, DecideStep, LoseStep
<1>a. NotANumber \in Int
  BY DEF NotANumber
<1>b. SourceValue \subseteq Int
  BY CreditAssumption DEF CreditAssumption
<1>4. NotANumber \in Int /\ \A value \in SourceValue : value \in Int
  BY <1>a, <1>b
<1>5. ASSUME applyRule("error", NotANumber) PROVE CreditInv'
  BY <1>4, <1>5, ApplyStep
<1>6. ASSUME NEW value \in SourceValue \cup {NotANumber}, applyRule("match", value) \/ applyRule("no match", value)
      PROVE CreditInv'
  BY <1>4, <1>6, ApplyStep
<1>7. ASSUME NEW by \in CreditOfficer, rejectCredit(by) \/ \E limit \in Asked : recommend(by, limit) \/ approveCredit(by, limit)
      PROVE CreditInv'
  BY <1>7, RejectCreditStep, RecommendStep, ApproveCreditStep
<1> QED
  BY <1>2, <1>3, <1>5, <1>6, <1>7 DEF CreditDecisionNext

LEMMA CreditKept == CreditInv => CreditDecisionTypeOK /\ CreditWithinPolicy
BY DEF CreditInv, DecisionShape, ExecutionRow, CaseRow, CreditDecisionTypeOK

-----------------------------------------------------------------------------
(* Onboarding: the versions of journeys and channels.                       *)
VersionRow ==
  [def : JourneyDef \cup ChannelDef, content : Country, maker : ConfigAdmin,
   status : {"DRAFT", "SUBMITTED", "APPROVED", "REJECTED", "ACTIVE", "RETIRED"}]

SignRow == [content : Nat, by : ConfigAdmin \cup {"noone"}]

VersionsShape ==
  /\ versions \in Seq(VersionRow) /\ signed \in Seq(SignRow) /\ Len(signed) = Len(versions)
  /\ activating \subseteq VersionId /\ activationsOverlapped \in BOOLEAN

(* What is approved or active is what its checker saw.                      *)
VersionsSigned ==
  \A v \in VersionId : versions[v].status \in {"APPROVED", "ACTIVE"} =>
    signed[v].content = versions[v].content /\ signed[v].by # versions[v].maker

OneActive ==
  \A v, w \in VersionId :
    versions[v].status = "ACTIVE" /\ versions[w].status = "ACTIVE" /\ versions[v].def = versions[w].def => v = w

ScopesApart ==
  ~activationsOverlapped => \A v, w \in VersionId :
    /\ versions[v].status = "ACTIVE" /\ versions[v].def \in JourneyDef
    /\ versions[w].status = "ACTIVE" /\ versions[w].def \in JourneyDef
    /\ versions[v].content = versions[w].content
    => v = w

(* Between its checks and its commit a version waits approved, and an       *)
(* activation that overlaps no other still has its scope for itself.        *)
ActivationsWait ==
  \A v \in activating :
    /\ versions[v].status = "APPROVED" /\ versions[v].def \in JourneyDef
    /\ ~activationsOverlapped =>
         /\ activating = {v}
         /\ \A w \in VersionId \ {v} :
              versions[w].status = "ACTIVE" /\ versions[w].def \in JourneyDef => versions[w].content # versions[v].content

VersionInv == VersionsShape /\ VersionsSigned /\ OneActive /\ ScopesApart /\ ActivationsWait

LEMMA VersionStart == ConfigInit => VersionInv
<1> SUFFICES ASSUME ConfigInit PROVE VersionInv
  OBVIOUS
<1>1. versions = <<>> /\ signed = <<>> /\ activating = {} /\ activationsOverlapped = FALSE /\ VersionId = {}
  BY DEF ConfigInit, VersionId
<1>2. VersionsShape
  <2>1. <<>> \in Seq(VersionRow) /\ <<>> \in Seq(SignRow)
    OBVIOUS
  <2> QED
    BY <1>1, <2>1 DEF VersionsShape
<1>3. VersionsSigned /\ OneActive /\ ScopesApart /\ ActivationsWait
  BY <1>1 DEF VersionsSigned, OneActive, ScopesApart, ActivationsWait
<1> QED
  BY <1>2, <1>3 DEF VersionInv

LEMMA VersionKept == VersionInv => ConfigGoverned
BY DEF VersionInv, VersionsShape, VersionsSigned, OneActive, ScopesApart, ConfigGoverned, ActiveVersions, VersionId

(* A new version.                                                           *)
LEMMA VersionCreated ==
  ASSUME VersionInv, NEW def \in JourneyDef \cup ChannelDef, NEW content \in Country, NEW by \in ConfigAdmin,
         createVersion(def, content, by)
  PROVE  VersionInv'
<1> DEFINE row == [def |-> def, content |-> content, status |-> "DRAFT", maker |-> by]
<1>1. row \in VersionRow /\ Unsigned \in SignRow /\ row.status = "DRAFT"
  BY DEF VersionRow, SignRow, Unsigned
<1>2. versions' = Append(versions, row) /\ signed' = Append(signed, Unsigned) /\ UNCHANGED <<activating, activationsOverlapped>>
  BY DEF createVersion
<1> HIDE DEF row
<1>3. versions' \in Seq(VersionRow) /\ signed' \in Seq(SignRow) /\ Len(versions') = Len(versions) + 1
      /\ Len(signed') = Len(signed) + 1
  BY <1>1, <1>2 DEF VersionInv, VersionsShape
<1>4. DOMAIN versions = 1..Len(versions) /\ DOMAIN versions' = 1..(Len(versions) + 1) /\ Len(versions) \in Nat
  BY <1>3 DEF VersionInv, VersionsShape
<1>5. \A v \in VersionId' : \/ v \in VersionId /\ versions'[v] = versions[v] /\ signed'[v] = signed[v]
                            \/ v \notin VersionId /\ versions'[v] = row
  BY <1>2, <1>3, <1>4 DEF VersionInv, VersionsShape, VersionId
<1>6. VersionId \subseteq VersionId'
  BY <1>4 DEF VersionId
<1>7. VersionsShape'
  BY <1>2, <1>3, <1>6 DEF VersionInv, VersionsShape
<1>8. \A v \in VersionId' : versions'[v].status \in {"APPROVED", "ACTIVE"} =>
         v \in VersionId /\ versions'[v] = versions[v] /\ signed'[v] = signed[v]
  BY <1>1, <1>5
<1>9. VersionsSigned' /\ OneActive' /\ ScopesApart'
  <2>1. VersionsSigned'
    BY <1>8 DEF VersionInv, VersionsSigned
  <2>2. OneActive'
    BY <1>8 DEF VersionInv, OneActive
  <2>3. ScopesApart'
    BY <1>2, <1>8 DEF VersionInv, ScopesApart
  <2> QED
    BY <2>1, <2>2, <2>3
<1>10. ActivationsWait'
  <2>1. \A v \in activating : v \in VersionId /\ versions'[v] = versions[v]
    BY <1>5, <1>6, <1>4 DEF VersionInv, VersionsShape
  <2>2. \A v \in activating : versions'[v].status = "APPROVED" /\ versions'[v].def \in JourneyDef
    BY <2>1 DEF VersionInv, ActivationsWait
  <2>3. ASSUME NEW v \in activating, ~activationsOverlapped, NEW w \in VersionId', w # v,
               versions'[w].status = "ACTIVE", versions'[w].def \in JourneyDef
        PROVE  activating = {v} /\ versions'[w].content # versions'[v].content
    BY <2>1, <1>8, <2>3 DEF VersionInv, ActivationsWait
  <2>4. ASSUME NEW v \in activating, ~activationsOverlapped PROVE activating = {v}
    BY <2>4 DEF VersionInv, ActivationsWait
  <2> QED
    BY <1>2, <2>2, <2>3, <2>4 DEF ActivationsWait
<1> QED
  BY <1>7, <1>9, <1>10 DEF VersionInv

(* A step that changes one version that is not active, and does not make it *)
(* so.                                                                      *)
LEMMA VersionChanged ==
  ASSUME VersionInv, NEW v \in VersionId, NEW row \in VersionRow, NEW sign \in SignRow,
         versions' = [versions EXCEPT ![v] = row], signed' = [signed EXCEPT ![v] = sign],
         UNCHANGED <<activating, activationsOverlapped>>, v \notin activating,
         row.status # "ACTIVE",
         row.status = "APPROVED" => sign.content = row.content /\ sign.by # row.maker
  PROVE  VersionInv'
<1>1. VersionsShape'
  BY DEF VersionInv, VersionsShape, VersionId
<1>2. VersionId' = VersionId /\ versions'[v] = row /\ signed'[v] = sign
      /\ \A w \in VersionId \ {v} : versions'[w] = versions[w] /\ signed'[w] = signed[w]
  BY DEF VersionInv, VersionsShape, VersionId
<1>3. VersionsSigned'
  BY <1>2 DEF VersionInv, VersionsSigned
<1>4. OneActive' /\ ScopesApart'
  BY <1>2 DEF VersionInv, OneActive, ScopesApart
<1>5. ActivationsWait'
  BY <1>2 DEF VersionInv, VersionsShape, ActivationsWait
<1> QED
  BY <1>1, <1>3, <1>4, <1>5 DEF VersionInv

(* The version is made active and the active one of its definition retired. *)
LEMMA VersionActivated ==
  ASSUME VersionInv, NEW v \in VersionId, versions[v].status = "APPROVED", Activated(v),
         activating' = activating \ {v}, UNCHANGED activationsOverlapped,
         v \in activating \/ versions[v].def \notin JourneyDef,
         versions[v].def \in JourneyDef /\ ~activationsOverlapped =>
           \A w \in VersionId \ {v} :
             versions[w].status = "ACTIVE" /\ versions[w].def \in JourneyDef => versions[w].content # versions[v].content
  PROVE  VersionInv'
<1> DEFINE Superseded(w) == w # v /\ versions[w].status = "ACTIVE" /\ versions[w].def = versions[v].def
           row(w) == IF w = v THEN [versions[w] EXCEPT !.status = "ACTIVE"]
                     ELSE IF Superseded(w) THEN [versions[w] EXCEPT !.status = "RETIRED"] ELSE versions[w]
           sign(w) == IF Superseded(w) THEN Unsigned ELSE signed[w]
<1>1. VersionId = 1..Len(versions) /\ Len(versions) \in Nat /\ Len(signed) = Len(versions)
  BY DEF VersionInv, VersionsShape, VersionId
<1>2. \A w \in VersionId : versions[w] \in VersionRow /\ signed[w] \in SignRow /\ versions[w].def \in JourneyDef \cup ChannelDef
  <2>1. versions \in [VersionId -> VersionRow] /\ signed \in [VersionId -> SignRow]
    BY <1>1 DEF VersionInv, VersionsShape
  <2>2. \A x \in VersionRow : x.def \in JourneyDef \cup ChannelDef
    BY DEF VersionRow
  <2> QED
    BY <2>1, <2>2
<1>3. \A w \in VersionId : row(w) \in VersionRow /\ sign(w) \in SignRow
  BY <1>2 DEF VersionRow, SignRow, Unsigned
<1>4. \A w \in VersionId : w \in ActiveVersions({versions[v].def}) \ {v} <=> Superseded(w)
  BY DEF ActiveVersions
<1>5. versions' = [w \in VersionId |-> row(w)] /\ signed' = [w \in VersionId |-> sign(w)]
  BY <1>4 DEF Activated
<1>6. \A w \in VersionId :
        /\ row(w).def = versions[w].def /\ row(w).content = versions[w].content /\ row(w).maker = versions[w].maker
        /\ row(v).status = "ACTIVE"
        /\ w # v => \/ row(w).status = versions[w].status /\ ~Superseded(w) /\ sign(w) = signed[w]
                    \/ row(w).status = "RETIRED" /\ Superseded(w)
        /\ sign(v) = signed[v]
  BY <1>2 DEF VersionRow
<1>7. \A w \in VersionId : w # v /\ row(w).status = "ACTIVE" =>
        versions[w].status = "ACTIVE" /\ versions[w].def # versions[v].def
  BY <1>6
<1>8. \A w \in VersionId : w # v /\ row(w).status = "APPROVED" => versions[w].status = "APPROVED" /\ sign(w) = signed[w]
  BY <1>6
<1> HIDE DEF row, sign
<1>9. versions' \in Seq(VersionRow) /\ signed' \in Seq(SignRow) /\ Len(versions') = Len(versions)
      /\ Len(signed') = Len(versions) /\ VersionId' = VersionId
  BY <1>1, <1>3, <1>5 DEF VersionId
<1>10. \A w \in VersionId : versions'[w] = row(w) /\ signed'[w] = sign(w)
  BY <1>5
<1>11. VersionsShape'
  BY <1>9 DEF VersionInv, VersionsShape
<1>12. VersionsSigned'
  BY <1>6, <1>9, <1>10 DEF VersionInv, VersionsSigned
<1>13. OneActive'
  BY <1>6, <1>7, <1>9, <1>10 DEF VersionInv, OneActive
<1>14. ScopesApart'
  <2> SUFFICES ASSUME ~activationsOverlapped, NEW w \in VersionId, NEW x \in VersionId, w # x,
                      row(w).status = "ACTIVE", versions[w].def \in JourneyDef,
                      row(x).status = "ACTIVE", versions[x].def \in JourneyDef
               PROVE  versions[w].content # versions[x].content
    BY <1>6, <1>9, <1>10 DEF ScopesApart
  <2>1. CASE w = v
    BY <1>7, <2>1
  <2>2. CASE x = v
    BY <1>7, <2>2
  <2>3. CASE w # v /\ x # v
    BY <1>7, <2>3 DEF VersionInv, ScopesApart
  <2> QED
    BY <2>1, <2>2, <2>3
<1>15. ActivationsWait'
  <2> SUFFICES ASSUME NEW w \in activating, w # v
               PROVE  /\ row(w).status = "APPROVED" /\ versions[w].def \in JourneyDef
                      /\ ~activationsOverlapped =>
                           /\ activating \ {v} = {w}
                           /\ \A x \in VersionId \ {w} :
                                row(x).status = "ACTIVE" /\ versions[x].def \in JourneyDef =>
                                  versions[x].content # versions[w].content
    <3>1. activating \subseteq VersionId /\ activating' = activating \ {v}
          /\ activationsOverlapped' = activationsOverlapped
      BY DEF VersionInv, VersionsShape
    <3>2. \A x \in VersionId : /\ versions'[x].status = row(x).status /\ versions'[x].def = versions[x].def
                               /\ versions'[x].content = versions[x].content
      BY <1>6, <1>10
    <3> QED
      BY <1>9, <3>1, <3>2 DEF ActivationsWait
  <2>1. w \in VersionId /\ versions[w].status = "APPROVED" /\ versions[w].def \in JourneyDef
    BY DEF VersionInv, VersionsShape, ActivationsWait
  <2>2. row(w).status = "APPROVED"
    BY <1>6, <2>1
  <2>3. ASSUME ~activationsOverlapped
        PROVE  activating = {w} /\ versions[v].def \notin JourneyDef
    BY <2>3 DEF VersionInv, ActivationsWait
  <2>4. ASSUME ~activationsOverlapped, NEW x \in VersionId \ {w}, row(x).status = "ACTIVE",
               versions[x].def \in JourneyDef
        PROVE  versions[x].content # versions[w].content
    <3>1. x # v /\ versions[x].status = "ACTIVE"
      BY <1>7, <2>3, <2>4
    <3> QED
      BY <3>1, <2>1, <2>4 DEF VersionInv, ActivationsWait
  <2> QED
    BY <2>1, <2>2, <2>3, <2>4
<1> QED
  BY <1>11, <1>12, <1>13, <1>14, <1>15 DEF VersionInv

LEMMA ActivationBegun ==
  ASSUME VersionInv, NEW v \in VersionId, beginActivation(v)
  PROVE  VersionInv'
<1>1. /\ versions[v].def \in JourneyDef /\ versions[v].status = "APPROVED" /\ ScopeFree(v)
      /\ activating' = activating \cup {v} /\ activationsOverlapped' = (activationsOverlapped \/ activating # {})
      /\ UNCHANGED <<versions, signed>> /\ VersionId' = VersionId
  BY DEF beginActivation, VersionId
<1>2. VersionsShape' /\ VersionsSigned' /\ OneActive' /\ ScopesApart'
  BY <1>1 DEF VersionInv, VersionsShape, VersionsSigned, OneActive, ScopesApart
<1>3. ~activationsOverlapped' => activating = {} /\ activating' = {v} /\ ~activationsOverlapped
  BY <1>1
<1>4. \A w \in VersionId \ {v} : versions[w].status = "ACTIVE" /\ versions[w].def \in JourneyDef =>
        versions[w].content # versions[v].content
  BY <1>1 DEF ScopeFree, ActiveVersions
<1>5. \A w \in activating' : versions[w].status = "APPROVED" /\ versions[w].def \in JourneyDef
  BY <1>1 DEF VersionInv, ActivationsWait
<1>6. ActivationsWait'
  BY <1>1, <1>3, <1>4, <1>5 DEF ActivationsWait
<1> QED
  BY <1>2, <1>6 DEF VersionInv

LEMMA VersionStep == VersionInv /\ [ConfigNext]_configVars => VersionInv'
<1> SUFFICES ASSUME VersionInv, [ConfigNext]_configVars PROVE VersionInv'
  OBVIOUS
<1> USE DEF VersionInv
<1>1. CASE UNCHANGED configVars
  BY <1>1 DEF configVars, VersionsShape, VersionsSigned, OneActive, ScopesApart, ActivationsWait, VersionId
<1>2. CASE \E def \in JourneyDef \cup ChannelDef, content \in Country, by \in ConfigAdmin : createVersion(def, content, by)
  BY <1>2, VersionCreated
<1>3. ASSUME NEW v \in VersionId PROVE
        /\ versions[v] \in VersionRow /\ signed[v] \in SignRow
        /\ v \in activating => versions[v].status = "APPROVED" /\ versions[v].def \in JourneyDef
  BY DEF VersionsShape, VersionId, ActivationsWait
<1> HIDE DEF VersionInv
<1>4. ASSUME NEW v \in VersionId, submit(v) PROVE VersionInv'
  <2> DEFINE row == [versions[v] EXCEPT !.status = "SUBMITTED"]
  <2>1. row \in VersionRow /\ row.status = "SUBMITTED"
    BY <1>3 DEF VersionRow
  <2>2. versions' = [versions EXCEPT ![v] = row] /\ signed' = [signed EXCEPT ![v] = signed[v]]
        /\ UNCHANGED <<activating, activationsOverlapped>> /\ v \notin activating
    BY <1>3, <1>4 DEF submit, SetStatus, Editable, VersionRow, VersionInv, VersionsShape
  <2> HIDE DEF row
  <2> QED
    BY <1>3, <2>1, <2>2, VersionChanged
<1>5. ASSUME NEW v \in VersionId, reject(v) PROVE VersionInv'
  <2> DEFINE row == [versions[v] EXCEPT !.status = "REJECTED"]
  <2>1. row \in VersionRow /\ row.status = "REJECTED"
    BY <1>3 DEF VersionRow
  <2>2. versions' = [versions EXCEPT ![v] = row] /\ signed' = [signed EXCEPT ![v] = signed[v]]
        /\ UNCHANGED <<activating, activationsOverlapped>> /\ v \notin activating
    BY <1>3, <1>5 DEF reject, SetStatus, VersionRow, VersionInv, VersionsShape
  <2> HIDE DEF row
  <2> QED
    BY <1>3, <2>1, <2>2, VersionChanged
<1>6. ASSUME NEW v \in VersionId, retire(v) PROVE VersionInv'
  <2> DEFINE row == [versions[v] EXCEPT !.status = "RETIRED"]
  <2>1. row \in VersionRow /\ row.status = "RETIRED" /\ Unsigned \in SignRow
    BY <1>3 DEF VersionRow, SignRow, Unsigned
  <2>2. versions' = [versions EXCEPT ![v] = row] /\ signed' = [signed EXCEPT ![v] = Unsigned]
        /\ UNCHANGED <<activating, activationsOverlapped>> /\ v \notin activating
    BY <1>3, <1>6 DEF retire, SetStatus
  <2> HIDE DEF row
  <2> QED
    BY <2>1, <2>2, VersionChanged
<1>7. ASSUME NEW v \in VersionId, activateChannel(v) PROVE VersionInv'
  <2>1. v \notin activating /\ versions[v].def \notin JourneyDef
    BY <1>3, <1>7, ConfigAssumption DEF activateChannel
  <2> QED
    BY <1>7, <2>1, VersionActivated DEF activateChannel
<1>8. ASSUME NEW v \in VersionId, commitActivation(v) PROVE VersionInv'
  <2>1. versions[v].status = "APPROVED" /\ v \in activating
    BY <1>3, <1>8 DEF commitActivation
  <2>2. ~activationsOverlapped => \A w \in VersionId \ {v} :
          versions[w].status = "ACTIVE" /\ versions[w].def \in JourneyDef => versions[w].content # versions[v].content
    BY <2>1 DEF VersionInv, ActivationsWait
  <2> QED
    BY <1>8, <2>1, <2>2, VersionActivated DEF commitActivation
<1>9. ASSUME NEW v \in VersionId, NEW by \in ConfigAdmin, approve(v, by) PROVE VersionInv'
  <2> DEFINE row == [versions[v] EXCEPT !.status = "APPROVED"]
             sign == [content |-> versions[v].content, by |-> by]
  <2>1. row \in VersionRow /\ row.status = "APPROVED" /\ row.content = versions[v].content
        /\ row.maker = versions[v].maker
    BY <1>3 DEF VersionRow
  <2>2. sign \in SignRow /\ sign.content = row.content
    BY <1>3, <2>1, ConfigAssumption DEF VersionRow, SignRow, Country
  <2>3. sign.by # row.maker
    BY <1>9, <2>1 DEF approve
  <2>4. versions' = [versions EXCEPT ![v] = row] /\ signed' = [signed EXCEPT ![v] = sign]
        /\ UNCHANGED <<activating, activationsOverlapped>> /\ v \notin activating
    BY <1>3, <1>9 DEF approve, SetStatus
  <2> HIDE DEF row, sign
  <2> QED
    BY <2>1, <2>2, <2>3, <2>4, VersionChanged
<1>10. ASSUME NEW v \in VersionId, NEW by \in ConfigAdmin, cloneVersion(v, by) PROVE VersionInv'
  <2>1. versions[v].def \in JourneyDef \cup ChannelDef /\ versions[v].content \in Country
    BY <1>3 DEF VersionRow
  <2> QED
    BY <1>10, <2>1, VersionCreated DEF cloneVersion
<1>11. ASSUME NEW v \in VersionId, NEW by \in ConfigAdmin, NEW content \in Country, replaceVersion(v, content, by)
       PROVE  VersionInv'
  <2> DEFINE row == [versions[v] EXCEPT !.content = content, !.status = "DRAFT", !.maker = by]
  <2>1. row \in VersionRow /\ row.status = "DRAFT"
    BY <1>3 DEF VersionRow
  <2>2. versions' = [versions EXCEPT ![v] = row] /\ signed' = [signed EXCEPT ![v] = signed[v]]
        /\ UNCHANGED <<activating, activationsOverlapped>> /\ v \notin activating
    <3>1. DOMAIN versions = VersionId
      BY DEF VersionId
    <3>2. versions' = [versions EXCEPT ![v] = row]
      BY <1>11, <3>1 DEF replaceVersion
    <3>3. signed' = [signed EXCEPT ![v] = signed[v]]
      BY <1>11 DEF replaceVersion, VersionInv, VersionsShape
    <3> QED
      BY <1>3, <1>11, <3>2, <3>3 DEF replaceVersion, Editable
  <2> HIDE DEF row
  <2> QED
    BY <1>3, <2>1, <2>2, VersionChanged
<1> QED
  BY <1>1, <1>2, <1>4, <1>5, <1>6, <1>7, <1>8, <1>9, <1>10, <1>11, ActivationBegun DEF ConfigNext

-----------------------------------------------------------------------------
(* Onboarding: the graph of a journey.                                      *)
ItemsOf(s) == {s[i] : i \in DOMAIN s}

Queued == ItemsOf(walk.queue)

LEMMA ItemsAre ==
  ASSUME NEW T, NEW s \in Seq(T) PROVE \A i \in DOMAIN s : s[i] \in T
OBVIOUS

LEMMA TargetsAre ==
  ASSUME NEW T, NEW U, NEW s \in Seq([to : T, outcome : U])
  PROVE  [i \in DOMAIN s |-> s[i].to] \in Seq(T)
<1>1. \A i \in DOMAIN s : s[i] \in [to : T, outcome : U]
  BY ItemsAre
<1>2. \A i \in DOMAIN s : s[i].to \in T
  BY <1>1
<1>3. DOMAIN s = 1..Len(s) /\ Len(s) \in Nat
  OBVIOUS
<1> QED
  BY <1>2, <1>3

LEMMA ItemsOfTail ==
  ASSUME NEW T, NEW s \in Seq(T), s # <<>>
  PROVE  Tail(s) \in Seq(T) /\ Head(s) \in T /\ ItemsOf(s) = {Head(s)} \cup ItemsOf(Tail(s))
<1>1. Len(s) \in Nat \ {0} /\ DOMAIN s = 1..Len(s) /\ Head(s) = s[1] /\ Head(s) \in T
  OBVIOUS
<1>2. Tail(s) \in Seq(T) /\ Len(Tail(s)) = Len(s) - 1 /\ DOMAIN Tail(s) = 1..(Len(s) - 1)
      /\ \A i \in 1..(Len(s) - 1) : Tail(s)[i] = s[i + 1]
  OBVIOUS
<1>3. ASSUME NEW i \in 1..Len(s) PROVE s[i] \in {Head(s)} \cup ItemsOf(Tail(s))
  <2>1. CASE i = 1
    BY <1>1, <2>1
  <2>2. CASE i # 1
    <3>1. i - 1 \in 1..(Len(s) - 1) /\ (i - 1) + 1 = i
      BY <1>1, <2>2
    <3> QED
      BY <1>2, <3>1 DEF ItemsOf
  <2> QED
    BY <2>1, <2>2
<1>4. ASSUME NEW i \in 1..(Len(s) - 1) PROVE Tail(s)[i] \in ItemsOf(s)
  BY <1>1, <1>2 DEF ItemsOf
<1>5. Head(s) \in ItemsOf(s)
  BY <1>1 DEF ItemsOf
<1> QED
  BY <1>1, <1>2, <1>3, <1>4, <1>5 DEF ItemsOf

LEMMA ItemsOfBoth ==
  ASSUME NEW T, NEW s \in Seq(T), NEW t \in Seq(T)
  PROVE  s \o t \in Seq(T) /\ ItemsOf(s \o t) = ItemsOf(s) \cup ItemsOf(t)
<1>1. s \o t \in Seq(T) /\ DOMAIN (s \o t) = 1..(Len(s) + Len(t)) /\ Len(s) \in Nat /\ Len(t) \in Nat
      /\ DOMAIN s = 1..Len(s) /\ DOMAIN t = 1..Len(t)
  OBVIOUS
<1>2. \A i \in 1..(Len(s) + Len(t)) : (s \o t)[i] = IF i <= Len(s) THEN s[i] ELSE t[i - Len(s)]
  OBVIOUS
<1>3. ASSUME NEW i \in 1..(Len(s) + Len(t)) PROVE (s \o t)[i] \in ItemsOf(s) \cup ItemsOf(t)
  <2>1. CASE i <= Len(s)
    BY <1>1, <1>2, <2>1 DEF ItemsOf
  <2>2. CASE ~(i <= Len(s))
    <3>1. i - Len(s) \in 1..Len(t)
      BY <1>1, <2>2
    <3> QED
      BY <1>1, <1>2, <2>2, <3>1 DEF ItemsOf
  <2> QED
    BY <2>1, <2>2
<1>4. ASSUME NEW i \in 1..Len(s) PROVE s[i] \in ItemsOf(s \o t)
  <2>1. i \in 1..(Len(s) + Len(t)) /\ (s \o t)[i] = s[i]
    BY <1>1, <1>2
  <2> QED
    BY <1>1, <2>1 DEF ItemsOf
<1>5. ASSUME NEW i \in 1..Len(t) PROVE t[i] \in ItemsOf(s \o t)
  <2>1. i + Len(s) \in 1..(Len(s) + Len(t)) /\ ~(i + Len(s) <= Len(s)) /\ (i + Len(s)) - Len(s) = i
    BY <1>1
  <2>2. (s \o t)[i + Len(s)] = t[i]
    BY <1>2, <2>1
  <2> QED
    BY <1>1, <2>1, <2>2 DEF ItemsOf
<1>6. ItemsOf(s) \cup ItemsOf(t) \subseteq ItemsOf(s \o t)
  BY <1>1, <1>4, <1>5 DEF ItemsOf
<1>7. ItemsOf(s \o t) \subseteq ItemsOf(s) \cup ItemsOf(t)
  <2> SUFFICES ASSUME NEW x \in ItemsOf(s \o t) PROVE x \in ItemsOf(s) \cup ItemsOf(t)
    OBVIOUS
  <2>1. PICK i \in 1..(Len(s) + Len(t)) : x = (s \o t)[i]
    BY <1>1 DEF ItemsOf
  <2> QED
    BY <1>3, <2>1
<1> QED
  BY <1>1, <1>6, <1>7

GraphShape ==
  /\ graph \in CandidateGraph
  /\ walk \in [queue : Seq(GraphNode), reached : SUBSET GraphNode]
  /\ trace \in [at : GraphNode \cup {"nowhere"}, visited : SUBSET GraphNode, looks : Nat, ended : BOOLEAN]

(* What was reached or queued can be reached; and what the entry and the    *)
(* reached nodes lead to is reached or queued.                              *)
WalkSound    == walk.reached \cup Queued \subseteq Reachable
WalkComplete ==
  /\ graph.entry \in walk.reached \cup Queued
  /\ \A n \in walk.reached : Successors(n) \subseteq walk.reached \cup Queued

(* A simulation looks at a new node each time, until it ends.               *)
TraceFollows ==
  /\ IF trace.at = "nowhere" THEN trace.visited = {} /\ ~trace.ended
     ELSE Walked /\ ValidGraph /\ trace.visited \cup {trace.at} \subseteq Reachable
  /\ IF trace.ended
     THEN graph.type[trace.at] = "END" \/ Successors(trace.at) = {} \/ trace.looks > Cardinality(trace.visited)
     ELSE trace.looks = Cardinality(trace.visited)

GraphInv == GraphShape /\ WalkSound /\ WalkComplete /\ TraceFollows

LEMMA GraphOf ==
  ASSUME graph \in CandidateGraph
  PROVE  /\ graph.entry \in GraphNode
         /\ \A n \in GraphNode : graph.edges[n] \in Seq([to : GraphNode, outcome : EdgeOutcome]) /\ Successors(n) \subseteq GraphNode
<1>1. graph.entry \in GraphNode /\ graph.edges \in [GraphNode -> Seq([to : GraphNode, outcome : EdgeOutcome])]
  BY GraphAssumption
<1>2. ASSUME NEW n \in GraphNode PROVE Successors(n) \subseteq GraphNode
  <2>1. graph.edges[n] \in Seq([to : GraphNode, outcome : EdgeOutcome])
    BY <1>1
  <2>2. \A i \in DOMAIN graph.edges[n] : graph.edges[n][i] \in [to : GraphNode, outcome : EdgeOutcome]
    BY <2>1, ItemsAre
  <2> QED
    BY <2>2 DEF Successors
<1> QED
  BY <1>1, <1>2

(* Reachable is closed under the edges and holds the entry.                 *)
LEMMA ReachableClosed ==
  ASSUME graph \in CandidateGraph
  PROVE  /\ graph.entry \in Reachable /\ Reachable \subseteq GraphNode
         /\ \A n \in Reachable : Successors(n) \subseteq Reachable
<1>1. graph.entry \in Reachable /\ Reachable \subseteq GraphNode
  BY GraphOf DEF Reachable
<1>2. ASSUME NEW n \in Reachable, NEW m \in Successors(n) PROVE m \in Reachable
  <2>1. m \in GraphNode
    BY <1>1, <1>2, GraphOf
  <2>2. ASSUME NEW S \in SUBSET GraphNode, graph.entry \in S, ClosedGraph(S) PROVE m \in S
    <3>1. n \in S
      BY <2>2 DEF Reachable
    <3> QED
      BY <1>2, <2>2, <3>1 DEF ClosedGraph
  <2> QED
    BY <2>1, <2>2 DEF Reachable
<1> QED
  BY <1>1, <1>2

LEMMA GraphStart == GraphInit => GraphInv
<1> SUFFICES ASSUME GraphInit PROVE GraphInv
  OBVIOUS
<1>1. graph \in CandidateGraph /\ graph.entry \in GraphNode /\ graph.entry \in Reachable
  BY GraphOf, ReachableClosed DEF GraphInit
<1>2. <<graph.entry>> \in Seq(GraphNode) /\ DOMAIN <<graph.entry>> = {1} /\ <<graph.entry>>[1] = graph.entry
  BY <1>1
<1>3. walk.queue = <<graph.entry>> /\ walk.reached = {} /\ Queued = {graph.entry}
  BY <1>2 DEF GraphInit, Queued, ItemsOf
<1>4. GraphShape
  BY <1>1, <1>2 DEF GraphInit, GraphShape
<1>5. WalkSound /\ WalkComplete
  BY <1>1, <1>3 DEF WalkSound, WalkComplete
<1>6. TraceFollows
  BY FS_EmptySet DEF GraphInit, TraceFollows
<1> QED
  BY <1>4, <1>5, <1>6 DEF GraphInv

LEMMA GraphKept == GraphInv => GraphsJudged
<1> SUFFICES ASSUME GraphInv PROVE GraphsJudged
  OBVIOUS
<1>1. Walked => walk.reached = Reachable
  <2> SUFFICES ASSUME Walked PROVE walk.reached = Reachable
    OBVIOUS
  <2>1. Queued = {}
    BY DEF Walked, Queued, ItemsOf
  <2>2. walk.reached \in SUBSET GraphNode
    BY DEF GraphInv, GraphShape
  <2>3. ClosedGraph(walk.reached) /\ graph.entry \in walk.reached
    BY <2>1 DEF GraphInv, WalkComplete, ClosedGraph
  <2>4. Reachable \subseteq walk.reached
    BY <2>2, <2>3 DEF Reachable
  <2> QED
    BY <2>1, <2>4 DEF GraphInv, WalkSound
<1> QED
  BY <1>1 DEF GraphInv, TraceFollows, GraphsJudged

LEMMA GraphStill ==
  ASSUME UNCHANGED <<graph, walk>>
  PROVE  /\ Walked <=> Walked'
         /\ ValidGraph <=> ValidGraph'
         /\ Reachable' = Reachable
         /\ \A m : Successors(m)' = Successors(m)
<1>1. \A m : Successors(m)' = Successors(m)
  BY DEF Successors
<1>2. Reachable' = Reachable
  BY DEF Reachable, ClosedGraph, Successors
<1>3. Walked <=> Walked'
  BY DEF Walked
<1>4. ValidGraph <=> ValidGraph'
  BY <1>1 DEF ValidGraph
<1> QED
  BY <1>1, <1>2, <1>3, <1>4

(* One turn of the walk.                                                    *)
LEMMA WalkedOn ==
  ASSUME GraphInv, WalkOn
  PROVE  GraphInv'
<1> DEFINE n == Head(walk.queue)
           next == [i \in DOMAIN Outgoing(n) |-> Outgoing(n)[i].to]
<1>0. walk.queue \in Seq(GraphNode) /\ walk.queue # <<>> /\ walk.reached \subseteq GraphNode /\ UNCHANGED <<graph, trace>>
  BY DEF WalkOn, GraphInv, GraphShape
<1> DEFINE rest == Tail(walk.queue)
<1>1. n \in GraphNode /\ rest \in Seq(GraphNode) /\ Queued = {n} \cup ItemsOf(rest)
  BY <1>0, ItemsOfTail DEF Queued
<1>2. Outgoing(n) \in Seq([to : GraphNode, outcome : EdgeOutcome])
  BY <1>1, GraphOf DEF GraphInv, GraphShape, Outgoing
<1>3. next \in Seq(GraphNode) /\ ItemsOf(next) = Successors(n)
  <2> HIDE DEF n
  <2>1. next \in Seq(GraphNode) /\ DOMAIN next = DOMAIN Outgoing(n)
    BY <1>2, TargetsAre
  <2> QED
    BY <2>1 DEF Successors, Outgoing, ItemsOf
<1>4. walk' \in [queue : Seq(GraphNode), reached : SUBSET GraphNode]
      /\ \/ n \in walk.reached /\ walk'.reached = walk.reached /\ Queued' = ItemsOf(rest)
         \/ n \notin walk.reached /\ walk'.reached = walk.reached \cup {n} /\ Queued' = ItemsOf(rest) \cup Successors(n)
  <2> HIDE DEF next
  <2>1. CASE n \in walk.reached
    <3>1. walk' = [walk EXCEPT !.queue = rest]
      BY <2>1 DEF WalkOn
    <3> HIDE DEF n, rest
    <3> QED
      BY <1>0, <1>1, <2>1, <3>1 DEF Queued, GraphInv, GraphShape
  <2>2. CASE n \notin walk.reached
    <3> DEFINE q == rest \o next
    <3>1. walk' = [queue |-> q, reached |-> walk.reached \cup {n}]
      BY <2>2 DEF WalkOn, next
    <3> HIDE DEF n, rest
    <3>2. q \in Seq(GraphNode) /\ ItemsOf(q) = ItemsOf(rest) \cup Successors(n)
      BY <1>1, <1>3, ItemsOfBoth
    <3> HIDE DEF q
    <3> QED
      BY <1>0, <1>1, <2>2, <3>1, <3>2 DEF Queued
  <2> QED
    BY <2>1, <2>2
<1> HIDE DEF next, rest
<1>5. Queued = {n} \cup ItemsOf(rest) /\ n \in GraphNode
  BY <1>1
<1> HIDE DEF n
<1>6. GraphShape'
  BY <1>0, <1>4 DEF GraphInv, GraphShape
<1>7. Reachable' = Reachable /\ \A m : Successors(m)' = Successors(m)
  BY <1>0 DEF Reachable, ClosedGraph, Successors
<1>8. Successors(n) \subseteq Reachable
  BY <1>5, ReachableClosed DEF GraphInv, GraphShape, WalkSound
<1>9. WalkSound'
  BY <1>4, <1>5, <1>7, <1>8 DEF GraphInv, WalkSound
<1>10. WalkComplete'
  BY <1>0, <1>4, <1>5, <1>7 DEF GraphInv, WalkComplete
<1>11. TraceFollows'
  <2>1. trace.at = "nowhere"
    BY <1>0 DEF GraphInv, TraceFollows, Walked
  <2> QED
    BY <1>0, <2>1 DEF GraphInv, TraceFollows
<1> QED
  BY <1>6, <1>9, <1>10, <1>11 DEF GraphInv

(* The first of a set of positions is one of them.                          *)
LEMMA FirstPosition ==
  ASSUME NEW S \in SUBSET Nat, S # {}
  PROVE  (CHOOSE i \in S : \A j \in S : i <= j) \in S
<1>1. PICK m \in S : \A k \in S : ~(<<k, m>> \in NatBelow)
  <2>1. IsWellFoundedOn(NatBelow, Nat)
    BY NatLessThanWellFounded DEF OpToRel, NatBelow
  <2> QED BY <2>1, WFMin
<1>2. ASSUME NEW j \in S PROVE m <= j
  <2>1. j < m => <<j, m>> \in NatBelow
    BY DEF NatBelow
  <2> QED
    BY <1>1, <2>1
<1> QED
  BY <1>2

(* The simulation goes along an edge, where there is one.                   *)
LEMMA ChosenLeads ==
  ASSUME graph \in CandidateGraph, NEW n \in GraphNode, NEW asked
  PROVE  IF Successors(n) = {} THEN Chosen(n, asked) = "nowhere" ELSE Chosen(n, asked) \in Successors(n)
<1> DEFINE next == Outgoing(n)
           With(outcome) == {i \in DOMAIN next : next[i].outcome = outcome}
           first(S) == next[CHOOSE i \in S : \A j \in S : i <= j].to
<1>1. next = graph.edges[n] /\ DOMAIN next = 1..Len(next) /\ Len(next) \in Nat
  <2>1. graph.edges[n] \in Seq([to : GraphNode, outcome : EdgeOutcome])
    BY GraphOf
  <2> QED
    BY <2>1 DEF Outgoing
<1>2. \A i \in DOMAIN next : next[i].to \in Successors(n)
  BY <1>1 DEF Successors
<1>3. next = <<>> <=> Successors(n) = {}
  <2>1. CASE next = <<>>
    BY <1>1, <2>1 DEF Successors
  <2>2. CASE next # <<>>
    <3>1. graph.edges[n] \in Seq([to : GraphNode, outcome : EdgeOutcome])
      BY GraphOf
    <3>2. 1 \in DOMAIN next
      BY <1>1, <2>2, <3>1
    <3> QED
      BY <1>2, <2>2, <3>2
  <2> QED
    BY <2>1, <2>2
<1>4. ASSUME NEW S \in SUBSET (DOMAIN next), S # {} PROVE first(S) \in Successors(n)
  <2>1. S \in SUBSET Nat
    BY <1>1
  <2>2. (CHOOSE i \in S : \A j \in S : i <= j) \in S
    BY <1>4, <2>1, FirstPosition
  <2> QED
    BY <1>2, <2>2
<1>5. Chosen(n, asked) = IF next = <<>> THEN "nowhere"
                         ELSE IF With(asked) # {} THEN first(With(asked))
                         ELSE IF With("SUCCESS") # {} THEN first(With("SUCCESS")) ELSE next[1].to
  BY DEF Chosen
<1>6. With(asked) \in SUBSET (DOMAIN next) /\ With("SUCCESS") \in SUBSET (DOMAIN next)
  OBVIOUS
<1>7. next # <<>> => next[1].to \in Successors(n)
  <2>1. graph.edges[n] \in Seq([to : GraphNode, outcome : EdgeOutcome])
    BY GraphOf
  <2> QED
    BY <1>1, <1>2, <2>1
<1>8. With(asked) # {} => first(With(asked)) \in Successors(n)
  BY <1>4, <1>6
<1>9. With("SUCCESS") # {} => first(With("SUCCESS")) \in Successors(n)
  BY <1>4, <1>6
<1> HIDE DEF next, With, first
<1> QED
  BY <1>3, <1>5, <1>7, <1>8, <1>9

LEMMA Simulated ==
  ASSUME GraphInv, SimulateGraph
  PROVE  GraphInv'
<1>1. /\ Walked /\ ValidGraph /\ trace.at = "nowhere" /\ UNCHANGED <<graph, walk>>
      /\ trace' = [trace EXCEPT !.at = graph.entry]
  BY DEF SimulateGraph
<1>2. graph.entry \in GraphNode /\ graph.entry \in Reachable /\ graph.entry # "nowhere"
  BY GraphOf, ReachableClosed, GraphAssumption DEF GraphInv, GraphShape
<1>3. trace' \in [at : GraphNode \cup {"nowhere"}, visited : SUBSET GraphNode, looks : Nat, ended : BOOLEAN]
      /\ trace'.at = graph.entry /\ trace'.visited = trace.visited /\ trace'.looks = trace.looks /\ trace'.ended = trace.ended
  BY <1>1, <1>2 DEF GraphInv, GraphShape
<1>4. GraphShape' /\ WalkSound' /\ WalkComplete'
  <2>1. GraphShape'
    BY <1>1, <1>3 DEF GraphInv, GraphShape
  <2>2. Queued' = Queued
    BY <1>1 DEF Queued
  <2> QED
    BY <1>1, <2>1, <2>2, GraphStill DEF GraphInv, WalkSound, WalkComplete
<1>5. TraceFollows'
  <2>1. Walked' /\ ValidGraph' /\ Reachable' = Reachable
    BY <1>1, GraphStill
  <2>2. trace.visited = {} /\ ~trace.ended /\ trace.looks = Cardinality(trace.visited)
    BY <1>1 DEF GraphInv, TraceFollows
  <2> QED
    BY <1>2, <1>3, <2>1, <2>2 DEF TraceFollows
<1> QED
  BY <1>4, <1>5 DEF GraphInv

LEMMA SimulatedOn ==
  ASSUME GraphInv, NEW asked \in EdgeOutcome, SimulateOn(asked)
  PROVE  GraphInv'
<1> DEFINE n == trace.at
           next == Chosen(n, asked)
           cut == trace.looks + 1 > Cardinality(GraphNode)
<1>1. n \in GraphNode /\ ~trace.ended /\ UNCHANGED <<graph, walk>> /\ graph \in CandidateGraph
      /\ trace.visited \in SUBSET GraphNode /\ trace.looks \in Nat
  BY DEF SimulateOn, GraphInv, GraphShape
<1>2. Walked /\ ValidGraph /\ trace.visited \cup {n} \subseteq Reachable /\ trace.looks = Cardinality(trace.visited)
  BY <1>1, GraphAssumption DEF GraphInv, TraceFollows
<1>3. IF Successors(n) = {} THEN next = "nowhere" ELSE next \in Successors(n)
  BY <1>1, ChosenLeads
<1>4. next = "nowhere" => Successors(n) = {}
  BY <1>1, <1>3, GraphOf, GraphAssumption
<1>5. next # "nowhere" => next \in Reachable /\ next \in GraphNode
  BY <1>1, <1>2, <1>3, ReachableClosed
<1>6. IsFiniteSet(trace.visited) /\ Cardinality(trace.visited) \in Nat
      /\ Cardinality(trace.visited \cup {n}) = IF n \in trace.visited THEN Cardinality(trace.visited) ELSE Cardinality(trace.visited) + 1
  BY <1>1, FS_Subset, FS_CardinalityType, FS_AddElement, GraphAssumption
<1>7. Cardinality(trace.visited \cup {n}) <= Cardinality(GraphNode)
  BY <1>1, FS_Subset, GraphAssumption
<1>8. Cardinality(GraphNode) \in Nat
  BY FS_CardinalityType, GraphAssumption
<1>9. trace \in [at : GraphNode \cup {"nowhere"}, visited : SUBSET GraphNode, looks : Nat, ended : BOOLEAN]
  BY DEF GraphInv, GraphShape
<1>10. \/ /\ Stops(n) \/ next = "nowhere"
          /\ trace' = [trace EXCEPT !.looks = @ + 1, !.ended = TRUE, !.visited = @ \cup {n}]
       \/ /\ ~Stops(n) /\ next # "nowhere"
          /\ trace' = [at |-> next, visited |-> trace.visited \cup {n}, looks |-> trace.looks + 1,
                       ended |-> cut]
  BY DEF SimulateOn
<1> HIDE DEF next
<1>11. Walked' /\ ValidGraph' /\ Reachable' = Reachable /\ \A m : Successors(m)' = Successors(m)
  BY <1>1, <1>2, GraphStill
<1>12. WalkSound' /\ WalkComplete'
  <2>1. Queued' = Queued
    BY <1>1 DEF Queued
  <2> QED
    BY <1>1, <2>1, GraphStill DEF GraphInv, WalkSound, WalkComplete
<1>13. CASE Stops(n) \/ next = "nowhere"
  <2>1. trace' = [trace EXCEPT !.looks = @ + 1, !.ended = TRUE, !.visited = @ \cup {n}]
    BY <1>10, <1>13
  <2>2. /\ trace' \in [at : GraphNode \cup {"nowhere"}, visited : SUBSET GraphNode, looks : Nat, ended : BOOLEAN]
        /\ trace'.at = n /\ trace'.visited = trace.visited \cup {n} /\ trace'.looks = trace.looks + 1 /\ trace'.ended = TRUE
    <3> DEFINE seen == trace.visited \cup {n}
               looked == trace.looks + 1
    <3>1. seen \in SUBSET GraphNode /\ looked \in Nat
      BY <1>1
    <3>2. trace' = [trace EXCEPT !.looks = looked, !.ended = TRUE, !.visited = seen]
      BY <2>1
    <3> HIDE DEF seen, looked
    <3>3. /\ trace' \in [at : GraphNode \cup {"nowhere"}, visited : SUBSET GraphNode, looks : Nat, ended : BOOLEAN]
          /\ trace'.at = n /\ trace'.visited = seen /\ trace'.looks = looked /\ trace'.ended = TRUE
      BY <1>9, <3>1, <3>2
    <3> QED
      BY <3>3 DEF seen, looked
  <2>3. GraphShape'
    BY <1>1, <1>12, <2>2 DEF GraphInv, GraphShape
  <2>4. graph.type[n] = "END" \/ Successors(n) = {} \/ n \in trace.visited
    BY <1>4, <1>13 DEF Stops
  <2>5. n \in trace.visited => trace.looks + 1 > Cardinality(trace.visited \cup {n})
    BY <1>2, <1>6
  <2>6. TraceFollows'
    <3>1. n # "nowhere" /\ trace'.visited \cup {trace'.at} \subseteq Reachable
      BY <1>1, <1>2, <2>2, GraphAssumption
    <3>2. graph'.type[trace'.at] = "END" \/ Successors(trace.at)' = {} \/ trace'.looks > Cardinality(trace'.visited)
      BY <1>1, <1>11, <2>2, <2>4, <2>5
    <3> QED
      BY <1>11, <2>2, <3>1, <3>2 DEF TraceFollows
  <2> QED
    BY <1>12, <2>3, <2>6 DEF GraphInv
<1>14. CASE ~Stops(n) /\ next # "nowhere"
  <2>1. n \notin trace.visited /\ next \in Reachable /\ next \in GraphNode
    BY <1>5, <1>14 DEF Stops
  <2>2. trace.looks + 1 = Cardinality(trace.visited \cup {n}) /\ ~(trace.looks + 1 > Cardinality(GraphNode))
    BY <1>2, <1>6, <1>7, <1>8, <2>1
  <2>3. trace' = [at |-> next, visited |-> trace.visited \cup {n}, looks |-> trace.looks + 1, ended |-> FALSE]
    <3>1. cut = FALSE
      BY <2>2
    <3> HIDE DEF cut
    <3> QED
      BY <1>10, <1>14, <3>1
  <2>4. GraphShape'
    BY <1>1, <1>12, <2>1, <2>3 DEF GraphInv, GraphShape
  <2>5. TraceFollows'
    BY <1>2, <1>11, <2>1, <2>2, <2>3, GraphAssumption DEF TraceFollows
  <2> QED
    BY <1>12, <2>4, <2>5 DEF GraphInv
<1> QED
  BY <1>13, <1>14

LEMMA GraphStep == GraphInv /\ [GraphNext]_graphVars => GraphInv'
<1> SUFFICES ASSUME GraphInv, [GraphNext]_graphVars PROVE GraphInv'
  OBVIOUS
<1>1. CASE UNCHANGED graphVars
  <2>1. UNCHANGED <<graph, walk, trace>>
    BY <1>1 DEF graphVars
  <2>2. GraphShape' /\ WalkSound' /\ WalkComplete'
    <3>1. Queued' = Queued
      BY <2>1 DEF Queued
    <3> QED
      BY <2>1, <3>1, GraphStill DEF GraphInv, GraphShape, WalkSound, WalkComplete
  <2>3. TraceFollows'
    BY <2>1, GraphStill DEF GraphInv, TraceFollows
  <2> QED
    BY <2>2, <2>3 DEF GraphInv
<1> QED
  BY <1>1, WalkedOn, Simulated, SimulatedOn DEF GraphNext

-----------------------------------------------------------------------------
(* Prices.  A stored definition is read again as it is: its calculations    *)
(* have ids and its ranges are in order, so that validating it once more    *)
(* finds nothing to add or to move.  First, that a sort exists, and that it *)
(* keeps what is sorted.                                                    *)
Enumerates(p, n, T, R) ==
  /\ p \in [1..n -> T]
  /\ \A i, j \in 1..n : i < j => <<p[i], p[j]>> \in R /\ p[i] # p[j]
  /\ \A y \in T : \E i \in 1..n : p[i] = y

(* One more element finds its place in the order.                           *)
LEMMA OneInserted ==
  ASSUME NEW T, NEW x \in T, NEW R, NEW n \in Nat, NEW p, Enumerates(p, n, T \ {x}, R),
         \A i, j \in T : i # j => <<i, j>> \in R \/ <<j, i>> \in R,
         \A i, j, l \in T : <<i, j>> \in R /\ <<j, l>> \in R => <<i, l>> \in R
  PROVE  \E q : Enumerates(q, n + 1, T, R)
<1> DEFINE K == {i \in 1..(n + 1) : i = n + 1 \/ <<x, p[i]>> \in R}
<1>1. PICK k \in K : \A i \in K : k <= i
  <2>1. K \in SUBSET Nat /\ K # {}
    OBVIOUS
  <2> HIDE DEF K
  <2> QED BY <2>1, LeastNatural
<1>2. k \in 1..(n + 1) /\ (k = n + 1 \/ <<x, p[k]>> \in R)
  BY <1>1
<1>3. ASSUME NEW i \in 1..n, i < k PROVE <<p[i], x>> \in R
  <2>1. i \notin K
    BY <1>1, <1>2, <1>3
  <2>2. p[i] \in T \ {x} /\ <<x, p[i]>> \notin R
    BY <2>1, <1>3 DEF Enumerates
  <2> QED BY <2>2
<1>4. ASSUME NEW i \in 1..n, k <= i PROVE <<x, p[i]>> \in R
  <2>1. k \in 1..n /\ <<x, p[k]>> \in R
    BY <1>2, <1>4
  <2>2. p[i] \in T /\ p[k] \in T
    BY <2>1 DEF Enumerates
  <2>3. CASE i = k
    BY <2>1, <2>3
  <2>4. CASE k < i
    BY <2>1, <2>2, <2>4 DEF Enumerates
  <2> QED BY <2>3, <2>4, <1>4, <1>2
<1> HIDE DEF K
<1> DEFINE q == [i \in 1..(n + 1) |-> IF i < k THEN p[i] ELSE IF i = k THEN x ELSE p[i - 1]]
<1>5. q \in [1..(n + 1) -> T]
  <2>1. ASSUME NEW i \in 1..(n + 1) PROVE q[i] \in T
    BY <2>1, <1>2 DEF Enumerates
  <2> QED BY <2>1
<1>6. ASSUME NEW i \in 1..(n + 1), NEW j \in 1..(n + 1), i < j PROVE <<q[i], q[j]>> \in R /\ q[i] # q[j]
  <2>1. CASE j < k
    BY <1>2, <1>6, <2>1 DEF Enumerates
  <2>2. CASE j = k
    <3>1. i \in 1..n /\ i < k /\ q[i] = p[i] /\ q[j] = x
      BY <1>2, <1>6, <2>2
    <3>2. p[i] # x
      BY <3>1 DEF Enumerates
    <3> QED BY <3>1, <3>2, <1>3
  <2>3. CASE i < k /\ k < j
    <3>1. i \in 1..n /\ j - 1 \in 1..n /\ i < j - 1 /\ q[i] = p[i] /\ q[j] = p[j - 1]
      BY <1>2, <1>6, <2>3
    <3> HIDE DEF q
    <3> QED BY <3>1 DEF Enumerates
  <2>4. CASE i = k
    <3>1. j - 1 \in 1..n /\ k <= j - 1 /\ q[i] = x /\ q[j] = p[j - 1]
      BY <1>2, <1>6, <2>4
    <3>2. p[j - 1] # x
      BY <3>1 DEF Enumerates
    <3> HIDE DEF q
    <3> QED BY <3>1, <3>2, <1>4
  <2>5. CASE k < i
    <3>1. i - 1 \in 1..n /\ j - 1 \in 1..n /\ i - 1 < j - 1 /\ q[i] = p[i - 1] /\ q[j] = p[j - 1]
      BY <1>2, <1>6, <2>5
    <3> HIDE DEF q
    <3> QED BY <3>1 DEF Enumerates
  <2> QED BY <2>1, <2>2, <2>3, <2>4, <2>5, <1>2, <1>6
<1>7. ASSUME NEW y \in T PROVE \E i \in 1..(n + 1) : q[i] = y
  <2>1. CASE y = x
    <3>1. k \in 1..(n + 1) /\ q[k] = x
      BY <1>2
    <3> QED BY <3>1, <2>1
  <2>2. CASE y # x
    <3>1. PICK i \in 1..n : p[i] = y
      BY <2>2 DEF Enumerates
    <3>2. CASE i < k
      <4>1. i \in 1..(n + 1) /\ q[i] = y
        BY <3>1, <3>2
      <4> QED BY <4>1
    <3>3. CASE k <= i
      <4>1. i + 1 \in 1..(n + 1) /\ q[i + 1] = y
        BY <3>1, <3>3, <1>2
      <4> QED BY <4>1
    <3> QED BY <3>2, <3>3, <1>2
  <2> QED BY <2>1, <2>2
<1> HIDE DEF q
<1> QED BY <1>5, <1>6, <1>7 DEF Enumerates

LEMMA Enumerated ==
  ASSUME NEW S, IsFiniteSet(S), NEW R,
         \A i, j \in S : i # j => <<i, j>> \in R \/ <<j, i>> \in R,
         \A i, j, l \in S : <<i, j>> \in R /\ <<j, l>> \in R => <<i, l>> \in R
  PROVE  Cardinality(S) \in Nat /\ \E p : Enumerates(p, Cardinality(S), S, R)
<1> DEFINE Q == {T \in SUBSET S : \E p : Enumerates(p, Cardinality(T), T, R)}
<1>1. ASSUME NEW T \in SUBSET S, \A x \in T : T \ {x} \in Q PROVE T \in Q
  <2>1. CASE T = {}
    <3>1. Cardinality(T) = 0 /\ Enumerates([i \in 1..0 |-> 0], 0, T, R)
      BY <2>1, FS_EmptySet DEF Enumerates
    <3> QED BY <3>1
  <2>2. CASE T # {}
    <3>1. PICK x : x \in T
      BY <2>2
    <3>2. PICK p : Enumerates(p, Cardinality(T \ {x}), T \ {x}, R)
      BY <1>1, <3>1
    <3>3. IsFiniteSet(T) /\ IsFiniteSet(T \ {x})
      BY FS_Subset
    <3>4. Cardinality(T \ {x}) \in Nat /\ Cardinality(T) = Cardinality(T \ {x}) + 1
      BY <3>1, <3>3, FS_RemoveElement, FS_CardinalityType
    <3>5. \E q : Enumerates(q, Cardinality(T \ {x}) + 1, T, R)
      <4> HIDE DEF Q
      <4> QED BY <3>1, <3>2, <3>4, OneInserted
    <3> QED BY <3>4, <3>5
  <2> QED BY <2>1, <2>2
<1>2. Q \in SUBSET SUBSET S
  OBVIOUS
<1>3. S \in Q
  <2> HIDE DEF Q
  <2> QED BY <1>1, <1>2, SubsetInduction
<1> QED BY <1>3, FS_CardinalityType

(* A sort of what is sorted changes nothing.                                *)
LEMMA IncreasingIsIdentity ==
  ASSUME NEW n \in Nat, NEW q \in Bijection(1..n, 1..n), \A i, j \in 1..n : i < j => q[i] < q[j]
  PROVE  \A i \in 1..n : q[i] = i
<1>0. q \in [1..n -> 1..n] /\ (\A y \in 1..n : \E i \in 1..n : q[i] = y)
  BY DEF Bijection, Injection, Surjection
<1> DEFINE Displaced == {i \in 1..n : q[i] # i}
<1> SUFFICES ASSUME Displaced # {} PROVE FALSE
  OBVIOUS
<1>1. PICK m \in Displaced : \A i \in Displaced : m <= i
  <2>1. Displaced \in SUBSET Nat
    OBVIOUS
  <2> HIDE DEF Displaced
  <2> QED BY <2>1, LeastNatural
<1>2. m \in 1..n /\ q[m] # m /\ \A i \in 1..n : i < m => q[i] = i
  BY <1>1
<1>3. PICK j \in 1..n : q[j] = m
  BY <1>0, <1>2
<1>4. m < j
  <2>1. j # m
    BY <1>2, <1>3
  <2>2. ~(j < m)
    BY <1>2, <1>3, <2>1
  <2> QED BY <1>2, <2>1, <2>2
<1>5. q[m] < m
  BY <1>2, <1>3, <1>4
<1>6. q[m] \in 1..n /\ q[q[m]] = q[m]
  BY <1>0, <1>2, <1>5
<1>7. q[q[m]] < q[m]
  BY <1>0, <1>2, <1>5, <1>6
<1> QED BY <1>0, <1>2, <1>6, <1>7

-----------------------------------------------------------------------------
(* The ranges of a side, as the service builds them.                        *)
StoredRange == [min : Nat, max : Bound, calc : Nat, commission : {0}, rule : {NoRule}]

LEMMA OrderOfRanges ==
  ASSUME NEW r, IsFiniteSet(DOMAIN r), DOMAIN r \subseteq Nat, \A i \in DOMAIN r : r[i].min \in Nat,
         NEW n, n = Cardinality(DOMAIN r)
  PROVE  /\ n \in Nat /\ SortOrder(r) \in Bijection(1..n, DOMAIN r)
         /\ \A i, j \in 1..n : i < j => ComesFirst(r, SortOrder(r)[i], SortOrder(r)[j])
<1> DEFINE R == {e \in (DOMAIN r) \X (DOMAIN r) : ComesFirst(r, e[1], e[2])}
<1>1. \A i, j \in DOMAIN r : <<i, j>> \in R <=> ComesFirst(r, i, j)
  OBVIOUS
<1>2. \A i, j \in DOMAIN r : i # j => <<i, j>> \in R \/ <<j, i>> \in R
  <2>1. ASSUME NEW i \in DOMAIN r, NEW j \in DOMAIN r, i # j PROVE ComesFirst(r, i, j) \/ ComesFirst(r, j, i)
    <3>1. i \in Nat /\ j \in Nat /\ r[i].min \in Nat /\ r[j].min \in Nat
      OBVIOUS
    <3> QED BY <2>1, <3>1 DEF ComesFirst
  <2> HIDE DEF R
  <2> QED BY <1>1, <2>1
<1>3. \A i, j, l \in DOMAIN r : <<i, j>> \in R /\ <<j, l>> \in R => <<i, l>> \in R
  <2>1. ASSUME NEW i \in DOMAIN r, NEW j \in DOMAIN r, NEW l \in DOMAIN r, ComesFirst(r, i, j), ComesFirst(r, j, l)
        PROVE  ComesFirst(r, i, l)
    <3>1. i \in Nat /\ j \in Nat /\ l \in Nat /\ r[i].min \in Nat /\ r[j].min \in Nat /\ r[l].min \in Nat
      OBVIOUS
    <3> QED BY <2>1, <3>1 DEF ComesFirst
  <2> HIDE DEF R
  <2> QED BY <1>1, <2>1
<1>4. n \in Nat /\ \E p : Enumerates(p, n, DOMAIN r, R)
  <2> HIDE DEF R
  <2> QED BY <1>2, <1>3, Enumerated
<1>5. PICK p : Enumerates(p, n, DOMAIN r, R)
  BY <1>4
<1> HIDE DEF R
<1>6. p \in Bijection(1..n, DOMAIN r)
  <2>1. p \in [1..n -> DOMAIN r] /\ (\A y \in DOMAIN r : \E i \in 1..n : p[i] = y)
    BY <1>5 DEF Enumerates
  <2>2. ASSUME NEW i \in 1..n, NEW j \in 1..n, p[i] = p[j] PROVE i = j
    <3>1. ~(i < j) /\ ~(j < i)
      BY <1>5, <2>2 DEF Enumerates
    <3> QED BY <3>1, <1>4
  <2>3. IsInjective(p)
    BY <2>1, <2>2 DEF IsInjective
  <2> QED BY <2>1, <2>3 DEF Bijection, Injection, Surjection
<1>7. \A i, j \in DOMAIN p : i < j => ComesFirst(r, p[i], p[j])
  <2>1. DOMAIN p = 1..n /\ p \in [1..n -> DOMAIN r]
    BY <1>5 DEF Enumerates
  <2> QED BY <2>1, <1>5, <1>1 DEF Enumerates
<1> DEFINE Good(o) == \A i, j \in DOMAIN o : i < j => ComesFirst(r, o[i], o[j])
<1>8. SortOrder(r) = CHOOSE o \in Bijection(1..n, DOMAIN r) : Good(o)
  BY DEF SortOrder
<1>9. \E o \in Bijection(1..n, DOMAIN r) : Good(o)
  BY <1>6, <1>7
<1>10. SortOrder(r) \in Bijection(1..n, DOMAIN r) /\ Good(SortOrder(r))
  <2> HIDE DEF Good
  <2> QED BY <1>8, <1>9
<1>11. DOMAIN SortOrder(r) = 1..n
  BY <1>10 DEF Bijection, Injection
<1> QED BY <1>4, <1>10, <1>11

LEMMA RangesBuilt ==
  ASSUME NEW inputs, IsFiniteSet(DOMAIN inputs), DOMAIN inputs \subseteq Nat, NEW ids,
         \A i \in DOMAIN inputs : inputs[i].min \in Nat /\ inputs[i].max \in Bound /\ Or(inputs[i].calc, ids[i]) \in Nat
  PROVE  /\ Cardinality(DOMAIN inputs) \in Nat
         /\ Ranges(inputs, ids) \in [1..Cardinality(DOMAIN inputs) -> StoredRange]
<1> DEFINE r == [i \in DOMAIN inputs |->
               [min |-> inputs[i].min, max |-> inputs[i].max, calc |-> Or(inputs[i].calc, ids[i]),
                commission |-> 0, rule |-> NoRule]]
           n == Cardinality(DOMAIN inputs)
<1>1. DOMAIN r = DOMAIN inputs /\ r \in [DOMAIN inputs -> StoredRange]
  BY DEF StoredRange
<1>2. Ranges(inputs, ids) = ByMinimum(r)
  BY DEF Ranges
<1> HIDE DEF r
<1>3. \A i \in DOMAIN r : r[i].min \in Nat
  BY <1>1 DEF StoredRange
<1>4. n \in Nat /\ SortOrder(r) \in Bijection(1..n, DOMAIN r)
  BY <1>1, <1>3, OrderOfRanges
<1>5. SortOrder(r) \in [1..n -> DOMAIN inputs]
  BY <1>1, <1>4 DEF Bijection, Injection
<1>6. ByMinimum(r) = [i \in 1..n |-> r[SortOrder(r)[i]]]
  BY <1>1 DEF ByMinimum
<1> QED BY <1>1, <1>2, <1>4, <1>5, <1>6

Increases(r, n) ==
  \A i, j \in 1..n : i < j => r[i].max # Undefined /\ r[i].max < r[j].min /\ r[i].min < r[j].min

LEMMA DisjointIncreases ==
  ASSUME NEW n \in Nat, NEW r \in [1..n -> StoredRange], Disjoint(r),
         \A i \in 1..n : r[i].max = Undefined \/ r[i].max >= r[i].min
  PROVE  Increases(r, n)
<1>1. \A i \in 1..n : r[i].min \in Nat /\ r[i].max \in Bound
  BY DEF StoredRange
<1>2. ASSUME NEW i \in 2..n PROVE r[i - 1].max # Undefined /\ r[i].min > r[i - 1].max
  <2>1. Len(r) = n
    BY DEF StoredRange
  <2> QED BY <2>1 DEF Disjoint
<1> DEFINE Apart(i, j) == r[i].max # Undefined /\ r[i].max < r[j].min /\ r[i].min < r[j].min
           N == {d \in Nat : \A i, j \in 1..n : j = i + d + 1 => Apart(i, j)}
<1>3. \A i, j \in 1..n : j = i + 1 => Apart(i, j)
  <2>1. ASSUME NEW i \in 1..n, NEW j \in 1..n, j = i + 1 PROVE Apart(i, j)
    <3>1. j \in 2..n /\ j - 1 = i
      BY <2>1
    <3>2. r[i].max # Undefined /\ r[j].min > r[i].max /\ r[i].max >= r[i].min
      BY <3>1, <1>2
    <3>3. r[i].max \in Nat /\ r[i].min \in Nat /\ r[j].min \in Nat
      BY <3>2, <1>1 DEF Bound
    <3> QED BY <3>2, <3>3
  <2> QED BY <2>1
<1>4. 0 \in N
  BY <1>3
<1>5. ASSUME NEW d \in N PROVE d + 1 \in N
  <2>1. ASSUME NEW i \in 1..n, NEW j \in 1..n, j = i + (d + 1) + 1 PROVE Apart(i, j)
    <3>1. j - 1 \in 1..n /\ j - 1 = i + d + 1 /\ j = (j - 1) + 1
      BY <2>1
    <3>2. Apart(i, j - 1) /\ Apart(j - 1, j)
      BY <3>1, <1>3
    <3>3. r[i].max \in Nat /\ r[i].min \in Nat /\ r[j].min \in Nat /\ r[j - 1].min \in Nat
      BY <3>1, <3>2, <1>1 DEF Bound
    <3> QED BY <3>2, <3>3
  <2> QED BY <2>1
<1>6. N = Nat
  <2>1. N \in SUBSET Nat
    OBVIOUS
  <2> HIDE DEF N
  <2> QED BY <1>4, <1>5, <2>1, NaturalInduction
<1>7. ASSUME NEW i \in 1..n, NEW j \in 1..n, i < j PROVE Apart(i, j)
  <2>1. (j - i - 1) \in Nat /\ j = i + (j - i - 1) + 1
    BY <1>7
  <2> HIDE DEF Apart
  <2> QED BY <2>1, <1>6
<1> QED BY <1>7 DEF Increases

LEMMA SortedStays ==
  ASSUME NEW n \in Nat, NEW r \in [1..n -> StoredRange], Increases(r, n)
  PROVE  ByMinimum(r) = r
<1>1. DOMAIN r = 1..n /\ IsFiniteSet(DOMAIN r) /\ Cardinality(DOMAIN r) = n
  BY FS_Interval
<1>2. \A i \in 1..n : r[i].min \in Nat
  BY DEF StoredRange
<1> DEFINE q == SortOrder(r)
<1>3. q \in Bijection(1..n, 1..n) /\ \A i, j \in 1..n : i < j => ComesFirst(r, q[i], q[j])
  BY <1>1, <1>2, OrderOfRanges
<1> HIDE DEF q
<1>4. q \in [1..n -> 1..n]
  BY <1>3 DEF Bijection, Injection
<1>5. ASSUME NEW i \in 1..n, NEW j \in 1..n, i < j PROVE q[i] < q[j]
  <2>1. q[i] \in 1..n /\ q[j] \in 1..n /\ ComesFirst(r, q[i], q[j])
    BY <1>3, <1>4, <1>5
  <2>2. q[j] < q[i] => r[q[j]].min < r[q[i]].min
    BY <2>1 DEF Increases
  <2>3. q[i] # q[j]
    BY <2>1, <1>2 DEF ComesFirst
  <2>4. r[q[i]].min \in Nat /\ r[q[j]].min \in Nat
    BY <2>1, <1>2
  <2> QED BY <2>1, <2>2, <2>3, <2>4 DEF ComesFirst
<1>6. \A i \in 1..n : q[i] = i
  BY <1>3, <1>5, IncreasingIsIdentity
<1>7. ByMinimum(r) = [i \in 1..n |-> r[q[i]]]
  BY <1>1 DEF ByMinimum, q
<1> QED BY <1>6, <1>7

LEMMA RangesStay ==
  ASSUME NEW n \in Nat, NEW r \in [1..n -> StoredRange], Increases(r, n), \A i \in 1..n : r[i].calc # 0, NEW ids
  PROVE  Ranges(r, ids) = r
<1> DEFINE built == [i \in DOMAIN r |->
               [min |-> r[i].min, max |-> r[i].max, calc |-> Or(r[i].calc, ids[i]), commission |-> 0, rule |-> NoRule]]
<1>1. ASSUME NEW i \in 1..n PROVE built[i] = r[i]
  <2>1. r[i] \in StoredRange /\ r[i].calc # 0
    OBVIOUS
  <2>2. built[i] = [min |-> r[i].min, max |-> r[i].max, calc |-> r[i].calc, commission |-> 0, rule |-> NoRule]
    BY <2>1 DEF Or
  <2> HIDE DEF built
  <2> QED BY <2>1, <2>2 DEF StoredRange
<1>2. built = r
  <2>1. DOMAIN built = 1..n /\ DOMAIN r = 1..n
    OBVIOUS
  <2>2. built = [i \in 1..n |-> built[i]] /\ r = [i \in 1..n |-> r[i]]
    OBVIOUS
  <2> HIDE DEF built
  <2> QED BY <2>2, <1>1
<1>3. Ranges(r, ids) = ByMinimum(built)
  BY DEF Ranges
<1> QED BY <1>2, <1>3, SortedStays

-----------------------------------------------------------------------------
(* The sides of a definition.                                               *)
StoredCalc == [id : Nat \ {0}, rule : AmountRule]

StoredSide(d) ==
  /\ d \in [enabled : BOOLEAN, mode : {"FIXED", "FLEXIBLE"}, party : {"S", "D"}, rule : AmountRule,
            calcs : Seq(StoredCalc), default : Nat \ {0}, ranges : Seq(StoredRange)]
  /\ d.calcs # <<>>
  /\ d.mode = "FIXED" => d.ranges = <<>>
  /\ d.mode = "FLEXIBLE" => d.ranges # <<>>

RawRangeIn == [min : Nat, max : Bound, calc : Nat, commission : Nat, rule : AmountRule]
RawCalcIn == [id : Nat, rule : AmountRule]
ConditionIn == [min : Nat, max : Bound]

LEMMA UpToFinite == ASSUME NEW n \in Nat PROVE IsFiniteSet(1..n)
BY FS_Interval

LEMMA SequenceOf ==
  ASSUME NEW S, NEW n \in Nat, NEW f \in [1..n -> S]
  PROVE  f \in Seq(S) /\ Len(f) = n /\ DOMAIN f = 1..n /\ (n # 0 => f # <<>>)
OBVIOUS

LEMMA CalculationsOf ==
  ASSUME NEW c \in Seq(RawCalcIn), c # <<>>
  PROVE  /\ [i \in DOMAIN c |-> Calculation(c[i], i)] \in Seq(StoredCalc)
         /\ [i \in DOMAIN c |-> Calculation(c[i], i)] # <<>>
<1>1. Len(c) \in Nat \ {0} /\ DOMAIN c = 1..Len(c)
  OBVIOUS
<1>2. ASSUME NEW i \in 1..Len(c) PROVE Calculation(c[i], i) \in StoredCalc
  <2>1. c[i] \in RawCalcIn /\ 10 + i \in Nat \ {0}
    OBVIOUS
  <2>2. Or(c[i].id, 10 + i) \in Nat \ {0}
    BY <2>1 DEF Or, RawCalcIn
  <2> QED BY <2>1, <2>2 DEF Calculation, StoredCalc, RawCalcIn
<1>3. [i \in DOMAIN c |-> Calculation(c[i], i)] \in [1..Len(c) -> StoredCalc]
  BY <1>1, <1>2
<1> HIDE DEF StoredCalc
<1> QED BY <1>1, <1>3, SequenceOf

LEMMA CalculationsStay ==
  ASSUME NEW c \in Seq(StoredCalc)
  PROVE  [i \in DOMAIN c |-> Calculation(c[i], i)] = c
<1>1. \A i \in DOMAIN c : Calculation(c[i], i) = c[i]
  <2>1. ASSUME NEW i \in DOMAIN c PROVE Calculation(c[i], i) = c[i]
    <3>1. c[i] \in StoredCalc
      OBVIOUS
    <3> QED BY <3>1 DEF Calculation, Or, StoredCalc
  <2> QED BY <2>1
<1>2. c = [i \in DOMAIN c |-> c[i]]
  OBVIOUS
<1> QED BY <1>1, <1>2

(* Ranges of a sequence that is not empty.                                  *)
LEMMA RangesOfSequence ==
  ASSUME NEW inputs, NEW n \in Nat \ {0}, DOMAIN inputs = 1..n, NEW ids,
         \A i \in 1..n : inputs[i].min \in Nat /\ inputs[i].max \in Bound /\ Or(inputs[i].calc, ids[i]) \in Nat
  PROVE  Ranges(inputs, ids) \in Seq(StoredRange) /\ Ranges(inputs, ids) # <<>>
<1>1. IsFiniteSet(DOMAIN inputs) /\ Cardinality(DOMAIN inputs) = n /\ DOMAIN inputs \subseteq Nat
  BY FS_Interval
<1>2. Ranges(inputs, ids) \in [1..n -> StoredRange]
  BY <1>1, RangesBuilt
<1> QED BY <1>2, SequenceOf

ChargeInputs(raw, condition) ==
  IF raw.ranges # <<>> THEN raw.ranges
  ELSE <<[min |-> condition.min, max |-> condition.max, calc |-> 0, rule |-> raw.rule]>>

LEMMA ChargeInputsAre ==
  ASSUME NEW raw \in SideInput, NEW condition \in ConditionIn, NEW inputs, inputs = ChargeInputs(raw, condition)
  PROVE  /\ Len(inputs) \in Nat \ {0} /\ DOMAIN inputs = 1..Len(inputs)
         /\ \A i \in 1..Len(inputs) : /\ inputs[i].min \in Nat /\ inputs[i].max \in Bound
                                       /\ inputs[i].calc \in Nat /\ inputs[i].rule \in AmountRule
<1>1. raw.ranges \in Seq(RawRangeIn) /\ raw.rule \in AmountRule
  BY DEF SideInput, RawRangeIn
<1>2. CASE raw.ranges # <<>>
  <2>1. inputs = raw.ranges
    BY <1>2 DEF ChargeInputs
  <2>2. \A i \in 1..Len(inputs) : inputs[i] \in RawRangeIn
    BY <1>1, <2>1
  <2> QED BY <1>1, <1>2, <2>1, <2>2 DEF RawRangeIn
<1>3. CASE raw.ranges = <<>>
  <2> DEFINE one == [min |-> condition.min, max |-> condition.max, calc |-> 0, rule |-> raw.rule]
  <2>1. inputs = <<one>>
    BY <1>3 DEF ChargeInputs
  <2>2. one.min \in Nat /\ one.max \in Bound /\ one.calc \in Nat /\ one.rule \in AmountRule
    BY <1>1 DEF ConditionIn
  <2> HIDE DEF one
  <2>3. Len(inputs) = 1 /\ DOMAIN inputs = 1..1 /\ inputs[1] = one
    BY <2>1
  <2> QED BY <2>2, <2>3
<1> QED BY <1>2, <1>3

ChargeCalcs(raw, inputs) ==
  CASE raw.calcs # <<>> -> [i \in DOMAIN raw.calcs |-> Calculation(raw.calcs[i], i)]
    [] raw.calcs = <<>> /\ raw.mode = "FLEXIBLE" -> [i \in DOMAIN inputs |-> [id |-> 10 + i, rule |-> inputs[i].rule]]
    [] OTHER -> <<[id |-> 20, rule |-> raw.rule]>>

LEMMA ChargeCalcsAre ==
  ASSUME NEW raw \in SideInput, NEW inputs, Len(inputs) \in Nat \ {0}, DOMAIN inputs = 1..Len(inputs),
         \A i \in 1..Len(inputs) : inputs[i].rule \in AmountRule
  PROVE  ChargeCalcs(raw, inputs) \in Seq(StoredCalc) /\ ChargeCalcs(raw, inputs) # <<>>
<1>1. raw.calcs \in Seq(RawCalcIn) /\ raw.rule \in AmountRule
  BY DEF SideInput, RawCalcIn
<1>2. CASE raw.calcs # <<>>
  BY <1>1, <1>2, CalculationsOf DEF ChargeCalcs
<1>3. CASE raw.calcs = <<>> /\ raw.mode = "FLEXIBLE"
  <2> DEFINE made == [i \in DOMAIN inputs |-> [id |-> 10 + i, rule |-> inputs[i].rule]]
  <2>1. made \in [1..Len(inputs) -> StoredCalc]
    BY DEF StoredCalc
  <2>2. ChargeCalcs(raw, inputs) = made
    BY <1>3 DEF ChargeCalcs
  <2> HIDE DEF made
  <2> QED BY <2>1, <2>2, SequenceOf
<1>4. CASE raw.calcs = <<>> /\ raw.mode # "FLEXIBLE"
  <2>1. ChargeCalcs(raw, inputs) = <<[id |-> 20, rule |-> raw.rule]>>
    BY <1>4 DEF ChargeCalcs
  <2>2. [id |-> 20, rule |-> raw.rule] \in StoredCalc
    BY <1>1 DEF StoredCalc
  <2> QED BY <2>1, <2>2
<1> QED BY <1>2, <1>3, <1>4

ChargeOwn(inputs, calcs) == [i \in DOMAIN inputs |-> calcs[IF i < Len(calcs) THEN i ELSE Len(calcs)].id]

LEMMA ChargeIs ==
  ASSUME NEW raw, NEW condition, NEW inputs, inputs = ChargeInputs(raw, condition),
         NEW calcs, calcs = ChargeCalcs(raw, inputs)
  PROVE  Charge(raw, condition) =
           [enabled |-> raw.enabled, mode |-> raw.mode, party |-> raw.party, rule |-> raw.rule,
            calcs |-> calcs, default |-> Or(raw.default, calcs[1].id),
            ranges |-> IF raw.mode = "FLEXIBLE" THEN Ranges(inputs, ChargeOwn(inputs, calcs)) ELSE <<>>]
BY DEF Charge, ChargeInputs, ChargeCalcs, ChargeOwn

(* What the service makes of a side has the stored form.                    *)
LEMMA SideMade ==
  ASSUME NEW raw \in SideInput, NEW calcs \in Seq(StoredCalc), calcs # <<>>, NEW ranges,
         IF raw.mode = "FLEXIBLE" THEN ranges \in Seq(StoredRange) /\ ranges # <<>> ELSE ranges = <<>>,
         NEW d, d = [enabled |-> raw.enabled, mode |-> raw.mode, party |-> raw.party, rule |-> raw.rule,
                     calcs |-> calcs, default |-> Or(raw.default, calcs[1].id), ranges |-> ranges]
  PROVE  StoredSide(d)
<1>1. /\ raw.enabled \in BOOLEAN /\ raw.mode \in {"FIXED", "FLEXIBLE"} /\ raw.party \in {"S", "D"}
      /\ raw.rule \in AmountRule /\ raw.default \in Nat
  BY DEF SideInput
<1>2. calcs[1].id \in Nat \ {0}
  <2>1. calcs[1] \in StoredCalc
    OBVIOUS
  <2> QED BY <2>1 DEF StoredCalc
<1>3. Or(raw.default, calcs[1].id) \in Nat \ {0}
  BY <1>1, <1>2 DEF Or
<1>4. ranges \in Seq(StoredRange)
  <2>1. <<>> \in Seq(StoredRange)
    OBVIOUS
  <2> QED BY <2>1
<1> HIDE DEF SideInput
<1>5. d.calcs = calcs /\ d.mode = raw.mode /\ d.ranges = ranges
  OBVIOUS
<1>6. d \in [enabled : BOOLEAN, mode : {"FIXED", "FLEXIBLE"}, party : {"S", "D"}, rule : AmountRule,
             calcs : Seq(StoredCalc), default : Nat \ {0}, ranges : Seq(StoredRange)]
  BY <1>1, <1>3, <1>4
<1> QED BY <1>1, <1>5, <1>6 DEF StoredSide

LEMMA ChargeMade ==
  ASSUME NEW raw \in SideInput, NEW condition \in ConditionIn
  PROVE  StoredSide(Charge(raw, condition))
<1> DEFINE inputs == ChargeInputs(raw, condition)
           calcs == ChargeCalcs(raw, inputs)
           ids == ChargeOwn(inputs, calcs)
           ranges == IF raw.mode = "FLEXIBLE" THEN Ranges(inputs, ids) ELSE <<>>
<1>1. /\ Len(inputs) \in Nat \ {0} /\ DOMAIN inputs = 1..Len(inputs)
      /\ \A i \in 1..Len(inputs) : /\ inputs[i].min \in Nat /\ inputs[i].max \in Bound
                                    /\ inputs[i].calc \in Nat /\ inputs[i].rule \in AmountRule
  BY ChargeInputsAre
<1> HIDE DEF inputs
<1>2. calcs \in Seq(StoredCalc) /\ calcs # <<>>
  BY <1>1, ChargeCalcsAre
<1> HIDE DEF calcs
<1>3. ASSUME NEW i \in 1..Len(inputs) PROVE Or(inputs[i].calc, ids[i]) \in Nat
  <2>1. ids[i] = calcs[IF i < Len(calcs) THEN i ELSE Len(calcs)].id
    BY <1>1 DEF ChargeOwn
  <2>2. (IF i < Len(calcs) THEN i ELSE Len(calcs)) \in 1..Len(calcs)
    BY <1>1, <1>2
  <2>3. ASSUME NEW k \in 1..Len(calcs) PROVE calcs[k].id \in Nat
    <3>1. calcs[k] \in StoredCalc
      BY <1>2
    <3> QED BY <3>1 DEF StoredCalc
  <2>4. ids[i] \in Nat
    BY <2>1, <2>2, <2>3
  <2> QED BY <2>4, <1>1 DEF Or
<1> HIDE DEF ids
<1>4. Ranges(inputs, ids) \in Seq(StoredRange) /\ Ranges(inputs, ids) # <<>>
  <2> DEFINE n == Len(inputs)
  <2>1. n \in Nat \ {0} /\ DOMAIN inputs = 1..n
    BY <1>1
  <2>2. \A i \in 1..n : inputs[i].min \in Nat /\ inputs[i].max \in Bound /\ Or(inputs[i].calc, ids[i]) \in Nat
    BY <1>1, <1>3
  <2> HIDE DEF n
  <2> QED BY <2>1, <2>2, RangesOfSequence
<1>5. Charge(raw, condition) =
        [enabled |-> raw.enabled, mode |-> raw.mode, party |-> raw.party, rule |-> raw.rule,
         calcs |-> calcs, default |-> Or(raw.default, calcs[1].id), ranges |-> ranges]
  BY ChargeIs DEF inputs, calcs, ids
<1>6. IF raw.mode = "FLEXIBLE" THEN ranges \in Seq(StoredRange) /\ ranges # <<>> ELSE ranges = <<>>
  BY <1>4
<1> HIDE DEF ranges
<1> QED BY <1>2, <1>5, <1>6, SideMade

CommissionCalcs(raw) ==
  IF raw.calcs # <<>> THEN [i \in DOMAIN raw.calcs |-> Calculation(raw.calcs[i], i)]
  ELSE <<[id |-> 20, rule |-> raw.rule]>>

Attached(chargeRanges) == {i \in DOMAIN chargeRanges : chargeRanges[i].commission # 0}

CommissionInputs(raw, chargeRanges, condition, default) ==
  CASE raw.ranges # <<>> -> raw.ranges
    [] raw.ranges = <<>> /\ Attached(chargeRanges) # {} ->
         [i \in Attached(chargeRanges) |-> [min |-> chargeRanges[i].min, max |-> chargeRanges[i].max,
                                            calc |-> chargeRanges[i].commission]]
    [] OTHER -> <<[min |-> condition.min, max |-> condition.max, calc |-> default]>>

LEMMA CommissionIs ==
  ASSUME NEW raw, NEW chargeRanges, NEW condition, NEW calcs, calcs = CommissionCalcs(raw),
         NEW default, default = Or(raw.default, calcs[1].id),
         NEW inputs, inputs = CommissionInputs(raw, chargeRanges, condition, default)
  PROVE  Commission(raw, chargeRanges, condition) =
           [enabled |-> raw.enabled, mode |-> raw.mode, party |-> raw.party, rule |-> raw.rule,
            calcs |-> calcs, default |-> default,
            ranges |-> IF raw.mode = "FLEXIBLE" THEN Ranges(inputs, [i \in DOMAIN inputs |-> default]) ELSE <<>>]
BY DEF Commission, CommissionCalcs, CommissionInputs, Attached

LEMMA CommissionCalcsAre ==
  ASSUME NEW raw \in SideInput
  PROVE  CommissionCalcs(raw) \in Seq(StoredCalc) /\ CommissionCalcs(raw) # <<>>
<1>1. raw.calcs \in Seq(RawCalcIn) /\ raw.rule \in AmountRule
  BY DEF SideInput, RawCalcIn
<1>2. CASE raw.calcs # <<>>
  BY <1>1, <1>2, CalculationsOf DEF CommissionCalcs
<1>3. CASE raw.calcs = <<>>
  <2>1. CommissionCalcs(raw) = <<[id |-> 20, rule |-> raw.rule]>>
    BY <1>3 DEF CommissionCalcs
  <2>2. [id |-> 20, rule |-> raw.rule] \in StoredCalc
    BY <1>1 DEF StoredCalc
  <2> QED BY <2>1, <2>2
<1> QED BY <1>2, <1>3

LEMMA CommissionInputsAre ==
  ASSUME NEW raw \in SideInput, NEW chargeRanges \in Seq(RawRangeIn), NEW condition \in ConditionIn,
         NEW default \in Nat, NEW inputs, inputs = CommissionInputs(raw, chargeRanges, condition, default)
  PROVE  /\ DOMAIN inputs \subseteq Nat /\ IsFiniteSet(DOMAIN inputs) /\ DOMAIN inputs # {}
         /\ \A i \in DOMAIN inputs : inputs[i].min \in Nat /\ inputs[i].max \in Bound /\ inputs[i].calc \in Nat
<1>1. raw.ranges \in Seq(RawRangeIn)
  BY DEF SideInput, RawRangeIn
<1>2. CASE raw.ranges # <<>>
  <2>1. inputs = raw.ranges
    BY <1>2 DEF CommissionInputs
  <2>2. Len(inputs) \in Nat \ {0} /\ DOMAIN inputs = 1..Len(inputs)
    BY <1>1, <1>2, <2>1
  <2>3. ASSUME NEW i \in DOMAIN inputs
        PROVE  inputs[i].min \in Nat /\ inputs[i].max \in Bound /\ inputs[i].calc \in Nat
    <3>1. inputs[i] \in RawRangeIn
      BY <1>1, <2>1, <2>2
    <3> QED BY <3>1 DEF RawRangeIn
  <2>4. IsFiniteSet(DOMAIN inputs)
    BY <2>2, UpToFinite
  <2>5. 1 \in DOMAIN inputs
    BY <2>2
  <2> QED BY <2>2, <2>3, <2>4, <2>5
<1>3. CASE raw.ranges = <<>> /\ Attached(chargeRanges) # {}
  <2>1. inputs = [i \in Attached(chargeRanges) |-> [min |-> chargeRanges[i].min, max |-> chargeRanges[i].max,
                                                   calc |-> chargeRanges[i].commission]]
    BY <1>3 DEF CommissionInputs
  <2>2. DOMAIN inputs = Attached(chargeRanges) /\ Attached(chargeRanges) \subseteq 1..Len(chargeRanges)
        /\ Len(chargeRanges) \in Nat
    BY <2>1 DEF Attached
  <2>3. IsFiniteSet(DOMAIN inputs)
    <3>1. IsFiniteSet(1..Len(chargeRanges))
      BY <2>2, UpToFinite
    <3> QED BY <2>2, <3>1, FS_Subset
  <2>4. ASSUME NEW i \in DOMAIN inputs
        PROVE  inputs[i].min \in Nat /\ inputs[i].max \in Bound /\ inputs[i].calc \in Nat
    <3>1. i \in Attached(chargeRanges) /\ chargeRanges[i] \in RawRangeIn
      BY <2>2
    <3> QED BY <2>1, <3>1 DEF RawRangeIn
  <2> QED BY <1>3, <2>2, <2>3, <2>4
<1>4. CASE raw.ranges = <<>> /\ Attached(chargeRanges) = {}
  <2> DEFINE one == [min |-> condition.min, max |-> condition.max, calc |-> default]
  <2>1. inputs = <<one>>
    BY <1>4 DEF CommissionInputs
  <2>2. one.min \in Nat /\ one.max \in Bound /\ one.calc \in Nat
    BY DEF ConditionIn
  <2> HIDE DEF one
  <2>3. DOMAIN inputs = 1..1 /\ inputs[1] = one
    BY <2>1
  <2>4. IsFiniteSet(DOMAIN inputs)
    <3>1. IsFiniteSet(1..1)
      BY UpToFinite
    <3> QED BY <2>3, <3>1
  <2> QED BY <2>2, <2>3, <2>4
<1> QED BY <1>2, <1>3, <1>4

LEMMA CommissionMade ==
  ASSUME NEW raw \in SideInput, NEW chargeRanges \in Seq(RawRangeIn), NEW condition \in ConditionIn
  PROVE  StoredSide(Commission(raw, chargeRanges, condition))
<1> DEFINE calcs == CommissionCalcs(raw)
           default == Or(raw.default, calcs[1].id)
           inputs == CommissionInputs(raw, chargeRanges, condition, default)
           ids == [i \in DOMAIN inputs |-> default]
           ranges == IF raw.mode = "FLEXIBLE" THEN Ranges(inputs, ids) ELSE <<>>
           n == Cardinality(DOMAIN inputs)
<1>1. calcs \in Seq(StoredCalc) /\ calcs # <<>>
  BY CommissionCalcsAre
<1> HIDE DEF calcs
<1>2. default \in Nat
  <2>1. raw.default \in Nat
    BY DEF SideInput
  <2>2. calcs[1] \in StoredCalc
    BY <1>1
  <2> QED BY <2>1, <2>2 DEF Or, StoredCalc
<1> HIDE DEF default
<1>3. /\ DOMAIN inputs \subseteq Nat /\ IsFiniteSet(DOMAIN inputs) /\ DOMAIN inputs # {}
      /\ \A i \in DOMAIN inputs : inputs[i].min \in Nat /\ inputs[i].max \in Bound /\ inputs[i].calc \in Nat
  BY <1>2, CommissionInputsAre
<1> HIDE DEF inputs
<1>4. \A i \in DOMAIN inputs : Or(inputs[i].calc, ids[i]) \in Nat
  BY <1>2, <1>3 DEF Or
<1> HIDE DEF ids
<1>5. n \in Nat /\ n # 0 /\ Ranges(inputs, ids) \in [1..n -> StoredRange]
  BY <1>3, <1>4, RangesBuilt, FS_EmptySet
<1>6. Ranges(inputs, ids) \in Seq(StoredRange) /\ Ranges(inputs, ids) # <<>>
  <2> HIDE DEF n
  <2> QED BY <1>5, SequenceOf
<1>7. Commission(raw, chargeRanges, condition) =
        [enabled |-> raw.enabled, mode |-> raw.mode, party |-> raw.party, rule |-> raw.rule,
         calcs |-> calcs, default |-> Or(raw.default, calcs[1].id), ranges |-> ranges]
  BY CommissionIs DEF inputs, calcs, default, ids
<1>8. IF raw.mode = "FLEXIBLE" THEN ranges \in Seq(StoredRange) /\ ranges # <<>> ELSE ranges = <<>>
  BY <1>6
<1> HIDE DEF ranges
<1> QED BY <1>1, <1>7, <1>8, SideMade

-----------------------------------------------------------------------------
(* What was stored and is accepted is read as it is.                        *)
LEMMA StoredParts ==
  ASSUME NEW d, StoredSide(d)
  PROVE  /\ d.enabled \in BOOLEAN /\ d.mode \in {"FIXED", "FLEXIBLE"} /\ d.party \in {"S", "D"}
         /\ d.calcs \in Seq(StoredCalc) /\ d.calcs # <<>> /\ d.default # 0 /\ d.ranges \in Seq(StoredRange)
         /\ d = [enabled |-> d.enabled, mode |-> d.mode, party |-> d.party, rule |-> d.rule,
                 calcs |-> d.calcs, default |-> d.default, ranges |-> d.ranges]
<1> DEFINE Shape == [enabled : BOOLEAN, mode : {"FIXED", "FLEXIBLE"}, party : {"S", "D"}, rule : AmountRule,
                     calcs : Seq(StoredCalc), default : Nat \ {0}, ranges : Seq(StoredRange)]
<1>1. d \in Shape /\ d.calcs # <<>>
  BY DEF StoredSide
<1> HIDE DEF StoredSide
<1> QED BY <1>1

LEMMA AcceptedIncreases ==
  ASSUME NEW d, StoredSide(d), SideOK(d)
  PROVE  /\ Len(d.ranges) \in Nat /\ d.ranges \in [1..Len(d.ranges) -> StoredRange]
         /\ Increases(d.ranges, Len(d.ranges)) /\ \A i \in 1..Len(d.ranges) : d.ranges[i].calc # 0
<1>1. d.ranges \in Seq(StoredRange) /\ d.calcs \in Seq(StoredCalc)
  BY StoredParts
<1>2. Len(d.ranges) \in Nat /\ d.ranges \in [1..Len(d.ranges) -> StoredRange] /\ DOMAIN d.ranges = 1..Len(d.ranges)
  BY <1>1
<1>3. /\ Disjoint(d.ranges) /\ \A i \in DOMAIN d.ranges : d.ranges[i].calc \in Ids(d.calcs)
      /\ \A i \in DOMAIN d.ranges : d.ranges[i].max = Undefined \/ d.ranges[i].max >= d.ranges[i].min
  BY DEF SideOK
<1>4. 0 \notin Ids(d.calcs)
  <2>1. ASSUME NEW k \in DOMAIN d.calcs PROVE d.calcs[k].id # 0
    <3>1. d.calcs[k] \in StoredCalc
      BY <1>1
    <3> QED BY <3>1 DEF StoredCalc
  <2> QED BY <2>1 DEF Ids
<1>5. Increases(d.ranges, Len(d.ranges))
  BY <1>2, <1>3, DisjointIncreases
<1> QED BY <1>2, <1>3, <1>4, <1>5

LEMMA ChargeStays ==
  ASSUME NEW d, StoredSide(d), SideOK(d), NEW condition
  PROVE  Charge(d, condition) = d
<1> DEFINE inputs == ChargeInputs(d, condition)
           calcs == ChargeCalcs(d, inputs)
           ids == ChargeOwn(inputs, calcs)
<1>1. Charge(d, condition) =
        [enabled |-> d.enabled, mode |-> d.mode, party |-> d.party, rule |-> d.rule,
         calcs |-> calcs, default |-> Or(d.default, calcs[1].id),
         ranges |-> IF d.mode = "FLEXIBLE" THEN Ranges(inputs, ids) ELSE <<>>]
  BY ChargeIs
<1>2. calcs = d.calcs
  BY StoredParts, CalculationsStay DEF ChargeCalcs
<1>3. Or(d.default, calcs[1].id) = d.default
  BY StoredParts DEF Or
<1>4. (IF d.mode = "FLEXIBLE" THEN Ranges(inputs, ids) ELSE <<>>) = d.ranges
  <2>1. CASE d.mode = "FLEXIBLE"
    <3>1. inputs = d.ranges
      BY <2>1 DEF ChargeInputs, StoredSide
    <3> HIDE DEF ids
    <3>2. Ranges(d.ranges, ids) = d.ranges
      BY AcceptedIncreases, RangesStay
    <3> QED BY <2>1, <3>1, <3>2
  <2>2. CASE d.mode # "FLEXIBLE"
    <3>1. d.mode = "FIXED" /\ d.ranges = <<>>
      BY <2>2, StoredParts DEF StoredSide
    <3> QED BY <2>2, <3>1
  <2> QED BY <2>1, <2>2
<1> HIDE DEF inputs, calcs, ids
<1> QED BY <1>1, <1>2, <1>3, <1>4, StoredParts

LEMMA CommissionStays ==
  ASSUME NEW d, StoredSide(d), SideOK(d), NEW chargeRanges, NEW condition
  PROVE  Commission(d, chargeRanges, condition) = d
<1> DEFINE calcs == CommissionCalcs(d)
           default == Or(d.default, calcs[1].id)
           inputs == CommissionInputs(d, chargeRanges, condition, default)
           ids == [i \in DOMAIN inputs |-> default]
<1>1. Commission(d, chargeRanges, condition) =
        [enabled |-> d.enabled, mode |-> d.mode, party |-> d.party, rule |-> d.rule,
         calcs |-> calcs, default |-> default,
         ranges |-> IF d.mode = "FLEXIBLE" THEN Ranges(inputs, ids) ELSE <<>>]
  BY CommissionIs
<1>2. calcs = d.calcs
  BY StoredParts, CalculationsStay DEF CommissionCalcs
<1>3. default = d.default
  BY StoredParts DEF Or
<1>4. (IF d.mode = "FLEXIBLE" THEN Ranges(inputs, ids) ELSE <<>>) = d.ranges
  <2>1. CASE d.mode = "FLEXIBLE"
    <3>1. inputs = d.ranges
      BY <2>1 DEF CommissionInputs, StoredSide
    <3> HIDE DEF ids
    <3>2. Ranges(d.ranges, ids) = d.ranges
      BY AcceptedIncreases, RangesStay
    <3> QED BY <2>1, <3>1, <3>2
  <2>2. CASE d.mode # "FLEXIBLE"
    <3>1. d.mode = "FIXED" /\ d.ranges = <<>>
      BY <2>2, StoredParts DEF StoredSide
    <3> QED BY <2>2, <3>1
  <2> QED BY <2>1, <2>2
<1> HIDE DEF inputs, calcs, ids, default
<1> QED BY <1>1, <1>2, <1>3, <1>4, StoredParts

-----------------------------------------------------------------------------
(* The definition in the table, and the answers computed from it.           *)
StoredDefinition(d) ==
  /\ d = [condition |-> d.condition, charge |-> d.charge, commission |-> d.commission]
  /\ StoredSide(d.charge) /\ StoredSide(d.commission)

PricingInv ==
  /\ pricingState = "raw" => definition \in RawPricing
  /\ pricingState = "stored" => StoredDefinition(definition) /\ DefinitionOK(definition)
  /\ pricingState \in {"raw", "stored", "refused"}
  /\ quote # NoQuote => quote.debit - quote.credit = quote.charge /\ {quote.charge, quote.commission} \subseteq Nat

LEMMA DefinitionMade ==
  ASSUME NEW raw \in RawPricing
  PROVE  StoredDefinition(Validated(raw))
<1>1. raw \in [condition : [min : Nat, max : Bound], charge : SideInput, commission : SideInput]
  BY PricingAssumption
<1>2. raw.condition \in ConditionIn /\ raw.charge \in SideInput /\ raw.commission \in SideInput
  BY <1>1 DEF ConditionIn
<1>3. raw.charge.ranges \in Seq(RawRangeIn)
  BY <1>2 DEF SideInput, RawRangeIn
<1>4. StoredSide(Charge(raw.charge, raw.condition))
  BY <1>2, ChargeMade
<1>5. StoredSide(Commission(raw.commission, raw.charge.ranges, raw.condition))
  BY <1>2, <1>3, CommissionMade
<1> QED BY <1>4, <1>5 DEF StoredDefinition, Validated

LEMMA DefinitionStays ==
  ASSUME NEW d, StoredDefinition(d), DefinitionOK(d)
  PROVE  Validated(d) = d
<1>1. SideOK(d.charge) /\ SideOK(d.commission)
  BY DEF DefinitionOK
<1>2. Charge(d.charge, d.condition) = d.charge
  BY <1>1, ChargeStays DEF StoredDefinition
<1>3. Commission(d.commission, d.charge.ranges, d.condition) = d.commission
  BY <1>1, CommissionStays DEF StoredDefinition
<1> QED BY <1>2, <1>3 DEF Validated, StoredDefinition

LEMMA OneMatch ==
  ASSUME NEW d, StoredSide(d), SideOK(d), NEW amount \in Nat,
         NEW i \in Matching(d, amount), NEW j \in Matching(d, amount)
  PROVE  i = j
<1> DEFINE n == Len(d.ranges)
           r == d.ranges
<1>1. n \in Nat /\ r \in [1..n -> StoredRange] /\ Increases(r, n)
  BY AcceptedIncreases
<1>2. i \in 1..n /\ j \in 1..n /\ Within(r[i], amount) /\ Within(r[j], amount)
  BY <1>1 DEF Matching
<1> HIDE DEF n, r
<1>3. ASSUME NEW k \in 1..n, NEW l \in 1..n, Within(r[k], amount), Within(r[l], amount) PROVE ~(k < l)
  <2>1. r[k] \in StoredRange /\ r[l] \in StoredRange
    BY <1>1
  <2>2. k < l => r[k].max # Undefined /\ r[k].max < r[l].min
    BY <1>1 DEF Increases
  <2>3. r[k].max \in Bound /\ r[l].min \in Nat
    BY <2>1 DEF StoredRange
  <2> QED BY <2>2, <2>3, <1>3 DEF Within, Bound, Undefined
<1> QED BY <1>1, <1>2, <1>3

LEMMA AmountIsNumber ==
  ASSUME NEW side, StoredSide(side), SideOK(side), NEW amount \in Nat
  PROVE  Amount(side, amount) \in Nat
<1>1. CASE ~Applies(side, amount)
  BY <1>1 DEF Amount
<1>2. CASE Applies(side, amount)
  <2> DEFINE id == IF side.mode = "FIXED" THEN side.default
                   ELSE side.ranges[Min(Matching(side, amount))].calc
             i == CHOOSE n \in DOMAIN side.calcs : side.calcs[n].id = id
  <2>1. id \in Ids(side.calcs)
    <3>1. CASE side.mode = "FIXED"
      BY <3>1 DEF SideOK
    <3>2. CASE side.mode # "FIXED"
      <4>1. Matching(side, amount) # {}
        BY <1>2, <3>2 DEF Applies
      <4>2. Min(Matching(side, amount)) \in Matching(side, amount)
        <5>1. PICK m : m \in Matching(side, amount)
          BY <4>1
        <5>2. m \in Nat
          BY <5>1, StoredParts DEF Matching
        <5>3. \A k \in Matching(side, amount) : m <= k
          BY <5>1, <5>2, OneMatch
        <5> QED BY <5>1, <5>3 DEF Min
      <4>3. Min(Matching(side, amount)) \in DOMAIN side.ranges
        BY <4>2 DEF Matching
      <4> QED BY <3>2, <4>3 DEF SideOK
    <3> QED BY <3>1, <3>2
  <2> HIDE DEF id
  <2>2. i \in DOMAIN side.calcs
    BY <2>1 DEF Ids
  <2> HIDE DEF i
  <2>3. side.calcs[i] \in StoredCalc /\ RuleOK(side.calcs[i].rule)
    BY <2>2, StoredParts DEF SideOK
  <2> DEFINE rule == side.calcs[i].rule
  <2>4. rule \in AmountRule
    BY <2>3 DEF StoredCalc
  <2>5. Amount(side, amount) = Calculated(rule, amount)
    BY <1>2 DEF Amount, id, i
  <2> HIDE DEF rule
  <2>6. rule.value \in Nat /\ rule.minimum \in Nat \cup {Undefined} /\ rule.maximum \in Nat \cup {Undefined}
    BY <2>3, <2>4 DEF AmountRule, RuleOK, Bound, rule
  <2>7. amount * rule.value \in Nat
    BY <2>6
  <2>8. (amount * rule.value + 50) \div 100 \in Nat
    BY <2>7
  <2> QED BY <2>5, <2>6, <2>8 DEF Calculated
<1> QED BY <1>1, <1>2

LEMMA QuoteAdds ==
  ASSUME NEW d, StoredDefinition(d), DefinitionOK(d), NEW amount \in Nat
  PROVE  LET q == Simulation(d, amount)
         IN  q.debit - q.credit = q.charge /\ {q.charge, q.commission} \subseteq Nat
<1>1. StoredSide(d.charge) /\ SideOK(d.charge) /\ d.charge.party \in {"S", "D"}
  BY StoredParts DEF StoredDefinition, DefinitionOK
<1> DEFINE charge == Amount(d.charge, amount)
<1>2. charge \in Nat /\ Amount(d.commission, amount) \in Nat
  BY <1>1, AmountIsNumber DEF StoredDefinition, DefinitionOK
<1>3. /\ Simulation(d, amount).charge = charge /\ Simulation(d, amount).commission = Amount(d.commission, amount)
      /\ Simulation(d, amount).debit = (IF d.charge.party = "S" THEN amount + charge ELSE amount)
      /\ Simulation(d, amount).credit = (IF d.charge.party = "D" THEN amount - charge ELSE amount)
  BY DEF Simulation
<1> HIDE DEF charge
<1> QED BY <1>1, <1>2, <1>3

LEMMA PricingStart == PricingInit => PricingInv
BY DEF PricingInit, PricingInv

LEMMA PricingStep ==
  ASSUME PricingInv, [PricingNext]_pricingVars
  PROVE  PricingInv'
<1>1. CASE Store
  <2>1. definition \in RawPricing /\ pricingState = "raw" /\ quote' = quote
    BY <1>1 DEF Store, PricingInv
  <2>2. StoredDefinition(Validated(definition))
    BY <2>1, DefinitionMade
  <2>3. CASE DefinitionOK(Validated(definition))
    <3>1. definition' = Validated(definition) /\ pricingState' = "stored"
      BY <1>1, <2>3 DEF Store
    <3>2. StoredDefinition(definition') /\ DefinitionOK(definition')
      BY <2>2, <2>3, <3>1
    <3> QED BY <2>1, <3>1, <3>2 DEF PricingInv, NoQuote
  <2>4. CASE ~DefinitionOK(Validated(definition))
    <3>1. pricingState' = "refused"
      BY <1>1, <2>4 DEF Store
    <3> QED BY <2>1, <3>1 DEF PricingInv, NoQuote
  <2> QED BY <2>3, <2>4
<1>2. CASE Simulate
  <2>1. PICK amount \in Quoted : quote' = Simulation(Validated(definition), amount)
    BY <1>2 DEF Simulate
  <2>2. pricingState = "stored" /\ definition' = definition /\ pricingState' = pricingState
    BY <1>2 DEF Simulate
  <2>3. StoredDefinition(definition) /\ DefinitionOK(definition) /\ amount \in Nat
    BY <2>2, PricingAssumption DEF PricingInv
  <2>4. Validated(definition) = definition
    BY <2>3, DefinitionStays
  <2>5. quote'.debit - quote'.credit = quote'.charge /\ {quote'.charge, quote'.commission} \subseteq Nat
    BY <2>1, <2>3, <2>4, QuoteAdds
  <2> QED BY <2>2, <2>5 DEF PricingInv, NoQuote
<1>3. CASE UNCHANGED pricingVars
  BY <1>3 DEF PricingInv, pricingVars, NoQuote
<1> QED BY <1>1, <1>2, <1>3 DEF PricingNext

LEMMA PricingKept == PricingInv => StoredPricingSound /\ PricingTypeOK
<1> SUFFICES ASSUME PricingInv PROVE StoredPricingSound /\ PricingTypeOK
  OBVIOUS
<1>1. ASSUME pricingState = "stored"
      PROVE  /\ DefinitionOK(Validated(definition)) /\ Validated(definition) = definition
             /\ \A amount \in Quoted :
                  /\ \A i, j \in Matching(definition.charge, amount) : i = j
                  /\ \A i, j \in Matching(definition.commission, amount) : i = j
  <2>1. StoredDefinition(definition) /\ DefinitionOK(definition)
    BY <1>1 DEF PricingInv
  <2>2. Validated(definition) = definition
    BY <2>1, DefinitionStays
  <2>3. /\ StoredSide(definition.charge) /\ SideOK(definition.charge)
        /\ StoredSide(definition.commission) /\ SideOK(definition.commission)
    BY <2>1 DEF StoredDefinition, DefinitionOK
  <2>4. ASSUME NEW amount \in Quoted
        PROVE  /\ \A i, j \in Matching(definition.charge, amount) : i = j
               /\ \A i, j \in Matching(definition.commission, amount) : i = j
    <3>1. amount \in Nat
      BY PricingAssumption
    <3> QED BY <2>3, <3>1, OneMatch
  <2> QED BY <2>1, <2>2, <2>4
<1> QED BY <1>1 DEF PricingInv, StoredPricingSound, PricingTypeOK

-----------------------------------------------------------------------------
(* Charges and commissions: the recursion through expired headers has a     *)
(* solution, since it visits a header at most once.                         *)
(* The recursion of resolveCharge and resolveCommission.                    *)
FollowStep(t, f, visited) ==
  [id \in Tariff |->
     CASE \/ id \in visited \/ ~t.headers[id].approved
          \/ t.headers[id].expires = (t.headers[id].default = "none") -> "none"
       [] OTHER -> IF InForce(t, id) THEN id
                   ELSE f[visited \cup {id}][t.headers[id].default]]

Follows(f, t) == f = [visited \in SUBSET Tariff |-> FollowStep(t, f, visited)]
FollowTable(t) == CHOOSE f : Follows(f, t)

LEMMA ResolvedIsFollowed ==
  ASSUME NEW t, NEW first
  PROVE  Resolved(t, first) = FollowTable(t)[{}][first]
BY DEF Resolved, FollowTable, Follows, FollowStep

Left(visited) == Cardinality(Tariff \ visited)

LEMMA OneLessLeft ==
  ASSUME NEW visited \in SUBSET Tariff, NEW id \in Tariff, id \notin visited
  PROVE  /\ Left(visited) \in Nat /\ Left(visited \cup {id}) \in Nat
         /\ Left(visited) = Left(visited \cup {id}) + 1
<1>1. IsFiniteSet(Tariff \ visited) /\ IsFiniteSet(Tariff \ (visited \cup {id}))
  BY TariffAssumption, FS_Subset
<1>2. Tariff \ (visited \cup {id}) = (Tariff \ visited) \ {id}
  OBVIOUS
<1>3. id \in Tariff \ visited
  OBVIOUS
<1>4. Cardinality(Tariff \ (visited \cup {id})) = Cardinality(Tariff \ visited) - 1
  BY <1>1, <1>2, <1>3, FS_RemoveElement
<1>5. Cardinality(Tariff \ visited) \in Nat /\ Cardinality(Tariff \ (visited \cup {id})) \in Nat
  BY <1>1, FS_CardinalityType
<1>6. \A m, n \in Nat : n = m - 1 => m = n + 1
  OBVIOUS
<1> QED BY <1>4, <1>5, <1>6 DEF Left

(* A step of the recursion that goes on visits one header more.             *)
Passes(t, visited, id) ==
  /\ id \notin visited /\ t.headers[id].approved /\ t.headers[id].expires # (t.headers[id].default = "none")
  /\ ~InForce(t, id)

EndsAt(t, visited, id) ==
  id \in visited \/ ~t.headers[id].approved \/ t.headers[id].expires = (t.headers[id].default = "none")

LEMMA StepAt ==
  ASSUME NEW t, NEW visited, NEW id \in Tariff, NEW f
  PROVE  FollowStep(t, f, visited)[id] =
           IF EndsAt(t, visited, id) THEN "none"
           ELSE IF InForce(t, id) THEN id ELSE f[visited \cup {id}][t.headers[id].default]
BY DEF FollowStep, EndsAt

LEMMA PassIs ==
  ASSUME NEW t \in TariffTable, NEW visited, NEW id \in Tariff
  PROVE  /\ Passes(t, visited, id) <=> ~EndsAt(t, visited, id) /\ ~InForce(t, id)
         /\ ~EndsAt(t, visited, id) => t.headers[id].approved
         /\ Passes(t, visited, id) => t.headers[id].default \in Tariff
<1>1. t.headers[id] \in [approved : BOOLEAN, expires : BOOLEAN, expired : BOOLEAN, fixed : BOOLEAN,
                         default : Tariff \cup {"none"}]
  BY DEF TariffTable
<1>2. Passes(t, visited, id) <=> ~EndsAt(t, visited, id) /\ ~InForce(t, id)
  BY <1>1 DEF Passes, EndsAt
<1>3. ~EndsAt(t, visited, id) => t.headers[id].approved
  BY <1>1 DEF EndsAt
<1>4. Passes(t, visited, id) => t.headers[id].default \in Tariff
  BY <1>1 DEF Passes, InForce
<1> QED BY <1>2, <1>3, <1>4

LEMMA PassesOn ==
  ASSUME NEW t \in TariffTable, NEW visited \in SUBSET Tariff, NEW id \in Tariff, NEW f, Passes(t, visited, id)
  PROVE  /\ FollowStep(t, f, visited)[id] = f[visited \cup {id}][t.headers[id].default]
         /\ t.headers[id].default \in Tariff
<1>1. ~EndsAt(t, visited, id) /\ ~InForce(t, id) /\ t.headers[id].default \in Tariff
  BY PassIs
<1> QED BY <1>1, StepAt

LEMMA StopsAt ==
  ASSUME NEW t \in TariffTable, NEW visited \in SUBSET Tariff, NEW id \in Tariff, NEW f, ~Passes(t, visited, id),
         FollowStep(t, f, visited)[id] # "none"
  PROVE  FollowStep(t, f, visited)[id] = id /\ t.headers[id].approved /\ InForce(t, id)
<1>1. EndsAt(t, visited, id) \/ InForce(t, id)
  BY PassIs
<1>2. ~EndsAt(t, visited, id)
  BY StepAt
<1>3. t.headers[id].approved
  BY <1>2, PassIs
<1> QED BY <1>1, <1>2, <1>3, StepAt

LEMMA SameStep ==
  ASSUME NEW t \in TariffTable, NEW visited \in SUBSET Tariff, NEW f, NEW g,
         \A id \in Tariff : Passes(t, visited, id) =>
           f[visited \cup {id}][t.headers[id].default] = g[visited \cup {id}][t.headers[id].default]
  PROVE  FollowStep(t, f, visited) = FollowStep(t, g, visited)
<1>1. ASSUME NEW id \in Tariff PROVE FollowStep(t, f, visited)[id] = FollowStep(t, g, visited)[id]
  <2>1. CASE Passes(t, visited, id)
    <3>1. FollowStep(t, f, visited)[id] = f[visited \cup {id}][t.headers[id].default]
      BY <2>1, PassesOn
    <3>2. FollowStep(t, g, visited)[id] = g[visited \cup {id}][t.headers[id].default]
      BY <2>1, PassesOn
    <3> QED BY <2>1, <3>1, <3>2
  <2>2. CASE ~Passes(t, visited, id)
    <3>1. t.headers[id] \in [approved : BOOLEAN, expires : BOOLEAN, expired : BOOLEAN, fixed : BOOLEAN,
                             default : Tariff \cup {"none"}]
      BY DEF TariffTable
    <3> QED BY <2>2, <3>1 DEF Passes, FollowStep
  <2> QED BY <2>1, <2>2
<1>2. FollowStep(t, f, visited) = [id \in Tariff |-> FollowStep(t, f, visited)[id]]
  BY DEF FollowStep
<1>3. FollowStep(t, g, visited) = [id \in Tariff |-> FollowStep(t, g, visited)[id]]
  BY DEF FollowStep
<1> QED BY <1>1, <1>2, <1>3

Solves(f, t, n) == \A visited \in SUBSET Tariff : Left(visited) <= n => f[visited] = FollowStep(t, f, visited)

LEMMA LeftIsNumber == ASSUME NEW visited \in SUBSET Tariff PROVE Left(visited) \in Nat
BY TariffAssumption, FS_Subset, FS_CardinalityType DEF Left

LEMMA NoneLeft == ASSUME NEW visited \in SUBSET Tariff, Left(visited) <= 0 PROVE visited = Tariff
<1>1. Cardinality(Tariff \ visited) = 0
  BY LeftIsNumber DEF Left
<1>2. IsFiniteSet(Tariff \ visited)
  BY TariffAssumption, FS_Subset
<1>3. Tariff \ visited = {}
  BY <1>1, <1>2, FS_EmptySet
<1> QED BY <1>3

LEMMA SolvedFurther ==
  ASSUME NEW t \in TariffTable, NEW n \in Nat, NEW f, Solves(f, t, n)
  PROVE  Solves([visited \in SUBSET Tariff |-> FollowStep(t, f, visited)], t, n + 1)
<1> DEFINE g == [visited \in SUBSET Tariff |-> FollowStep(t, f, visited)]
<1>1. \A v \in SUBSET Tariff : g[v] = FollowStep(t, f, v)
  OBVIOUS
<1> HIDE DEF g
<1>2. ASSUME NEW visited \in SUBSET Tariff, Left(visited) <= n + 1
      PROVE  g[visited] = FollowStep(t, g, visited)
  <2>1. ASSUME NEW id \in Tariff, Passes(t, visited, id)
        PROVE  f[visited \cup {id}] = g[visited \cup {id}]
    <3>1. id \notin visited /\ visited \cup {id} \in SUBSET Tariff
      BY <2>1 DEF Passes
    <3>2. Left(visited \cup {id}) <= n
      BY <1>2, <3>1, OneLessLeft
    <3> QED BY <1>1, <3>1, <3>2 DEF Solves
  <2>2. FollowStep(t, f, visited) = FollowStep(t, g, visited)
    BY <2>1, SameStep
  <2> QED BY <1>1, <2>2
<1>3. Solves(g, t, n + 1)
  BY <1>2 DEF Solves
<1> QED BY <1>3 DEF g

LEMMA Solved ==
  ASSUME NEW t \in TariffTable, NEW n \in Nat
  PROVE  \E f : Solves(f, t, n)
<1> DEFINE N == {k \in Nat : \E f : Solves(f, t, k)}
<1>1. 0 \in N
  <2> DEFINE none == [visited \in SUBSET Tariff |-> [id \in Tariff |-> "none"]]
  <2>1. ASSUME NEW visited \in SUBSET Tariff, Left(visited) <= 0 PROVE none[visited] = FollowStep(t, none, visited)
    <3>1. visited = Tariff
      BY <2>1, NoneLeft
    <3> QED BY <3>1 DEF FollowStep
  <2> HIDE DEF none
  <2>2. Solves(none, t, 0)
    BY <2>1 DEF Solves
  <2> QED BY <2>2
<1>2. ASSUME NEW k \in N PROVE k + 1 \in N
  <2>1. PICK f : Solves(f, t, k)
    OBVIOUS
  <2>2. \E g : Solves(g, t, k + 1)
    BY <2>1, SolvedFurther
  <2> QED BY <2>2
<1>3. N = Nat
  <2>1. N \in SUBSET Nat
    OBVIOUS
  <2> HIDE DEF N
  <2> QED BY <1>1, <1>2, <2>1, NaturalInduction
<1> QED BY <1>3

LEMMA FollowTableSolves ==
  ASSUME NEW t \in TariffTable, NEW visited \in SUBSET Tariff
  PROVE  FollowTable(t)[visited] = FollowStep(t, FollowTable(t), visited)
<1> DEFINE n == Left({})
<1>1. n \in Nat
  BY LeftIsNumber
<1>2. ASSUME NEW v \in SUBSET Tariff PROVE Left(v) <= n
  <2>1. Tariff \ v \subseteq Tariff \ {} /\ IsFiniteSet(Tariff \ {})
    BY TariffAssumption, FS_Subset
  <2> QED BY <2>1, FS_Subset DEF Left
<1> HIDE DEF n
<1>3. PICK f : Solves(f, t, n)
  BY <1>1, Solved
<1> DEFINE g == [v \in SUBSET Tariff |-> f[v]]
<1>4. \A v \in SUBSET Tariff : g[v] = f[v]
  OBVIOUS
<1>5. ASSUME NEW v \in SUBSET Tariff PROVE g[v] = FollowStep(t, g, v)
  <2>1. f[v] = FollowStep(t, f, v)
    BY <1>2, <1>3 DEF Solves
  <2>2. ASSUME NEW id \in Tariff PROVE g[v \cup {id}] = f[v \cup {id}]
    <3>1. v \cup {id} \in SUBSET Tariff
      OBVIOUS
    <3> HIDE DEF g
    <3> QED BY <3>1, <1>4
  <2> HIDE DEF g
  <2>3. FollowStep(t, g, v) = FollowStep(t, f, v)
    BY <2>2, SameStep
  <2> QED BY <2>1, <2>3, <1>4
<1>6. g = [v \in SUBSET Tariff |-> g[v]]
  OBVIOUS
<1> HIDE DEF g
<1>7. Follows(g, t)
  BY <1>5, <1>6 DEF Follows
<1>8. Follows(FollowTable(t), t)
  BY <1>7 DEF FollowTable
<1> QED BY <1>8 DEF Follows

(* Whatever chain of headers leads to it, the header used is approved and   *)
(* in force.                                                                *)
LEMMA FollowedInForce ==
  ASSUME NEW t \in TariffTable
  PROVE  \A visited \in SUBSET Tariff, id \in Tariff :
           LET h == FollowTable(t)[visited][id] IN h # "none" => h \in Tariff /\ t.headers[h].approved /\ InForce(t, h)
<1>f. PICK f : f = FollowTable(t)
  OBVIOUS
<1> DEFINE Good(h) == h # "none" => h \in Tariff /\ t.headers[h].approved /\ InForce(t, h)
           N == {n \in Nat : \A v \in SUBSET Tariff, id \in Tariff : Left(v) <= n => Good(f[v][id])}
<1>0. \A v \in SUBSET Tariff : f[v] = FollowStep(t, f, v)
  BY <1>f, FollowTableSolves
<1>1. 0 \in N
  <2>1. ASSUME NEW v \in SUBSET Tariff, NEW id \in Tariff, Left(v) <= 0 PROVE Good(f[v][id])
    <3>1. v = Tariff
      BY <2>1, NoneLeft
    <3>2. f[v][id] = "none"
      BY <1>0, <3>1 DEF FollowStep
    <3> QED BY <3>2
  <2> HIDE DEF Good
  <2> QED BY <2>1
<1>2. ASSUME NEW n \in N PROVE n + 1 \in N
  <2>0. n \in Nat
    OBVIOUS
  <2> HIDE DEF N
  <2>1. ASSUME NEW v \in SUBSET Tariff, NEW id \in Tariff, Left(v) <= n + 1 PROVE Good(f[v][id])
    <3>1. CASE Passes(t, v, id)
      <4>1. id \notin v /\ v \cup {id} \in SUBSET Tariff /\ t.headers[id].default \in Tariff
        BY <3>1, PassesOn DEF Passes
      <4>2. Left(v \cup {id}) <= n
        BY <2>0, <2>1, <4>1, OneLessLeft
      <4>3. f[v][id] = f[v \cup {id}][t.headers[id].default]
        <5>1. FollowStep(t, f, v)[id] = f[v \cup {id}][t.headers[id].default]
          BY <3>1, PassesOn
        <5> QED BY <1>0, <5>1
      <4>4. Good(f[v \cup {id}][t.headers[id].default])
        BY <4>1, <4>2 DEF N
      <4> HIDE DEF Good
      <4> QED BY <4>3, <4>4
    <3>2. CASE ~Passes(t, v, id)
      <4>1. FollowStep(t, f, v)[id] # "none" =>
              FollowStep(t, f, v)[id] = id /\ t.headers[id].approved /\ InForce(t, id)
        <5> HIDE DEF Good
        <5> QED BY <3>2, StopsAt
      <4> QED BY <1>0, <4>1
    <3> QED BY <3>1, <3>2
  <2> HIDE DEF Good
  <2> QED BY <2>1 DEF N
<1>3. N = Nat
  <2>1. N \in SUBSET Nat
    OBVIOUS
  <2> HIDE DEF N
  <2> QED BY <1>1, <1>2, <2>1, NaturalInduction
<1>4. ASSUME NEW v \in SUBSET Tariff, NEW id \in Tariff PROVE Good(f[v][id])
  <2>1. Left(v) \in Nat
    BY LeftIsNumber
  <2>2. Left(v) \in N
    BY <1>3, <2>1
  <2> HIDE DEF Good
  <2> QED BY <2>1, <2>2
<1> QED BY <1>4, <1>f

-----------------------------------------------------------------------------
TariffInv == tables \in TariffTable /\ TariffTypeOK /\ TariffSound

LEMMA TariffStart == TariffInit => TariffInv
BY TariffAssumption DEF TariffInit, TariffInv, TariffTypeOK, TariffSound, TariffTable

LEMMA TariffStep ==
  ASSUME TariffInv, [TariffNext]_tariffVars
  PROVE  TariffInv'
<1>1. CASE UNCHANGED tariffVars
  BY <1>1 DEF tariffVars, TariffInv, TariffTypeOK, TariffSound, Unpriced
<1>2. ASSUME NEW amount \in TariffAmount, Calculate(amount) PROVE TariffInv'
  <2>1. PICK c \in Candidates(tables) :
          LET id == Resolved(tables, c.header)
          IN /\ id # "none"
             /\ \E d \in Details(tables, id, amount) :
                  Valid(tables, d) /\ Payable(tables, Answer(tables, c, id, d, amount))
                  /\ priced' = Answer(tables, c, id, d, amount)
    BY <1>2 DEF Calculate
  <2> DEFINE id == Resolved(tables, c.header)
  <2>2. PICK d \in Details(tables, id, amount) :
          Valid(tables, d) /\ Payable(tables, Answer(tables, c, id, d, amount))
          /\ priced' = Answer(tables, c, id, d, amount)
    BY <2>1
  <2>3. tables \in TariffTable /\ tables' = tables
    BY <1>2 DEF TariffInv, Calculate
  <2>4. c \in [exact : BOOLEAN, header : Tariff, party : {"S", "D"}]
    BY <2>3 DEF Candidates, TariffTable
  <2>5. tables.headers[id].approved /\ InForce(tables, id)
    <3>1. id = FollowTable(tables)[{}][c.header]
      BY ResolvedIsFollowed
    <3>2. {} \in SUBSET Tariff /\ c.header \in Tariff
      BY <2>4
    <3> QED BY <2>1, <2>3, <3>1, <3>2, FollowedInForce
  <2> HIDE DEF id
  <2> DEFINE fee == Fee(d, amount)
  <2>6. amount \in Nat
    BY TariffAssumption
  <2>7. fee \in Int /\ (tables.kind = "charge" => fee \in Nat)
    <3>1. d \in tables.details
      BY DEF Details
    <3>2. d \in [flat : BOOLEAN, start : Int, end : Int, value : Int, min : Int, max : Int]
      BY <2>3, <3>1 DEF TariffTable
    <3>3. d.value \in Int /\ d.min \in Int /\ d.max \in Int
      BY <3>2
    <3>4. amount * d.value \in Int /\ (d.value >= 0 => amount * d.value \in Nat)
      BY <2>6, <3>3
    <3>5. ASSUME NEW n \in Int PROVE Rounded(n) \in Int /\ (n \in Nat => Rounded(n) \in Nat)
      BY DEF Rounded
    <3> DEFINE share == Rounded(amount * d.value)
    <3>6. share \in Int /\ (d.value >= 0 => share \in Nat)
      BY <3>4, <3>5
    <3>7. fee = IF d.flat THEN d.value
                ELSE IF (IF share > d.max THEN d.max ELSE share) < d.min THEN d.min
                ELSE (IF share > d.max THEN d.max ELSE share)
      BY DEF Fee
    <3> HIDE DEF share, fee
    <3>8. fee \in Int
      BY <3>3, <3>6, <3>7
    <3>9. tables.kind = "charge" => d.value >= 0 /\ (d.flat \/ (d.min >= 0 /\ d.min <= d.max))
      BY <2>2 DEF Valid
    <3>10. ASSUME tables.kind = "charge" PROVE fee \in Nat
      BY <3>3, <3>6, <3>7, <3>9, <3>10
    <3> QED BY <3>8, <3>10
  <2>8. /\ priced'.header = id /\ priced'.fee = fee
        /\ priced'.debit = (IF tables.kind = "charge" /\ c.party = "S" THEN amount + fee ELSE amount)
        /\ priced'.credit = (IF tables.kind = "charge" /\ c.party = "D" THEN amount - fee ELSE amount)
    BY <2>2 DEF Answer
  <2>9. priced'.credit >= 0
    BY <2>2 DEF Payable
  <2> HIDE DEF fee
  <2>10. tables.kind = "charge" => priced'.debit - priced'.credit = priced'.fee
    BY <2>4, <2>6, <2>7, <2>8
  <2>11. TariffSound'
    BY <2>3, <2>5, <2>8, <2>9, <2>10 DEF TariffSound, InForce
  <2>12. TariffTypeOK'
    BY <2>3, <2>6, <2>7, <2>8 DEF TariffTypeOK
  <2> QED BY <2>3, <2>11, <2>12 DEF TariffInv
<1> QED BY <1>1, <1>2 DEF TariffNext

LEMMA TariffKept == TariffInv => TariffSound /\ TariffTypeOK
BY DEF TariffInv
=============================================================================
