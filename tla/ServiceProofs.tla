---------------------------- MODULE ServiceProofs ----------------------------
(***************************************************************************)
(* The services around the payment path: the properties the run of Services*)
(* checks of them, as theorems of its specification.  A step of Services is*)
(* a step of one service, and a stutter of every other, so that what each  *)
(* service's own proofs keep is kept by all of them together.              *)
(***************************************************************************)
EXTENDS Services, BackOfficeProofs, ReviewProofs, ConsoleProofs, StudioProofs, TLAPS

(* Every service takes a step of its own or stands still.                   *)
LEMMA OneMoves ==
  ASSUME [ServicesNext]_servicesVars
  PROVE  /\ [EodNext]_eodVars /\ [AccountingNext]_accountingVars /\ [TreasuryNext]_treasuryVars
         /\ [RefNext]_refVars /\ [IntegrationNext]_integrationVars /\ [PricingNext]_pricingVars
         /\ [FlowNext]_flowVars /\ [ChargeNext]_chargeVars /\ [TariffNext]_tariffVars
         /\ [AdminNext]_adminVars /\ [MfaNext]_mfaVars /\ [CustomerNext]_customerVars
         /\ [SanctionsNext]_sanctionsVars /\ [ConfigNext]_configVars /\ [GraphNext]_graphVars
         /\ [JourneyNext]_journeyVars /\ [CreditRuleNext]_creditRuleVars /\ [CommercialNext]_commercialVars
         /\ [CreditDecisionNext]_creditVars /\ [ConsoleNext]_consoleVars /\ [WorkspaceNext]_workspaceVars
         /\ [StudioNext]_studioVars /\ UNCHANGED focus
<1>1. CASE UNCHANGED servicesVars
  BY <1>1 DEF servicesVars
<1>2. CASE ServicesNext
  BY <1>2 DEF ServicesNext, Others
<1> QED
  BY <1>1, <1>2

LEMMA AllBegin ==
  ASSUME ServicesInit
  PROVE  /\ EodInit /\ AccountingInit /\ TreasuryInit /\ RefInit /\ IntegrationInit /\ PricingInit /\ FlowInit
         /\ ChargeInit /\ TariffInit /\ AdminInit /\ MfaInit /\ CustomerInit /\ SanctionsInit /\ ConfigInit
         /\ GraphInit /\ JourneyInit /\ CreditRuleInit /\ CommercialInit /\ CreditDecisionInit /\ ConsoleInit
         /\ WorkspaceInit /\ StudioInit /\ focus \in Service
BY DEF ServicesInit

(* AccountingSound: a day of a currency is closed by one run, with every    *)
(* journal of the day in its snapshot, and from the first effective date on *)
(* every date has one accounting configuration.                             *)
THEOREM AccountingAlwaysSound == ServicesSpec => []AccountingSound
<1>1. ServicesInit => EodInv /\ AccountingInv
  BY AllBegin, EodStart, AccountingStart
<1>2. EodInv /\ AccountingInv /\ [ServicesNext]_servicesVars => (EodInv /\ AccountingInv)'
  BY OneMoves, EodStep, AccountingStep
<1>3. EodInv /\ AccountingInv => AccountingSound
  BY AccountingKept DEF EodInv, AccountingSound
<1> QED
  BY <1>1, <1>2, <1>3, PTL DEF ServicesSpec

(* TreasurySound: every system wallet holds its opening, what transactions  *)
(* moved and each approved movement once, nobody approves their own, and    *)
(* the evidence of a movement stays.                                        *)
THEOREM TreasuryAlwaysSound == ServicesSpec => []TreasurySound
<1>1. ServicesInit => TreasuryInv
  BY AllBegin, TreasuryStart
<1>2. TreasuryInv /\ [ServicesNext]_servicesVars => TreasuryInv'
  BY OneMoves, TreasuryStep
<1>3. TreasuryInv => TreasurySound
  BY TreasuryKept DEF TreasurySound
<1> QED
  BY <1>1, <1>2, <1>3, PTL DEF ServicesSpec

(* AdminsSound: a super administrator who is not disabled remains, and a    *)
(* token that claims the role belongs to one who has it.                    *)
THEOREM AdminsAlwaysSound == ServicesSpec => []AdminsSound
<1>1. ServicesInit => AdminInv
  BY AllBegin, AdminStart
<1>2. AdminInv /\ [ServicesNext]_servicesVars => AdminInv'
  BY OneMoves, AdminStep
<1>3. AdminInv => AdminsSound
  BY AdminKept DEF AdminsSound
<1> QED
  BY <1>1, <1>2, <1>3, PTL DEF ServicesSpec

(* CustomersSound: a customer with wallets has one main wallet and it can   *)
(* be used, the profile agrees with the identity cases, and the sanctions   *)
(* lists customers are screened against are whole.                          *)
THEOREM CustomersAlwaysSound == ServicesSpec => []CustomersSound
<1>1. ServicesInit => CustomerInv /\ ListsInv
  BY AllBegin, CustomerStart, ListsStart
<1>2. CustomerInv /\ ListsInv /\ [ServicesNext]_servicesVars => (CustomerInv /\ ListsInv)'
  BY OneMoves, CustomerStep, ListsStep
<1>3. CustomerInv /\ ListsInv => CustomersSound
  BY CustomerKept DEF ListsInv, CustomersSound
<1> QED
  BY <1>1, <1>2, <1>3, PTL DEF ServicesSpec

(* CreditSound: policies and commercial terms in force were reviewed as     *)
(* they are, and no decision grants more than its policy allows, whichever  *)
(* management calls and reviews overlap.                                    *)
THEOREM CreditAlwaysSound == ServicesSpec => []CreditSound
<1>1. ServicesInit => RuleInv /\ CommercialInv /\ CreditInv
  BY AllBegin, RuleStart, CommercialStart, CreditStart
<1>2. RuleInv /\ CommercialInv /\ CreditInv /\ [ServicesNext]_servicesVars => (RuleInv /\ CommercialInv /\ CreditInv)'
  BY OneMoves, RuleStep, CommercialStep, CreditStep
<1>3. RuleInv /\ CommercialInv /\ CreditInv => CreditSound
  BY RuleKept, CommercialKept, CreditKept DEF CreditSound
<1> QED
  BY <1>1, <1>2, <1>3, PTL DEF ServicesSpec

(* JourneysGoverned: a journey in force is the one its checker saw, and has *)
(* its scope for itself; the validation of its graph finds what the entry   *)
(* leads to, and a simulation stays within; and a customer has a wallet     *)
(* behind a verified telephone and an approved identity, when the journey   *)
(* leads to no wallet but through those checks.                             *)
THEOREM JourneysAlwaysGoverned ==
  ASSUME WalletsGuarded
  PROVE  ServicesSpec => []JourneysGoverned
<1> DEFINE Inv == VersionInv /\ GraphInv /\ JourneyInv
<1>1. ServicesInit => Inv
  BY AllBegin, VersionStart, GraphStart, JourneyStart
<1>2. Inv /\ [ServicesNext]_servicesVars => Inv'
  BY OneMoves, VersionStep, GraphStep, JourneyStep
<1>3. Inv => JourneysGoverned
  BY VersionKept, GraphKept, JourneyKept DEF JourneysGoverned
<1> HIDE DEF Inv
<1> QED
  BY <1>1, <1>2, <1>3, PTL DEF ServicesSpec

(* QuotesSound: a stored pricing definition is read again as it is and has  *)
(* one range for an amount, its answers add up, and a charge or commission  *)
(* comes from a header that is approved and in force, however long the chain*)
(* of expired headers that leads to it.                                     *)
THEOREM QuotesAlwaysSound == ServicesSpec => []QuotesSound
<1>1. ServicesInit => PricingInv /\ TariffInv
  BY AllBegin, PricingStart, TariffStart
<1>2. PricingInv /\ TariffInv /\ [ServicesNext]_servicesVars => (PricingInv /\ TariffInv)'
  BY OneMoves, PricingStep, TariffStep
<1>3. PricingInv /\ TariffInv => QuotesSound
  BY PricingKept, TariffKept DEF QuotesSound
<1> QED
  BY <1>1, <1>2, <1>3, PTL DEF ServicesSpec

(* The console's session, PIN and workspaces: a session that was not left   *)
(* stays, whichever requests overlap; a write goes to what is displayed, a  *)
(* drawer shows one record, no control stays disabled once every answer is  *)
(* there.                                                                   *)
THEOREM ConsoleAlwaysKept ==
  ServicesSpec => [](SessionKept /\ PinKept /\ WritesOnDisplay /\ OneRecordShown /\ ControlsFreed)
<1>1. ServicesInit => ConsoleInv /\ WorkInv
  BY AllBegin, ConsoleStart, WorkStart
<1>2. ConsoleInv /\ WorkInv /\ [ServicesNext]_servicesVars => (ConsoleInv /\ WorkInv)'
  BY OneMoves, ConsoleStep, WorkStep
<1>3. ConsoleInv /\ WorkInv => SessionKept /\ PinKept /\ WritesOnDisplay /\ OneRecordShown /\ ControlsFreed
  BY ConsoleKept, WorkKept
<1> QED
  BY <1>1, <1>2, <1>3, PTL DEF ServicesSpec

(* A batch of AML limits: the service refuses no request about a record the *)
(* page had right, a batch with nothing left to send and nothing failed was *)
(* accepted whole, and after it the page knows what the server holds.  The  *)
(* simulator says of an amount what the limits of the record say.           *)
THEOREM BatchesAlwaysSound == ServicesSpec => [](BatchesSound /\ SimulatorAgrees)
<1>1. ServicesInit => BatchInv
  BY AllBegin, BatchStart
<1>2. BatchInv /\ [ServicesNext]_servicesVars => BatchInv'
  BY OneMoves, BatchStep
<1>3. BatchInv => BatchesSound /\ SimulatorAgrees
  BY BatchKept, SimulatorKept
<1> QED
  BY <1>1, <1>2, <1>3, PTL DEF ServicesSpec

(* The pricing studio: the service accepts what the canvas shows as right   *)
(* and applies to every amount the calculation that is drawn for it; a draft*)
(* becomes one flow unless a flag was cleared under it or an answer did not *)
(* come; no step that is offered is refused for the row that was shown; and *)
(* a click on a calculation connects the range that was picked.             *)
THEOREM StudioAlwaysTruthful == ServicesSpec => [](CanvasTruthful /\ DraftsCreatedOnce /\ ConnectsPicked)
<1>1. ServicesInit => StudioInv
  BY AllBegin, StudioStart
<1>2. StudioInv /\ [ServicesNext]_servicesVars => StudioInv'
  BY OneMoves, StudioStep
<1>3. StudioInv => CanvasTruthful /\ DraftsCreatedOnce /\ ConnectsPicked
  BY StudioKept
<1> QED
  BY <1>1, <1>2, <1>3, PTL DEF ServicesSpec

(* ConsoleSound, of the session, the PIN, the workspaces, the batches, the  *)
(* simulator and the studio together.                                       *)
THEOREM ConsoleAlwaysSound == ServicesSpec => []ConsoleSound
<1>1. /\ SessionKept /\ PinKept /\ WritesOnDisplay /\ OneRecordShown /\ ControlsFreed
      /\ BatchesSound /\ SimulatorAgrees /\ CanvasTruthful /\ DraftsCreatedOnce /\ ConnectsPicked
      => ConsoleSound
  BY DEF ConsoleSound
<1> QED
  BY <1>1, ConsoleAlwaysKept, BatchesAlwaysSound, StudioAlwaysTruthful, PTL

-----------------------------------------------------------------------------
(* The types, where the invariants above do not have them.                  *)

(* The rows of reference data: what a request proposes is a whole profile,  *)
(* never the empty record.                                                  *)
StoredProfile == Profile \cup {NoProfile}
DraftKept  == [action : ChangeAction, key : RefKey, base : StoredProfile, proposed : Profile, named : SUBSET Column]
ChangeKept == [action : ChangeAction, key : RefKey, base : StoredProfile, proposed : Profile, named : SUBSET Column,
               maker : Clerk, checker : Clerk \cup {"nobody"},
               status : {"PENDING", "APPROVED", "REJECTED", "CANCELLED"}]

RefTyped ==
  /\ live \in [RefKey -> StoredProfile] /\ drafts \in [Clerk -> DraftKept \cup {NoDraft}]
  /\ changes \in Seq(ChangeKept) /\ cachesBumped \in BOOLEAN

LEMMA RefTypedStart == RefInit => RefTyped
<1>1. [max |-> 1, daily |-> 1, active |-> TRUE] \in Profile
  BY ReferenceAssumption DEF Profile
<1>2. RefInit => live \in [RefKey -> StoredProfile] /\ drafts \in [Clerk -> DraftKept \cup {NoDraft}]
  BY <1>1 DEF RefInit, StoredProfile
<1>3. RefInit => changes \in Seq(ChangeKept) /\ cachesBumped \in BOOLEAN
  BY DEF RefInit
<1> QED
  BY <1>2, <1>3 DEF RefTyped

LEMMA DraftTyped ==
  ASSUME RefTyped, NEW a \in Clerk, NEW action \in ChangeAction, NEW k \in RefKey, NEW base \in StoredProfile,
         NEW proposed \in Profile, NEW named \in SUBSET Column, Draft(a, action, k, base, proposed, named)
  PROVE  RefTyped'
<1> DEFINE d == [action |-> action, key |-> k, base |-> base, proposed |-> proposed, named |-> named]
<1>1. d \in DraftKept
  BY DEF DraftKept
<1>2. drafts' = [drafts EXCEPT ![a] = d] /\ UNCHANGED <<live, changes, cachesBumped>>
  BY DEF Draft
<1> HIDE DEF d
<1> QED
  BY <1>1, <1>2 DEF RefTyped

LEMMA MakerTyped ==
  ASSUME RefTyped, NEW a \in Clerk, NEW k \in RefKey,
         DraftCreate(a, k) \/ DraftUpdate(a, k) \/ DraftDelete(a, k)
  PROVE  RefTyped'
<1>0. live[k] \in StoredProfile /\ (live[k] # NoProfile => live[k] \in Profile) /\ NoProfile \in StoredProfile
  BY DEF RefTyped, StoredProfile
<1>1. CASE DraftCreate(a, k)
  <2>1. PICK p \in Profile : Draft(a, "CREATE", k, NoProfile, p, DOMAIN p)
    BY <1>1 DEF DraftCreate
  <2>2. DOMAIN p = Column
    BY ProfilesAreRows, RowColumns
  <2>3. Draft(a, "CREATE", k, NoProfile, p, Column) /\ "CREATE" \in ChangeAction /\ Column \in SUBSET Column
    BY <2>1, <2>2 DEF ChangeAction
  <2> QED
    BY <1>0, <2>3, DraftTyped
<1>2. CASE DraftUpdate(a, k)
  <2>1. PICK f \in LimitField, v \in Limit : Draft(a, "UPDATE", k, live[k], [live[k] EXCEPT ![f] = v], {f})
    BY <1>2 DEF DraftUpdate
  <2>2. [live[k] EXCEPT ![f] = v] \in Profile
    <3>1. live[k] \in Profile
      BY <1>0, <1>2 DEF DraftUpdate
    <3>2. CASE f = "max"
      BY <3>1, <3>2 DEF Profile
    <3>3. CASE f = "daily"
      BY <3>1, <3>3 DEF Profile
    <3> QED
      BY <3>2, <3>3 DEF LimitField
  <2>3. "UPDATE" \in ChangeAction /\ {f} \in SUBSET Column
    BY DEF ChangeAction, LimitField, Column
  <2> QED
    BY <1>0, <2>1, <2>2, <2>3, DraftTyped
<1>3. CASE DraftDelete(a, k)
  <2> DEFINE off == [live[k] EXCEPT !.active = FALSE]
  <2>1. Draft(a, "DELETE", k, live[k], off, {"active"})
    BY <1>3 DEF DraftDelete
  <2>2. off \in Profile
    BY <1>0, <1>3 DEF DraftDelete, Profile
  <2>3. "DELETE" \in ChangeAction /\ {"active"} \in SUBSET Column
    BY DEF ChangeAction, Column
  <2> HIDE DEF off
  <2> QED
    BY <1>0, <2>1, <2>2, <2>3, DraftTyped
<1> QED
  BY <1>1, <1>2, <1>3

LEMMA QueueTyped == ASSUME RefTyped, NEW a \in Clerk, Queue(a) PROVE RefTyped'
<1> DEFINE d == drafts[a]
           c == [action |-> d.action, key |-> d.key, base |-> d.base, proposed |-> d.proposed,
                 named |-> d.named, maker |-> a, checker |-> "nobody", status |-> "PENDING"]
<1>1. d \in DraftKept
  BY DEF RefTyped, Queue
<1>2. c \in ChangeKept
  BY <1>1 DEF DraftKept, ChangeKept
<1>3. /\ changes' = Append(changes, c) \/ changes' = changes
      /\ drafts' = [drafts EXCEPT ![a] = NoDraft] /\ UNCHANGED <<live, cachesBumped>>
  BY DEF Queue
<1> HIDE DEF c
<1>4. changes \in Seq(ChangeKept)
  BY DEF RefTyped
<1>5. changes' \in Seq(ChangeKept)
  BY <1>2, <1>3, <1>4
<1> QED
  BY <1>3, <1>5 DEF RefTyped

LEMMA DecidedTyped ==
  ASSUME RefTyped, NEW a \in Clerk, NEW i \in DOMAIN changes,
         ApproveChange(a, i) \/ RejectChange(a, i) \/ CancelChange(a, i)
  PROVE  RefTyped'
<1>1. changes \in Seq(ChangeKept) /\ drafts' = drafts
  BY DEF RefTyped, ApproveChange, RejectChange, CancelChange
<1>2. changes[i] \in ChangeKept
  BY <1>1
<1>3. changes' \in Seq(ChangeKept)
  <2>1. CASE CancelChange(a, i)
    <3> DEFINE c == [changes[i] EXCEPT !.status = "CANCELLED"]
    <3>1. c \in ChangeKept
      BY <1>2 DEF ChangeKept
    <3>2. changes' = [changes EXCEPT ![i] = c]
      BY <2>1 DEF CancelChange
    <3> HIDE DEF c
    <3> QED
      BY <1>1, <3>1, <3>2
  <2>2. CASE ~CancelChange(a, i)
    <3>1. PICK s \in {"APPROVED", "REJECTED"} : Decided(a, i, s)
      BY <2>2 DEF ApproveChange, RejectChange
    <3> DEFINE c == [changes[i] EXCEPT !.status = s, !.checker = a]
    <3>2. c \in ChangeKept
      BY <1>2 DEF ChangeKept
    <3>3. changes' = [changes EXCEPT ![i] = c]
      BY <3>1 DEF Decided
    <3> HIDE DEF c
    <3> QED
      BY <1>1, <3>2, <3>3
  <2> QED
    BY <2>1, <2>2
<1>4. live' \in [RefKey -> StoredProfile] /\ cachesBumped' \in BOOLEAN
  <2>1. CASE ApproveChange(a, i)
    <3>1. live' = [live EXCEPT ![changes[i].key] = changes[i].proposed] /\ cachesBumped' \in BOOLEAN
      BY <2>1 DEF ApproveChange
    <3>2. changes[i].proposed \in StoredProfile
      BY <1>2 DEF ChangeKept, StoredProfile
    <3> QED
      BY <3>1, <3>2 DEF RefTyped
  <2>2. CASE ~ApproveChange(a, i)
    BY <2>2 DEF RefTyped, RejectChange, CancelChange
  <2> QED
    BY <2>1, <2>2
<1> QED
  BY <1>1, <1>3, <1>4 DEF RefTyped

LEMMA RefTypedStep == RefTyped /\ [RefNext]_refVars => RefTyped'
<1> SUFFICES ASSUME RefTyped, [RefNext]_refVars PROVE RefTyped'
  OBVIOUS
<1>1. CASE UNCHANGED refVars
  BY <1>1 DEF RefTyped, refVars
<1>2. CASE RefNext
  BY <1>2, MakerTyped, QueueTyped, DecidedTyped DEF RefNext
<1> QED
  BY <1>1, <1>2

LEMMA RefTypedKept == RefTyped => RefTypeOK
<1> SUFFICES ASSUME RefTyped PROVE RefTypeOK
  OBVIOUS
<1>1. ASSUME NEW i \in DOMAIN changes
      PROVE  /\ changes[i].status \in {"PENDING", "APPROVED", "REJECTED", "CANCELLED"}
             /\ changes[i].key \in RefKey /\ changes[i].proposed \in Profile
  <2>1. changes[i] \in ChangeKept
    BY DEF RefTyped
  <2> QED
    BY <2>1 DEF ChangeKept
<1>2. live \in [RefKey -> Profile \cup {NoProfile}] /\ DOMAIN drafts = Clerk /\ cachesBumped \in BOOLEAN
  BY DEF RefTyped, StoredProfile
<1> QED
  BY <1>1, <1>2 DEF RefTypeOK

(* Charges: the version that entries of the cache are under is one that an  *)
(* edit gave.                                                               *)
EditsBounded ==
  /\ edits \in Version /\ version \in Version /\ detail \in Nat
  /\ \A a \in Accountant : editing[a].n \in Version

LEMMA EditsStart == ChargeInit => EditsBounded
<1> SUFFICES ASSUME ChargeInit PROVE EditsBounded
  OBVIOUS
<1>1. 0 \in Version /\ 1 \in Nat
  BY ChargeAssumption DEF Version
<1> QED
  BY <1>1 DEF ChargeInit, EditsBounded

LEMMA EditsStep == ChargeInv /\ EditsBounded /\ [ChargeNext]_chargeVars => EditsBounded'
<1> SUFFICES ASSUME ChargeInv, EditsBounded, [ChargeNext]_chargeVars PROVE EditsBounded'
  OBVIOUS
<1>0. /\ 0 \in Version /\ edits \in Version /\ detail \in Nat /\ version \in Version
      /\ (edits < MaxEdits => edits + 1 \in Version) /\ detail + 1 \in Nat
      /\ editing \in [Accountant -> ChargeCall] /\ \A a \in Accountant : editing[a].n \in Version
  BY ChargeAssumption DEF ChargeInv, EditsBounded, Version
<1>1. ASSUME NEW a \in Accountant, NEW pc, NextCall(a, pc) PROVE \A b \in Accountant : editing'[b].n \in Version
  BY <1>0, <1>1 DEF NextCall, ChargeCall
<1>2. ASSUME NEW a \in Accountant, NEW row, NEW n \in Version, Saves(a, row, n) PROVE \A b \in Accountant : editing'[b].n \in Version
  BY <1>0, <1>2 DEF Saves, ChargeCall
<1>3. CASE UNCHANGED <<edits, version, detail, editing>>
  BY <1>3 DEF EditsBounded
<1>4. ASSUME NEW a \in Accountant, ReadHeader(a) \/ ReadParent(a) PROVE EditsBounded'
  BY <1>0, <1>2, <1>4 DEF ReadHeader, ReadParent, EditsBounded
<1>5. ASSUME NEW a \in Accountant, SaveDetail(a) \/ Reload(a) PROVE EditsBounded'
  BY <1>0, <1>5 DEF SaveDetail, Reload, EditsBounded, ChargeCall
<1>6. ASSUME NEW a \in Accountant, WriteHeader(a) \/ DeletePattern(a) \/ BumpVersion(a) \/ BreakOff(a) PROVE EditsBounded'
  BY <1>0, <1>1, <1>6 DEF WriteHeader, DeletePattern, BumpVersion, BreakOff, EditsBounded
<1> QED
  BY <1>3, <1>4, <1>5, <1>6 DEF ChargeNext, chargeVars, StartLoad, FinishLoad, Expire

LEMMA EditsKept == ChargeInv /\ EditsBounded => ChargeTypeOK
BY DEF ChargeInv, ChargeCall, HeaderRow, EditsBounded, ChargeTypeOK

(* Flows, integrations and versions have their types from what their proofs *)
(* keep of them.                                                            *)
LEMMA FlowTypesKept == FlowInv => FlowTypeOK
<1> SUFFICES ASSUME FlowInv PROVE FlowTypeOK
  OBVIOUS
<1>1. ASSUME NEW i \in DOMAIN flows
      PROVE  /\ flows[i].status \in {"DRAFT", "SUBMITTED", "APPROVED", "ACTIVE", "RETIRED", "REJECTED"}
             /\ flows[i].route \in Route
             /\ {flows[i].creator, flows[i].editor, flows[i].approver} \subseteq Editor \cup {"nobody"}
  BY FlowTypes DEF FlowRow
<1>2. \A a \in Editor : activation[a].flow \in {0} \cup DOMAIN flows
  BY DEF FlowInv, Locking
<1> QED
  BY <1>1, <1>2 DEF FlowTypeOK

LEMMA IntegrationKept == IntegrationInv => IntegrationTypeOK
BY DEF IntegrationInv, IntegrationShape, IntegrationTypeOK, IntegrationRow

LEMMA VersionsKept == VersionInv => ConfigTypeOK
<1> SUFFICES ASSUME VersionInv PROVE ConfigTypeOK
  OBVIOUS
<1>1. \A v \in VersionId : versions[v] \in VersionRow
  BY DEF VersionInv, VersionsShape, VersionId
<1>2. DOMAIN signed = VersionId /\ activating \subseteq VersionId /\ activationsOverlapped \in BOOLEAN
  BY DEF VersionInv, VersionsShape, VersionId
<1> QED
  BY <1>1, <1>2 DEF ConfigTypeOK, VersionRow

(* Sanctions lists: a run that an operation is in is one that is running.   *)
RunsCounted ==
  /\ listLock \subseteq ListOfficer
  /\ runs \in [{"RUNNING", "COMPLETED", "FAILED"} -> Nat]
  /\ \A o \in ListOfficer : listJob[o] # NoListJob => runs.RUNNING # 0

LEMMA RunsStart == SanctionsInit => RunsCounted
<1> SUFFICES ASSUME SanctionsInit PROVE RunsCounted
  OBVIOUS
<1>1. runs = [RUNNING |-> 0, COMPLETED |-> 0, FAILED |-> 0] /\ listLock = {}
  BY DEF SanctionsInit
<1>2. runs \in [{"RUNNING", "COMPLETED", "FAILED"} -> Nat]
  BY <1>1
<1> QED
  BY <1>1, <1>2 DEF SanctionsInit, RunsCounted

LEMMA RunsEnd ==
  ASSUME ListsInv, RunsCounted, NEW o \in ListOfficer, listJob[o] # NoListJob,
         NEW status \in {"COMPLETED", "FAILED"}, EndRun(o, status)
  PROVE  RunsCounted'
<1>1. /\ listJob' = [listJob EXCEPT ![o] = NoListJob] /\ listLock' = listLock \ {o}
      /\ runs' = [runs EXCEPT !.RUNNING = @ - 1, ![status] = @ + 1]
  BY DEF EndRun
<1>2. runs \in [{"RUNNING", "COMPLETED", "FAILED"} -> Nat] /\ runs["RUNNING"] \in Nat \ {0} /\ runs[status] \in Nat
  BY DEF RunsCounted
<1>3. runs' \in [{"RUNNING", "COMPLETED", "FAILED"} -> Nat]
  BY <1>1, <1>2
<1>4. \A p \in ListOfficer : listJob'[p] = NoListJob
  BY <1>1 DEF ListsInv, ListsShape, LockHeld
<1> QED
  BY <1>1, <1>3, <1>4 DEF RunsCounted

LEMMA RunsStep == ListsInv /\ RunsCounted /\ [SanctionsNext]_sanctionsVars => RunsCounted'
<1> SUFFICES ASSUME ListsInv, RunsCounted, [SanctionsNext]_sanctionsVars PROVE RunsCounted'
  OBVIOUS
<1>0. runs \in [{"RUNNING", "COMPLETED", "FAILED"} -> Nat] /\ runs["RUNNING"] \in Nat /\ listLock \subseteq ListOfficer
      /\ listJob \in [ListOfficer -> ListJob]
  BY DEF RunsCounted, ListsInv, ListsShape
<1>1. ASSUME NEW o \in ListOfficer, NEW mode, NEW lists, NEW names, startRun(o, mode, lists, names)
      PROVE  RunsCounted'
  <2>1. listLock' = {o} /\ runs' = [runs EXCEPT !.RUNNING = @ + 1]
    BY <1>1 DEF startRun
  <2>2. runs' \in [{"RUNNING", "COMPLETED", "FAILED"} -> Nat] /\ runs'["RUNNING"] = runs["RUNNING"] + 1
    BY <1>0, <2>1
  <2>3. runs'.RUNNING # 0
    BY <1>0, <2>2
  <2> QED
    BY <2>1, <2>2, <2>3 DEF RunsCounted
<1>2. ASSUME NEW o \in ListOfficer, beginReplace(o) \/ commitReplace(o) PROVE RunsCounted'
  <2>1. listJob[o] # NoListJob /\ UNCHANGED <<listLock, runs>>
        /\ \A p \in ListOfficer \ {o} : listJob'[p] = listJob[p]
    BY <1>0, <1>2 DEF beginReplace, commitReplace, NoListJob
  <2> QED
    BY <2>1 DEF RunsCounted
<1>3. ASSUME NEW o \in ListOfficer, completeRun(o) \/ failRun(o) PROVE RunsCounted'
  <2>1. listJob[o] # NoListJob
    BY <1>3 DEF completeRun, failRun, NoListJob
  <2> QED
    BY <1>3, <2>1, RunsEnd DEF completeRun, failRun
<1>4. ASSUME NEW o \in ListOfficer, officerLost(o) PROVE RunsCounted'
  BY <1>0, <1>4 DEF officerLost, RunsCounted
<1>5. CASE UNCHANGED sanctionsVars
  BY <1>5 DEF sanctionsVars, RunsCounted
<1> QED
  BY <1>1, <1>2, <1>3, <1>4, <1>5 DEF SanctionsNext, syncOfficial, uploadManual

LEMMA RunsKept == ListsInv /\ RunsCounted => SanctionsTypeOK
<1> SUFFICES ASSUME ListsInv, RunsCounted PROVE SanctionsTypeOK
  OBVIOUS
<1>1. \A o \in ListOfficer : listJob[o] \in ListJob
  BY DEF ListsInv, ListsShape
<1> QED
  BY <1>1 DEF ListsInv, ListsShape, ListJob, RunsCounted, SanctionsTypeOK

(* A simulation that goes on has not looked at more nodes than there are.   *)
LooksBounded == ~trace.ended => trace.looks <= Cardinality(GraphNode)
LooksCut == trace.looks <= Cardinality(GraphNode) + 1

LEMMA LooksStart == GraphInit => LooksBounded /\ LooksCut
<1>1. Cardinality(GraphNode) \in Nat
  BY GraphAssumption, FS_CardinalityType
<1> QED
  BY <1>1 DEF GraphInit, LooksBounded, LooksCut

LEMMA LooksStep == GraphInv /\ LooksBounded /\ LooksCut /\ [GraphNext]_graphVars => (LooksBounded /\ LooksCut)'
<1> SUFFICES ASSUME GraphInv, LooksBounded, LooksCut, [GraphNext]_graphVars PROVE (LooksBounded /\ LooksCut)'
  OBVIOUS
<1>1. Cardinality(GraphNode) \in Nat
  BY GraphAssumption, FS_CardinalityType
<1>2. /\ trace \in [at : GraphNode \cup {"nowhere"}, visited : SUBSET GraphNode, looks : Nat, ended : BOOLEAN]
  BY DEF GraphInv, GraphShape
<1>3. CASE UNCHANGED trace
  BY <1>3 DEF LooksBounded, LooksCut
<1>4. CASE SimulateGraph
  <2>1. trace'.looks = trace.looks /\ trace'.ended = trace.ended
    BY <1>2, <1>4 DEF SimulateGraph
  <2> QED
    BY <2>1 DEF LooksBounded, LooksCut
<1>5. ASSUME NEW asked \in EdgeOutcome, SimulateOn(asked) PROVE (LooksBounded /\ LooksCut)'
  <2>1. ~trace.ended
    BY <1>5 DEF SimulateOn
  <2>2. trace'.looks = trace.looks + 1 /\ (~trace'.ended => ~(trace.looks + 1 > Cardinality(GraphNode)))
    BY <1>2, <1>5 DEF SimulateOn
  <2> QED
    BY <1>1, <1>2, <2>1, <2>2 DEF LooksBounded, LooksCut
<1> QED
  BY <1>3, <1>4, <1>5 DEF GraphNext, graphVars, WalkOn

LEMMA LooksKept == GraphInv /\ LooksCut => GraphTypeOK
<1> SUFFICES ASSUME GraphInv, LooksCut PROVE GraphTypeOK
  OBVIOUS
<1>1. /\ graph \in CandidateGraph /\ walk \in [queue : Seq(GraphNode), reached : SUBSET GraphNode]
      /\ trace \in [at : GraphNode \cup {"nowhere"}, visited : SUBSET GraphNode, looks : Nat, ended : BOOLEAN]
  BY DEF GraphInv, GraphShape
<1>2. Cardinality(GraphNode) \in Nat
  BY GraphAssumption, FS_CardinalityType
<1>3. trace.looks \in 0..(Cardinality(GraphNode) + 1)
  BY <1>1, <1>2 DEF LooksCut
<1> QED
  BY <1>1, <1>3 DEF GraphTypeOK

LEMMA WorkspaceKept == WorkInv /\ BatchInv => WorkspaceTypeOK
<1> SUFFICES ASSUME WorkInv, BatchInv PROVE WorkspaceTypeOK
  OBVIOUS
<1>1. workspace \in Workspaces \cup {None} /\ pane \in PaneRecord
  BY DEF WorkInv, PaneShape
<1>2. /\ {pane.selected, pane.detail, pane.aside} \subseteq OrNone
      /\ pane.form \in OrNone \cup {"default", "stored"}
      /\ {pane.editing, pane.loading, pane.busy} \subseteq BOOLEAN
  BY <1>1 DEF PaneRecord
<1>3. /\ {batch.rows, batch.waiting, batch.known} \subseteq [ConsoleRecord -> LimitSet \cup {None}]
      /\ batch.phase \in {"idle", "sending", "closing"} /\ batch.todo \subseteq batch.asked
  BY DEF BatchInv, BatchShape, BatchCounted, LimitOrNone
<1> QED
  BY <1>1, <1>2, <1>3 DEF WorkspaceTypeOK

-----------------------------------------------------------------------------
(* A journey's tables: no more rows than the bounds, and no more tries of a *)
(* code than its policy allows; whoever stands in a wallet's allocation or  *)
(* behind a handoff is in the table.  It needs nothing of the graph.        *)
OtpBounded(row) ==
  row.otp.attempts <= OtpAttempts /\ (row.otp.status = "PENDING" => row.otp.attempts < OtpAttempts)

JourneyTyped ==
  /\ instances \in Seq(InstanceRow) /\ Len(instances) <= MaxInstances
  /\ \A i \in DOMAIN instances : OtpBounded(instances[i])
  /\ registered \in Registry /\ handoffs \in Seq(HandoffRow) /\ Len(handoffs) <= MaxHandoffs
  /\ \A h \in DOMAIN handoffs : handoffs[h].instance \in DOMAIN instances
  /\ allocating \in AllocationRow /\ (allocating.step # "NONE" => allocating.instance \in DOMAIN instances)
  /\ verifying \subseteq DOMAIN instances

LEMMA JourneyTypedStart == JourneyInit => JourneyTyped
<1> SUFFICES ASSUME JourneyInit PROVE JourneyTyped
  OBVIOUS
<1>1. <<>> \in Seq(InstanceRow) /\ <<>> \in Seq(HandoffRow) /\ Len(<<>>) = 0 /\ DOMAIN <<>> = {}
  OBVIOUS
<1>2. NoAllocation \in AllocationRow /\ NoAllocation.step = "NONE"
      /\ [status |-> "NONE", contact |-> FALSE, wallet |-> FALSE] \in Registry
  BY DEF NoAllocation, AllocationRow, Registry
<1>3. MaxInstances >= 0 /\ MaxHandoffs >= 0
  BY JourneyAssumption
<1>4. instances = <<>> /\ handoffs = <<>>
  BY DEF JourneyInit
<1> QED
  BY <1>1, <1>2, <1>3, <1>4 DEF JourneyTyped, JourneyInit

LEMMA TypedIs ==
  ASSUME JourneyTyped, NEW i \in DOMAIN instances
  PROVE  /\ instances[i] \in InstanceRow /\ OtpBounded(instances[i]) /\ i \in Nat
         /\ instances[i].otp \in OtpRow /\ instances[i].case \in CheckRow
<1>1. instances[i] \in InstanceRow /\ OtpBounded(instances[i]) /\ i \in Nat
  BY DEF JourneyTyped
<1> QED
  BY <1>1 DEF InstanceRow

(* One instance changes.                                                    *)
LEMMA RowTyped ==
  ASSUME JourneyTyped, NEW i \in DOMAIN instances, NEW row \in InstanceRow, OtpBounded(row),
         instances' = [instances EXCEPT ![i] = row], registered' \in Registry,
         handoffs' \in Seq(HandoffRow), Len(handoffs') <= MaxHandoffs,
         \A h \in DOMAIN handoffs' : handoffs'[h].instance \in DOMAIN instances,
         allocating' \in AllocationRow, allocating'.step # "NONE" => allocating'.instance \in DOMAIN instances,
         verifying' \subseteq DOMAIN instances
  PROVE  JourneyTyped'
<1>1. instances' \in Seq(InstanceRow) /\ DOMAIN instances' = DOMAIN instances /\ Len(instances') = Len(instances)
  BY DEF JourneyTyped
<1>2. \A j \in DOMAIN instances' : OtpBounded(instances'[j])
  BY <1>1 DEF JourneyTyped
<1>3. \A j \in DOMAIN instances' : OtpBounded(instances[j])'
  BY <1>2 DEF OtpBounded
<1> QED
  BY <1>1, <1>3 DEF JourneyTyped

LEMMA RowTypedAlone ==
  ASSUME JourneyTyped, NEW i \in DOMAIN instances, NEW row \in InstanceRow, OtpBounded(row),
         instances' = [instances EXCEPT ![i] = row], registered' \in Registry, UNCHANGED handoffs,
         UNCHANGED allocating \/ allocating' = NoAllocation, verifying' \subseteq DOMAIN instances
  PROVE  JourneyTyped'
<1>1. allocating' \in AllocationRow /\ (allocating'.step # "NONE" => allocating'.instance \in DOMAIN instances)
  BY DEF JourneyTyped, NoAllocation, AllocationRow
<1> QED
  BY <1>1, RowTyped DEF JourneyTyped

LEMMA AdvanceTyped ==
  ASSUME JourneyTyped, NEW i \in DOMAIN instances, NEW outcome, NEW rest \in InstanceRow, OtpBounded(rest),
         Advance(i, outcome, rest), UNCHANGED <<handoffs, verifying>>,
         UNCHANGED allocating \/ allocating' = NoAllocation
  PROVE  JourneyTyped'
<1>1. PICK e \in Leads(i, outcome) :
        /\ instances' = [instances EXCEPT ![i] = [rest EXCEPT !.node = e.to, !.status = StatusAt(e.to)]]
        /\ registered' = [registered EXCEPT
             !.status = IF NodeType[e.to] = "END" /\ @ = "ONBOARDING" THEN "ACTIVE" ELSE @,
             !.contact = @ \/ rest.otp.status = "VERIFIED"]
  BY DEF Advance
<1> DEFINE row == [rest EXCEPT !.node = e.to, !.status = StatusAt(e.to)]
           named == IF NodeType[e.to] = "END" /\ registered.status = "ONBOARDING" THEN "ACTIVE" ELSE registered.status
           known == registered.contact \/ rest.otp.status = "VERIFIED"
<1>2. e.to \in DOMAIN NodeType
  BY JourneyAssumption DEF Leads
<1>3. StatusAt(e.to) \in {"IN_PROGRESS", "MANUAL_REVIEW", "COMPLETED", "EXPIRED"}
  BY DEF StatusAt
<1>4. row \in InstanceRow /\ row.otp = rest.otp
  BY <1>2, <1>3 DEF InstanceRow
<1>5. registered \in Registry /\ named \in {"NONE", "ONBOARDING", "ACTIVE"} /\ known \in BOOLEAN
  BY DEF JourneyTyped, Registry
<1>6. registered' = [registered EXCEPT !.status = named, !.contact = known]
  BY <1>1
<1> HIDE DEF named, known
<1>7. registered' \in Registry
  BY <1>5, <1>6 DEF Registry
<1>8. instances' = [instances EXCEPT ![i] = row]
  BY <1>1
<1> HIDE DEF row
<1>9. OtpBounded(row) /\ verifying' \subseteq DOMAIN instances
  BY <1>4 DEF OtpBounded, JourneyTyped
<1> QED
  BY <1>4, <1>7, <1>8, <1>9, RowTypedAlone

LEMMA StartTyped == ASSUME JourneyTyped, Start PROVE JourneyTyped'
<1>0. PICK last \in Nat : last = Len(instances) /\ DOMAIN instances = 1..last
  BY DEF JourneyTyped
<1> DEFINE open == last > 0 /\ Opened(last)
           new == [node |-> EntryNode, status |-> "IN_PROGRESS", live |-> TRUE, token |-> 1, otp |-> NoOtp,
                   case |-> NoCase, wallet |-> "NONE"]
           named == IF registered.status = "NONE" THEN "ONBOARDING" ELSE registered.status
<1>1. /\ instances \in Seq(InstanceRow) /\ last \in Nat /\ DOMAIN instances = 1..last /\ Len(instances) = last
      /\ registered \in Registry /\ verifying \subseteq DOMAIN instances
  BY <1>0 DEF JourneyTyped
<1>2. registered' = [registered EXCEPT !.status = named] /\ UNCHANGED <<handoffs, allocating, verifying>>
  BY DEF Start
<1>3. named \in {"NONE", "ONBOARDING", "ACTIVE"}
  BY <1>1 DEF Registry
<1> HIDE DEF named
<1>4. registered' \in Registry
  BY <1>1, <1>2, <1>3 DEF Registry
<1>5. CASE /\ open /\ instances[last].live /\ instances[last].token < 2
          /\ instances' = [instances EXCEPT ![last].token = @ + 1]
  <2> DEFINE row == [instances[last] EXCEPT !.token = @ + 1]
  <2>1. last \in DOMAIN instances
    BY <1>1, <1>5
  <2>2. row \in InstanceRow /\ row.otp = instances[last].otp
    BY <2>1, TypedIs DEF InstanceRow
  <2>3. instances' = [instances EXCEPT ![last] = row]
    BY <1>5
  <2> HIDE DEF row, open
  <2>4. OtpBounded(row)
    BY <2>1, <2>2, TypedIs DEF OtpBounded
  <2> QED
    BY <1>1, <1>2, <1>4, <2>1, <2>2, <2>3, <2>4, RowTypedAlone
<1>6. CASE /\ last < MaxInstances
           /\ instances' = Append(IF open THEN [instances EXCEPT ![last].status = "EXPIRED"] ELSE instances, new)
  <2> DEFINE old == IF open THEN [instances EXCEPT ![last].status = "EXPIRED"] ELSE instances
  <2>1. new \in InstanceRow /\ OtpBounded(new)
    <3>1. NoOtp \in OtpRow /\ NoCase \in CheckRow /\ NoOtp.attempts = 0
      BY DEF NoOtp, NoCase, OtpRow, CheckRow
    <3>2. new \in InstanceRow /\ new.otp = NoOtp
      BY <3>1, JourneyAssumption DEF InstanceRow
    <3> QED
      BY <3>1, <3>2, JourneyAssumption DEF OtpBounded
  <2>2. /\ old \in Seq(InstanceRow) /\ Len(old) = last /\ DOMAIN old = 1..last
        /\ \A i \in 1..last : old[i].otp = instances[i].otp
    <3>1. CASE open
      <4> DEFINE row == [instances[last] EXCEPT !.status = "EXPIRED"]
      <4>1. last \in 1..last /\ instances[last] \in InstanceRow
        BY <1>1, <3>1
      <4>2. row \in InstanceRow /\ row.otp = instances[last].otp
        BY <4>1 DEF InstanceRow
      <4>3. old = [instances EXCEPT ![last] = row]
        BY <3>1
      <4> HIDE DEF row, old, open
      <4> QED
        BY <1>1, <4>1, <4>2, <4>3
    <3>2. CASE ~open
      BY <1>1, <3>2
    <3> QED
      BY <3>1, <3>2
  <2>3. instances' = Append(old, new)
    BY <1>6
  <2> HIDE DEF old, new, open
  <2>4. /\ instances' \in Seq(InstanceRow) /\ DOMAIN instances' = 1..(last + 1) /\ Len(instances') = last + 1
        /\ instances'[last + 1] = new /\ \A i \in 1..last : instances'[i] = old[i]
    BY <1>1, <2>1, <2>2, <2>3
  <2>5. ASSUME NEW i \in DOMAIN instances' PROVE OtpBounded(instances[i])'
    <3>1. CASE i = last + 1
      BY <2>1, <2>4, <3>1 DEF OtpBounded
    <3>2. CASE i \in 1..last
      <4>1. OtpBounded(instances[i]) /\ instances'[i].otp = instances[i].otp
        BY <1>1, <2>2, <2>4, <3>2 DEF JourneyTyped
      <4> QED
        BY <4>1 DEF OtpBounded
    <3> QED
      BY <1>1, <2>4, <3>1, <3>2
  <2>6. 1..last \subseteq 1..(last + 1) /\ last + 1 <= MaxInstances
    BY <1>1, <1>6, JourneyAssumption
  <2> QED
    BY <1>1, <1>2, <1>4, <2>4, <2>5, <2>6 DEF JourneyTyped
<1> QED
  BY <1>0, <1>5, <1>6 DEF Start

LEMMA OtpTyped ==
  ASSUME JourneyTyped, NEW i \in DOMAIN instances,
         \/ InstanceExpires(i) \/ CreateOtp(i) \/ AdvanceStep(i) \/ SubmitStep(i)
         \/ \E o \in {"SUCCESS", "APPROVED", "MANUAL_REVIEW", "REJECTED"} : Callback(i, o)
  PROVE  JourneyTyped'
<1>1. /\ instances[i] \in InstanceRow /\ OtpBounded(instances[i]) /\ instances[i].otp \in OtpRow
      /\ registered \in Registry /\ verifying \subseteq DOMAIN instances
  BY TypedIs DEF JourneyTyped
<1>2. CASE InstanceExpires(i)
  <2> DEFINE row == [instances[i] EXCEPT !.live = FALSE]
  <2>1. row \in InstanceRow /\ row.otp = instances[i].otp
    BY <1>1 DEF InstanceRow
  <2>2. instances' = [instances EXCEPT ![i] = row] /\ UNCHANGED <<registered, handoffs, allocating, verifying>>
    BY <1>2 DEF InstanceExpires
  <2> HIDE DEF row
  <2>3. OtpBounded(row)
    BY <1>1, <2>1 DEF OtpBounded
  <2> QED
    BY <1>1, <2>1, <2>2, <2>3, RowTypedAlone
<1>3. CASE CreateOtp(i)
  <2> DEFINE otp == [status |-> "PENDING", attempts |-> 0, sends |-> instances[i].otp.sends + 1]
             row == [instances[i] EXCEPT !.otp = otp]
  <2>1. otp \in OtpRow /\ otp.attempts = 0
    BY <1>1 DEF OtpRow
  <2>2. instances' = [instances EXCEPT ![i] = row] /\ UNCHANGED <<registered, handoffs, allocating, verifying>>
    BY <1>3 DEF CreateOtp
  <2> HIDE DEF otp
  <2>3. row \in InstanceRow /\ row.otp = otp
    BY <1>1, <2>1 DEF InstanceRow
  <2> HIDE DEF row
  <2>4. OtpBounded(row)
    BY <2>1, <2>3, JourneyAssumption DEF OtpBounded
  <2> QED
    BY <1>1, <2>2, <2>3, <2>4, RowTypedAlone
<1>4. CASE \/ AdvanceStep(i) \/ SubmitStep(i)
           \/ \E o \in {"SUCCESS", "APPROVED", "MANUAL_REVIEW", "REJECTED"} : Callback(i, o)
  <2>1. PICK o : Advance(i, o, instances[i])
    BY <1>4 DEF AdvanceStep, SubmitStep, Callback
  <2>2. UNCHANGED <<handoffs, allocating, verifying>>
    BY <1>4 DEF AdvanceStep, SubmitStep, Callback
  <2> QED
    BY <1>1, <2>1, <2>2, AdvanceTyped
<1> QED
  BY <1>2, <1>3, <1>4

LEMMA VerifyOtpTyped ==
  ASSUME JourneyTyped, NEW i \in DOMAIN instances, NEW right \in BOOLEAN, VerifyOtp(i, right)
  PROVE  JourneyTyped'
<1>1. /\ instances[i] \in InstanceRow /\ OtpBounded(instances[i]) /\ instances[i].otp \in OtpRow
      /\ registered \in Registry /\ verifying \subseteq DOMAIN instances
      /\ UNCHANGED <<handoffs, allocating, verifying>>
  BY TypedIs DEF JourneyTyped, VerifyOtp
<1>2. CASE Advance(i, "SUCCESS", [instances[i] EXCEPT !.otp.status = "VERIFIED"])
  <2> DEFINE otp == [instances[i].otp EXCEPT !.status = "VERIFIED"]
             rest == [instances[i] EXCEPT !.otp = otp]
  <2>1. otp \in OtpRow /\ otp.status = "VERIFIED" /\ otp.attempts = instances[i].otp.attempts
    BY <1>1 DEF OtpRow
  <2>2. Advance(i, "SUCCESS", rest)
    BY <1>2
  <2> HIDE DEF otp
  <2>3. rest \in InstanceRow /\ rest.otp = otp
    BY <1>1, <2>1 DEF InstanceRow
  <2> HIDE DEF rest
  <2>4. OtpBounded(rest)
    BY <1>1, <2>1, <2>3 DEF OtpBounded
  <2> QED
    BY <1>1, <2>2, <2>3, <2>4, AdvanceTyped
<1>3. CASE ~Advance(i, "SUCCESS", [instances[i] EXCEPT !.otp.status = "VERIFIED"])
  <2> DEFINE tried == instances[i].otp.attempts + 1
             status == IF tried >= OtpAttempts THEN "LOCKED" ELSE "PENDING"
             otp == [instances[i].otp EXCEPT !.attempts = tried, !.status = status]
             row == [instances[i] EXCEPT !.otp = otp]
  <2>1. /\ UNCHANGED registered /\ instances[i].otp.status = "PENDING"
        /\ instances' = [instances EXCEPT ![i].otp.attempts = tried, ![i].otp.status = status]
    BY <1>3 DEF VerifyOtp
  <2>2. /\ status \in {"NONE", "PENDING", "VERIFIED", "LOCKED"} /\ tried \in Nat /\ tried <= OtpAttempts
        /\ status = "PENDING" => tried < OtpAttempts
    BY <1>1, <2>1, JourneyAssumption DEF OtpRow, OtpBounded
  <2> HIDE DEF status, tried
  <2>3. otp \in OtpRow /\ otp.status = status /\ otp.attempts = tried
    BY <1>1, <2>2 DEF OtpRow
  <2>4. instances' = [instances EXCEPT ![i] = row]
    BY <2>1
  <2> HIDE DEF otp
  <2>5. row \in InstanceRow /\ row.otp = otp
    BY <1>1, <2>3 DEF InstanceRow
  <2> HIDE DEF row
  <2>6. OtpBounded(row)
    BY <2>2, <2>3, <2>5 DEF OtpBounded
  <2> QED
    BY <1>1, <2>1, <2>4, <2>5, <2>6, RowTypedAlone
<1> QED
  BY <1>2, <1>3

LEMMA CaseTyped ==
  ASSUME JourneyTyped, NEW i \in DOMAIN instances, NEW case \in CheckRow,
         instances' = [instances EXCEPT ![i] = [instances[i] EXCEPT !.case = case]],
         UNCHANGED <<registered, handoffs, allocating>>, verifying' \subseteq verifying \cup {i}
  PROVE  JourneyTyped'
<1> DEFINE row == [instances[i] EXCEPT !.case = case]
<1>1. row \in InstanceRow /\ row.otp = instances[i].otp
  BY TypedIs DEF InstanceRow
<1>2. instances' = [instances EXCEPT ![i] = row]
  OBVIOUS
<1> HIDE DEF row
<1>3. OtpBounded(row)
  BY <1>1, TypedIs DEF OtpBounded
<1>4. registered' \in Registry /\ verifying' \subseteq DOMAIN instances
  BY DEF JourneyTyped
<1> QED
  BY <1>1, <1>2, <1>3, <1>4, RowTypedAlone

LEMMA CheckTyped ==
  ASSUME JourneyTyped, NEW i \in DOMAIN instances,
         StartKyc(i) \/ UploadDocuments(i) \/ BeginVerification(i) \/ EndVerification(i) \/ VerificationDies(i)
  PROVE  JourneyTyped'
<1>1. instances[i] \in InstanceRow /\ instances[i].case \in CheckRow
  BY TypedIs
<1>2. CASE VerificationDies(i)
  <2>1. UNCHANGED <<instances, registered, handoffs, allocating>> /\ verifying' \subseteq verifying
    BY <1>2 DEF VerificationDies
  <2>2. \A j \in DOMAIN instances' : OtpBounded(instances[j])'
    BY <2>1 DEF JourneyTyped, OtpBounded
  <2> QED
    BY <2>1, <2>2 DEF JourneyTyped
<1>3. CASE StartKyc(i) \/ BeginVerification(i)
  <2>1. PICK status \in {"DRAFT", "PROCESSING"} :
          /\ instances' = [instances EXCEPT ![i].case.status = status]
          /\ verifying' \subseteq verifying \cup {i} /\ UNCHANGED <<registered, handoffs, allocating>>
    BY <1>3 DEF StartKyc, BeginVerification
  <2> DEFINE case == [instances[i].case EXCEPT !.status = status]
  <2>2. case \in CheckRow /\ instances' = [instances EXCEPT ![i] = [instances[i] EXCEPT !.case = case]]
    BY <1>1, <2>1 DEF CheckRow
  <2> HIDE DEF case
  <2> QED
    BY <2>1, <2>2, CaseTyped
<1>4. CASE UploadDocuments(i)
  <2> DEFINE case == [instances[i].case EXCEPT !.documents = TRUE]
  <2>1. case \in CheckRow
    BY <1>1 DEF CheckRow
  <2>2. instances' = [instances EXCEPT ![i] = [instances[i] EXCEPT !.case = case]]
        /\ UNCHANGED <<registered, handoffs, allocating, verifying>>
    BY <1>4 DEF UploadDocuments
  <2> HIDE DEF case
  <2> QED
    BY <2>1, <2>2, CaseTyped
<1>5. CASE EndVerification(i)
  <2>1. UNCHANGED <<registered, handoffs, allocating>> /\ verifying' \subseteq verifying \cup {i}
    BY <1>5 DEF EndVerification
  <2>2. ASSUME NEW s \in {"CLEAR", "MATCH", "UNAVAILABLE"},
               instances' = [instances EXCEPT ![i].case.status = "MANUAL_REVIEW", ![i].case.screening = s]
        PROVE  JourneyTyped'
    <3> DEFINE case == [instances[i].case EXCEPT !.status = "MANUAL_REVIEW", !.screening = s]
    <3>1. case \in CheckRow
      BY <1>1 DEF CheckRow
    <3>2. instances' = [instances EXCEPT ![i] = [instances[i] EXCEPT !.case = case]]
      BY <2>2
    <3> HIDE DEF case
    <3> QED
      BY <2>1, <3>1, <3>2, CaseTyped
  <2>3. ASSUME instances' = [instances EXCEPT ![i].case.status = "FAILED"]
        PROVE  JourneyTyped'
    <3> DEFINE case == [instances[i].case EXCEPT !.status = "FAILED"]
    <3>1. case \in CheckRow /\ instances' = [instances EXCEPT ![i] = [instances[i] EXCEPT !.case = case]]
      BY <1>1, <2>3 DEF CheckRow
    <3> HIDE DEF case
    <3> QED
      BY <2>1, <3>1, CaseTyped
  <2> QED
    BY <1>5, <2>2, <2>3 DEF EndVerification
<1> QED
  BY <1>2, <1>3, <1>4, <1>5

LEMMA DecisionTyped ==
  ASSUME JourneyTyped, NEW i \in DOMAIN instances,
         NEW d \in {"APPROVED", "REJECTED", "RESUBMISSION_REQUIRED"}, Review(i, d)
  PROVE  JourneyTyped'
<1>1. instances[i] \in InstanceRow /\ instances[i].case \in CheckRow /\ UNCHANGED <<handoffs, allocating, verifying>>
  BY TypedIs DEF Review
<1> DEFINE case == [instances[i].case EXCEPT !.status = d]
           decided == [instances[i] EXCEPT !.case = case]
<1>2. case \in CheckRow
  BY <1>1 DEF CheckRow
<1>3. \/ instances' = [instances EXCEPT ![i] = decided] /\ UNCHANGED registered
      \/ Advance(i, d, decided)
  BY DEF Review
<1> HIDE DEF case
<1>4. decided \in InstanceRow /\ decided.otp = instances[i].otp
  BY <1>1, <1>2 DEF InstanceRow
<1>5. OtpBounded(decided)
  BY <1>4, TypedIs DEF OtpBounded
<1>6. CASE instances' = [instances EXCEPT ![i] = decided] /\ UNCHANGED registered
  BY <1>1, <1>2, <1>6, CaseTyped
<1> HIDE DEF decided
<1>7. CASE Advance(i, d, decided)
  BY <1>1, <1>4, <1>5, <1>7, AdvanceTyped
<1> QED
  BY <1>3, <1>6, <1>7

LEMMA WalletTyped ==
  ASSUME JourneyTyped, NEW i \in DOMAIN instances, NEW wallet \in {"NONE", "PENDING", "FAILED", "SUCCEEDED"}
  PROVE  LET row == [instances[i] EXCEPT !.wallet = wallet] IN row \in InstanceRow /\ OtpBounded(row)
<1> DEFINE row == [instances[i] EXCEPT !.wallet = wallet]
<1>1. row \in InstanceRow /\ row.otp = instances[i].otp
  BY TypedIs DEF InstanceRow
<1> HIDE DEF row
<1>2. OtpBounded(row)
  BY <1>1, TypedIs DEF OtpBounded
<1> QED
  BY <1>1, <1>2 DEF row

LEMMA AllocationTyped ==
  ASSUME JourneyTyped, NEW i \in DOMAIN instances, BeginAllocation(i)
  PROVE  JourneyTyped'
<1> DEFINE wallet == IF instances[i].wallet = "NONE" THEN "PENDING" ELSE instances[i].wallet
           row == [instances[i] EXCEPT !.wallet = wallet]
<1>1. wallet \in {"NONE", "PENDING", "FAILED", "SUCCEEDED"}
  BY TypedIs DEF InstanceRow
<1>2. instances' = [instances EXCEPT ![i] = row] /\ UNCHANGED <<registered, handoffs, verifying>>
      /\ allocating' = [instance |-> i, token |-> instances[i].token, step |-> "CREATE"]
  BY DEF BeginAllocation
<1> HIDE DEF wallet
<1>3. row \in InstanceRow /\ OtpBounded(row)
  BY <1>1, WalletTyped
<1>4. allocating' \in AllocationRow /\ allocating'.instance = i
  BY <1>2, TypedIs DEF AllocationRow, InstanceRow
<1> HIDE DEF row
<1>5. registered' \in Registry /\ verifying' \subseteq DOMAIN instances /\ handoffs' \in Seq(HandoffRow)
      /\ Len(handoffs') <= MaxHandoffs /\ \A h \in DOMAIN handoffs' : handoffs'[h].instance \in DOMAIN instances
  BY <1>2 DEF JourneyTyped
<1> QED
  BY <1>2, <1>3, <1>4, <1>5, RowTyped

LEMMA FailureTyped ==
  ASSUME JourneyTyped, AllocationFails, allocating.step # "NONE", UNCHANGED <<registered, handoffs, verifying>>
  PROVE  JourneyTyped'
<1>0. PICK i \in DOMAIN instances : i = allocating.instance
  BY DEF JourneyTyped
<1> DEFINE row == [instances[i] EXCEPT !.wallet = "FAILED"]
<1>1. instances' = [instances EXCEPT ![i] = row] /\ allocating' = NoAllocation
  BY <1>0 DEF AllocationFails
<1>2. row \in InstanceRow /\ OtpBounded(row)
  BY WalletTyped
<1> HIDE DEF row
<1>3. registered' \in Registry /\ verifying' \subseteq DOMAIN instances
  BY DEF JourneyTyped
<1> QED
  BY <1>1, <1>2, <1>3, RowTypedAlone

LEMMA CreatedTyped ==
  ASSUME JourneyTyped, CreateWallet \/ RecordAllocation \/ AllocationDies
  PROVE  JourneyTyped'
<1>1. registered \in Registry /\ allocating \in AllocationRow /\ UNCHANGED <<handoffs, verifying>>
  BY DEF JourneyTyped, CreateWallet, RecordAllocation, AllocationDies
<1>2. CASE (CreateWallet \/ RecordAllocation) /\ AllocationFails /\ UNCHANGED registered
  <2>1. allocating.step # "NONE"
    BY <1>2 DEF CreateWallet, RecordAllocation
  <2> QED
    BY <1>1, <1>2, <2>1, FailureTyped
<1>3. CASE CreateWallet /\ ~(AllocationFails /\ UNCHANGED registered)
  <2>1. /\ allocating.step = "CREATE" /\ registered' = [registered EXCEPT !.wallet = CaseApproved]
        /\ allocating' = [allocating EXCEPT !.step = "RECORD"] /\ UNCHANGED instances
    BY <1>3 DEF CreateWallet
  <2>2. CaseApproved \in BOOLEAN
    BY DEF CaseApproved
  <2>3. registered' \in Registry
    BY <1>1, <2>1, <2>2 DEF Registry
  <2>4. allocating' \in AllocationRow /\ allocating'.instance \in DOMAIN instances
    BY <1>1, <2>1 DEF AllocationRow, JourneyTyped
  <2>5. \A j \in DOMAIN instances' : OtpBounded(instances[j])'
    BY <2>1 DEF JourneyTyped, OtpBounded
  <2> QED
    BY <1>1, <2>1, <2>3, <2>4, <2>5 DEF JourneyTyped
<1>4. CASE RecordAllocation /\ ~(AllocationFails /\ UNCHANGED registered)
  <2>1. PICK i \in DOMAIN instances : i = allocating.instance
    BY <1>4 DEF RecordAllocation, JourneyTyped
  <2> DEFINE rest == [instances[i] EXCEPT !.wallet = "SUCCEEDED"]
  <2>2. allocating' = NoAllocation /\ Advance(i, "SUCCESS", rest)
    BY <1>4, <2>1 DEF RecordAllocation
  <2>3. rest \in InstanceRow /\ OtpBounded(rest)
    BY WalletTyped
  <2> HIDE DEF rest
  <2> QED
    BY <1>1, <2>2, <2>3, AdvanceTyped
<1>5. CASE AllocationDies
  <2>1. allocating' = NoAllocation /\ UNCHANGED <<instances, registered, handoffs, verifying>>
    BY <1>5 DEF AllocationDies
  <2>2. allocating' \in AllocationRow /\ allocating'.step = "NONE"
    BY <2>1 DEF NoAllocation, AllocationRow
  <2>3. \A j \in DOMAIN instances' : OtpBounded(instances[j])'
    BY <2>1 DEF JourneyTyped, OtpBounded
  <2> QED
    BY <2>1, <2>2, <2>3 DEF JourneyTyped
<1> QED
  BY <1>2, <1>3, <1>4, <1>5

LEMMA HandoffTyped ==
  ASSUME JourneyTyped, NEW i \in DOMAIN instances, CreateHandoff(i)
  PROVE  JourneyTyped'
<1> DEFINE row == [instance |-> i, node |-> instances[i].node, status |-> "PENDING"]
<1>1. /\ Len(handoffs) < MaxHandoffs /\ handoffs' = Append(handoffs, row)
      /\ UNCHANGED <<instances, registered, allocating, verifying>>
  BY DEF CreateHandoff
<1>2. row \in HandoffRow /\ row.instance = i
  BY TypedIs DEF HandoffRow, InstanceRow
<1> HIDE DEF row
<1>3. handoffs \in Seq(HandoffRow) /\ Len(handoffs) \in Nat /\ MaxHandoffs \in Nat
  BY JourneyAssumption DEF JourneyTyped
<1>4. /\ handoffs' \in Seq(HandoffRow) /\ Len(handoffs') = Len(handoffs) + 1
      /\ \A h \in DOMAIN handoffs' : \/ h \in DOMAIN handoffs /\ handoffs'[h] = handoffs[h]
                                     \/ handoffs'[h] = row
  BY <1>1, <1>2, <1>3
<1>5. Len(handoffs') <= MaxHandoffs /\ \A h \in DOMAIN handoffs' : handoffs'[h].instance \in DOMAIN instances
  BY <1>1, <1>2, <1>3, <1>4 DEF JourneyTyped
<1>6. \A j \in DOMAIN instances' : OtpBounded(instances[j])'
  BY <1>1 DEF JourneyTyped, OtpBounded
<1> QED
  BY <1>1, <1>4, <1>5, <1>6 DEF JourneyTyped

LEMMA TakenTyped ==
  ASSUME JourneyTyped, NEW h \in DOMAIN handoffs, ConsumeHandoff(h) \/ HandoffExpires(h)
  PROVE  JourneyTyped'
<1>0. handoffs \in Seq(HandoffRow) /\ UNCHANGED <<registered, allocating, verifying>>
  BY DEF JourneyTyped, ConsumeHandoff, HandoffExpires
<1>1. handoffs[h] \in HandoffRow /\ handoffs \in Seq(HandoffRow) /\ UNCHANGED <<registered, allocating, verifying>>
  BY <1>0
<1>2. PICK status \in {"PENDING", "CONSUMED", "EXPIRED"} : handoffs' = [handoffs EXCEPT ![h].status = status]
  BY DEF ConsumeHandoff, HandoffExpires
<1> DEFINE taken == [handoffs[h] EXCEPT !.status = status]
<1>3. taken \in HandoffRow /\ taken.instance = handoffs[h].instance
  BY <1>1 DEF HandoffRow
<1>4. handoffs' = [handoffs EXCEPT ![h] = taken]
  BY <1>2
<1> HIDE DEF taken
<1>5. /\ handoffs' \in Seq(HandoffRow) /\ Len(handoffs') = Len(handoffs)
      /\ \A k \in DOMAIN handoffs' : k \in DOMAIN handoffs /\ handoffs'[k].instance = handoffs[k].instance
  BY <1>1, <1>3, <1>4
<1>6. Len(handoffs') <= MaxHandoffs /\ \A k \in DOMAIN handoffs' : handoffs'[k].instance \in DOMAIN instances
  BY <1>5 DEF JourneyTyped
<1>7. CASE HandoffExpires(h)
  <2>1. UNCHANGED instances
    BY <1>7 DEF HandoffExpires
  <2>2. \A j \in DOMAIN instances' : OtpBounded(instances[j])'
    BY <2>1 DEF JourneyTyped, OtpBounded
  <2> QED
    BY <1>1, <1>5, <1>6, <2>1, <2>2 DEF JourneyTyped
<1>8. CASE ConsumeHandoff(h)
  <2>0. PICK i \in DOMAIN instances : i = handoffs[h].instance
    BY DEF JourneyTyped
  <2>1. PICK e \in JourneyEdge :
          instances' = [instances EXCEPT ![i].node = e.to, ![i].status = StatusAt(e.to),
                                         ![i].live = TRUE, ![i].token = @ + 1]
    BY <1>8, <2>0 DEF ConsumeHandoff
  <2> DEFINE status2 == StatusAt(e.to)
             token == instances[i].token + 1
             row == [instances[i] EXCEPT !.node = e.to, !.status = status2, !.live = TRUE, !.token = token]
  <2>2. /\ e.to \in DOMAIN NodeType /\ status2 \in {"IN_PROGRESS", "MANUAL_REVIEW", "COMPLETED", "EXPIRED"}
        /\ token \in Nat
    BY TypedIs, JourneyAssumption DEF StatusAt, InstanceRow
  <2>3. instances' = [instances EXCEPT ![i] = row]
    BY <2>1
  <2> HIDE DEF status2, token
  <2>4. row \in InstanceRow /\ row.otp = instances[i].otp
    BY <2>2, TypedIs DEF InstanceRow
  <2> HIDE DEF row
  <2>5. OtpBounded(row)
    BY <2>4, TypedIs DEF OtpBounded
  <2>6. /\ registered' \in Registry /\ verifying' \subseteq DOMAIN instances /\ allocating' \in AllocationRow
        /\ allocating'.step # "NONE" => allocating'.instance \in DOMAIN instances
    BY <1>1 DEF JourneyTyped
  <2> QED
    BY <1>5, <1>6, <2>3, <2>4, <2>5, <2>6, RowTyped
<1> QED
  BY <1>7, <1>8

LEMMA JourneyTypedStep == JourneyTyped /\ [JourneyNext]_journeyVars => JourneyTyped'
<1> SUFFICES ASSUME JourneyTyped, [JourneyNext]_journeyVars PROVE JourneyTyped'
  OBVIOUS
<1>1. CASE UNCHANGED journeyVars
  <2>1. UNCHANGED <<instances, registered, handoffs, allocating, verifying>>
    BY <1>1 DEF journeyVars
  <2>2. \A j \in DOMAIN instances' : OtpBounded(instances[j])'
    BY <2>1 DEF JourneyTyped, OtpBounded
  <2> QED
    BY <2>1, <2>2 DEF JourneyTyped
<1>2. CASE JourneyNext
  BY <1>2, StartTyped, OtpTyped, VerifyOtpTyped, CheckTyped, DecisionTyped, AllocationTyped, CreatedTyped,
     HandoffTyped, TakenTyped DEF JourneyNext
<1> QED
  BY <1>1, <1>2

LEMMA JourneyTypedKept == JourneyTyped => JourneyTypeOK
<1> SUFFICES ASSUME JourneyTyped PROVE JourneyTypeOK
  OBVIOUS
<1>1. ASSUME NEW i \in DOMAIN instances
      PROVE  /\ instances[i].node \in DOMAIN NodeType
             /\ instances[i].status \in {"IN_PROGRESS", "MANUAL_REVIEW", "COMPLETED", "EXPIRED"}
             /\ instances[i].wallet \in {"NONE", "PENDING", "FAILED", "SUCCEEDED"}
             /\ instances[i].otp.attempts \in 0..OtpAttempts
  <2>1. instances[i].otp.attempts \in Nat /\ instances[i].otp.attempts <= OtpAttempts
    BY TypedIs DEF OtpRow, OtpBounded
  <2> QED
    BY <2>1, TypedIs, JourneyAssumption DEF InstanceRow
<1>2. allocating.step \in {"NONE", "CREATE", "RECORD"}
  BY DEF JourneyTyped, AllocationRow
<1> QED
  BY <1>1, <1>2 DEF JourneyTyped, JourneyTypeOK, Registry

-----------------------------------------------------------------------------
(* What every service keeps, of the types.                                  *)
OfficeInv ==
  /\ EodInv /\ AccountingInv /\ TreasuryInv /\ IntegrationInv /\ AdminInv /\ MfaInv /\ CustomerInv
  /\ ListsInv /\ RunsCounted /\ JourneyTyped

ReviewInv ==
  /\ RefTyped /\ PricingInv /\ FlowInv /\ ChargeInv /\ EditsBounded /\ TariffInv /\ VersionInv
  /\ GraphInv /\ LooksBounded /\ LooksCut /\ RuleInv /\ CommercialInv /\ CreditInv

ScreenInv == ConsoleInv /\ WorkInv /\ BatchInv /\ StudioInv

LEMMA OfficeTyped ==
  OfficeInv =>
    /\ EodTypeOK /\ AccountingTypeOK /\ TreasuryTypeOK /\ IntegrationTypeOK /\ AdminTypeOK /\ MfaTypeOK
    /\ CustomerTypeOK /\ SanctionsTypeOK /\ JourneyTypeOK
<1>1. EodInv => EodTypeOK
  BY DEF EodInv
<1>2. MfaInv => MfaTypeOK
  BY DEF MfaInv
<1> QED
  BY <1>1, <1>2, AccountingKept, TreasuryKept, IntegrationKept, AdminKept, CustomerKept, RunsKept, JourneyTypedKept
     DEF OfficeInv

LEMMA ReviewTyped ==
  ReviewInv =>
    /\ RefTypeOK /\ PricingTypeOK /\ FlowTypeOK /\ ChargeTypeOK /\ TariffTypeOK /\ ConfigTypeOK /\ GraphTypeOK
    /\ CreditRuleTypeOK /\ CommercialTypeOK /\ CreditDecisionTypeOK
BY RefTypedKept, PricingKept, FlowTypesKept, EditsKept, TariffKept, VersionsKept, LooksKept, RuleKept, CommercialKept,
   CreditKept DEF ReviewInv

LEMMA ScreenTyped == ScreenInv => ConsoleTypeOK /\ WorkspaceTypeOK /\ StudioTypeOK
BY ConsoleKept, WorkspaceKept, StudioKept DEF ScreenInv

LEMMA TypesBegin == ServicesInit => OfficeInv /\ ReviewInv /\ ScreenInv /\ focus \in Service
<1> SUFFICES ASSUME ServicesInit PROVE OfficeInv /\ ReviewInv /\ ScreenInv /\ focus \in Service
  OBVIOUS
<1>1. OfficeInv
  BY AllBegin, EodStart, AccountingStart, TreasuryStart, IntegrationStart, AdminStart, MfaStart, CustomerStart,
     ListsStart, RunsStart, JourneyTypedStart DEF OfficeInv
<1>2. ReviewInv
  BY AllBegin, RefTypedStart, PricingStart, FlowStart, ChargeStart, EditsStart, TariffStart, VersionStart, GraphStart,
     LooksStart, RuleStart, CommercialStart, CreditStart DEF ReviewInv
<1>3. ScreenInv /\ focus \in Service
  BY AllBegin, ConsoleStart, WorkStart, BatchStart, StudioStart DEF ScreenInv
<1> QED
  BY <1>1, <1>2, <1>3

LEMMA OfficeStep == OfficeInv /\ [ServicesNext]_servicesVars => OfficeInv'
BY OneMoves, EodStep, AccountingStep, TreasuryStep, IntegrationStep, AdminStep, MfaStep, CustomerStep, ListsStep,
   RunsStep, JourneyTypedStep DEF OfficeInv

LEMMA ReviewStepTyped == ReviewInv /\ [ServicesNext]_servicesVars => ReviewInv'
BY OneMoves, RefTypedStep, PricingStep, FlowStep, ChargeStep, EditsStep, TariffStep, VersionStep, GraphStep,
   LooksStep, RuleStep, CommercialStep, CreditStep DEF ReviewInv

LEMMA ScreenStep == ScreenInv /\ [ServicesNext]_servicesVars => ScreenInv'
BY OneMoves, ConsoleStep, WorkStep, BatchStep, StudioStep DEF ScreenInv

(* ServicesTypeOK: every service's variables stay in their types and within *)
(* their bounds, among them that no instance of a journey takes more tries  *)
(* of a code than its policy has, that a count of running synchronisations  *)
(* does not fall below none, that a proposed profile of reference data is a *)
(* whole one, and that a charge is never a negative number.                 *)
THEOREM ServicesTypeCorrect == ServicesSpec => []ServicesTypeOK
<1> DEFINE Inv == OfficeInv /\ ReviewInv /\ ScreenInv /\ focus \in Service
<1>1. ServicesInit => Inv
  BY TypesBegin
<1>2. Inv /\ [ServicesNext]_servicesVars => Inv'
  BY OneMoves, OfficeStep, ReviewStepTyped, ScreenStep
<1>3. Inv => ServicesTypeOK
  BY OfficeTyped, ReviewTyped, ScreenTyped DEF ServicesTypeOK
<1> HIDE DEF Inv
<1> QED
  BY <1>1, <1>2, <1>3, PTL DEF ServicesSpec
=============================================================================
