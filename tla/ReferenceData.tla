----------------------------- MODULE ReferenceData -----------------------------
(***************************************************************************)
(* Maker-checker changes of reference data, shown on AML profiles: a maker *)
(* reads the live record, merges the fields of the payload into it and     *)
(* queues the merged record; a checker applies it.  Queueing is one        *)
(* transaction under an advisory lock per record; the read before it is    *)
(* not part of that transaction.                                           *)
(***************************************************************************)
EXTENDS Naturals, Sequences

CONSTANTS
  RefKey,         \* records that can be changed, AML keys walletCode:keyword
  Clerk,          \* administrators with reference_data.make and .check
  SuperClerk,     \* those of them with the super_admin role
  Limit,          \* values of a limit
  MaxChanges      \* bound on submitted change requests

ASSUME ReferenceAssumption ==
  /\ SuperClerk \subseteq Clerk /\ 1 \in Limit /\ Limit \subseteq Nat \ {0} /\ MaxChanges \in Nat
  /\ "nobody" \notin Clerk

VARIABLES
  live,           \* SW_TBL_AML, by key
  changes,        \* reference_data_change_requests, in order of id
  drafts,         \* a maker's request between its read and its transaction
  cachesBumped    \* the cached configurations were outdated after the last change

refVars == <<live, changes, drafts, cachesBumped>>

LimitField == {"max", "daily"}
NoProfile  == [max |-> 0, daily |-> 0, active |-> FALSE]
Profile    == [max : Limit, daily : Limit, active : BOOLEAN]
NoDraft    == [action |-> "none"]

RefInit ==
  /\ live \in [RefKey -> {NoProfile, [max |-> 1, daily |-> 1, active |-> TRUE]}]
  /\ changes = <<>>
  /\ drafts = [a \in Clerk |-> NoDraft]
  /\ cachesBumped = TRUE

(* assertAmlLimits, also CK_AML_AMOUNT_ORDER.                               *)
Ordered(p) == p.max <= p.daily

Draft(a, action, k, base, proposed, named) ==
  /\ drafts[a] = NoDraft /\ Len(changes) < MaxChanges
  /\ drafts' = [drafts EXCEPT ![a] = [action |-> action, key |-> k, base |-> base,
                                      proposed |-> proposed, named |-> named]]
  /\ UNCHANGED <<live, changes, cachesBumped>>

(* createAmlConfiguration: every limit is given, the profile is active.     *)
DraftCreate(a, k) ==
  \E p \in {q \in Profile : q.active /\ Ordered(q)} :
    Draft(a, "CREATE", k, NoProfile, p, DOMAIN p)

(* updateAmlConfiguration: the fields of the payload over the record read.  *)
DraftUpdate(a, k) ==
  /\ live[k] # NoProfile
  /\ \E f \in LimitField, v \in Limit :
       LET p == [live[k] EXCEPT ![f] = v]
       IN Ordered(p) /\ Draft(a, "UPDATE", k, live[k], p, {f})

DraftDelete(a, k) ==
  /\ live[k] # NoProfile
  /\ Draft(a, "DELETE", k, live[k], [live[k] EXCEPT !.active = FALSE], {"active"})

Pending(k) == {i \in DOMAIN changes : changes[i].key = k /\ changes[i].status = "PENDING"}

(* queue: the checks against the record as it is now.                       *)
Acceptable(d) ==
  /\ (d.action = "CREATE") <=> (live[d.key] = NoProfile)
  /\ d.action # "CREATE" => live[d.key] # d.proposed
  /\ Pending(d.key) = {}

Queue(a) ==
  /\ drafts[a] # NoDraft
  /\ IF Acceptable(drafts[a])
     THEN changes' = Append(changes, [action |-> drafts[a].action, key |-> drafts[a].key,
            base |-> drafts[a].base, proposed |-> drafts[a].proposed, named |-> drafts[a].named,
            maker |-> a, checker |-> "nobody", status |-> "PENDING"])
     ELSE UNCHANGED changes
  /\ drafts' = [drafts EXCEPT ![a] = NoDraft]
  /\ UNCHANGED <<live, cachesBumped>>

(* assertDifferentUser and CK_REFERENCE_CHANGE_DIFFERENT_CHECKER: the code  *)
(* lets a super administrator decide on an own request, the constraint of   *)
(* the table does not.                                                      *)
MayDecide(a, i) ==
  /\ changes[i].status = "PENDING"
  /\ changes[i].maker # a \/ a \in SuperClerk
  /\ changes[i].maker # a

Decided(a, i, status) ==
  changes' = [changes EXCEPT ![i].status = status, ![i].checker = a]

(* Faulty: the record is not compared with the one the maker read.          *)
FaultyStillBase(c) == (c.action = "CREATE") <=> (live[c.key] = NoProfile)

StillBase(c) ==
  /\ (c.action = "CREATE") <=> (live[c.key] = NoProfile)
  /\ c.action # "CREATE" => live[c.key] = c.base

(* approve: one transaction.  The caches are outdated after the commit, and *)
(* nobody hears of it when that fails.                                      *)
ApproveChange(a, i) ==
  /\ MayDecide(a, i) /\ StillBase(changes[i])
  /\ live' = [live EXCEPT ![changes[i].key] = changes[i].proposed]
  /\ Decided(a, i, "APPROVED")
  /\ cachesBumped' \in BOOLEAN
  /\ UNCHANGED drafts

RejectChange(a, i) ==
  /\ MayDecide(a, i) /\ Decided(a, i, "REJECTED")
  /\ UNCHANGED <<live, drafts, cachesBumped>>

CancelChange(a, i) ==
  /\ changes[i].status = "PENDING" /\ changes[i].maker = a
  /\ changes' = [changes EXCEPT ![i].status = "CANCELLED"]
  /\ UNCHANGED <<live, drafts, cachesBumped>>

RefNext ==
  \E a \in Clerk :
    \/ \E k \in RefKey : DraftCreate(a, k) \/ DraftUpdate(a, k) \/ DraftDelete(a, k)
    \/ Queue(a)
    \/ \E i \in DOMAIN changes : ApproveChange(a, i) \/ RejectChange(a, i) \/ CancelChange(a, i)

RefSpec == RefInit /\ [][RefNext]_refVars

-----------------------------------------------------------------------------
(* Limits of a configuration and the use of an account, as the builder of   *)
(* the console sends them to the simulation.                                *)
AmlLimit == [max : Limit \cup {0}, daily : Limit, dailyCount : Limit, monthly : Limit, monthlyCount : Limit]
AmlUse   == [daily : Limit \cup {0}, dailyCount : Limit \cup {0}, monthly : Limit \cup {0}, monthlyCount : {0, 1}]

(* validateLimits: what the builder sends.                                  *)
validateLimits(l) ==
  /\ \A f \in DOMAIN l : l[f] > 0
  /\ l.max <= l.daily /\ l.daily <= l.monthly /\ l.dailyCount <= l.monthlyCount

(* simulateAmlConfiguration: the first of five checks that fails.           *)
simulateAmlConfiguration(l, use, amount) ==
  LET checks == <<[code |-> "MAX_TRANSACTION", used |-> amount, limit |-> l.max],
                  [code |-> "DAILY_AMOUNT", used |-> use.daily + amount, limit |-> l.daily],
                  [code |-> "DAILY_COUNT", used |-> use.dailyCount + 1, limit |-> l.dailyCount],
                  [code |-> "MONTHLY_AMOUNT", used |-> use.monthly + amount, limit |-> l.monthly],
                  [code |-> "MONTHLY_COUNT", used |-> use.monthlyCount + 1, limit |-> l.monthlyCount]>>
      failed == {i \in DOMAIN checks : checks[i].used > checks[i].limit}
  IN  IF failed = {} THEN "PASS" ELSE checks[CHOOSE i \in failed : \A j \in failed : i <= j].code

(* What sw_proc_aml_reserve answers an account with that use: the amount is *)
(* looked at first, the sums of the summary and the pending rows after.     *)
ReserveAnswers(l, use, amount) ==
  LET over(code, used, limit, next) == IF used > limit THEN code ELSE next
  IN  over("MAX_TRANSACTION", amount, l.max,
        over("DAILY_AMOUNT", use.daily + amount, l.daily,
          over("DAILY_COUNT", use.dailyCount + 1, l.dailyCount,
            over("MONTHLY_AMOUNT", use.monthly + amount, l.monthly,
              over("MONTHLY_COUNT", use.monthlyCount + 1, l.monthlyCount, "PASS")))))

(* The simulation an administrator runs before submitting limits gives the  *)
(* answer, and the reason, that a transaction gets from its reservation.    *)
SimulatorAgrees ==
  \A l \in {x \in AmlLimit : validateLimits(x)}, use \in AmlUse, amount \in Limit :
    simulateAmlConfiguration(l, use, amount) = ReserveAnswers(l, use, amount)

-----------------------------------------------------------------------------
RefTypeOK ==
  /\ live \in [RefKey -> Profile \cup {NoProfile}]
  /\ \A i \in DOMAIN changes :
       /\ changes[i].status \in {"PENDING", "APPROVED", "REJECTED", "CANCELLED"}
       /\ changes[i].key \in RefKey /\ changes[i].proposed \in Profile
  /\ DOMAIN drafts = Clerk /\ cachesBumped \in BOOLEAN

(* A live record changes only when somebody else than its maker approves a  *)
(* change, in the fields that change names, and stays ordered: nobody's     *)
(* approved work is overwritten by a record read before it.                 *)
LiveOnlyByApproval ==
  [][\A k \in RefKey : live'[k] # live[k] =>
       /\ Ordered(live'[k])
       /\ \E i \in Pending(k) :
            /\ changes'[i].status = "APPROVED" /\ changes'[i].checker # changes[i].maker
            /\ \A f \in DOMAIN live[k] \ changes[i].named : live'[k][f] = live[k][f]]_refVars
=============================================================================
