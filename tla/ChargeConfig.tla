------------------------------ MODULE ChargeConfig ------------------------------
(***************************************************************************)
(* Charge headers and their details under maker and checker, and the cached*)
(* configuration that transactions are charged by.  No operation runs in a *)
(* transaction of its own: it reads a row, has TypeORM save what it made of*)
(* it, outdates the cache, one awaited call after the other, and may break *)
(* off in between.  A save is two statements: the row is read again, then  *)
(* the columns in which the saved row differs from that reading, and no    *)
(* others, are updated.                                                    *)
(* Commissions are configured and cached the same way.                     *)
(***************************************************************************)
EXTENDS Naturals

CONSTANTS
  Accountant,     \* administrators with charges.make and .check
  MaxEdits        \* bound on changes begun

ASSUME ChargeAssumption == MaxEdits \in Nat /\ "nobody" \notin Accountant

VARIABLES
  header,         \* SW_TBL_CHARGE: content, maker, approver, active
  reviewed,       \* history: the content that the last call to approve had read
  crossed,        \* history: another save came between the reading and the update of the last one
  detail,         \* SW_TBL_CHARGE_DETAIL: the rows of the charge, as a number
  editing,        \* an administrator's operation: next call, row it saves, row as
                  \* its save read it again, number
  edits,
  version,        \* charge:config:version, 0 when the key is missing
  cached,         \* charge:config:<version>:..., 0 when the key is missing
  loading         \* configurationLoads: what a load in progress has read

chargeVars == <<header, reviewed, crossed, detail, editing, edits, version, cached, loading>>

Absent == [content |-> 0, detail |-> 0]
Version == 0..MaxEdits

(* A charge that was edited since it was created, so its maker is the one   *)
(* in modifiedBy.                                                           *)
FirstHeader == [content : {1}, maker : Accountant, approver : {"nobody"}, active : {FALSE}]

ChargeInit ==
  /\ header \in FirstHeader /\ reviewed = 0 /\ crossed = FALSE
  /\ detail = 1 /\ edits = 0 /\ version = 0
  /\ editing = [a \in Accountant |-> [pc |-> "idle", row |-> header, seen |-> header, n |-> 0]]
  /\ cached = [v \in Version |-> Absent] /\ loading = [v \in Version |-> Absent]

NextCall(a, pc) == editing' = [editing EXCEPT ![a].pc = pc]

-----------------------------------------------------------------------------
(* What deactivateCharge and markChargePending, updateCharge and            *)
(* approveCharge make of the row they have read.                            *)
Deactivated(a) == [header EXCEPT !.active = FALSE, !.maker = a, !.approver = "nobody"]
Edited(a) == [Deactivated(a) EXCEPT !.content = 2 + edits]
Approved(a) == [header EXCEPT !.active = TRUE, !.approver = a]

Saves(a, row, n) ==
  editing' = [editing EXCEPT ![a] = [pc |-> "reload", row |-> row, seen |-> row, n |-> n]]

(* The maker of the row as it is read does not approve it.                  *)
ReadHeader(a) ==
  /\ editing[a].pc = "idle" /\ edits < MaxEdits
  /\ edits' = edits + 1
  /\ \/ Saves(a, Deactivated(a), edits + 1) \/ Saves(a, Edited(a), edits + 1)
     \/ a # header.maker /\ Saves(a, Approved(a), edits + 1)
  /\ UNCHANGED <<header, reviewed, crossed, detail, version, cached, loading>>

(* createDetail, updateDetail and deleteDetail: the rows change first, then *)
(* markChargePending reads the header.                                      *)
SaveDetail(a) ==
  /\ editing[a].pc = "idle" /\ edits < MaxEdits
  /\ edits' = edits + 1 /\ detail' = detail + 1
  /\ editing' = [editing EXCEPT ![a].pc = "mark", ![a].n = edits + 1]
  /\ UNCHANGED <<header, reviewed, crossed, version, cached, loading>>

ReadParent(a) ==
  /\ editing[a].pc = "mark" /\ Saves(a, Deactivated(a), editing[a].n)
  /\ UNCHANGED <<header, reviewed, crossed, detail, edits, version, cached, loading>>

Reload(a) ==
  /\ editing[a].pc = "reload"
  /\ editing' = [editing EXCEPT ![a].pc = "write", ![a].seen = header]
  /\ UNCHANGED <<header, reviewed, crossed, detail, edits, version, cached, loading>>

(* Of each column, what is saved where it differs from what was read.       *)
Differing(row, seen) ==
  [column \in DOMAIN row |-> IF row[column] # seen[column] THEN row[column] ELSE header[column]]

(* Faulty: approval updates the columns it sets, whatever else differs.     *)
FaultyRowAsUpdated(row, seen) ==
  IF row.active THEN [header EXCEPT !.active = TRUE, !.approver = row.approver]
  ELSE Differing(row, seen)

RowAsUpdated(row, seen) == Differing(row, seen)

WriteHeader(a) ==
  LET row == editing[a].row IN
  /\ editing[a].pc = "write"
  /\ header' = RowAsUpdated(row, editing[a].seen)
  /\ crossed' = (editing[a].seen # header)
  /\ reviewed' = IF row.active THEN row.content ELSE reviewed
  /\ NextCall(a, "delete")
  /\ UNCHANGED <<detail, edits, version, cached, loading>>

(* invalidateCache: the pattern also matches the version; a failure of      *)
(* Redis is ignored in either call.                                         *)
DeletePattern(a) ==
  /\ editing[a].pc = "delete"
  /\ \/ cached' = [v \in Version |-> Absent] /\ version' = 0
     \/ UNCHANGED <<cached, version>>
  /\ NextCall(a, "bump")
  /\ UNCHANGED <<header, reviewed, crossed, detail, edits, loading>>

BumpVersion(a) ==
  /\ editing[a].pc = "bump"
  /\ version' \in {editing[a].n, version}
  /\ NextCall(a, "idle")
  /\ UNCHANGED <<header, reviewed, crossed, detail, edits, cached, loading>>

(* A failure of the database, or the process dies.                          *)
BreakOff(a) ==
  /\ editing[a].pc # "idle" /\ NextCall(a, "idle")
  /\ UNCHANGED <<header, reviewed, crossed, detail, edits, version, cached, loading>>

-----------------------------------------------------------------------------
Live == [content |-> header.content, detail |-> detail]

(* resolveConfiguration, not cached and not being loaded; an inactive       *)
(* charge is not found.                                                     *)
StartLoad ==
  /\ cached[version] = Absent /\ loading[version] = Absent /\ header.active
  /\ loading' = [loading EXCEPT ![version] = Live]
  /\ UNCHANGED <<header, reviewed, crossed, detail, editing, edits, version, cached>>

FinishLoad(v) ==
  /\ loading[v] # Absent
  /\ loading' = [loading EXCEPT ![v] = Absent]
  /\ \/ cached' = [cached EXCEPT ![v] = loading[v]]
     \/ UNCHANGED cached
  /\ UNCHANGED <<header, reviewed, crossed, detail, editing, edits, version>>

(* Faulty: the entry is stored without a time to live.                      *)
FaultyExpire(v) == FALSE

(* The 300 seconds of an entry are over.                                    *)
Expire(v) ==
  /\ cached[v] # Absent /\ cached' = [cached EXCEPT ![v] = Absent]
  /\ UNCHANGED <<header, reviewed, crossed, detail, editing, edits, version, loading>>

ChargeNext ==
  \/ \E a \in Accountant :
       ReadHeader(a) \/ SaveDetail(a) \/ ReadParent(a) \/ Reload(a) \/ WriteHeader(a)
       \/ DeletePattern(a) \/ BumpVersion(a) \/ BreakOff(a)
  \/ StartLoad
  \/ \E v \in Version : FinishLoad(v) \/ Expire(v)

(* Loads end and entries expire, in whatever order.                         *)
ChargeFairness == WF_chargeVars(\E v \in Version : FinishLoad(v) \/ Expire(v))

ChargeSpec == ChargeInit /\ [][ChargeNext]_chargeVars /\ ChargeFairness

-----------------------------------------------------------------------------
ChargeTypeOK ==
  /\ header.maker \in Accountant /\ header.approver \in Accountant \cup {"nobody"}
  /\ edits \in Version /\ version \in Version /\ detail \in Nat
  /\ \A a \in Accountant :
       editing[a].pc \in {"idle", "mark", "reload", "write", "delete", "bump"}

(* An active charge header holds the content that the call of its checker   *)
(* had read, and the checker is not its maker, whatever was edited between  *)
(* that reading and the save: the save puts back what changed before it     *)
(* read the row again.  What changes after that, before its update, is not  *)
(* seen by it, and until the next save the header may be active with        *)
(* content nobody approved.  The details of the charge are not covered.     *)
ApprovedHeaderReviewed ==
  header.active /\ ~crossed =>
    /\ header.approver \notin {"nobody", header.maker}
    /\ header.content = reviewed

(* Whatever failed or overlapped, once nobody changes the configuration any *)
(* more transactions are in the end charged by the configuration in force.  *)
StaleChargesEnd == <>[](cached[version] \in {Absent, Live})
=============================================================================
