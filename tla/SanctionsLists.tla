---------------------------- MODULE SanctionsLists ----------------------------
(***************************************************************************)
(* The sanctions lists customers are screened against: the official        *)
(* download replaces two lists at once, a manual upload replaces or extends *)
(* one.  Replacing is one database transaction; the delete sees the rows    *)
(* that were committed when it began.                                      *)
(***************************************************************************)
EXTENDS FiniteSets, Naturals

CONSTANTS
  ListOfficer,     \* one operation each
  ListName,        \* sources of records
  OfficialList,    \* OFAC and UNSCR
  Sanctioned,      \* persons that may be on a list
  MaxListRuns      \* bound on operations

ASSUME SanctionsAssumption == OfficialList \subseteq ListName /\ MaxListRuns \in Nat

VARIABLES
  records,         \* kyc.sanction_records, by source
  listJob,         \* what an officer's operation is doing
  listLock,        \* the session advisory lock: its holder
  runs,            \* kyc.sanction_sync_runs: how many ended in each way
  published        \* each list as the last operation that took effect left it

sanctionsVars == <<records, listJob, listLock, runs, published>>

NoListJob == [pc |-> "idle", mode |-> "none", lists |-> {}, names |-> {}, deleted |-> {}]

SanctionsInit ==
  /\ records = [s \in ListName |-> {}] /\ published = records
  /\ listJob = [o \in ListOfficer |-> NoListJob]
  /\ listLock = {}
  /\ runs = [RUNNING |-> 0, COMPLETED |-> 0, FAILED |-> 0]

Started == runs.RUNNING + runs.COMPLETED + runs.FAILED

(* Faulty: the operation does not ask for the lock.                         *)
FaultyLockFree == TRUE

(* pg_try_advisory_lock: a second operation is refused, not queued.         *)
LockFree == listLock = {}

(* startRun under the lock: syncOfficial takes both official lists,         *)
(* uploadManual one other.  A download that is too short fails, a CSV file  *)
(* has at least one row.                                                    *)
startRun(o, mode, lists, names) ==
  /\ names # {} /\ listJob[o] = NoListJob /\ LockFree /\ Started < MaxListRuns
  /\ listLock' = {o}
  /\ listJob' = [listJob EXCEPT ![o] =
       [pc |-> "started", mode |-> mode, lists |-> lists, names |-> names, deleted |-> {}]]
  /\ runs' = [runs EXCEPT !.RUNNING = @ + 1]
  /\ UNCHANGED <<records, published>>

syncOfficial(o, names) == startRun(o, "REPLACE", OfficialList, names)

uploadManual(o, mode, s, names) ==
  s \notin OfficialList /\ startRun(o, mode, {s}, names)

(* replace, up to the insert: what the delete will take away.               *)
beginReplace(o) ==
  LET j == listJob[o] IN
  /\ j.pc = "started"
  /\ listJob' = [listJob EXCEPT ![o].pc = "replacing", ![o].deleted =
       IF j.mode = "REPLACE" THEN {r \in j.lists \X Sanctioned : r[2] \in records[r[1]]} ELSE {}]
  /\ UNCHANGED <<records, listLock, runs, published>>

commitReplace(o) ==
  LET j == listJob[o]
      after(old) == IF j.mode = "REPLACE" THEN j.names ELSE old \cup j.names
  IN
  /\ j.pc = "replacing"
  /\ records' = [s \in ListName |->
       IF s \in j.lists THEN {n \in records[s] : <<s, n>> \notin j.deleted} \cup j.names
       ELSE records[s]]
  /\ published' = [s \in ListName |-> IF s \in j.lists THEN after(published[s]) ELSE published[s]]
  /\ listJob' = [listJob EXCEPT ![o].pc = "applied"]
  /\ UNCHANGED <<listLock, runs>>

EndRun(o, status) ==
  /\ listJob' = [listJob EXCEPT ![o] = NoListJob]
  /\ listLock' = listLock \ {o}
  /\ runs' = [runs EXCEPT !.RUNNING = @ - 1, ![status] = @ + 1]
  /\ UNCHANGED <<records, published>>

completeRun(o) == listJob[o].pc = "applied" /\ EndRun(o, "COMPLETED")

(* A download, a row or the commit fails, or completeRun itself does.       *)
failRun(o) == listJob[o] # NoListJob /\ EndRun(o, "FAILED")

(* The process dies: the lock goes with its connection, the run's row stays.*)
officerLost(o) ==
  /\ listJob[o] # NoListJob
  /\ listJob' = [listJob EXCEPT ![o] = NoListJob]
  /\ listLock' = listLock \ {o}
  /\ UNCHANGED <<records, runs, published>>

SanctionsNext ==
  \E o \in ListOfficer :
    \/ \E names \in SUBSET Sanctioned : syncOfficial(o, names)
    \/ \E mode \in {"REPLACE", "MERGE"}, s \in ListName, names \in SUBSET Sanctioned :
         uploadManual(o, mode, s, names)
    \/ beginReplace(o) \/ commitReplace(o) \/ completeRun(o) \/ failRun(o) \/ officerLost(o)

SanctionsSpec == SanctionsInit /\ [][SanctionsNext]_sanctionsVars

-----------------------------------------------------------------------------
SanctionsTypeOK ==
  /\ records \in [ListName -> SUBSET Sanctioned] /\ published \in [ListName -> SUBSET Sanctioned]
  /\ listLock \subseteq ListOfficer
  /\ runs \in [{"RUNNING", "COMPLETED", "FAILED"} -> Nat]
  /\ \A o \in ListOfficer :
       /\ listJob[o].pc \in {"idle", "started", "replacing", "applied"}
       /\ listJob[o].lists \subseteq ListName /\ listJob[o].names \subseteq Sanctioned

(* A customer is screened against whole lists: each is what the last        *)
(* replacement that took effect brought, with the uploads merged since, and *)
(* the official ones are of one download.                                   *)
ListsWhole ==
  /\ records = published
  /\ \A s, t \in OfficialList : records[s] = records[t]
=============================================================================
