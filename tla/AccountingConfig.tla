--------------------------- MODULE AccountingConfig ---------------------------
(***************************************************************************)
(* The effective-dated accounting configurations of one currency.  A       *)
(* request is one database transaction; its steps are the statements that  *)
(* other transactions can come between.                                    *)
(***************************************************************************)
EXTENDS Integers, FiniteSets

CONSTANTS
  ConfigRequest,   \* requests in flight at once
  LastDate,        \* bound: dates are 1 .. LastDate
  MaxConfigs       \* bound on the rows of the currency

ASSUME AccountingAssumption == LastDate \in Nat \ {0} /\ MaxConfigs \in Nat

EffectiveDate == 1..LastDate
OpenEnded == 0      \* effective_to IS NULL

VARIABLES
  configs,         \* sw_tbl_accounting_configuration: committed rows, from and to
  request          \* an open transaction: its kind, step, date and the row it closes

accountingVars == <<configs, request>>

NoRow   == [from |-> 0, to |-> 0]
NoRequest == [kind |-> "none", pc |-> "none", from |-> 0, closes |-> NoRow]

OpenRow(c) == c.to = OpenEnded
OpenRows == {c \in configs : OpenRow(c)}

(* A currency comes with a configuration or is to be provisioned.           *)
AccountingInit ==
  /\ configs \in {{}, {[from |-> 1, to |-> OpenEnded]}}
  /\ request = [r \in ConfigRequest |-> NoRequest]

Step(r, q) == request' = [request EXCEPT ![r] = q]

(* provisionCurrency, up to the existing row; an advisory lock lets one     *)
(* provisioning of the currency in at a time.  A row that ends later has an *)
(* open-ended successor.                                                    *)
beginProvision(r, from) ==
  /\ request[r] = NoRequest
  /\ \A x \in ConfigRequest : request[x].kind # "provision"
  /\ OpenRows = {}
  /\ Step(r, [kind |-> "provision", pc |-> "insert", from |-> from, closes |-> NoRow])
  /\ UNCHANGED configs

(* create: the UPDATE finds the open-ended row.                             *)
beginCreate(r, from) ==
  /\ request[r] = NoRequest
  /\ \E c \in IF OpenRows = {} THEN {NoRow} ELSE OpenRows :
       Step(r, [kind |-> "create", pc |-> IF c = NoRow THEN "insert" ELSE "update",
                from |-> from, closes |-> c])
  /\ UNCHANGED configs

RowLockedBy(c) == {r \in ConfigRequest : request[r].pc = "insert" /\ request[r].closes = c}

(* The UPDATE gets the row's lock and looks at it again: a row that was     *)
(* closed meanwhile no longer matches.                                      *)
lockOpenRow(r) ==
  LET q == request[r] IN
  /\ q.pc = "update"
  /\ RowLockedBy(q.closes) = {}
  /\ Step(r, [q EXCEPT !.pc = "insert", !.closes = IF q.closes \in configs THEN @ ELSE NoRow])
  /\ UNCHANGED configs

(* Faulty: the old row ends on the day the new one begins.                  *)
FaultyEndedBefore(c, from) == [c EXCEPT !.to = from]

EndedBefore(c, from) == [c EXCEPT !.to = from - 1]

(* CK_ACCOUNTING_CONFIG_PERIOD and UQ_ACTIVE_ACCOUNTING_CONFIG.             *)
ValidPeriod(c) == OpenRow(c) \/ c.to >= c.from
OneOpenRow(rows) == Cardinality({c \in rows : OpenRow(c)}) <= 1

RowsAfter(q) ==
  (configs \ {q.closes}) \cup {[from |-> q.from, to |-> OpenEnded]}
    \cup (IF q.closes = NoRow THEN {} ELSE {EndedBefore(q.closes, q.from)})

(* The insert and the commit; a violated constraint rolls everything back.  *)
(* Rows are a set: MaxConfigs bounds it, and no row equals another.         *)
Permits(q) ==
  /\ Cardinality(RowsAfter(q)) <= MaxConfigs
  /\ Cardinality(RowsAfter(q)) = Cardinality(configs) + 1
  /\ OneOpenRow(RowsAfter(q)) /\ \A c \in RowsAfter(q) : ValidPeriod(c)

commitConfiguration(r) ==
  /\ request[r].pc = "insert" /\ Permits(request[r])
  /\ configs' = RowsAfter(request[r])
  /\ Step(r, NoRequest)

rollbackConfiguration(r) ==
  /\ request[r] # NoRequest
  /\ Step(r, NoRequest) /\ UNCHANGED configs

AccountingNext ==
  \E r \in ConfigRequest :
    \/ \E from \in EffectiveDate : beginProvision(r, from) \/ beginCreate(r, from)
    \/ lockOpenRow(r) \/ commitConfiguration(r) \/ rollbackConfiguration(r)

AccountingSpec == AccountingInit /\ [][AccountingNext]_accountingVars

-----------------------------------------------------------------------------
ConfigRow == [from : 0..LastDate, to : 0..LastDate]

AccountingTypeOK ==
  /\ configs \subseteq ConfigRow
  /\ request \in [ConfigRequest -> [kind : {"none", "provision", "create"},
                                    pc : {"none", "update", "insert"},
                                    from : 0..LastDate, closes : ConfigRow]]

Covers(c, d) == c.from <= d /\ (OpenRow(c) \/ d <= c.to)

(* From the first effective date on every date has exactly one              *)
(* configuration: one timezone, one closing time, one master wallet, however*)
(* many administrators change the configuration at the same time.           *)
OneConfiguration ==
  \A d \in EffectiveDate :
    (\E c \in configs : c.from <= d) => Cardinality({c \in configs : Covers(c, d)}) = 1
=============================================================================
