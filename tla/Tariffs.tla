--------------------------------- MODULE Tariffs ---------------------------------
(***************************************************************************)
(* How ChargeService and CommissionService answer a calculation from their *)
(* tables: the configuration of the keyword and wallet, the header it leads*)
(* to through expired headers, the detail row of the amount, the amount.   *)
(* Money is in cents.                                                      *)
(***************************************************************************)
EXTENDS Integers, FiniteSets

CONSTANTS
  Tariff,         \* headers: charges or commissions
  TariffTables,   \* contents of the tables
  TariffAmount    \* transaction amounts

(* What the tables may hold; "none" stands for a null.                      *)
TariffTable ==
  [kind : {"charge", "commission"},
   configurations : SUBSET [exact : BOOLEAN, header : Tariff, party : {"S", "D"}],
   headers : [Tariff -> [approved : BOOLEAN, expires : BOOLEAN, expired : BOOLEAN, fixed : BOOLEAN,
                         default : Tariff \cup {"none"}]],
   details : SUBSET [flat : BOOLEAN, start : Int, end : Int, value : Int, min : Int, max : Int]]

ASSUME TariffAssumption ==
  /\ TariffAmount \subseteq Nat \ {0} /\ IsFiniteSet(Tariff) /\ "none" \notin Tariff
  /\ TariffTables \subseteq TariffTable

VARIABLES
  tables,         \* kind, configurations, headers, details
  priced          \* the answer to the calculation

tariffVars == <<tables, priced>>

Unpriced == [answer |-> "none"]

(* The exact rows of keyword and wallet, else the default rows; the mapping *)
(* of a configuration is unique or the answer is an error.                  *)
Candidates(t) ==
  LET exact == {c \in t.configurations : c.exact}
  IN IF exact # {} THEN exact ELSE t.configurations

(* Faulty: an expired header is used.                                       *)
FaultyInForce(t, id) == TRUE

(* A commission that is its own default stays in force.                     *)
InForce(t, id) ==
  LET h == t.headers[id]
  IN ~h.expires \/ ~h.expired \/ (t.kind = "commission" /\ h.default = id)

(* resolveCharge, resolveCommission: an expired header leads to its default;*)
(* expiry and default come together or not at all.                          *)
Resolved(t, first) ==
  LET Follow[visited \in SUBSET Tariff] ==
        [id \in Tariff |->
           CASE \/ id \in visited \/ ~t.headers[id].approved
                \/ t.headers[id].expires = (t.headers[id].default = "none") -> "none"
             [] OTHER -> IF InForce(t, id) THEN id
                         ELSE Follow[visited \cup {id}][t.headers[id].default]]
  IN Follow[{}][first]

(* resolveDetail, selectDetail: the one row of a fixed header, else the one *)
(* row whose range has the amount.  A charge with an empty range is refused.*)
Details(t, id, amount) ==
  CASE t.headers[id].fixed -> IF Cardinality(t.details) = 1 THEN t.details ELSE {}
    [] ~t.headers[id].fixed /\ t.kind = "charge" /\ \E d \in t.details : d.start > d.end -> {}
    [] OTHER -> {d \in t.details : d.start <= amount /\ amount <= d.end}

(* calculateDetail: flat, or a percentage within its bounds, rounded half   *)
(* away from zero.  A negative charge is refused, a commission is not.      *)
Valid(t, d) ==
  /\ d.flat \/ d.min <= d.max
  /\ t.kind = "charge" => d.value >= 0 /\ (d.flat \/ d.min >= 0)

Rounded(n) == IF n >= 0 THEN (n + 50) \div 100 ELSE -((50 - n) \div 100)

Fee(d, amount) ==
  LET share   == Rounded(amount * d.value)
      limited == IF share > d.max THEN d.max ELSE share
  IN IF d.flat THEN d.value ELSE IF limited < d.min THEN d.min ELSE limited

Answer(t, c, id, d, amount) ==
  LET fee == Fee(d, amount)
  IN [answer |-> "fee", header |-> id, amount |-> amount, fee |-> fee,
      debit  |-> IF t.kind = "charge" /\ c.party = "S" THEN amount + fee ELSE amount,
      credit |-> IF t.kind = "charge" /\ c.party = "D" THEN amount - fee ELSE amount]

(* Faulty: the charge may exceed what its destination gets.                 *)
FaultyPayable(t, a) == TRUE

Payable(t, a) == a.credit >= 0

Calculate(amount) ==
  /\ priced = Unpriced
  /\ Cardinality(Candidates(tables)) = 1
  /\ \E c \in Candidates(tables) :
       LET id == Resolved(tables, c.header)
       IN /\ id # "none"
          /\ Cardinality(Details(tables, id, amount)) = 1
          /\ \E d \in Details(tables, id, amount) :
               /\ Valid(tables, d)
               /\ Payable(tables, Answer(tables, c, id, d, amount))
               /\ priced' = Answer(tables, c, id, d, amount)
  /\ UNCHANGED tables

TariffInit == tables \in TariffTables /\ priced = Unpriced
TariffNext == \E amount \in TariffAmount : Calculate(amount)
TariffSpec == TariffInit /\ [][TariffNext]_tariffVars

-----------------------------------------------------------------------------
TariffTypeOK ==
  priced # Unpriced =>
    {priced.fee, priced.debit} \subseteq Int /\ (tables.kind = "charge" => {priced.fee, priced.debit} \subseteq Nat)

(* A transaction is charged by a header somebody approved that is in force, *)
(* reached from the one configuration of its keyword, never by an expired   *)
(* one; and its charge is never taken from more than the destination gets.  *)
TariffSound ==
  priced # Unpriced =>
    LET h == tables.headers[priced.header]
    IN /\ h.approved
       /\ ~h.expires \/ ~h.expired \/ (tables.kind = "commission" /\ h.default = priced.header)
       /\ priced.credit >= 0 /\ (tables.kind = "charge" => priced.debit - priced.credit = priced.fee)
=============================================================================
