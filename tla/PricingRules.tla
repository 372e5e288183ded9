------------------------------ MODULE PricingRules ------------------------------
(***************************************************************************)
(* The charge and the commission of a pricing flow: what validateDefinition*)
(* accepts and makes of a definition, and what simulate computes from it.  *)
(* The service validates again whatever it reads from the table.           *)
(* Money is in cents; ids of calculations are numbers, 0 when not given.   *)
(***************************************************************************)
EXTENDS Integers, Sequences, FiniteSetsExt, Functions

CONSTANTS
  RawPricing,     \* definitions sent to the service
  Quoted          \* transaction amounts

(* What a definition may be, as far as the service can read it at all: other*)
(* modes, parties and numbers are refused before anything is made of them.  *)
Undefined == -1
Bound == Nat \cup {Undefined}
AmountRule == [type : STRING, value : Int, minimum : Bound, maximum : Bound]
SideInput ==
  [enabled : BOOLEAN, mode : {"FIXED", "FLEXIBLE"}, party : {"S", "D"}, rule : AmountRule, default : Nat,
   calcs : Seq([id : Nat, rule : AmountRule]),
   ranges : Seq([min : Nat, max : Bound, calc : Nat, commission : Nat, rule : AmountRule])]

ASSUME PricingAssumption ==
  /\ Quoted \subseteq Nat \ {0}
  /\ RawPricing \subseteq [condition : [min : Nat, max : Bound], charge : SideInput, commission : SideInput]

VARIABLES
  definition,     \* what the service was sent, then what it stores
  pricingState,   \* "raw", "stored" or "refused"
  quote           \* the answer to the last simulation

pricingVars == <<definition, pricingState, quote>>

NoQuote == [amount |-> 0]

Or(value, fallback) == IF value = 0 THEN fallback ELSE value

(* amountRule                                                               *)
RuleOK(r) ==
  /\ r.type \in {"FIXED", "PERCENTAGE"} /\ r.value >= 0
  /\ r.type = "PERCENTAGE" => r.value <= 100
  /\ r.maximum = Undefined \/ r.maximum >= r.minimum

(* calculationRule, and the id a calculation gets by its position.          *)
Calculation(raw, i) == [id |-> Or(raw.id, 10 + i), rule |-> raw.rule]

UniqueIds(calcs) == \A i, j \in DOMAIN calcs : calcs[i].id = calcs[j].id => i = j
Ids(calcs) == {calcs[i].id : i \in DOMAIN calcs}

(* sort by the minimum, which keeps the order of equals.                    *)
ComesFirst(ranges, i, j) ==
  ranges[i].min < ranges[j].min \/ (ranges[i].min = ranges[j].min /\ i < j)

SortOrder(ranges) ==
  CHOOSE order \in Bijection(1..Cardinality(DOMAIN ranges), DOMAIN ranges) :
    \A i, j \in DOMAIN order : i < j => ComesFirst(ranges, order[i], order[j])

ByMinimum(ranges) ==
  [i \in 1..Cardinality(DOMAIN ranges) |-> ranges[SortOrder(ranges)[i]]]

(* chargeRange and commissionRange, sorted; ids are the calculations of the *)
(* ranges that name none.                                                   *)
NoRule == [type |-> "none", value |-> 0, minimum |-> Undefined, maximum |-> Undefined]

Ranges(inputs, ids) ==
  ByMinimum([i \in DOMAIN inputs |->
               [min |-> inputs[i].min, max |-> inputs[i].max, calc |-> Or(inputs[i].calc, ids[i]),
                commission |-> 0, rule |-> NoRule]])

(* Faulty: a range may begin where the one before it ends.                  *)
FaultyDisjoint(ranges) ==
  \A i \in 2..Len(ranges) :
    ranges[i - 1].max # Undefined /\ ranges[i].min >= ranges[i - 1].max

Disjoint(ranges) ==
  \A i \in 2..Len(ranges) :
    ranges[i - 1].max # Undefined /\ ranges[i].min > ranges[i - 1].max

SideOK(s) ==
  /\ RuleOK(s.rule) /\ \A i \in DOMAIN s.calcs : RuleOK(s.calcs[i].rule)
  /\ UniqueIds(s.calcs) /\ s.default \in Ids(s.calcs)
  /\ \A i \in DOMAIN s.ranges : s.ranges[i].max = Undefined \/ s.ranges[i].max >= s.ranges[i].min
  /\ \A i \in DOMAIN s.ranges : s.ranges[i].calc \in Ids(s.calcs)
  /\ Disjoint(s.ranges)

(* chargeRule: a flexible charge without calculations takes one from every  *)
(* range; the condition of the flow stands in for missing ranges.           *)
Charge(raw, condition) ==
  LET inputs == IF raw.ranges # <<>> THEN raw.ranges
                ELSE <<[min |-> condition.min, max |-> condition.max, calc |-> 0, rule |-> raw.rule]>>
      calcs  == CASE raw.calcs # <<>> -> [i \in DOMAIN raw.calcs |-> Calculation(raw.calcs[i], i)]
                  [] raw.calcs = <<>> /\ raw.mode = "FLEXIBLE" ->
                       [i \in DOMAIN inputs |-> [id |-> 10 + i, rule |-> inputs[i].rule]]
                  [] OTHER -> <<[id |-> 20, rule |-> raw.rule]>>
      own == [i \in DOMAIN inputs |-> calcs[IF i < Len(calcs) THEN i ELSE Len(calcs)].id]
  IN [enabled |-> raw.enabled, mode |-> raw.mode, party |-> raw.party, rule |-> raw.rule,
      calcs |-> calcs, default |-> Or(raw.default, calcs[1].id),
      ranges |-> IF raw.mode = "FLEXIBLE" THEN Ranges(inputs, own) ELSE <<>>]

(* commissionRule: ranges may still be attached to those of the charge.     *)
Commission(raw, chargeRanges, condition) ==
  LET calcs    == IF raw.calcs # <<>> THEN [i \in DOMAIN raw.calcs |-> Calculation(raw.calcs[i], i)]
                  ELSE <<[id |-> 20, rule |-> raw.rule]>>
      default  == Or(raw.default, calcs[1].id)
      attached == {i \in DOMAIN chargeRanges : chargeRanges[i].commission # 0}
      migrated == [i \in attached |-> [min |-> chargeRanges[i].min, max |-> chargeRanges[i].max,
                                       calc |-> chargeRanges[i].commission]]
      inputs   == CASE raw.ranges # <<>> -> raw.ranges
                    [] raw.ranges = <<>> /\ attached # {} -> migrated
                    [] OTHER -> <<[min |-> condition.min, max |-> condition.max, calc |-> default]>>
  IN [enabled |-> raw.enabled, mode |-> raw.mode, party |-> raw.party, rule |-> raw.rule,
      calcs |-> calcs, default |-> default,
      ranges |-> IF raw.mode = "FLEXIBLE" THEN Ranges(inputs, [i \in DOMAIN inputs |-> default]) ELSE <<>>]

(* validateDefinition                                                       *)
Validated(raw) ==
  [condition |-> raw.condition, charge |-> Charge(raw.charge, raw.condition),
   commission |-> Commission(raw.commission, raw.charge.ranges, raw.condition)]

DefinitionOK(d) ==
  /\ d.condition.max = Undefined \/ d.condition.max >= d.condition.min
  /\ SideOK(d.charge) /\ SideOK(d.commission)
  /\ d.charge.enabled \/ d.commission.enabled

-----------------------------------------------------------------------------
Within(r, amount) == r.min <= amount /\ (r.max = Undefined \/ amount <= r.max)
Matching(side, amount) == {i \in DOMAIN side.ranges : Within(side.ranges[i], amount)}

(* calculateAmount, rounded half up to cents.                               *)
Calculated(rule, amount) ==
  LET base   == IF rule.type = "FIXED" THEN rule.value ELSE (amount * rule.value + 50) \div 100
      raised == IF rule.minimum # Undefined /\ base < rule.minimum THEN rule.minimum ELSE base
  IN IF rule.maximum # Undefined /\ raised > rule.maximum THEN rule.maximum ELSE raised

Applies(side, amount) ==
  side.enabled /\ (side.mode = "FIXED" \/ Matching(side, amount) # {})

(* The first range that matches, or the default of a fixed side.            *)
Amount(side, amount) ==
  IF ~Applies(side, amount) THEN 0
  ELSE LET id == IF side.mode = "FIXED" THEN side.default
                 ELSE side.ranges[Min(Matching(side, amount))].calc
           i  == CHOOSE n \in DOMAIN side.calcs : side.calcs[n].id = id
       IN Calculated(side.calcs[i].rule, amount)

(* simulate, for a route that matches.                                      *)
Simulation(d, amount) ==
  LET charge == Amount(d.charge, amount)
  IN [amount |-> amount, charge |-> charge, commission |-> Amount(d.commission, amount),
      debit  |-> IF d.charge.party = "S" THEN amount + charge ELSE amount,
      credit |-> IF d.charge.party = "D" THEN amount - charge ELSE amount]

PricingInit ==
  definition \in RawPricing /\ pricingState = "raw" /\ quote = NoQuote

Store ==
  /\ pricingState = "raw"
  /\ IF DefinitionOK(Validated(definition))
     THEN definition' = Validated(definition) /\ pricingState' = "stored"
     ELSE pricingState' = "refused" /\ UNCHANGED definition
  /\ UNCHANGED quote

Simulate ==
  /\ pricingState = "stored" /\ quote = NoQuote
  /\ \E amount \in Quoted : quote' = Simulation(Validated(definition), amount)
  /\ UNCHANGED <<definition, pricingState>>

PricingNext == Store \/ Simulate

PricingSpec == PricingInit /\ [][PricingNext]_pricingVars

-----------------------------------------------------------------------------
PricingTypeOK ==
  /\ pricingState \in {"raw", "stored", "refused"}
  /\ quote = NoQuote \/ {quote.charge, quote.commission} \subseteq Nat

(* What was stored can be read again, unchanged; no amount meets two of its *)
(* ranges, so their order decides nothing; and the amounts of an answer are *)
(* those of its one range, the charge being what one side pays more or the  *)
(* other gets less.                                                         *)
StoredPricingSound ==
  /\ pricingState = "stored" =>
       /\ DefinitionOK(Validated(definition)) /\ Validated(definition) = definition
       /\ \A amount \in Quoted :
            /\ \A i, j \in Matching(definition.charge, amount) : i = j
            /\ \A i, j \in Matching(definition.commission, amount) : i = j
  /\ quote # NoQuote => quote.debit - quote.credit = quote.charge
=============================================================================
