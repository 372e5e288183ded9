----------------------------- MODULE StudioProofs -----------------------------
(***************************************************************************)
(* Proofs about PricingStudio, for every width of a range, number of flows,*)
(* text, edit, mode and order of answers.  StudioInv adds to the properties*)
(* what they rest on: what is edited on the canvas alone has ranges and    *)
(* calculations with ids of their own, and its default among them; a range *)
(* that is picked keeps its place until another contract comes; a draft of *)
(* a request in flight was not created; a row that is shown is stored.     *)
(***************************************************************************)
EXTENDS PricingStudio, ReviewProofs

(* The pricing studio.  A new id is larger than the others.                 *)
LEMMA LargestId ==
  ASSUME NEW s, NEW n \in Nat \ {0}, DOMAIN s = 1..n, \A i \in 1..n : s[i].id \in Nat,
         NEW T, T = {s[i].id : i \in DOMAIN s}
  PROVE  Max(T) \in T /\ \A x \in T : x <= Max(T)
<1> DEFINE Tops(m) == \E k \in 1..(m + 1) : \A i \in 1..(m + 1) : s[i].id <= s[k].id
           N == {m \in Nat : m + 1 <= n => Tops(m)}
<1>1. 0 \in N
  BY DEF Tops
<1>2. ASSUME NEW m \in N PROVE m + 1 \in N
  <2> SUFFICES ASSUME (m + 1) + 1 <= n PROVE Tops(m + 1)
    OBVIOUS
  <2>1. PICK k \in 1..(m + 1) : \A i \in 1..(m + 1) : s[i].id <= s[k].id
    OBVIOUS
  <2>2. m \in Nat /\ s[k].id \in Nat /\ s[m + 2].id \in Nat /\ \A i \in 1..(m + 1) : s[i].id \in Nat
    OBVIOUS
  <2>3. CASE s[m + 2].id <= s[k].id
    <3>1. \A i \in 1..((m + 1) + 1) : s[i].id <= s[k].id
      BY <2>1, <2>2, <2>3
    <3> QED
      BY <3>1, <2>2
  <2>4. CASE s[k].id <= s[m + 2].id
    <3>1. \A i \in 1..((m + 1) + 1) : s[i].id <= s[m + 2].id
      BY <2>1, <2>2, <2>4
    <3> QED
      BY <3>1, <2>2
  <2> QED
    BY <2>2, <2>3, <2>4
<1>3. N = Nat
  <2>1. N \in SUBSET Nat
    OBVIOUS
  <2> HIDE DEF N
  <2> QED
    BY <1>1, <1>2, <2>1, NaturalInduction
<1>4. Tops(n - 1)
  <2>1. n - 1 \in Nat /\ (n - 1) + 1 <= n
    OBVIOUS
  <2> HIDE DEF Tops
  <2> QED
    BY <1>3, <2>1
<1>5. \E x \in T : \A y \in T : x >= y
  <2>1. PICK k \in 1..n : \A i \in 1..n : s[i].id <= s[k].id
    BY <1>4
  <2> QED
    BY <2>1
<1>6. Max(T) \in T /\ \A y \in T : Max(T) >= y
  BY <1>5 DEF Max
<1>7. T \subseteq Nat
  OBVIOUS
<1> QED
  BY <1>6, <1>7

LEMMA FreshIdIsNew ==
  ASSUME NEW s, NEW n \in Nat, DOMAIN s = 1..n, n = 0 => s = <<>>, \A i \in 1..n : s[i].id \in Nat
  PROVE  FreshId(s) \in Nat \ {0} /\ \A i \in 1..n : s[i].id # FreshId(s)
<1>1. CASE n = 0
  BY <1>1 DEF FreshId
<1>2. CASE n # 0
  <2> DEFINE T == {s[i].id : i \in DOMAIN s}
  <2>1. n \in Nat \ {0} /\ s # <<>> /\ T \subseteq Nat
    BY <1>2
  <2> HIDE DEF T
  <2>2. Max(T) \in T /\ \A x \in T : x <= Max(T)
    BY <2>1, LargestId DEF T
  <2>3. FreshId(s) = 1 + Max(T)
    BY <2>1 DEF FreshId, T
  <2>4. Max(T) \in Nat
    BY <2>1, <2>2
  <2>5. ASSUME NEW i \in 1..n PROVE s[i].id <= Max(T)
    BY <2>2 DEF T
  <2> QED
    BY <2>3, <2>4, <2>5
<1> QED
  BY <1>1, <1>2

(* The sort looks at the minimums only.                                     *)
LEMMA SortSame ==
  ASSUME NEW r, NEW s, DOMAIN r = DOMAIN s, \A i \in DOMAIN r : r[i].min = s[i].min
  PROVE  SortOrder(r) = SortOrder(s)
<1> DEFINE B == Bijection(1..Cardinality(DOMAIN r), DOMAIN r)
           P(o) == \A i, j \in DOMAIN o : i < j => ComesFirst(r, o[i], o[j])
           Q(o) == \A i, j \in DOMAIN o : i < j => ComesFirst(s, o[i], o[j])
<1>1. ASSUME NEW o \in B PROVE P(o) <=> Q(o)
  <2>1. \A i \in DOMAIN o : o[i] \in DOMAIN r
    BY DEF Bijection, Injection
  <2>2. \A x, y \in DOMAIN r : ComesFirst(r, x, y) <=> ComesFirst(s, x, y)
    BY DEF ComesFirst
  <2> QED
    BY <2>1, <2>2
<1>2. SortOrder(r) = CHOOSE o \in B : P(o)
  BY DEF SortOrder
<1>3. SortOrder(s) = CHOOSE o \in B : Q(o)
  BY DEF SortOrder
<1> HIDE DEF B, P, Q
<1> QED
  BY <1>1, <1>2, <1>3

(* A sorted sequence has the elements of the other, each once.              *)
Permutes(o, n) ==
  /\ o \in [1..n -> 1..n] /\ \A i, j \in 1..n : o[i] = o[j] => i = j
  /\ \A y \in 1..n : \E i \in 1..n : o[i] = y

LEMMA SortedIs ==
  ASSUME NEW r, NEW n \in Nat, DOMAIN r = 1..n, \A i \in 1..n : r[i].min \in Nat
  PROVE  ByMinimum(r) = [i \in 1..n |-> r[SortOrder(r)[i]]] /\ Permutes(SortOrder(r), n)
<1>1. IsFiniteSet(DOMAIN r) /\ Cardinality(DOMAIN r) = n /\ DOMAIN r \subseteq Nat
  BY FS_Interval
<1>2. SortOrder(r) \in Bijection(1..n, DOMAIN r)
  BY <1>1, OrderOfRanges
<1>3. ByMinimum(r) = [i \in 1..n |-> r[SortOrder(r)[i]]]
  BY <1>1 DEF ByMinimum
<1> QED
  BY <1>2, <1>3 DEF Bijection, Injection, Surjection, IsInjective, Permutes

(* Lanes.                                                                   *)
LaneRange == [id : Nat, min : Nat, max : Bound, calc : Nat]

LEMMA LaneParts ==
  ASSUME NEW lane \in LaneText
  PROVE  /\ lane.enabled \in BOOLEAN /\ lane.mode \in STRING /\ lane.default \in Nat
         /\ lane.calcs \in Seq(RawCalcIn) /\ lane.ranges \in Seq(LaneRange)
         /\ Len(lane.ranges) \in Nat /\ DOMAIN lane.ranges = 1..Len(lane.ranges)
         /\ Len(lane.calcs) \in Nat /\ DOMAIN lane.calcs = 1..Len(lane.calcs)
         /\ lane = [enabled |-> lane.enabled, mode |-> lane.mode, default |-> lane.default, calcs |-> lane.calcs,
                    ranges |-> lane.ranges]
<1> DEFINE Calcs == Seq(RawCalcIn)
           Rows == Seq(LaneRange)
<1>1. lane \in [enabled : BOOLEAN, mode : STRING, default : Nat, calcs : Calcs, ranges : Rows]
  BY DEF LaneText, RawCalcIn, LaneRange
<1> HIDE DEF Calcs, Rows
<1>2. /\ lane.enabled \in BOOLEAN /\ lane.mode \in STRING /\ lane.default \in Nat
      /\ lane.calcs \in Calcs /\ lane.ranges \in Rows
      /\ lane = [enabled |-> lane.enabled, mode |-> lane.mode, default |-> lane.default, calcs |-> lane.calcs,
                 ranges |-> lane.ranges]
  BY <1>1
<1>3. Len(lane.ranges) \in Nat /\ DOMAIN lane.ranges = 1..Len(lane.ranges)
  BY <1>2 DEF Rows
<1>4. Len(lane.calcs) \in Nat /\ DOMAIN lane.calcs = 1..Len(lane.calcs)
  BY <1>2 DEF Calcs
<1> QED
  BY <1>2, <1>3, <1>4 DEF Calcs, Rows

LEMMA LaneMade ==
  ASSUME NEW enabled \in BOOLEAN, NEW mode \in STRING, NEW default \in Nat, NEW calcs \in Seq(RawCalcIn),
         NEW ranges \in Seq(LaneRange)
  PROVE  [enabled |-> enabled, mode |-> mode, default |-> default, calcs |-> calcs, ranges |-> ranges] \in LaneText
BY DEF LaneText, RawCalcIn, LaneRange

LEMMA LaneElements ==
  ASSUME NEW lane \in LaneText
  PROVE  /\ \A i \in DOMAIN lane.calcs : lane.calcs[i] \in RawCalcIn /\ lane.calcs[i].id \in Nat
                                         /\ lane.calcs[i].rule \in AmountRule
         /\ \A i \in DOMAIN lane.ranges : /\ lane.ranges[i].id \in Nat /\ lane.ranges[i].min \in Nat
                                          /\ lane.ranges[i].max \in Bound /\ lane.ranges[i].calc \in Nat
                                          /\ lane.ranges[i] \in LaneRange
<1>1. \A i \in DOMAIN lane.calcs : lane.calcs[i] \in RawCalcIn
  BY LaneParts
<1>2. \A i \in DOMAIN lane.ranges : lane.ranges[i] \in LaneRange
  BY LaneParts
<1> QED
  BY <1>1, <1>2 DEF RawCalcIn, LaneRange

(* What is edited on the canvas has ids, all of them different.             *)
Drawable(lane) ==
  /\ \A i \in DOMAIN lane.calcs : lane.calcs[i].id # 0
  /\ UniqueIds(lane.calcs) /\ lane.default \in Ids(lane.calcs)
  /\ \A i \in DOMAIN lane.ranges : lane.ranges[i].id # 0
  /\ UniqueIds(lane.ranges)

LEMMA PlainRuleIs == PlainRule \in AmountRule /\ RuleOK(PlainRule)
BY StudioAssumption DEF PlainRule, AmountRule, RuleOK, Bound, Undefined

(* A lane on its way to the service.                                        *)
Bare(lane) ==
  [i \in DOMAIN lane.ranges |-> [min |-> lane.ranges[i].min, max |-> lane.ranges[i].max,
                                 calc |-> lane.ranges[i].calc, commission |-> 0, rule |-> PlainRule]]
SideOf(lane) ==
  [enabled |-> lane.enabled, mode |-> lane.mode, party |-> "S", rule |-> PlainRule, calcs |-> lane.calcs,
   default |-> lane.default, ranges |-> Bare(lane)]

Modes == {"FIXED", "FLEXIBLE"}

LEMMA BareIs ==
  ASSUME NEW lane \in LaneText
  PROVE  /\ Bare(lane) \in Seq(RawRangeIn) /\ DOMAIN Bare(lane) = DOMAIN lane.ranges
         /\ Len(Bare(lane)) = Len(lane.ranges) /\ (Bare(lane) = <<>> <=> lane.ranges = <<>>)
<1> DEFINE n == Len(lane.ranges)
<1>1. n \in Nat /\ DOMAIN lane.ranges = 1..n
  BY LaneParts
<1>2. ASSUME NEW i \in 1..n PROVE Bare(lane)[i] \in RawRangeIn
  <2>1. lane.ranges[i].min \in Nat /\ lane.ranges[i].max \in Bound /\ lane.ranges[i].calc \in Nat
    BY <1>1, LaneElements
  <2> QED
    BY <1>1, <2>1, PlainRuleIs DEF Bare, RawRangeIn
<1>3. Bare(lane) \in [1..n -> RawRangeIn]
  BY <1>1, <1>2 DEF Bare
<1>4. lane.ranges = <<>> <=> n = 0
  BY LaneParts
<1> HIDE DEF n
<1>5. Bare(lane) \in Seq(RawRangeIn) /\ Len(Bare(lane)) = n /\ DOMAIN Bare(lane) = 1..n
  BY <1>1, <1>3
<1>6. Bare(lane) = <<>> <=> n = 0
  BY <1>5
<1> QED
  BY <1>1, <1>4, <1>5, <1>6 DEF n

LEMMA SideIn == ASSUME NEW lane \in LaneText, lane.mode \in Modes PROVE SideOf(lane) \in SideInput
<1> DEFINE Calcs == Seq(RawCalcIn)
           Rows == Seq(RawRangeIn)
<1>1. SideInput = [enabled : BOOLEAN, mode : {"FIXED", "FLEXIBLE"}, party : {"S", "D"}, rule : AmountRule,
                   default : Nat, calcs : Calcs, ranges : Rows]
  BY DEF SideInput, RawCalcIn, RawRangeIn
<1>2. lane.calcs \in Calcs /\ Bare(lane) \in Rows
  BY LaneParts, BareIs
<1> HIDE DEF Calcs, Rows
<1> QED
  BY <1>1, <1>2, LaneParts, PlainRuleIs DEF SideOf, Modes

OtherLane(target, on) == [BlankLane(target) EXCEPT !.enabled = on]

WholeSpan == [min |-> 0, max |-> WidestRange]

LEMMA SentIs ==
  ASSUME NEW c
  PROVE  AsSent(c) =
           [condition |-> WholeSpan,
            charge |-> IF studioScope.target = "charge" THEN SideOf(c.lane) ELSE SideOf(OtherLane("charge", c.other)),
            commission |-> IF studioScope.target = "charge" THEN SideOf(OtherLane("commission", c.other))
                           ELSE SideOf(c.lane)]
BY DEF AsSent, SideOf, Bare, OtherLane, WholeSpan

LEMMA BlankIs ==
  ASSUME NEW target \in {"charge", "commission"}
  PROVE  BlankLane(target) \in LaneText /\ BlankLane(target).mode \in Modes /\ Drawable(BlankLane(target))
         /\ Len(BlankLane(target).ranges) \in 1..2
<1>1. RangeSpan \in Nat /\ WidestRange \in Nat /\ RangeSpan + 1 \in Nat
  BY StudioAssumption
<1> DEFINE one == LaneCalculation(1)
           two == LaneCalculation(2)
<1>2. one \in RawCalcIn /\ two \in RawCalcIn /\ one.id = 1 /\ two.id = 2
  BY PlainRuleIs DEF LaneCalculation, RawCalcIn
<1>3. CASE target = "charge"
  <2> DEFINE r == AmountRange(1, 0, RangeSpan, 1)
             s == AmountRange(2, RangeSpan + 1, WidestRange, 2)
             lane == [enabled |-> TRUE, mode |-> "FLEXIBLE", default |-> 1, calcs |-> <<one, two>>,
                      ranges |-> <<r, s>>]
  <2>1. r \in LaneRange /\ s \in LaneRange /\ r.id = 1 /\ s.id = 2
    BY <1>1 DEF AmountRange, LaneRange, Bound
  <2>2. BlankLane(target) = lane
    BY <1>3 DEF BlankLane
  <2> HIDE DEF r, s, one, two
  <2>3. <<one, two>> \in Seq(RawCalcIn) /\ <<r, s>> \in Seq(LaneRange)
    BY <1>2, <2>1
  <2>4. lane \in LaneText
    BY <2>3, LaneMade, StudioAssumption
  <2>5. lane.ranges = <<r, s>> /\ lane.calcs = <<one, two>> /\ lane.mode = "FLEXIBLE" /\ lane.default = 1
    OBVIOUS
  <2> HIDE DEF lane
  <2>6. Drawable(lane) /\ Len(lane.ranges) = 2
    BY <1>2, <2>1, <2>5 DEF Drawable, UniqueIds, Ids
  <2> QED
    BY <2>2, <2>4, <2>5, <2>6 DEF Modes
<1>4. CASE target = "commission"
  <2> DEFINE r == AmountRange(1, 0, WidestRange, 1)
             lane == [enabled |-> TRUE, mode |-> "FIXED", default |-> 1, calcs |-> <<one>>, ranges |-> <<r>>]
  <2>1. r \in LaneRange /\ r.id = 1
    BY <1>1 DEF AmountRange, LaneRange, Bound
  <2>2. BlankLane(target) = lane
    BY <1>4 DEF BlankLane
  <2> HIDE DEF r, one
  <2>3. <<one>> \in Seq(RawCalcIn) /\ <<r>> \in Seq(LaneRange)
    BY <1>2, <2>1
  <2>4. lane \in LaneText
    BY <2>3, LaneMade, StudioAssumption
  <2>5. lane.ranges = <<r>> /\ lane.calcs = <<one>> /\ lane.mode = "FIXED" /\ lane.default = 1
    OBVIOUS
  <2> HIDE DEF lane
  <2>6. Drawable(lane) /\ Len(lane.ranges) = 1
    BY <1>2, <2>1, <2>5 DEF Drawable, UniqueIds, Ids
  <2> QED
    BY <2>2, <2>4, <2>5, <2>6 DEF Modes
<1> QED
  BY <1>3, <1>4

(* What the service makes of a lane that names its calculations.            *)
Plain(lane) ==
  [i \in DOMAIN lane.ranges |-> [min |-> lane.ranges[i].min, max |-> lane.ranges[i].max,
                                 calc |-> lane.ranges[i].calc, commission |-> 0, rule |-> NoRule]]
DrawnRanges(lane) ==
  [enabled |-> lane.enabled, mode |-> lane.mode, party |-> "S", rule |-> PlainRule, calcs |-> lane.calcs,
   default |-> lane.default, ranges |-> IF lane.mode = "FLEXIBLE" THEN ByMinimum(Plain(lane)) ELSE <<>>]

LEMMA RangesOfBare ==
  ASSUME NEW lane \in LaneText, \A i \in DOMAIN lane.ranges : lane.ranges[i].calc # 0, NEW ids
  PROVE  Ranges(Bare(lane), ids) = ByMinimum(Plain(lane))
<1> DEFINE bare == Bare(lane)
           built == [i \in DOMAIN bare |->
                      [min |-> bare[i].min, max |-> bare[i].max, calc |-> Or(bare[i].calc, ids[i]),
                       commission |-> 0, rule |-> NoRule]]
<1>1. Ranges(bare, ids) = ByMinimum(built)
  BY DEF Ranges
<1>2. DOMAIN bare = DOMAIN lane.ranges /\ \A i \in DOMAIN lane.ranges :
        bare[i].min = lane.ranges[i].min /\ bare[i].max = lane.ranges[i].max /\ bare[i].calc = lane.ranges[i].calc
  BY DEF Bare
<1> HIDE DEF bare
<1>3. ASSUME NEW i \in DOMAIN lane.ranges PROVE built[i] = Plain(lane)[i]
  <2>1. Or(bare[i].calc, ids[i]) = lane.ranges[i].calc
    BY <1>2 DEF Or
  <2> QED
    BY <1>2, <2>1 DEF Plain
<1>4. built = [i \in DOMAIN lane.ranges |-> built[i]] /\ Plain(lane) = [i \in DOMAIN lane.ranges |-> Plain(lane)[i]]
  BY <1>2 DEF Plain
<1>5. built = Plain(lane)
  <2> HIDE DEF built
  <2> QED
    BY <1>3, <1>4
<1> QED
  BY <1>1, <1>5 DEF bare

LEMMA DrawnParts ==
  ASSUME NEW lane \in LaneText, Drawable(lane)
  PROVE  /\ lane.calcs \in Seq(StoredCalc) /\ lane.calcs # <<>> /\ lane.default # 0
         /\ [i \in DOMAIN lane.calcs |-> Calculation(lane.calcs[i], i)] = lane.calcs
         /\ 0 \notin Ids(lane.calcs)
<1> DEFINE n == Len(lane.calcs)
<1>1. n \in Nat /\ DOMAIN lane.calcs = 1..n /\ lane.calcs = [i \in 1..n |-> lane.calcs[i]]
  BY LaneParts
<1>2. ASSUME NEW i \in 1..n PROVE lane.calcs[i] \in StoredCalc
  <2>1. lane.calcs[i] \in RawCalcIn /\ lane.calcs[i].id # 0
    BY <1>1, LaneElements DEF Drawable
  <2> QED
    BY <2>1 DEF RawCalcIn, StoredCalc
<1>3. lane.calcs \in [1..n -> StoredCalc]
  BY <1>1, <1>2
<1>4. lane.calcs \in Seq(StoredCalc)
  <2> HIDE DEF n
  <2> QED
    BY <1>1, <1>3
<1>5. 0 \notin Ids(lane.calcs) /\ lane.default # 0 /\ DOMAIN lane.calcs # {}
  BY DEF Drawable, Ids
<1> QED
  BY <1>4, <1>5, CalculationsStay

LEMMA DrawnSide ==
  ASSUME NEW lane \in LaneText, lane.mode \in Modes, Drawable(lane), NEW condition, NEW chargeRanges,
         lane.mode = "FLEXIBLE" => lane.ranges # <<>> /\ \A i \in DOMAIN lane.ranges : lane.ranges[i].calc # 0
  PROVE  /\ Charge(SideOf(lane), condition) = DrawnRanges(lane)
         /\ Commission(SideOf(lane), chargeRanges, condition) = DrawnRanges(lane)
<1> DEFINE raw == SideOf(lane)
           inputs == ChargeInputs(raw, condition)
           calcs == ChargeCalcs(raw, inputs)
           own == CommissionCalcs(raw)
           default == Or(raw.default, own[1].id)
           laneEntries == CommissionInputs(raw, chargeRanges, condition, default)
<1>1. /\ raw.enabled = lane.enabled /\ raw.mode = lane.mode /\ raw.party = "S" /\ raw.rule = PlainRule
      /\ raw.calcs = lane.calcs /\ raw.default = lane.default /\ raw.ranges = Bare(lane)
  BY DEF SideOf
<1> HIDE DEF raw
<1>2. calcs = lane.calcs /\ own = lane.calcs
  BY <1>1, DrawnParts DEF ChargeCalcs, CommissionCalcs
<1>3. Or(raw.default, calcs[1].id) = lane.default /\ default = lane.default
  BY <1>1, DrawnParts DEF Or
<1>4. Charge(raw, condition) =
        [enabled |-> raw.enabled, mode |-> raw.mode, party |-> raw.party, rule |-> raw.rule,
         calcs |-> calcs, default |-> Or(raw.default, calcs[1].id),
         ranges |-> IF raw.mode = "FLEXIBLE" THEN Ranges(inputs, ChargeOwn(inputs, calcs)) ELSE <<>>]
  BY ChargeIs
<1>5. Commission(raw, chargeRanges, condition) =
        [enabled |-> raw.enabled, mode |-> raw.mode, party |-> raw.party, rule |-> raw.rule,
         calcs |-> own, default |-> default,
         ranges |-> IF raw.mode = "FLEXIBLE" THEN Ranges(laneEntries, [i \in DOMAIN laneEntries |-> default]) ELSE <<>>]
  BY CommissionIs
<1>6. raw.mode = "FLEXIBLE" =>
        \A ids : Ranges(inputs, ids) = ByMinimum(Plain(lane)) /\ Ranges(laneEntries, ids) = ByMinimum(Plain(lane))
  <2> SUFFICES ASSUME raw.mode = "FLEXIBLE", NEW ids
               PROVE  Ranges(inputs, ids) = ByMinimum(Plain(lane)) /\ Ranges(laneEntries, ids) = ByMinimum(Plain(lane))
    OBVIOUS
  <2>1. Bare(lane) # <<>>
    BY <1>1, BareIs
  <2>2. inputs = Bare(lane) /\ laneEntries = Bare(lane)
    BY <1>1, <2>1 DEF ChargeInputs, CommissionInputs
  <2> QED
    BY <1>1, <2>2, RangesOfBare
<1> HIDE DEF inputs, calcs, own, default, laneEntries
<1>7. Charge(raw, condition) = DrawnRanges(lane)
  BY <1>1, <1>2, <1>3, <1>4, <1>6 DEF DrawnRanges
<1>8. Commission(raw, chargeRanges, condition) = DrawnRanges(lane)
  BY <1>1, <1>2, <1>3, <1>5, <1>6 DEF DrawnRanges
<1> QED
  BY <1>7, <1>8 DEF raw

LEMMA DrawnStored ==
  ASSUME NEW lane \in LaneText, lane.mode \in Modes, Drawable(lane),
         lane.mode = "FLEXIBLE" => lane.ranges # <<>> /\ \A i \in DOMAIN lane.ranges : lane.ranges[i].calc # 0
  PROVE  StoredSide(DrawnRanges(lane))
<1> DEFINE condition == [min |-> 0, max |-> 0]
<1>1. condition \in ConditionIn
  BY DEF ConditionIn, Bound
<1>2. StoredSide(Charge(SideOf(lane), condition))
  BY <1>1, SideIn, ChargeMade
<1> QED
  BY <1>2, DrawnSide

(* The ranges of the lane in order, and those the service makes of them.    *)
LEMMA SortedLane ==
  ASSUME NEW lane \in LaneText, NEW n, n = Len(lane.ranges)
  PROVE  /\ DOMAIN ByMinimum(lane.ranges) = 1..n /\ DOMAIN ByMinimum(Plain(lane)) = 1..n /\ n \in Nat
         /\ ByMinimum(Plain(lane)) \in Seq(StoredRange) /\ Len(ByMinimum(Plain(lane))) = n
         /\ SortOrder(lane.ranges) \in [1..n -> 1..n]
         /\ \A i, j \in 1..n : SortOrder(lane.ranges)[i] = SortOrder(lane.ranges)[j] => i = j
         /\ \A y \in 1..n : \E i \in 1..n : SortOrder(lane.ranges)[i] = y
         /\ \A i \in 1..n :
              /\ ByMinimum(lane.ranges)[i] = lane.ranges[SortOrder(lane.ranges)[i]]
              /\ ByMinimum(Plain(lane))[i] = Plain(lane)[SortOrder(lane.ranges)[i]]
<1>1. n \in Nat /\ DOMAIN lane.ranges = 1..n /\ \A i \in 1..n : lane.ranges[i].min \in Nat
  BY LaneParts, LaneElements
<1>2. DOMAIN Plain(lane) = 1..n /\ \A i \in 1..n : Plain(lane)[i].min = lane.ranges[i].min
  BY <1>1 DEF Plain
<1>3. SortOrder(Plain(lane)) = SortOrder(lane.ranges)
  BY <1>1, <1>2, SortSame
<1> DEFINE r == lane.ranges
           p == Plain(lane)
<1>12. n \in Nat /\ DOMAIN r = 1..n /\ \A i \in 1..n : r[i].min \in Nat
  BY <1>1
<1>13. n \in Nat /\ DOMAIN p = 1..n /\ \A i \in 1..n : p[i].min \in Nat
  BY <1>1, <1>2
<1> HIDE DEF r, p
<1>4. ByMinimum(r) = [i \in 1..n |-> r[SortOrder(r)[i]]] /\ Permutes(SortOrder(r), n)
  BY <1>12, SortedIs
<1>5. ByMinimum(p) = [i \in 1..n |-> p[SortOrder(p)[i]]]
  BY <1>13, SortedIs
<1>6. ASSUME NEW i \in 1..n PROVE Plain(lane)[i] \in StoredRange
  BY <1>1, LaneElements DEF Plain, StoredRange
<1> DEFINE a == ByMinimum(lane.ranges)
           b == ByMinimum(Plain(lane))
           o == SortOrder(lane.ranges)
<1>7. /\ a = [i \in 1..n |-> lane.ranges[o[i]]] /\ o \in [1..n -> 1..n]
      /\ b = [i \in 1..n |-> Plain(lane)[o[i]]]
  BY <1>3, <1>4, <1>5 DEF Permutes, r, p
<1>8. (\A i, j \in 1..n : o[i] = o[j] => i = j) /\ \A y \in 1..n : \E i \in 1..n : o[i] = y
  BY <1>4 DEF Permutes, r
<1> HIDE DEF a, b, o
<1>9. b \in [1..n -> StoredRange]
  BY <1>6, <1>7
<1>10. b \in Seq(StoredRange) /\ Len(b) = n
  BY <1>1, <1>9, SequenceOf
<1>11. DOMAIN a = 1..n /\ DOMAIN b = 1..n /\ \A i \in 1..n : a[i] = lane.ranges[o[i]] /\ b[i] = Plain(lane)[o[i]]
  BY <1>7
<1> QED
  BY <1>1, <1>7, <1>8, <1>10, <1>11 DEF a, b, o

LEMMA AcceptedRanges ==
  ASSUME NEW lane \in LaneText, RangesAccepted(lane), NEW n, n = Len(lane.ranges)
  PROVE  /\ n # 0 /\ lane.ranges # <<>>
         /\ \A i \in 1..n : lane.ranges[i].calc \in Ids(lane.calcs)
         /\ LET s == ByMinimum(Plain(lane))
            IN  /\ Disjoint(s) /\ \A i \in 1..n : s[i].max = Undefined \/ s[i].max >= s[i].min
                /\ \A i \in 1..n : s[i].calc \in Ids(lane.calcs)
<1> DEFINE r == ByMinimum(lane.ranges)
           s == ByMinimum(Plain(lane))
           o == SortOrder(lane.ranges)
<1>1. /\ r # <<>>
      /\ \A i \in DOMAIN r :
           /\ r[i].max = Undefined \/ r[i].max >= r[i].min
           /\ r[i].calc \in Ids(lane.calcs)
           /\ i > 1 => r[i - 1].max # Undefined /\ r[i].min > r[i - 1].max
  BY DEF RangesAccepted
<1>2. /\ DOMAIN r = 1..n /\ DOMAIN s = 1..n /\ n \in Nat /\ Len(s) = n /\ o \in [1..n -> 1..n]
      /\ \A y \in 1..n : \E i \in 1..n : o[i] = y
      /\ \A i \in 1..n : r[i] = lane.ranges[o[i]] /\ s[i] = Plain(lane)[o[i]]
  BY SortedLane
<1>3. n # 0
  <2> SUFFICES ASSUME n = 0 PROVE r = <<>>
    BY <1>1
  <2>1. r = [i \in 1..Cardinality(DOMAIN lane.ranges) |-> lane.ranges[SortOrder(lane.ranges)[i]]]
    BY DEF ByMinimum
  <2> QED
    BY <1>2, <2>1
<1>4. DOMAIN lane.ranges = 1..n
  BY LaneParts
<1> HIDE DEF r, s, o
<1>5. ASSUME NEW i \in 1..n PROVE s[i].min = r[i].min /\ s[i].max = r[i].max /\ s[i].calc = r[i].calc
  <2>1. o[i] \in DOMAIN lane.ranges
    BY <1>2, <1>4
  <2>2. \A k \in DOMAIN lane.ranges :
          /\ Plain(lane)[k].min = lane.ranges[k].min /\ Plain(lane)[k].max = lane.ranges[k].max
          /\ Plain(lane)[k].calc = lane.ranges[k].calc
    BY DEF Plain
  <2> QED
    BY <1>2, <2>1, <2>2
<1>6. Disjoint(s)
  <2> SUFFICES ASSUME NEW i \in 2..Len(s) PROVE s[i - 1].max # Undefined /\ s[i].min > s[i - 1].max
    BY DEF Disjoint
  <2>1. i \in 1..n /\ i - 1 \in 1..n /\ i > 1
    BY <1>2
  <2> QED
    BY <1>1, <1>2, <1>5, <2>1
<1>7. ASSUME NEW y \in 1..n PROVE lane.ranges[y].calc \in Ids(lane.calcs)
  <2>1. PICK i \in 1..n : o[i] = y
    BY <1>2
  <2> QED
    BY <1>1, <1>2, <2>1
<1>8. lane.ranges # <<>>
  BY <1>3, <1>4
<1>9. \A i \in 1..n : (s[i].max = Undefined \/ s[i].max >= s[i].min) /\ s[i].calc \in Ids(lane.calcs)
  BY <1>1, <1>2, <1>5
<1> QED
  BY <1>3, <1>6, <1>7, <1>8, <1>9 DEF s

LEMMA DrawnAccepted ==
  ASSUME NEW lane \in LaneText, lane.mode \in Modes, Drawable(lane),
         \A i \in DOMAIN lane.calcs : RuleOK(lane.calcs[i].rule),
         lane.mode = "FLEXIBLE" => RangesAccepted(lane)
  PROVE  /\ SideOK(DrawnRanges(lane)) /\ StoredSide(DrawnRanges(lane))
         /\ lane.mode = "FLEXIBLE" => lane.ranges # <<>> /\ \A i \in DOMAIN lane.ranges : lane.ranges[i].calc # 0
<1> DEFINE n == Len(lane.ranges)
           d == DrawnRanges(lane)
<1>1. lane.mode = "FLEXIBLE" => lane.ranges # <<>> /\ \A i \in DOMAIN lane.ranges : lane.ranges[i].calc # 0
  <2> SUFFICES ASSUME lane.mode = "FLEXIBLE"
               PROVE  lane.ranges # <<>> /\ \A i \in DOMAIN lane.ranges : lane.ranges[i].calc # 0
    OBVIOUS
  <2>1. lane.ranges # <<>> /\ \A i \in 1..n : lane.ranges[i].calc \in Ids(lane.calcs)
    BY AcceptedRanges
  <2>2. DOMAIN lane.ranges = 1..n /\ 0 \notin Ids(lane.calcs)
    BY DrawnParts, LaneParts
  <2> QED
    BY <2>1, <2>2
<1>2. StoredSide(d)
  BY <1>1, DrawnStored
<1>3. d.rule = PlainRule /\ d.calcs = lane.calcs /\ d.default = lane.default
  BY DEF DrawnRanges
<1>4. d.ranges = IF lane.mode = "FLEXIBLE" THEN ByMinimum(Plain(lane)) ELSE <<>>
  BY DEF DrawnRanges
<1> HIDE DEF d
<1>5. CASE lane.mode = "FLEXIBLE"
  <2>1. DOMAIN d.ranges = 1..n
    BY <1>4, <1>5, SortedLane
  <2>2. /\ Disjoint(d.ranges) /\ \A i \in 1..n : d.ranges[i].max = Undefined \/ d.ranges[i].max >= d.ranges[i].min
        /\ \A i \in 1..n : d.ranges[i].calc \in Ids(lane.calcs)
    BY <1>4, <1>5, AcceptedRanges
  <2> QED
    BY <1>1, <1>2, <1>3, <2>1, <2>2, PlainRuleIs DEF SideOK, Drawable, d
<1>6. CASE lane.mode # "FLEXIBLE"
  <2>1. d.ranges = <<>>
    BY <1>4, <1>6
  <2>2. DOMAIN d.ranges = {} /\ Disjoint(d.ranges)
    BY <2>1 DEF Disjoint
  <2> QED
    BY <1>1, <1>2, <1>3, <2>2, PlainRuleIs DEF SideOK, Drawable, d
<1> QED
  BY <1>5, <1>6

(* A contract in the editor, and what the service makes of its lanes.       *)
IsContract(c) ==
  /\ c = [lane |-> c.lane, other |-> c.other, keywords |-> c.keywords, keyword |-> c.keyword]
  /\ c.lane \in LaneText /\ Len(c.lane.ranges) <= MaxRanges /\ c.other \in BOOLEAN

Targets == {"charge", "commission"}

LEMMA OtherIs ==
  ASSUME NEW target \in Targets, NEW on \in BOOLEAN, NEW lane, lane = OtherLane(target, on)
  PROVE  /\ lane \in LaneText /\ lane.mode \in Modes /\ Drawable(lane)
         /\ lane.enabled = on /\ lane.mode = BlankLane(target).mode /\ lane.ranges = BlankLane(target).ranges
         /\ lane.calcs = BlankLane(target).calcs
<1> DEFINE b == BlankLane(target)
<1>1. b \in LaneText /\ b.mode \in Modes /\ Drawable(b)
  BY BlankIs DEF Targets
<1>2. lane = [b EXCEPT !.enabled = on]
  BY DEF OtherLane
<1> HIDE DEF b
<1>3. b = [enabled |-> b.enabled, mode |-> b.mode, default |-> b.default, calcs |-> b.calcs, ranges |-> b.ranges]
  BY <1>1, LaneParts
<1>4. lane = [enabled |-> on, mode |-> b.mode, default |-> b.default, calcs |-> b.calcs, ranges |-> b.ranges]
  BY <1>2, <1>3
<1>5. /\ lane.enabled = on /\ lane.mode = b.mode /\ lane.default = b.default /\ lane.calcs = b.calcs
      /\ lane.ranges = b.ranges
  BY <1>4
<1>6. lane \in LaneText
  BY <1>1, <1>4, LaneParts, LaneMade
<1>7. Drawable(lane)
  BY <1>1, <1>5 DEF Drawable
<1> QED
  BY <1>1, <1>5, <1>6, <1>7 DEF b

(* Both blank lanes are ranged in order already, and accepted.              *)
LEMMA OtherAccepted ==
  ASSUME NEW target \in Targets, NEW on \in BOOLEAN, NEW lane, lane = OtherLane(target, on)
  PROVE  /\ SideOK(DrawnRanges(lane))
         /\ lane.mode = "FLEXIBLE" => lane.ranges # <<>> /\ \A i \in DOMAIN lane.ranges : lane.ranges[i].calc # 0
<1>1. RangeSpan \in Nat /\ WidestRange \in Nat /\ RangeSpan < WidestRange
  BY StudioAssumption
<1>2. lane \in LaneText /\ lane.mode \in Modes /\ Drawable(lane) /\ lane.calcs = BlankLane(target).calcs
  BY OtherIs
<1>3. \A i \in DOMAIN lane.calcs : RuleOK(lane.calcs[i].rule)
  <2>1. LaneCalculation(1).rule = PlainRule /\ LaneCalculation(2).rule = PlainRule
    BY DEF LaneCalculation
  <2>2. CASE target = "charge"
    <3>1. lane.calcs = <<LaneCalculation(1), LaneCalculation(2)>>
      BY <1>2, <2>2 DEF BlankLane
    <3>2. \A i \in DOMAIN lane.calcs : lane.calcs[i] = LaneCalculation(1) \/ lane.calcs[i] = LaneCalculation(2)
      BY <3>1
    <3> QED
      BY <2>1, <3>2, PlainRuleIs
  <2>3. CASE target = "commission"
    <3>1. lane.calcs = <<LaneCalculation(1)>>
      BY <1>2, <2>3 DEF BlankLane
    <3>2. \A i \in DOMAIN lane.calcs : lane.calcs[i] = LaneCalculation(1)
      BY <3>1
    <3> QED
      BY <2>1, <3>2, PlainRuleIs
  <2> QED
    BY <2>2, <2>3 DEF Targets
<1>4. CASE target = "commission"
  <2>1. lane.mode = "FIXED"
    BY <1>4, OtherIs DEF BlankLane
  <2> QED
    BY <1>2, <1>3, <2>1, DrawnAccepted
<1>5. CASE target = "charge"
  <2> DEFINE r == AmountRange(1, 0, RangeSpan, 1)
             q == AmountRange(2, RangeSpan + 1, WidestRange, 2)
             s == Plain(lane)
             d == DrawnRanges(lane)
  <2>1. lane.mode = "FLEXIBLE" /\ lane.ranges = <<r, q>>
    BY <1>5, OtherIs DEF BlankLane
  <2>2. /\ r.min = 0 /\ r.max = RangeSpan /\ r.calc = 1 /\ q.min = RangeSpan + 1 /\ q.max = WidestRange /\ q.calc = 2
    BY DEF AmountRange
  <2> HIDE DEF r, q
  <2>3. DOMAIN lane.ranges = 1..2 /\ lane.ranges[1] = r /\ lane.ranges[2] = q /\ lane.ranges # <<>>
        /\ Len(lane.ranges) = 2
    BY <2>1
  <2>4. DOMAIN s = 1..2 /\ \A i \in 1..2 : s[i] = [min |-> lane.ranges[i].min, max |-> lane.ranges[i].max,
                                                   calc |-> lane.ranges[i].calc, commission |-> 0, rule |-> NoRule]
    BY <2>3 DEF Plain
  <2>5. /\ s[1].min = 0 /\ s[1].max = RangeSpan /\ s[1].calc = 1
        /\ s[2].min = RangeSpan + 1 /\ s[2].max = WidestRange /\ s[2].calc = 2
    BY <2>2, <2>3, <2>4
  <2>6. s \in [1..2 -> StoredRange]
    <3>1. s = [i \in 1..2 |-> s[i]]
      BY <2>3 DEF Plain
    <3>2. ASSUME NEW i \in 1..2 PROVE s[i] \in StoredRange
      BY <1>1, <2>2, <2>3, <2>4 DEF StoredRange, Bound
    <3> HIDE DEF s
    <3> QED
      BY <3>1, <3>2
  <2> HIDE DEF s
  <2>7. Increases(s, 2)
    BY <1>1, <2>5 DEF Increases, Undefined
  <2>8. ByMinimum(s) = s
    BY <2>6, <2>7, SortedStays
  <2>9. /\ d.rule = PlainRule /\ d.calcs = lane.calcs /\ d.default = lane.default /\ d.ranges = s
    BY <2>1, <2>8 DEF DrawnRanges, s
  <2> HIDE DEF d
  <2>10. Len(s) = 2 /\ DOMAIN s = 1..2
    BY <2>6
  <2>11. Disjoint(s) /\ \A i \in 1..2 : s[i].max = Undefined \/ s[i].max >= s[i].min
    BY <1>1, <2>5, <2>10 DEF Disjoint, Undefined
  <2>12. 1 \in Ids(lane.calcs) /\ 2 \in Ids(lane.calcs)
    <3>1. lane.calcs = <<LaneCalculation(1), LaneCalculation(2)>>
      BY <1>2, <1>5 DEF BlankLane
    <3>2. LaneCalculation(1).id = 1 /\ LaneCalculation(2).id = 2
      BY DEF LaneCalculation
    <3>3. 1 \in DOMAIN lane.calcs /\ 2 \in DOMAIN lane.calcs /\ lane.calcs[1].id = 1 /\ lane.calcs[2].id = 2
      BY <3>1, <3>2
    <3> QED
      BY <3>3 DEF Ids
  <2>13. \A i \in DOMAIN s : s[i].calc \in Ids(lane.calcs)
    BY <2>5, <2>10, <2>12
  <2>14. SideOK(d)
    BY <1>2, <1>3, <2>9, <2>10, <2>11, <2>13, PlainRuleIs DEF SideOK, Drawable
  <2>15. \A i \in DOMAIN lane.ranges : lane.ranges[i].calc # 0
    BY <2>2, <2>3
  <2> QED
    BY <2>3, <2>14, <2>15 DEF d
<1> QED
  BY <1>4, <1>5 DEF Targets

OtherRanges(c) == SideOf(OtherLane("charge", c.other)).ranges

LEMMA ServiceSideIs ==
  ASSUME NEW c
  PROVE  /\ ServiceSide(c) = IF studioScope.target = "charge" THEN Charge(SideOf(c.lane), WholeSpan)
                             ELSE Commission(SideOf(c.lane), OtherRanges(c), WholeSpan)
         /\ Validated(AsSent(c)) =
              [condition |-> WholeSpan,
               charge |-> IF studioScope.target = "charge" THEN ServiceSide(c)
                          ELSE Charge(SideOf(OtherLane("charge", c.other)), WholeSpan),
               commission |-> IF studioScope.target = "charge"
                              THEN Commission(SideOf(OtherLane("commission", c.other)), Bare(c.lane), WholeSpan)
                              ELSE ServiceSide(c)]
<1> DEFINE s == AsSent(c)
           d == Validated(s)
<1>1. s.condition = WholeSpan
      /\ s.charge = (IF studioScope.target = "charge" THEN SideOf(c.lane) ELSE SideOf(OtherLane("charge", c.other)))
      /\ s.commission = (IF studioScope.target = "charge" THEN SideOf(OtherLane("commission", c.other))
                         ELSE SideOf(c.lane))
  BY SentIs
<1> HIDE DEF s
<1>2. d = [condition |-> s.condition, charge |-> Charge(s.charge, s.condition),
           commission |-> Commission(s.commission, s.charge.ranges, s.condition)]
  BY DEF Validated
<1>3. ServiceSide(c) = IF studioScope.target = "charge" THEN d.charge ELSE d.commission
  BY DEF ServiceSide, s
<1>4. SideOf(c.lane).ranges = Bare(c.lane)
  BY DEF SideOf
<1> HIDE DEF d
<1>5. d.charge = Charge(s.charge, s.condition) /\ d.commission = Commission(s.commission, s.charge.ranges, s.condition)
  BY <1>2
<1>6. CASE studioScope.target = "charge"
  BY <1>1, <1>2, <1>3, <1>4, <1>5, <1>6 DEF d, s
<1>7. CASE studioScope.target # "charge"
  BY <1>1, <1>2, <1>3, <1>5, <1>7 DEF d, s, OtherRanges
<1> QED
  BY <1>6, <1>7

LEMMA RangesDomain ==
  ASSUME NEW inputs, NEW ids, NEW n \in Nat, DOMAIN inputs = 1..n
  PROVE  DOMAIN Ranges(inputs, ids) = 1..n
<1>1. Cardinality(DOMAIN inputs) = n
  BY FS_Interval
<1> QED
  BY <1>1 DEF Ranges, ByMinimum

LEMMA Served ==
  ASSUME NEW c, IsContract(c), c.lane.mode \in Modes, studioScope.target \in Targets,
         NEW side, side = ServiceSide(c), NEW n, n = Len(c.lane.ranges)
  PROVE  /\ StoredSide(side) /\ side.mode = c.lane.mode
         /\ DOMAIN side.ranges = IF c.lane.mode # "FLEXIBLE" THEN {} ELSE IF c.lane.ranges = <<>> THEN 1..1 ELSE 1..n
<1> DEFINE raw == SideOf(c.lane)
           others == OtherRanges(c)
<1>1. c.lane \in LaneText /\ n \in Nat /\ (c.lane.ranges = <<>> <=> n = 0)
  BY LaneParts DEF IsContract
<1>2. /\ raw \in SideInput /\ raw.ranges = Bare(c.lane) /\ raw.mode = c.lane.mode
      /\ DOMAIN Bare(c.lane) = 1..n /\ (Bare(c.lane) = <<>> <=> n = 0)
  BY <1>1, SideIn, BareIs, LaneParts DEF SideOf
<1>3. WholeSpan \in ConditionIn
  BY StudioAssumption DEF WholeSpan, ConditionIn, Bound
<1>4. others \in Seq(RawRangeIn) /\ Attached(others) = {}
  <2> DEFINE lane == OtherLane("charge", c.other)
  <2>1. lane \in LaneText
    BY OtherIs DEF IsContract, Targets
  <2> HIDE DEF lane
  <2>2. others = Bare(lane)
    BY DEF OtherRanges, SideOf, lane
  <2> HIDE DEF others
  <2>3. Attached(Bare(lane)) = {}
    BY DEF Attached, Bare
  <2> QED
    BY <2>1, <2>2, <2>3, BareIs
<1> HIDE DEF raw, others
<1>5. CASE studioScope.target = "charge"
  <2> DEFINE inputs == ChargeInputs(raw, WholeSpan)
             calcs == ChargeCalcs(raw, inputs)
             ids == ChargeOwn(inputs, calcs)
  <2>1. side = Charge(raw, WholeSpan)
    BY <1>5, ServiceSideIs DEF raw
  <2>2. StoredSide(side)
    BY <1>2, <1>3, <2>1, ChargeMade
  <2>3. side = [enabled |-> raw.enabled, mode |-> raw.mode, party |-> raw.party, rule |-> raw.rule,
                calcs |-> calcs, default |-> Or(raw.default, calcs[1].id),
                ranges |-> IF raw.mode = "FLEXIBLE" THEN Ranges(inputs, ids) ELSE <<>>]
    BY <2>1, ChargeIs
  <2>4. DOMAIN inputs = IF n = 0 THEN 1..1 ELSE 1..n
    <3>1. CASE n = 0
      <4>1. inputs = <<[min |-> WholeSpan.min, max |-> WholeSpan.max, calc |-> 0, rule |-> raw.rule]>>
        BY <1>2, <3>1 DEF ChargeInputs
      <4> QED
        BY <3>1, <4>1
    <3>2. CASE n # 0
      BY <1>2, <3>2 DEF ChargeInputs
    <3> QED
      BY <3>1, <3>2
  <2> HIDE DEF inputs, calcs, ids
  <2>5. DOMAIN Ranges(inputs, ids) = IF n = 0 THEN 1..1 ELSE 1..n
    BY <1>1, <2>4, RangesDomain
  <2>6. side.mode = raw.mode /\ side.ranges = IF raw.mode = "FLEXIBLE" THEN Ranges(inputs, ids) ELSE <<>>
    BY <2>3
  <2>7. DOMAIN <<>> = {}
    OBVIOUS
  <2> QED
    BY <1>1, <1>2, <2>2, <2>5, <2>6, <2>7
<1>6. CASE studioScope.target # "charge"
  <2> DEFINE calcs == CommissionCalcs(raw)
             default == Or(raw.default, calcs[1].id)
             inputs == CommissionInputs(raw, others, WholeSpan, default)
             ids == [i \in DOMAIN inputs |-> default]
  <2>1. side = Commission(raw, others, WholeSpan)
    BY <1>6, ServiceSideIs DEF raw, others
  <2>2. StoredSide(side)
    BY <1>2, <1>3, <1>4, <2>1, CommissionMade
  <2>3. side = [enabled |-> raw.enabled, mode |-> raw.mode, party |-> raw.party, rule |-> raw.rule,
                calcs |-> calcs, default |-> default,
                ranges |-> IF raw.mode = "FLEXIBLE" THEN Ranges(inputs, ids) ELSE <<>>]
    BY <2>1, CommissionIs
  <2> HIDE DEF default
  <2>4. DOMAIN inputs = IF n = 0 THEN 1..1 ELSE 1..n
    <3>1. CASE n = 0
      <4>1. inputs = <<[min |-> WholeSpan.min, max |-> WholeSpan.max, calc |-> default]>>
        BY <1>2, <1>4, <3>1 DEF CommissionInputs
      <4> QED
        BY <3>1, <4>1
    <3>2. CASE n # 0
      BY <1>2, <3>2 DEF CommissionInputs
    <3> QED
      BY <3>1, <3>2
  <2> HIDE DEF inputs, calcs, ids
  <2>5. DOMAIN Ranges(inputs, ids) = IF n = 0 THEN 1..1 ELSE 1..n
    BY <1>1, <2>4, RangesDomain
  <2>6. side.mode = raw.mode /\ side.ranges = IF raw.mode = "FLEXIBLE" THEN Ranges(inputs, ids) ELSE <<>>
    BY <2>3
  <2>7. DOMAIN <<>> = {}
    OBVIOUS
  <2> QED
    BY <1>1, <1>2, <2>2, <2>5, <2>6, <2>7
<1> QED
  BY <1>5, <1>6

(* The ids of the ranges that come back.                                    *)
ReturnedIds(c) ==
  IF c.lane.ranges = <<>> THEN <<AmountRange(11, 0, WidestRange, 0)>> ELSE ByMinimum(Named(c.lane.ranges))

LEMMA NamedIds ==
  ASSUME NEW c, IsContract(c), UniqueIds(Named(c.lane.ranges)), NEW n, n = Len(c.lane.ranges),
         NEW m, m = IF c.lane.ranges = <<>> THEN 1 ELSE n
  PROVE  /\ m \in Nat /\ \A i \in 1..m : ReturnedIds(c)[i].id \in Nat \ {0}
         /\ \A i, j \in 1..m : ReturnedIds(c)[i].id = ReturnedIds(c)[j].id => i = j
<1> DEFINE r == c.lane.ranges
           s == Named(r)
           o == SortOrder(s)
<1>1. c.lane \in LaneText /\ n \in Nat /\ DOMAIN r = 1..n
  BY LaneParts DEF IsContract
<1>2. CASE r = <<>>
  <2>1. ReturnedIds(c) = <<AmountRange(11, 0, WidestRange, 0)>> /\ m = 1
    BY <1>2 DEF ReturnedIds
  <2>2. AmountRange(11, 0, WidestRange, 0).id = 11
    BY DEF AmountRange
  <2>3. ReturnedIds(c)[1].id = 11
    BY <2>1, <2>2
  <2>4. m = 1
    BY <2>1
  <2>5. \A i \in 1..1 : i = 1
    OBVIOUS
  <2> HIDE DEF r, s
  <2>6. 1..m = 1..1
    BY <2>4
  <2> QED
    BY <2>3, <2>4, <2>5, <2>6
<1>3. CASE r # <<>>
  <2>1. DOMAIN s = 1..n /\ \A i \in 1..n : s[i] = [r[i] EXCEPT !.id = Or(@, 10 + i)]
    BY <1>1 DEF Named
  <2>2. ASSUME NEW i \in 1..n PROVE s[i].id \in Nat \ {0} /\ s[i].min \in Nat
    <3>1. r[i] \in LaneRange /\ r[i].id \in Nat /\ r[i].min \in Nat
      BY <1>1, LaneElements
    <3>2. s[i].id = Or(r[i].id, 10 + i) /\ s[i].min = r[i].min
      BY <2>1, <3>1 DEF LaneRange
    <3> QED
      BY <3>1, <3>2, <1>1 DEF Or
  <2>3. \A i, j \in 1..n : s[i].id = s[j].id => i = j
    BY <2>1 DEF UniqueIds
  <2> HIDE DEF s
  <2>10. n \in Nat /\ DOMAIN s = 1..n /\ \A i \in 1..n : s[i].min \in Nat
    BY <1>1, <2>1, <2>2
  <2>11. ByMinimum(s) = [i \in 1..n |-> s[o[i]]] /\ Permutes(o, n)
    BY <2>10, SortedIs
  <2>4. /\ ByMinimum(s) = [i \in 1..n |-> s[o[i]]] /\ o \in [1..n -> 1..n]
        /\ \A i, j \in 1..n : o[i] = o[j] => i = j
    BY <2>11 DEF Permutes
  <2>5. ReturnedIds(c) = ByMinimum(s) /\ m = n
    BY <1>3 DEF ReturnedIds, s
  <2> HIDE DEF o
  <2>6. \A i \in 1..n : ReturnedIds(c)[i] = s[o[i]] /\ o[i] \in 1..n
    BY <2>4, <2>5
  <2>7. \A i \in 1..n : ReturnedIds(c)[i].id = s[o[i]].id /\ o[i] \in 1..n
    BY <2>6
  <2>8. \A i \in 1..n : ReturnedIds(c)[i].id \in Nat \ {0}
    BY <2>2, <2>7
  <2>9. \A i, j \in 1..n : ReturnedIds(c)[i].id = ReturnedIds(c)[j].id => i = j
    <3> SUFFICES ASSUME NEW i \in 1..n, NEW j \in 1..n, ReturnedIds(c)[i].id = ReturnedIds(c)[j].id PROVE i = j
      OBVIOUS
    <3>1. s[o[i]].id = s[o[j]].id /\ o[i] \in 1..n /\ o[j] \in 1..n
      BY <2>7
    <3>2. o[i] = o[j]
      BY <3>1, <2>3
    <3> QED
      BY <3>2, <2>4
  <2> QED
    BY <1>1, <2>5, <2>8, <2>9
<1> QED
  BY <1>2, <1>3

LEMMA NormalizedIs ==
  ASSUME NEW c, IsContract(c), NEW side, side = ServiceSide(c), NEW named, named = ReturnedIds(c),
         NEW ranges, ranges = [i \in DOMAIN side.ranges |->
                                 AmountRange(named[i].id, side.ranges[i].min, side.ranges[i].max, side.ranges[i].calc)]
  PROVE  Normalized(c) = [lane |-> [enabled |-> c.lane.enabled, mode |-> c.lane.mode, default |-> side.default,
                                    calcs |-> side.calcs, ranges |-> ranges],
                          other |-> c.other, keywords |-> c.keywords, keyword |-> c.keyword]
<1>1. c = [lane |-> c.lane, other |-> c.other, keywords |-> c.keywords, keyword |-> c.keyword]
  BY DEF IsContract
<1>2. c.lane = [enabled |-> c.lane.enabled, mode |-> c.lane.mode, default |-> c.lane.default, calcs |-> c.lane.calcs,
                ranges |-> c.lane.ranges]
  BY LaneParts DEF IsContract
<1>3. Normalized(c) = [c EXCEPT !.lane.calcs = side.calcs, !.lane.default = side.default, !.lane.ranges = ranges]
  BY DEF Normalized, ReturnedIds
<1> DEFINE l == c.lane
           c1 == [c EXCEPT !.lane = [l EXCEPT !.calcs = side.calcs]]
           c2 == [c1 EXCEPT !.lane = [c1.lane EXCEPT !.default = side.default]]
           c3 == [c2 EXCEPT !.lane = [c2.lane EXCEPT !.ranges = ranges]]
<1>4. Normalized(c) = c3
  BY <1>3
<1>5. c1 = [lane |-> [enabled |-> l.enabled, mode |-> l.mode, default |-> l.default, calcs |-> side.calcs,
                      ranges |-> l.ranges], other |-> c.other, keywords |-> c.keywords, keyword |-> c.keyword]
  BY <1>1, <1>2
<1> HIDE DEF l, c1
<1>6. c2 = [lane |-> [enabled |-> l.enabled, mode |-> l.mode, default |-> side.default, calcs |-> side.calcs,
                      ranges |-> l.ranges], other |-> c.other, keywords |-> c.keywords, keyword |-> c.keyword]
  BY <1>5
<1> HIDE DEF c2
<1>7. c3 = [lane |-> [enabled |-> l.enabled, mode |-> l.mode, default |-> side.default, calcs |-> side.calcs,
                      ranges |-> ranges], other |-> c.other, keywords |-> c.keywords, keyword |-> c.keyword]
  BY <1>6
<1> QED
  BY <1>4, <1>7 DEF l

LEMMA NormalizedGood ==
  ASSUME NEW c, IsContract(c), c.lane.mode \in Modes, studioScope.target \in Targets, ServiceAccepts(c)
  PROVE  IsContract(Normalized(c)) /\ Drawable(Normalized(c).lane)
<1> DEFINE side == ServiceSide(c)
           named == ReturnedIds(c)
           ranges == [i \in DOMAIN side.ranges |->
                        AmountRange(named[i].id, side.ranges[i].min, side.ranges[i].max, side.ranges[i].calc)]
           lane == [enabled |-> c.lane.enabled, mode |-> c.lane.mode, default |-> side.default,
                    calcs |-> side.calcs, ranges |-> ranges]
           n == Len(c.lane.ranges)
           m == IF c.lane.ranges = <<>> THEN 1 ELSE n
           size == IF c.lane.mode = "FLEXIBLE" THEN m ELSE 0
<1>1. c.lane \in LaneText /\ n \in Nat /\ n <= MaxRanges /\ c.other \in BOOLEAN /\ c.lane.enabled \in BOOLEAN
  BY LaneParts DEF IsContract
<1>2. StoredSide(side) /\ DOMAIN side.ranges = 1..size
  <2>1. StoredSide(side)
        /\ DOMAIN side.ranges = IF c.lane.mode # "FLEXIBLE" THEN {} ELSE IF c.lane.ranges = <<>> THEN 1..1 ELSE 1..n
    BY Served
  <2>2. DOMAIN side.ranges = IF c.lane.mode # "FLEXIBLE" THEN 1..0 ELSE IF c.lane.ranges = <<>> THEN 1..1 ELSE 1..n
    <3> HIDE DEF side
    <3> QED
      BY <2>1
  <2>3. 1..size = IF c.lane.mode # "FLEXIBLE" THEN 1..0 ELSE IF c.lane.ranges = <<>> THEN 1..1 ELSE 1..n
    OBVIOUS
  <2> QED
    BY <2>1, <2>2, <2>3
<1>3. SideOK(side)
  <2>1. DefinitionOK(Validated(AsSent(c)))
    BY DEF ServiceAccepts
  <2>2. SideOK(Validated(AsSent(c)).charge) /\ SideOK(Validated(AsSent(c)).commission)
    BY <2>1 DEF DefinitionOK
  <2> QED
    BY <2>2 DEF ServiceSide
<1>4. Normalized(c) = [lane |-> lane, other |-> c.other, keywords |-> c.keywords, keyword |-> c.keyword]
  BY NormalizedIs
<1>5. /\ m \in Nat /\ \A i \in 1..size : named[i].id \in Nat \ {0}
      /\ \A i, j \in 1..size : named[i].id = named[j].id => i = j
  <2>1. CASE c.lane.mode = "FLEXIBLE"
    <3>1. UniqueIds(Named(c.lane.ranges))
      BY <2>1 DEF ServiceAccepts
    <3> QED
      BY <2>1, <3>1, NamedIds
  <2>2. CASE c.lane.mode # "FLEXIBLE"
    BY <1>1, <2>2
  <2> QED
    BY <2>1, <2>2
<1>6. size \in Nat /\ size <= MaxRanges
  BY <1>1, <1>5, StudioAssumption
<1> HIDE DEF side, named, m, size
<1>7. side.calcs \in Seq(StoredCalc) /\ side.default # 0 /\ side.ranges \in Seq(StoredRange)
  BY <1>2, StoredParts
<1>8. ASSUME NEW i \in 1..size PROVE ranges[i] \in LaneRange /\ ranges[i].id = named[i].id
  <2>1. side.ranges[i] \in StoredRange
    <3>1. \A k \in DOMAIN side.ranges : side.ranges[k] \in StoredRange
      BY <1>7
    <3> QED
      BY <1>2, <3>1
  <2>2. ranges[i] = AmountRange(named[i].id, side.ranges[i].min, side.ranges[i].max, side.ranges[i].calc)
    BY <1>2
  <2> QED
    BY <1>5, <2>1, <2>2 DEF AmountRange, LaneRange, StoredRange
<1>9. ranges \in [1..size -> LaneRange]
  <2>1. ranges = [i \in 1..size |-> ranges[i]]
    BY <1>2
  <2> HIDE DEF ranges
  <2> QED
    BY <1>8, <2>1
<1> HIDE DEF ranges
<1>10. ranges \in Seq(LaneRange) /\ Len(ranges) = size /\ DOMAIN ranges = 1..size
  BY <1>6, <1>9, SequenceOf
<1>11. side.calcs \in Seq(RawCalcIn) /\ \A i \in DOMAIN side.calcs : side.calcs[i].id # 0
  <2>1. StoredCalc \subseteq RawCalcIn
    BY DEF StoredCalc, RawCalcIn
  <2>2. ASSUME NEW i \in DOMAIN side.calcs PROVE side.calcs[i].id # 0
    <3>1. side.calcs[i] \in StoredCalc
      BY <1>7
    <3> QED
      BY <3>1 DEF StoredCalc
  <2>3. side.calcs \in Seq(RawCalcIn)
    <3> HIDE DEF side
    <3> QED
      BY <1>7, <2>1
  <2> QED
    BY <2>2, <2>3
<1>12. UniqueIds(side.calcs) /\ side.default \in Ids(side.calcs)
  BY <1>3 DEF SideOK
<1>13. side.default \in Nat
  <2>1. \A i \in DOMAIN side.calcs : side.calcs[i] \in RawCalcIn
    BY <1>11
  <2> QED
    BY <1>12, <2>1 DEF Ids, RawCalcIn
<1>14. lane \in LaneText
  BY <1>1, <1>10, <1>11, <1>13, LaneMade, LaneParts
<1>15. lane.calcs = side.calcs /\ lane.default = side.default /\ lane.ranges = ranges
  OBVIOUS
<1> HIDE DEF lane
<1>16. Drawable(lane)
  BY <1>5, <1>8, <1>10, <1>11, <1>12, <1>15 DEF Drawable, UniqueIds
<1>17. IsContract(Normalized(c)) /\ Normalized(c).lane = lane
  BY <1>1, <1>4, <1>6, <1>10, <1>14, <1>15 DEF IsContract
<1> QED
  BY <1>16, <1>17

(* A definition that the canvas shows and the studio accepts: the side the  *)
(* service makes of it is the lane, sorted.                                 *)
LEMMA AcceptedSide ==
  ASSUME NEW c, IsContract(c), studioScope.target \in Targets, Accepts(c), c.lane.enabled, Drawable(c.lane)
  PROVE  /\ ServiceSide(c) = DrawnRanges(c.lane) /\ SideOK(DrawnRanges(c.lane)) /\ StoredSide(DrawnRanges(c.lane))
         /\ c.lane \in LaneText /\ c.lane.mode \in Modes /\ ServiceAccepts(c)
         /\ c.lane.mode = "FLEXIBLE" => RangesAccepted(c.lane)
<1> DEFINE lane == c.lane
           charge == OtherLane("charge", c.other)
           commission == OtherLane("commission", c.other)
<1>1. /\ lane \in LaneText /\ c.other \in BOOLEAN /\ lane.mode \in Modes /\ c.keywords # <<>>
      /\ \A i \in DOMAIN lane.calcs : RuleOK(lane.calcs[i].rule)
      /\ lane.mode = "FLEXIBLE" => RangesAccepted(lane)
  BY DEF IsContract, Accepts, Modes
<1>2. /\ SideOK(DrawnRanges(lane)) /\ StoredSide(DrawnRanges(lane))
      /\ lane.mode = "FLEXIBLE" => lane.ranges # <<>> /\ \A i \in DOMAIN lane.ranges : lane.ranges[i].calc # 0
  BY <1>1, DrawnAccepted
<1>3. /\ Charge(SideOf(lane), WholeSpan) = DrawnRanges(lane)
      /\ Commission(SideOf(lane), OtherRanges(c), WholeSpan) = DrawnRanges(lane)
  BY <1>1, <1>2, DrawnSide
<1>4. ServiceSide(c) = DrawnRanges(lane)
  BY <1>3, ServiceSideIs
<1>5. /\ charge \in LaneText /\ charge.mode \in Modes /\ Drawable(charge)
      /\ commission \in LaneText /\ commission.mode \in Modes /\ Drawable(commission)
  BY <1>1, OtherIs DEF Targets
<1>6. /\ SideOK(DrawnRanges(charge)) /\ SideOK(DrawnRanges(commission))
      /\ charge.mode = "FLEXIBLE" => charge.ranges # <<>> /\ \A i \in DOMAIN charge.ranges : charge.ranges[i].calc # 0
      /\ commission.mode = "FLEXIBLE" =>
           commission.ranges # <<>> /\ \A i \in DOMAIN commission.ranges : commission.ranges[i].calc # 0
  BY <1>1, OtherAccepted DEF Targets
<1> HIDE DEF charge, commission
<1>7. /\ Charge(SideOf(charge), WholeSpan) = DrawnRanges(charge)
      /\ Commission(SideOf(commission), Bare(lane), WholeSpan) = DrawnRanges(commission)
  BY <1>5, <1>6, DrawnSide
<1>8. Validated(AsSent(c)) =
        [condition |-> WholeSpan,
         charge |-> IF studioScope.target = "charge" THEN DrawnRanges(lane) ELSE DrawnRanges(charge),
         commission |-> IF studioScope.target = "charge" THEN DrawnRanges(commission) ELSE DrawnRanges(lane)]
  BY <1>4, <1>7, ServiceSideIs DEF charge, commission
<1>9. DefinitionOK(Validated(AsSent(c)))
  <2> DEFINE v == Validated(AsSent(c))
  <2>1. v.condition = WholeSpan /\ SideOK(v.charge) /\ SideOK(v.commission)
    BY <1>2, <1>6, <1>8
  <2>2. v.charge = DrawnRanges(lane) \/ v.commission = DrawnRanges(lane)
    BY <1>8
  <2>3. v.charge.enabled \/ v.commission.enabled
    BY <2>2 DEF DrawnRanges
  <2>4. WholeSpan.max >= WholeSpan.min
    BY StudioAssumption DEF WholeSpan
  <2> HIDE DEF v
  <2>5. DefinitionOK(v)
    BY <2>1, <2>3, <2>4 DEF DefinitionOK
  <2> QED
    BY <2>5 DEF v
<1>10. UniqueIds(Named(lane.ranges))
  <2>1. \A i \in DOMAIN lane.ranges : lane.ranges[i] \in LaneRange /\ lane.ranges[i].id # 0
    BY <1>1, LaneElements DEF Drawable
  <2>2. DOMAIN Named(lane.ranges) = DOMAIN lane.ranges
    BY DEF Named
  <2>3. ASSUME NEW i \in DOMAIN lane.ranges PROVE Named(lane.ranges)[i].id = lane.ranges[i].id
    <3>1. lane.ranges[i] \in LaneRange /\ lane.ranges[i].id # 0
      BY <2>1
    <3>2. Named(lane.ranges)[i] = [lane.ranges[i] EXCEPT !.id = Or(lane.ranges[i].id, 10 + i)]
      BY DEF Named
    <3>3. Or(lane.ranges[i].id, 10 + i) = lane.ranges[i].id
      BY <3>1 DEF Or
    <3> QED
      BY <3>1, <3>2, <3>3 DEF LaneRange
  <2> QED
    BY <2>2, <2>3 DEF UniqueIds, Drawable
<1> QED
  BY <1>1, <1>2, <1>4, <1>9, <1>10 DEF ServiceAccepts

(* What it stores reads back as the same.                                   *)
LEMMA ReadBack ==
  ASSUME NEW c, IsContract(c), studioScope.target \in Targets, Accepts(c), c.lane.enabled, Drawable(c.lane)
  PROVE  ServiceSide(Normalized(c)) = ServiceSide(c)
<1> DEFINE side == DrawnRanges(c.lane)
           back == Normalized(c)
           n == Normalized(c).lane
           named == ReturnedIds(c)
           size == Len(side.ranges)
           ranges == [i \in DOMAIN side.ranges |->
                        AmountRange(named[i].id, side.ranges[i].min, side.ranges[i].max, side.ranges[i].calc)]
<1>1. /\ ServiceSide(c) = side /\ SideOK(side) /\ StoredSide(side)
      /\ c.lane \in LaneText /\ c.lane.mode \in Modes /\ ServiceAccepts(c)
      /\ c.lane.mode = "FLEXIBLE" => RangesAccepted(c.lane)
  BY AcceptedSide
<1>2. IsContract(back) /\ Drawable(n)
  BY <1>1, NormalizedGood
<1>3. /\ side.enabled = c.lane.enabled /\ side.mode = c.lane.mode /\ side.party = "S" /\ side.rule = PlainRule
      /\ side.calcs = c.lane.calcs /\ side.default = c.lane.default
      /\ side = [enabled |-> side.enabled, mode |-> side.mode, party |-> side.party, rule |-> side.rule,
                 calcs |-> side.calcs, default |-> side.default, ranges |-> side.ranges]
      /\ side.ranges = IF c.lane.mode = "FLEXIBLE" THEN ByMinimum(Plain(c.lane)) ELSE <<>>
  BY DEF DrawnRanges
<1> HIDE DEF side
<1>4. back = [lane |-> [enabled |-> c.lane.enabled, mode |-> c.lane.mode, default |-> side.default,
                        calcs |-> side.calcs, ranges |-> ranges],
              other |-> c.other, keywords |-> c.keywords, keyword |-> c.keyword]
  BY <1>1, NormalizedIs
<1>5. n.enabled = side.enabled /\ n.mode = side.mode /\ n.default = side.default /\ n.calcs = side.calcs
      /\ n.ranges = ranges
  <2> HIDE DEF ranges
  <2>1. n = [enabled |-> c.lane.enabled, mode |-> c.lane.mode, default |-> side.default,
             calcs |-> side.calcs, ranges |-> ranges]
    BY <1>4
  <2> HIDE DEF n
  <2> QED
    BY <1>3, <2>1
<1>6. /\ size \in Nat /\ side.ranges \in [1..size -> StoredRange]
      /\ Increases(side.ranges, size) /\ \A i \in 1..size : side.ranges[i].calc # 0
  BY <1>1, AcceptedIncreases
<1> HIDE DEF back, n, named, size
<1>7. /\ DOMAIN ranges = 1..size
      /\ \A i \in 1..size : /\ ranges[i].min = side.ranges[i].min /\ ranges[i].max = side.ranges[i].max
                            /\ ranges[i].calc = side.ranges[i].calc
  <2>1. DOMAIN side.ranges = 1..size
    BY <1>6
  <2>2. \A i \in 1..size :
          ranges[i] = AmountRange(named[i].id, side.ranges[i].min, side.ranges[i].max, side.ranges[i].calc)
    BY <2>1
  <2> QED
    BY <2>1, <2>2 DEF AmountRange
<1> HIDE DEF ranges
<1>8. Plain(n) = side.ranges
  <2>1. Plain(n) = [i \in 1..size |-> [min |-> side.ranges[i].min, max |-> side.ranges[i].max,
                                        calc |-> side.ranges[i].calc, commission |-> 0, rule |-> NoRule]]
    BY <1>5, <1>7 DEF Plain
  <2>2. \A i \in 1..size : side.ranges[i] \in StoredRange
    BY <1>6
  <2>3. \A i \in 1..size : [min |-> side.ranges[i].min, max |-> side.ranges[i].max,
                            calc |-> side.ranges[i].calc, commission |-> 0, rule |-> NoRule] = side.ranges[i]
    BY <2>2 DEF StoredRange
  <2>4. side.ranges = [i \in 1..size |-> side.ranges[i]]
    BY <1>6
  <2> QED
    BY <2>1, <2>3, <2>4
<1>9. ByMinimum(side.ranges) = side.ranges
  BY <1>6, SortedStays
<1>10. DrawnRanges(n) = side
  <2>1. (IF n.mode = "FLEXIBLE" THEN ByMinimum(Plain(n)) ELSE <<>>) = side.ranges
    BY <1>3, <1>5, <1>8, <1>9
  <2> QED
    BY <1>3, <1>5, <2>1 DEF DrawnRanges
<1>11. /\ n \in LaneText /\ n.mode \in Modes /\ back.lane = n
       /\ n.mode = "FLEXIBLE" => n.ranges # <<>> /\ \A i \in DOMAIN n.ranges : n.ranges[i].calc # 0
  <2>1. n \in LaneText /\ n.mode \in Modes /\ back.lane = n
    BY <1>1, <1>2, <1>3, <1>5 DEF IsContract, n, back
  <2>2. \A i \in DOMAIN n.ranges : n.ranges[i].calc # 0
    BY <1>5, <1>6, <1>7
  <2>3. ASSUME n.mode = "FLEXIBLE" PROVE n.ranges # <<>>
    <3>1. c.lane.mode = "FLEXIBLE"
      BY <1>3, <1>5, <2>3
    <3>2. Len(c.lane.ranges) # 0 /\ Len(ByMinimum(Plain(c.lane))) = Len(c.lane.ranges)
      BY <1>1, <3>1, AcceptedRanges, SortedLane
    <3>3. size # 0 /\ 1 \in DOMAIN n.ranges
      BY <1>3, <1>5, <1>6, <1>7, <3>1, <3>2 DEF size
    <3> QED
      BY <3>3
  <2> QED
    BY <2>1, <2>2, <2>3
<1>12. /\ Charge(SideOf(n), WholeSpan) = DrawnRanges(n)
       /\ Commission(SideOf(n), OtherRanges(back), WholeSpan) = DrawnRanges(n)
  BY <1>2, <1>11, DrawnSide
<1>13. ServiceSide(back) = side
  BY <1>10, <1>11, <1>12, ServiceSideIs
<1> QED
  BY <1>1, <1>13 DEF back

(* The wires of the canvas.                                                 *)
LEMMA WiresDrawn ==
  ASSUME NEW lane, NEW id
  PROVE  /\ <<CalculationPort(id), Settlement>> \in Wires(lane) <=> id \in LaneCalculations(lane)
         /\ <<Condition, CalculationPort(id)>> \in Wires(lane) <=> id \in LaneCalculations(lane) /\ lane.mode = "FIXED"
<1> DEFINE shown == LaneCalculations(lane)
           drawn == IF lane.enabled /\ lane.mode # "FIXED" THEN Lists!ToSet(lane.ranges) ELSE {}
<1>1. Wires(lane) = {<<CalculationPort(x), Settlement>> : x \in shown}
        \cup {<<Condition, CalculationPort(x)>> : x \in {y \in shown : lane.mode = "FIXED"}}
        \cup {<<Condition, RangePort(r)>> : r \in drawn}
        \cup {<<RangePort(r), CalculationPort(r.calc)>> : r \in {x \in drawn : x.calc \in shown}}
  BY DEF Wires
<1> HIDE DEF shown, drawn
<1>2. <<CalculationPort(id), Settlement>> \in Wires(lane) <=> id \in shown
  BY <1>1 DEF CalculationPort, RangePort, Settlement, Condition
<1>3. <<Condition, CalculationPort(id)>> \in Wires(lane) <=> id \in shown /\ lane.mode = "FIXED"
  BY <1>1 DEF CalculationPort, RangePort, Settlement, Condition
<1> QED
  BY <1>2, <1>3 DEF shown

LEMMA RangesWired ==
  ASSUME NEW lane, lane.enabled, lane.mode = "FLEXIBLE", UniqueIds(lane.ranges), NEW i \in DOMAIN lane.ranges, NEW id
  PROVE  /\ <<Condition, RangePort(lane.ranges[i])>> \in Wires(lane)
         /\ <<RangePort(lane.ranges[i]), CalculationPort(id)>> \in Wires(lane)
              <=> id = lane.ranges[i].calc /\ id \in LaneCalculations(lane)
<1> DEFINE shown == LaneCalculations(lane)
           drawn == Lists!ToSet(lane.ranges)
           q == lane.ranges[i]
<1>1. Wires(lane) = {<<CalculationPort(x), Settlement>> : x \in shown}
        \cup {<<Condition, CalculationPort(x)>> : x \in {y \in shown : lane.mode = "FIXED"}}
        \cup {<<Condition, RangePort(r)>> : r \in drawn}
        \cup {<<RangePort(r), CalculationPort(r.calc)>> : r \in {x \in drawn : x.calc \in shown}}
  BY DEF Wires
<1>2. drawn = {lane.ranges[j] : j \in DOMAIN lane.ranges}
  BY DEF Lists!ToSet
<1>3. q \in drawn /\ \A r \in drawn : r.id = q.id => r = q
  BY <1>2 DEF UniqueIds
<1> HIDE DEF shown, drawn, q
<1>4. <<Condition, RangePort(q)>> \in Wires(lane)
  BY <1>1, <1>3
<1>5. <<RangePort(q), CalculationPort(id)>> \in Wires(lane)
        <=> \E r \in drawn :
              r.calc \in shown /\ RangePort(q) = RangePort(r) /\ CalculationPort(id) = CalculationPort(r.calc)
  BY <1>1 DEF CalculationPort, RangePort, Settlement, Condition
<1>6. ASSUME NEW r \in drawn, RangePort(q) = RangePort(r), CalculationPort(id) = CalculationPort(r.calc)
      PROVE  r = q /\ id = q.calc
  BY <1>3, <1>6 DEF CalculationPort, RangePort
<1>7. <<RangePort(q), CalculationPort(id)>> \in Wires(lane) <=> id = q.calc /\ id \in shown
  BY <1>3, <1>5, <1>6
<1> QED
  BY <1>4, <1>7 DEF shown, q

(* An amount is led to the calculations of the ranges it is within.         *)
LEMMA LedFixed ==
  ASSUME NEW lane, lane.enabled, lane.mode = "FIXED", lane.default \in Ids(lane.calcs), NEW amount
  PROVE  LeadsTo(lane, amount) = {lane.default}
<1>1. \A id : id \in LaneCalculations(lane) <=> id = lane.default
  BY DEF LaneCalculations
<1>2. \A id : /\ <<CalculationPort(id), Settlement>> \in Wires(lane) <=> id = lane.default
              /\ <<Condition, CalculationPort(id)>> \in Wires(lane) <=> id = lane.default
  BY <1>1, WiresDrawn
<1> QED
  BY <1>2 DEF LeadsTo

LEMMA LedFlexible ==
  ASSUME NEW lane, lane.enabled, lane.mode = "FLEXIBLE", UniqueIds(lane.ranges), NEW amount,
         \A i \in DOMAIN lane.ranges : lane.ranges[i].calc \in Ids(lane.calcs)
  PROVE  \A id : id \in LeadsTo(lane, amount)
                   <=> \E i \in DOMAIN lane.ranges : Within(lane.ranges[i], amount) /\ id = lane.ranges[i].calc
<1>1. \A id : id \in LaneCalculations(lane) <=> id \in Ids(lane.calcs)
  BY DEF LaneCalculations
<1>2. \A id : /\ <<CalculationPort(id), Settlement>> \in Wires(lane) <=> id \in Ids(lane.calcs)
              /\ <<Condition, CalculationPort(id)>> \notin Wires(lane)
  BY <1>1, WiresDrawn
<1>3. \A i \in DOMAIN lane.ranges : \A id :
        {<<Condition, RangePort(lane.ranges[i])>>,
           <<RangePort(lane.ranges[i]), CalculationPort(id)>>} \subseteq Wires(lane)
          <=> id = lane.ranges[i].calc
  <2> SUFFICES ASSUME NEW i \in DOMAIN lane.ranges, NEW id
               PROVE  {<<Condition, RangePort(lane.ranges[i])>>, <<RangePort(lane.ranges[i]), CalculationPort(id)>>}
                        \subseteq Wires(lane) <=> id = lane.ranges[i].calc
    OBVIOUS
  <2>1. <<Condition, RangePort(lane.ranges[i])>> \in Wires(lane)
    BY RangesWired
  <2>2. <<RangePort(lane.ranges[i]), CalculationPort(id)>> \in Wires(lane)
          <=> id = lane.ranges[i].calc /\ id \in LaneCalculations(lane)
    BY RangesWired
  <2> QED
    BY <1>1, <2>1, <2>2
<1>4. LeadsTo(lane, amount) = {id \in Ids(lane.calcs) :
        \E i \in DOMAIN lane.ranges : Within(lane.ranges[i], amount) /\ id = lane.ranges[i].calc}
  BY <1>2, <1>3 DEF LeadsTo
<1> QED
  BY <1>4

LEMMA LeastOfOne ==
  ASSUME NEW S, NEW k \in S, \A x \in S : x = k, k \in Nat
  PROVE  Min(S) = k
<1>1. S = {k}
  OBVIOUS
<1>2. k =< k
  OBVIOUS
<1>3. Min({k}) = k
  BY <1>2 DEF Min
<1> QED
  BY <1>1, <1>3

(* What is drawn for an amount is what the service applies to it.           *)
LEMMA DrawnIsApplied ==
  ASSUME NEW c, IsContract(c), studioScope.target \in Targets, Accepts(c), c.lane.enabled, Drawable(c.lane),
         NEW amount \in Nat
  PROVE  LeadsTo(c.lane, amount) = Applied(ServiceSide(c), amount)
<1> DEFINE lane == c.lane
           side == DrawnRanges(c.lane)
           sorted == ByMinimum(Plain(c.lane))
           o == SortOrder(c.lane.ranges)
           n == Len(c.lane.ranges)
           M == Matching(side, amount)
<1>1. /\ ServiceSide(c) = side /\ SideOK(side) /\ StoredSide(side)
      /\ lane \in LaneText /\ lane.mode \in Modes
      /\ lane.mode = "FLEXIBLE" => RangesAccepted(lane)
  BY AcceptedSide
<1>2. side.enabled = lane.enabled /\ side.mode = lane.mode /\ side.default = lane.default
      /\ side.ranges = IF lane.mode = "FLEXIBLE" THEN sorted ELSE <<>>
  BY DEF DrawnRanges
<1> HIDE DEF side
<1>3. CASE lane.mode = "FIXED"
  <2>1. LeadsTo(lane, amount) = {lane.default}
    BY <1>3, LedFixed DEF Drawable
  <2>2. Applied(side, amount) = {lane.default}
    BY <1>2, <1>3 DEF Applied, Applies
  <2> QED
    BY <1>1, <2>1, <2>2
<1>4. CASE lane.mode = "FLEXIBLE"
  <2>1. DOMAIN lane.ranges = 1..n /\ n \in Nat
    BY <1>1, LaneParts
  <2>2. \A i \in 1..n : lane.ranges[i].calc \in Ids(lane.calcs)
    BY <1>1, <1>4, AcceptedRanges
  <2>3. \A id : id \in LeadsTo(lane, amount)
                  <=> \E i \in 1..n : Within(lane.ranges[i], amount) /\ id = lane.ranges[i].calc
    <3>1. lane.enabled /\ UniqueIds(lane.ranges) /\ \A i \in DOMAIN lane.ranges : lane.ranges[i].calc \in Ids(lane.calcs)
      BY <2>1, <2>2 DEF Drawable
    <3>2. \A id : id \in LeadsTo(lane, amount)
                    <=> \E i \in DOMAIN lane.ranges : Within(lane.ranges[i], amount) /\ id = lane.ranges[i].calc
      BY <1>4, <3>1, LedFlexible
    <3> QED
      BY <2>1, <3>2
  <2>4. /\ DOMAIN sorted = 1..n /\ o \in [1..n -> 1..n] /\ \A y \in 1..n : \E i \in 1..n : o[i] = y
        /\ \A i \in 1..n : sorted[i] = Plain(lane)[o[i]]
    <3> HIDE DEF lane
    <3>1. /\ DOMAIN ByMinimum(Plain(lane)) = 1..Len(lane.ranges)
          /\ SortOrder(lane.ranges) \in [1..Len(lane.ranges) -> 1..Len(lane.ranges)]
      BY <1>1, SortedLane
    <3>2. \A y \in 1..Len(lane.ranges) : \E i \in 1..Len(lane.ranges) : SortOrder(lane.ranges)[i] = y
      BY <1>1, SortedLane
    <3>3. \A i \in 1..Len(lane.ranges) : ByMinimum(Plain(lane))[i] = Plain(lane)[SortOrder(lane.ranges)[i]]
      BY <1>1, SortedLane
    <3> QED
      BY <3>1, <3>2, <3>3 DEF lane
  <2>5. \A i \in 1..n : /\ Within(Plain(lane)[i], amount) <=> Within(lane.ranges[i], amount)
                        /\ Plain(lane)[i].calc = lane.ranges[i].calc
    BY <2>1 DEF Plain, Within
  <2> HIDE DEF lane, sorted, o, n
  <2>6. \A i \in 1..n : /\ Within(sorted[i], amount) <=> Within(lane.ranges[o[i]], amount)
                        /\ sorted[i].calc = lane.ranges[o[i]].calc /\ o[i] \in 1..n
    BY <2>4, <2>5
  <2>7. M = {k \in 1..n : Within(sorted[k], amount)}
    BY <1>2, <1>4, <2>4 DEF Matching
  <2> HIDE DEF M
  <2>8. \A id : id \in LeadsTo(lane, amount) <=> \E k \in M : id = sorted[k].calc
    <3> SUFFICES ASSUME NEW id PROVE id \in LeadsTo(lane, amount) <=> \E k \in M : id = sorted[k].calc
      OBVIOUS
    <3>1. ASSUME NEW k \in M, id = sorted[k].calc PROVE id \in LeadsTo(lane, amount)
      BY <2>3, <2>6, <2>7, <3>1
    <3>2. ASSUME id \in LeadsTo(lane, amount) PROVE \E k \in M : id = sorted[k].calc
      <4>1. PICK y \in 1..n : Within(lane.ranges[y], amount) /\ id = lane.ranges[y].calc
        BY <2>3, <3>2
      <4>2. PICK k \in 1..n : o[k] = y
        BY <2>4
      <4>3. Within(lane.ranges[o[k]], amount) /\ id = lane.ranges[o[k]].calc
        BY <4>1, <4>2
      <4>5. sorted[k].calc = lane.ranges[o[k]].calc
        BY <2>6
      <4>6. Within(sorted[k], amount) <=> Within(lane.ranges[o[k]], amount)
        BY <2>6
      <4>7. Within(sorted[k], amount)
        BY <4>3, <4>6
      <4>4. Within(sorted[k], amount) /\ id = sorted[k].calc
        BY <4>3, <4>5, <4>7
      <4> QED
        BY <2>7, <4>2, <4>4
    <3> QED
      BY <3>1, <3>2
  <2>9. CASE M = {}
    <3>1. Applied(side, amount) = {}
      BY <1>2, <1>4, <2>9 DEF Applied, Applies, M
    <3> QED
      BY <1>1, <2>8, <2>9, <3>1 DEF lane
  <2>10. CASE M # {}
    <3>1. PICK k \in M : TRUE
      BY <2>10
    <3>2. \A x \in M : x = k
      BY <1>1, <3>1, OneMatch DEF M
    <3>3. Min(M) = k
      BY <2>7, <3>1, <3>2, LeastOfOne
    <3>4. side.mode # "FIXED" /\ side.enabled /\ side.ranges = sorted
      BY <1>2, <1>4 DEF lane
    <3>5. Applied(side, amount) = {sorted[k].calc}
      BY <2>10, <3>3, <3>4 DEF Applied, Applies, M
    <3>6. LeadsTo(lane, amount) = {sorted[k].calc}
      BY <2>8, <3>1, <3>2
    <3> QED
      BY <1>1, <3>5, <3>6 DEF lane
  <2> QED
    BY <2>9, <2>10
<1> QED
  BY <1>1, <1>3, <1>4 DEF Modes

LEMMA CanvasKept ==
  ASSUME IsContract(editor.contract), studioScope.target \in Targets, ~editor.typed => Drawable(Lane)
  PROVE  CanvasTruthful
<1> DEFINE c == editor.contract
<1> SUFFICES ASSUME Accepts(c), c.lane.enabled, ~editor.typed
             PROVE  /\ ServiceAccepts(c) /\ ServiceSide(Normalized(c)) = ServiceSide(c)
                    /\ \A amount \in 0..(WidestRange + 1) : LeadsTo(c.lane, amount) = Applied(ServiceSide(c), amount)
  BY DEF CanvasTruthful
<1>1. IsContract(c) /\ Drawable(c.lane)
  BY DEF Lane
<1> HIDE DEF c
<1>2. ServiceAccepts(c)
  BY <1>1, AcceptedSide
<1>3. ServiceSide(Normalized(c)) = ServiceSide(c)
  BY <1>1, ReadBack
<1>4. \A amount \in 0..(WidestRange + 1) : amount \in Nat
  BY StudioAssumption
<1> QED
  BY <1>1, <1>2, <1>3, <1>4, DrawnIsApplied

(* Edits of a lane: what can be drawn stays so, and ranges keep their ids.  *)
Redrawn(old, new) ==
  /\ new \in LaneText /\ Len(new.ranges) <= MaxRanges
  /\ Drawable(old) => Drawable(new)
  /\ \A i \in DOMAIN old.ranges : i \in DOMAIN new.ranges /\ new.ranges[i].id = old.ranges[i].id

LaneOK(lane) == lane \in LaneText /\ Len(lane.ranges) <= MaxRanges

LEMMA LaneChanged ==
  ASSUME NEW lane \in LaneText, NEW x
  PROVE  /\ [lane EXCEPT !.enabled = x] = [enabled |-> x, mode |-> lane.mode, default |-> lane.default,
                                           calcs |-> lane.calcs, ranges |-> lane.ranges]
         /\ [lane EXCEPT !.mode = x] = [enabled |-> lane.enabled, mode |-> x, default |-> lane.default,
                                        calcs |-> lane.calcs, ranges |-> lane.ranges]
         /\ [lane EXCEPT !.default = x] = [enabled |-> lane.enabled, mode |-> lane.mode, default |-> x,
                                           calcs |-> lane.calcs, ranges |-> lane.ranges]
         /\ [lane EXCEPT !.calcs = x] = [enabled |-> lane.enabled, mode |-> lane.mode, default |-> lane.default,
                                         calcs |-> x, ranges |-> lane.ranges]
         /\ [lane EXCEPT !.ranges = x] = [enabled |-> lane.enabled, mode |-> lane.mode, default |-> lane.default,
                                          calcs |-> lane.calcs, ranges |-> x]
BY LaneParts

LEMMA Switched3 ==
  ASSUME NEW lane, LaneOK(lane), NEW mode \in STRING
  PROVE  /\ Redrawn(lane, [lane EXCEPT !.enabled = ~lane.enabled]) /\ Redrawn(lane, [lane EXCEPT !.mode = mode])
         /\ \A id \in Nat : LaneOK([lane EXCEPT !.default = id])
         /\ \A id \in Ids(lane.calcs) : Redrawn(lane, [lane EXCEPT !.default = id])
<1>1. /\ lane \in LaneText /\ Len(lane.ranges) <= MaxRanges /\ lane.enabled \in BOOLEAN /\ lane.mode \in STRING
      /\ lane.default \in Nat /\ lane.calcs \in Seq(RawCalcIn) /\ lane.ranges \in Seq(LaneRange)
  BY LaneParts DEF LaneOK
<1> DEFINE a == [lane EXCEPT !.enabled = ~lane.enabled]
           b == [lane EXCEPT !.mode = mode]
<1>2. Redrawn(lane, a)
  <2>1. a = [enabled |-> ~lane.enabled, mode |-> lane.mode, default |-> lane.default,
             calcs |-> lane.calcs, ranges |-> lane.ranges]
    BY <1>1, LaneChanged
  <2> DEFINE e == ~lane.enabled
  <2>3. e \in BOOLEAN
    BY <1>1
  <2>4. a = [enabled |-> e, mode |-> lane.mode, default |-> lane.default, calcs |-> lane.calcs, ranges |-> lane.ranges]
    BY <2>1
  <2> HIDE DEF a, e
  <2>5. [enabled |-> e, mode |-> lane.mode, default |-> lane.default, calcs |-> lane.calcs, ranges |-> lane.ranges]
          \in LaneText
    BY <1>1, <2>3, LaneMade
  <2>2. a \in LaneText
    BY <2>4, <2>5
  <2> QED
    BY <1>1, <2>1, <2>2 DEF Redrawn, Drawable
<1>3. Redrawn(lane, b)
  <2>1. b = [enabled |-> lane.enabled, mode |-> mode, default |-> lane.default,
             calcs |-> lane.calcs, ranges |-> lane.ranges]
    BY <1>1, LaneChanged
  <2>2. b \in LaneText
    BY <1>1, <2>1, LaneMade
  <2> QED
    BY <1>1, <2>1, <2>2 DEF Redrawn, Drawable
<1>4. ASSUME NEW id \in Nat
      PROVE  LaneOK([lane EXCEPT !.default = id])
             /\ (id \in Ids(lane.calcs) => Redrawn(lane, [lane EXCEPT !.default = id]))
  <2> DEFINE d == [lane EXCEPT !.default = id]
  <2>1. d = [enabled |-> lane.enabled, mode |-> lane.mode, default |-> id,
             calcs |-> lane.calcs, ranges |-> lane.ranges]
    BY <1>1, LaneChanged
  <2>2. d \in LaneText
    BY <1>1, <2>1, LaneMade
  <2> QED
    BY <1>1, <2>1, <2>2 DEF Redrawn, Drawable, LaneOK
<1>5. Ids(lane.calcs) \subseteq Nat
  BY <1>1, LaneElements DEF Ids
<1> QED
  BY <1>2, <1>3, <1>4, <1>5

(* Other calculations: those that were there are there, under other rules.  *)
LEMMA CalcsChanged ==
  ASSUME NEW lane, LaneOK(lane), NEW calcs \in Seq(RawCalcIn), NEW default \in Nat,
         Drawable(lane) => /\ \A i \in DOMAIN calcs : calcs[i].id # 0
                           /\ UniqueIds(calcs) /\ default \in Ids(calcs),
         NEW new, new = [lane EXCEPT !.calcs = calcs, !.default = default]
  PROVE  Redrawn(lane, new)
<1>1. /\ lane \in LaneText /\ Len(lane.ranges) <= MaxRanges /\ lane.enabled \in BOOLEAN /\ lane.mode \in STRING
      /\ lane.ranges \in Seq(LaneRange)
      /\ lane = [enabled |-> lane.enabled, mode |-> lane.mode, default |-> lane.default, calcs |-> lane.calcs,
                 ranges |-> lane.ranges]
  BY LaneParts DEF LaneOK
<1>2. new = [enabled |-> lane.enabled, mode |-> lane.mode, default |-> default, calcs |-> calcs, ranges |-> lane.ranges]
  BY <1>1
<1>3. new \in LaneText
  <2>1. [enabled |-> lane.enabled, mode |-> lane.mode, default |-> default, calcs |-> calcs, ranges |-> lane.ranges]
          \in LaneText
    BY <1>1, LaneMade
  <2> QED
    BY <1>2, <2>1
<1>4. new.ranges = lane.ranges /\ new.calcs = calcs /\ new.default = default
  BY <1>2
<1> QED
  BY <1>1, <1>3, <1>4 DEF Redrawn, Drawable

LEMMA CalculationAdded ==
  ASSUME NEW lane, LaneOK(lane), NEW id, id = FreshId(lane.calcs)
  PROVE  Redrawn(lane, [lane EXCEPT !.calcs = Append(@, LaneCalculation(id)), !.default = Or(@, id)])
<1> DEFINE n == Len(lane.calcs)
           q == lane.calcs
           calcs == Append(q, LaneCalculation(id))
           default == Or(lane.default, id)
<1>1. /\ lane.default \in Nat /\ q \in Seq(RawCalcIn) /\ n \in Nat /\ DOMAIN q = 1..n /\ (n = 0 => q = <<>>)
      /\ \A i \in 1..n : q[i].id \in Nat
  BY LaneParts, LaneElements DEF LaneOK
<1>2. id \in Nat \ {0} /\ \A i \in 1..n : q[i].id # id
  BY <1>1, FreshIdIsNew
<1>3. LaneCalculation(id) \in RawCalcIn /\ LaneCalculation(id).id = id
  BY <1>2, PlainRuleIs DEF LaneCalculation, RawCalcIn
<1>4. /\ calcs \in Seq(RawCalcIn) /\ DOMAIN calcs = 1..(n + 1)
      /\ \A i \in 1..n : calcs[i] = q[i] /\ calcs[n + 1] = LaneCalculation(id)
  BY <1>1, <1>3
<1>5. calcs[n + 1] = LaneCalculation(id)
  BY <1>1
<1> HIDE DEF calcs, n
<1>6. default \in Nat
  BY <1>1, <1>2 DEF Or
<1>7. ASSUME Drawable(lane)
      PROVE  (\A i \in DOMAIN calcs : calcs[i].id # 0) /\ UniqueIds(calcs) /\ default \in Ids(calcs)
  <2>1. /\ \A i \in 1..n : q[i].id # 0
        /\ \A i, j \in 1..n : q[i].id = q[j].id => i = j
        /\ \E i \in 1..n : lane.default = q[i].id
    BY <1>1, <1>7 DEF Drawable, UniqueIds, Ids
  <2>2. \A i \in 1..(n + 1) : i \in 1..n \/ i = n + 1
    BY <1>1
  <2>3. \A i \in 1..(n + 1) : calcs[i].id # 0
    BY <1>2, <1>3, <1>4, <1>5, <2>1, <2>2
  <2>4. \A i, j \in 1..(n + 1) : calcs[i].id = calcs[j].id => i = j
    BY <1>2, <1>3, <1>4, <1>5, <2>1, <2>2
  <2>5. PICK i \in 1..n : lane.default = q[i].id
    BY <2>1
  <2>6. default = calcs[i].id /\ i \in 1..(n + 1)
    BY <1>1, <1>4, <2>1, <2>5 DEF Or
  <2>7. default \in Ids(calcs)
    BY <1>4, <2>6 DEF Ids
  <2> QED
    BY <1>4, <2>3, <2>4, <2>7 DEF UniqueIds
<1>8. [lane EXCEPT !.calcs = Append(@, LaneCalculation(id)), !.default = Or(@, id)]
        = [lane EXCEPT !.calcs = calcs, !.default = default]
  BY LaneParts DEF LaneOK, calcs
<1> HIDE DEF default
<1> QED
  BY <1>4, <1>6, <1>7, <1>8, CalcsChanged

LEMMA RuleChanged ==
  ASSUME NEW lane, LaneOK(lane), NEW i \in DOMAIN lane.calcs, NEW rule \in AmountRule
  PROVE  Redrawn(lane, [lane EXCEPT !.calcs[i].rule = rule])
<1> DEFINE n == Len(lane.calcs)
           q == lane.calcs
           one == [q[i] EXCEPT !.rule = rule]
           calcs == [q EXCEPT ![i] = one]
<1>1. /\ lane.default \in Nat /\ q \in Seq(RawCalcIn) /\ n \in Nat /\ DOMAIN q = 1..n
      /\ \A k \in 1..n : q[k] \in RawCalcIn
  BY LaneParts, LaneElements DEF LaneOK
<1>2. one \in RawCalcIn /\ one.id = q[i].id
  BY <1>1 DEF RawCalcIn
<1> HIDE DEF one
<1>3. calcs \in Seq(RawCalcIn) /\ DOMAIN calcs = 1..n
  BY <1>1, <1>2
<1>4. \A k \in 1..n : calcs[k].id = q[k].id
  BY <1>1, <1>2
<1>5. [lane EXCEPT !.calcs[i].rule = rule] = [lane EXCEPT !.calcs = calcs, !.default = lane.default]
  <2>1. [lane EXCEPT !.calcs[i].rule = rule] = [lane EXCEPT !.calcs = calcs]
    BY DEF one
  <2> HIDE DEF calcs
  <2> QED
    BY <2>1, LaneParts DEF LaneOK
<1> HIDE DEF calcs
<1>7. Ids(calcs) = Ids(q) /\ (UniqueIds(q) => UniqueIds(calcs))
  <2> HIDE DEF q
  <2> QED
    BY <1>1, <1>3, <1>4 DEF UniqueIds, Ids
<1>6. Drawable(lane) => /\ \A k \in DOMAIN calcs : calcs[k].id # 0
                        /\ UniqueIds(calcs) /\ lane.default \in Ids(calcs)
  BY <1>1, <1>3, <1>4, <1>7 DEF Drawable
<1> QED
  BY <1>1, <1>3, <1>5, <1>6, CalcsChanged

(* Other ranges.                                                            *)
NamedApart(ranges) == (\A i \in DOMAIN ranges : ranges[i].id # 0) /\ UniqueIds(ranges)
WithRanges(lane, mode, ranges) == [lane EXCEPT !.mode = mode, !.ranges = ranges]

LEMMA WithRangesIs ==
  ASSUME NEW lane \in LaneText, NEW mode \in STRING, NEW ranges, NEW new, new = WithRanges(lane, mode, ranges)
  PROVE  new = [enabled |-> lane.enabled, mode |-> mode, default |-> lane.default, calcs |-> lane.calcs, ranges |-> ranges]
<1>1. /\ lane.enabled \in BOOLEAN /\ lane.default \in Nat /\ lane.calcs \in Seq(RawCalcIn)
      /\ lane = [enabled |-> lane.enabled, mode |-> lane.mode, default |-> lane.default, calcs |-> lane.calcs,
                 ranges |-> lane.ranges]
  BY LaneParts
<1> QED
  BY <1>1 DEF WithRanges

LEMMA RangesChanged ==
  ASSUME NEW lane, LaneOK(lane), NEW mode \in STRING, NEW ranges \in Seq(LaneRange), Len(ranges) <= MaxRanges,
         Drawable(lane) => NamedApart(ranges),
         NEW new, new = WithRanges(lane, mode, ranges)
  PROVE  LaneOK(new) /\ (Drawable(lane) => Drawable(new)) /\ new.ranges = ranges
<1>1. /\ lane \in LaneText /\ lane.enabled \in BOOLEAN /\ lane.default \in Nat /\ lane.calcs \in Seq(RawCalcIn)
      /\ lane = [enabled |-> lane.enabled, mode |-> lane.mode, default |-> lane.default, calcs |-> lane.calcs,
                 ranges |-> lane.ranges]
  BY LaneParts DEF LaneOK
<1>2. new = [enabled |-> lane.enabled, mode |-> mode, default |-> lane.default, calcs |-> lane.calcs, ranges |-> ranges]
  BY <1>1 DEF WithRanges
<1>3. new \in LaneText
  <2>1. [enabled |-> lane.enabled, mode |-> mode, default |-> lane.default, calcs |-> lane.calcs, ranges |-> ranges]
          \in LaneText
    BY <1>1, LaneMade
  <2> QED
    BY <1>2, <2>1
<1>4. new.ranges = ranges /\ new.calcs = lane.calcs /\ new.default = lane.default
  BY <1>2
<1> QED
  BY <1>1, <1>3, <1>4 DEF LaneOK, Drawable, NamedApart

LEMMA RangeAppended ==
  ASSUME NEW lane, LaneOK(lane), NEW mode \in STRING, NEW n, n = Len(lane.ranges), n < MaxRanges,
         NEW s \in Seq(LaneRange), Len(s) = n, \A i \in 1..n : s[i].id = lane.ranges[i].id,
         NEW r \in LaneRange, r.id = FreshId(lane.ranges),
         NEW new, new = WithRanges(lane, mode, Append(s, r))
  PROVE  Redrawn(lane, new)
<1> DEFINE q == lane.ranges
           ranges == Append(s, r)
<1>1. /\ lane \in LaneText /\ q \in Seq(LaneRange) /\ n \in Nat /\ DOMAIN q = 1..n /\ (n = 0 => q = <<>>)
      /\ \A i \in 1..n : q[i].id \in Nat
  BY LaneParts, LaneElements DEF LaneOK
<1>2. r.id \in Nat \ {0} /\ \A i \in 1..n : q[i].id # r.id
  <2> HIDE DEF q
  <2>1. FreshId(q) \in Nat \ {0} /\ \A i \in 1..n : q[i].id # FreshId(q)
    BY <1>1, FreshIdIsNew
  <2> QED
    BY <2>1 DEF q
<1>3. /\ ranges \in Seq(LaneRange) /\ DOMAIN ranges = 1..(n + 1) /\ Len(ranges) = n + 1
      /\ \A i \in 1..n : ranges[i] = s[i]
  BY <1>1
<1>4. ranges[n + 1] = r
  BY <1>1
<1>5. Len(ranges) <= MaxRanges
  BY <1>1, <1>3, StudioAssumption
<1> HIDE DEF ranges
<1>6. \A i \in 1..n : ranges[i].id = q[i].id
  BY <1>3
<1>7. ASSUME Drawable(lane) PROVE NamedApart(ranges)
  <2>1. /\ \A i \in 1..n : q[i].id # 0
        /\ \A i, j \in 1..n : q[i].id = q[j].id => i = j
    BY <1>1, <1>7 DEF Drawable, UniqueIds
  <2> HIDE DEF q
  <2>2. \A i \in 1..(n + 1) : i \in 1..n \/ i = n + 1
    BY <1>1
  <2>3. \A i \in 1..(n + 1) : ranges[i].id # 0
    BY <1>2, <1>4, <1>6, <2>1, <2>2
  <2>4. \A i, j \in 1..(n + 1) : ranges[i].id = ranges[j].id => i = j
    BY <1>2, <1>4, <1>6, <2>1, <2>2
  <2> QED
    BY <1>3, <2>3, <2>4 DEF UniqueIds, NamedApart
<1>10. new = WithRanges(lane, mode, ranges)
  BY DEF ranges
<1>8. LaneOK(new) /\ (Drawable(lane) => Drawable(new)) /\ new.ranges = ranges
  BY <1>3, <1>5, <1>7, <1>10, RangesChanged
<1>9. \A i \in DOMAIN q : i \in DOMAIN ranges /\ ranges[i].id = q[i].id
  BY <1>1, <1>3, <1>6
<1> QED
  BY <1>8, <1>9 DEF Redrawn, LaneOK

LEMMA RangesMoved ==
  ASSUME NEW lane, LaneOK(lane), NEW mode \in STRING, NEW s \in Seq(LaneRange), Len(s) = Len(lane.ranges),
         \A i \in DOMAIN lane.ranges : s[i].id = lane.ranges[i].id,
         NEW new, new = WithRanges(lane, mode, s)
  PROVE  Redrawn(lane, new)
<1> DEFINE q == lane.ranges
           n == Len(lane.ranges)
<1>1. n \in Nat /\ DOMAIN q = 1..n /\ DOMAIN s = 1..n /\ n <= MaxRanges
  BY LaneParts DEF LaneOK
<1>2. Drawable(lane) => NamedApart(s)
  BY <1>1 DEF Drawable, UniqueIds, NamedApart
<1>3. LaneOK(new) /\ (Drawable(lane) => Drawable(new)) /\ new.ranges = s
  BY <1>1, <1>2, RangesChanged
<1> QED
  BY <1>1, <1>3 DEF Redrawn, LaneOK

LEMMA NewRange ==
  ASSUME NEW id \in Nat, NEW min \in Nat, NEW max \in Bound, NEW calc \in Nat
  PROVE  AmountRange(id, min, max, calc) \in LaneRange /\ AmountRange(id, min, max, calc).id = id
BY DEF AmountRange, LaneRange

LEMMA ConditionSet ==
  ASSUME NEW lane, LaneOK(lane), NEW m \in Modes,
         NEW new, new = [lane EXCEPT !.mode = m,
           !.ranges = IF m = "FLEXIBLE" /\ @ = <<>> THEN <<AmountRange(1, 0, WidestRange, lane.default)>> ELSE @]
  PROVE  Redrawn(lane, new)
<1> DEFINE q == lane.ranges
           r == AmountRange(1, 0, WidestRange, lane.default)
<1>1. /\ lane \in LaneText /\ q \in Seq(LaneRange) /\ lane.default \in Nat /\ DOMAIN q = 1..Len(q)
      /\ Len(q) <= MaxRanges /\ m \in STRING
  BY LaneParts, StudioAssumption DEF LaneOK, Modes
<1>2. CASE m = "FLEXIBLE" /\ q = <<>>
  <2> DEFINE e == [lane EXCEPT !.mode = m]
             x == IF m = "FLEXIBLE" /\ e.ranges = <<>> THEN <<r>> ELSE e.ranges
  <2>7. new = [e EXCEPT !.ranges = x]
    OBVIOUS
  <2>8. e.ranges = q
    BY <1>1, LaneParts
  <2>9. x = <<r>>
    <3> HIDE DEF r, e, q
    <3> QED
      BY <1>2, <2>8
  <2>1. new = WithRanges(lane, m, <<r>>)
    <3> DEFINE y == <<r>>
    <3>1. new = [e EXCEPT !.ranges = y]
      BY <2>7, <2>9
    <3> HIDE DEF y
    <3>3. e = [enabled |-> lane.enabled, mode |-> m, default |-> lane.default, calcs |-> lane.calcs,
               ranges |-> lane.ranges]
      BY <1>1, LaneChanged
    <3> HIDE DEF e, x
    <3>4. new = [enabled |-> lane.enabled, mode |-> m, default |-> lane.default, calcs |-> lane.calcs, ranges |-> y]
      BY <3>1, <3>3
    <3>5. WithRanges(lane, m, y)
            = [enabled |-> lane.enabled, mode |-> m, default |-> lane.default, calcs |-> lane.calcs, ranges |-> y]
      BY <1>1, WithRangesIs
    <3> QED
      BY <3>4, <3>5 DEF y
  <2>2. r \in LaneRange /\ r.id = 1
    <3>1. WidestRange \in Bound
      BY StudioAssumption DEF Bound
    <3>2. lane.default \in Nat /\ 0 \in Nat /\ 1 \in Nat
      BY <1>1
    <3> QED
      BY <3>1, <3>2, NewRange
  <2> HIDE DEF r
  <2>3. /\ <<r>> \in Seq(LaneRange) /\ Len(<<r>>) = 1 /\ DOMAIN <<r>> = 1..1 /\ <<r>>[1] = r
        /\ Len(<<r>>) <= MaxRanges
    BY <2>2, StudioAssumption
  <2> DEFINE s == <<r>>
  <2>4. NamedApart(s)
    <3>1. \A i \in 1..1 : i = 1
      OBVIOUS
    <3> QED
      BY <2>2, <2>3, <3>1 DEF UniqueIds, NamedApart
  <2>5. s \in Seq(LaneRange) /\ Len(s) <= MaxRanges /\ new = WithRanges(lane, m, s)
    BY <2>1, <2>3
  <2> HIDE DEF s
  <2>6. LaneOK(new) /\ (Drawable(lane) => Drawable(new))
    BY <1>1, <2>4, <2>5, RangesChanged
  <2> QED
    BY <1>1, <1>2, <2>6 DEF Redrawn, LaneOK
<1>3. CASE ~(m = "FLEXIBLE" /\ q = <<>>)
  <2>1. new = WithRanges(lane, m, q)
    BY <1>3 DEF WithRanges
  <2> QED
    BY <1>1, <2>1, RangesMoved
<1> QED
  BY <1>2, <1>3

LEMMA FirstIdIs == ASSUME NEW lane \in LaneText PROVE FirstId(lane) \in Nat
<1>1. CASE lane.calcs = <<>>
  BY <1>1 DEF FirstId
<1>2. CASE lane.calcs # <<>>
  <2>1. 1 \in DOMAIN lane.calcs
    BY <1>2, LaneParts
  <2> QED
    BY <1>2, <2>1, LaneElements DEF FirstId
<1> QED
  BY <1>1, <1>2

LEMMA RangeAdded ==
  ASSUME NEW lane, LaneOK(lane), Len(lane.ranges) < MaxRanges
  PROVE  Redrawn(lane, Appended(lane))
<1> DEFINE q == lane.ranges
           n == Len(lane.ranges)
           last == q[n]
           end == IF last.max = Undefined THEN last.min + RangeSpan ELSE last.max
           from == IF n = 0 THEN 0 ELSE end + 1
           calc == IF studioScope.target = "charge" THEN Or(lane.default, FirstId(lane)) ELSE lane.default
           s == IF n = 0 THEN q ELSE [q EXCEPT ![n].max = end]
           r == AmountRange(FreshId(q), from, from + RangeSpan, calc)
<1>1. /\ lane \in LaneText /\ q \in Seq(LaneRange) /\ n \in Nat /\ DOMAIN q = 1..n /\ (n = 0 => q = <<>>)
      /\ \A i \in 1..n : q[i] \in LaneRange /\ q[i].id \in Nat
      /\ lane.default \in Nat /\ RangeSpan \in Nat /\ "FLEXIBLE" \in STRING
  BY LaneParts, LaneElements, StudioAssumption DEF LaneOK
<1>2. n # 0 => end \in Nat
  <2> SUFFICES ASSUME n # 0 PROVE end \in Nat
    OBVIOUS
  <2>1. q[n] \in LaneRange
    BY <1>1
  <2>2. last.min \in Nat /\ last.max \in Bound
    BY <2>1 DEF LaneRange
  <2> HIDE DEF last
  <2> QED
    BY <1>1, <2>2 DEF Bound
<1>3. Appended(lane) = WithRanges(lane, "FLEXIBLE", Append(s, r))
  BY LaneParts DEF Appended, LaneOK, WithRanges
<1> HIDE DEF end
<1>4. from \in Nat
  BY <1>2
<1>5. calc \in Nat
  BY <1>1, FirstIdIs DEF Or
<1> HIDE DEF calc, from
<1>6. s \in Seq(LaneRange) /\ Len(s) = n /\ \A i \in 1..n : s[i].id = q[i].id
  <2>1. CASE n = 0
    BY <1>1, <2>1
  <2>2. CASE n # 0
    <3> DEFINE one == [q[n] EXCEPT !.max = end]
    <3>3. q[n] \in LaneRange /\ end \in Bound
      BY <1>1, <1>2, <2>2 DEF Bound
    <3>1. one \in LaneRange /\ one.id = q[n].id
      BY <3>3 DEF LaneRange
    <3>2. s = [q EXCEPT ![n] = one]
      BY <2>2
    <3> HIDE DEF one, s, last
    <3> HIDE DEF q
    <3>4. s \in Seq(LaneRange) /\ Len(s) = n
      <4>1. q \in [1..n -> LaneRange]
        BY <1>1
      <4>2. s \in [1..n -> LaneRange]
        BY <3>1, <3>2, <4>1
      <4> QED
        BY <1>1, <4>2, SequenceOf
    <3>5. \A i \in 1..n : s[i].id = q[i].id
      BY <1>1, <3>1, <3>2
    <3> QED
      BY <3>4, <3>5
  <2> QED
    BY <2>1, <2>2
<1>7. FreshId(q) \in Nat
  <2> HIDE DEF q
  <2> QED
    BY <1>1, FreshIdIsNew
<1>9. from + RangeSpan \in Bound
  BY <1>1, <1>4 DEF Bound
<1>8. r \in LaneRange /\ r.id = FreshId(q)
  BY <1>4, <1>5, <1>7, <1>9, NewRange
<1> HIDE DEF s, r
<1> QED
  BY <1>1, <1>3, <1>6, <1>8, RangeAppended

LEMMA RangeAddedInEditor ==
  ASSUME NEW lane, LaneOK(lane), NEW n, n = Len(lane.ranges), n < MaxRanges,
         NEW from, from = IF n = 0 \/ lane.ranges[n].max = Undefined THEN 0 ELSE lane.ranges[n].max + 1,
         NEW new, new = [lane EXCEPT !.ranges =
           Append(@, AmountRange(FreshId(@), from, from + RangeSpan, FirstId(lane)))]
  PROVE  Redrawn(lane, new)
<1> DEFINE q == lane.ranges
           r == AmountRange(FreshId(q), from, from + RangeSpan, FirstId(lane))
<1>1. /\ lane \in LaneText /\ q \in Seq(LaneRange) /\ n \in Nat /\ DOMAIN q = 1..n /\ (n = 0 => q = <<>>)
      /\ \A i \in 1..n : q[i] \in LaneRange /\ q[i].id \in Nat
      /\ RangeSpan \in Nat /\ lane.mode \in STRING
  BY LaneParts, LaneElements, StudioAssumption DEF LaneOK
<1>2. from \in Nat
  <2>1. CASE n = 0
    BY <2>1
  <2>2. CASE n # 0
    <3>1. q[n] \in LaneRange
      BY <1>1, <2>2
    <3>2. q[n].max \in Bound
      BY <3>1 DEF LaneRange
    <3> QED
      BY <2>2, <3>2 DEF Bound
  <2> QED
    BY <2>1, <2>2
<1>3. FreshId(q) \in Nat /\ FirstId(lane) \in Nat
  <2> HIDE DEF q
  <2> QED
    BY <1>1, FreshIdIsNew, FirstIdIs
<1>6. from + RangeSpan \in Bound
  BY <1>1, <1>2 DEF Bound
<1>4. r \in LaneRange /\ r.id = FreshId(q)
  <2> DEFINE a == FreshId(q)
             b == from + RangeSpan
             d == FirstId(lane)
  <2>1. a \in Nat /\ b \in Bound /\ d \in Nat
    BY <1>3, <1>6
  <2> HIDE DEF a, b, d
  <2>2. AmountRange(a, from, b, d) \in LaneRange /\ AmountRange(a, from, b, d).id = a
    BY <1>2, <2>1 DEF AmountRange, LaneRange
  <2> QED
    BY <2>2 DEF a, b, d
<1>5. new = WithRanges(lane, lane.mode, Append(q, r))
  <2> DEFINE s == Append(q, r)
  <2>1. new = [lane EXCEPT !.ranges = s]
    OBVIOUS
  <2> HIDE DEF s
  <2>2. new = WithRanges(lane, lane.mode, s)
    BY <2>1, LaneParts DEF LaneOK, WithRanges
  <2> QED
    BY <2>2 DEF s
<1> HIDE DEF r
<1> DEFINE mode == lane.mode
<1>8. Len(q) = n /\ (\A i \in 1..n : q[i].id = lane.ranges[i].id) /\ r.id = FreshId(lane.ranges)
  BY <1>4
<1>9. q \in Seq(LaneRange) /\ mode \in STRING
  BY <1>1
<1>7. /\ q \in Seq(LaneRange) /\ Len(q) = n /\ \A i \in 1..n : q[i].id = lane.ranges[i].id
      /\ mode \in STRING /\ r.id = FreshId(lane.ranges) /\ new = WithRanges(lane, mode, Append(q, r))
  <2> HIDE DEF q
  <2> QED
    BY <1>5, <1>8, <1>9
<1>10. r \in LaneRange
  BY <1>4
<1> HIDE DEF q, mode
<1> QED
  BY <1>7, <1>10, RangeAppended, SMTT(30)

LEMMA RangePatched ==
  ASSUME NEW lane, LaneOK(lane), NEW i \in DOMAIN lane.ranges, NEW r \in LaneRange, r.id = lane.ranges[i].id,
         NEW new, new = WithRanges(lane, lane.mode, [lane.ranges EXCEPT ![i] = r])
  PROVE  Redrawn(lane, new)
<1> DEFINE q == lane.ranges
           n == Len(lane.ranges)
           s == [q EXCEPT ![i] = r]
           mode == lane.mode
<1>1. /\ lane \in LaneText /\ q \in Seq(LaneRange) /\ n \in Nat /\ DOMAIN q = 1..n /\ mode \in STRING
      /\ i \in 1..n
  BY LaneParts DEF LaneOK
<1>2. q \in [1..n -> LaneRange]
  BY <1>1
<1>3. new = WithRanges(lane, mode, s) /\ r.id = q[i].id
  OBVIOUS
<1> HIDE DEF q, mode
<1>4. s \in [1..n -> LaneRange]
  BY <1>2
<1>5. s \in Seq(LaneRange) /\ Len(s) = n
  BY <1>1, <1>4, SequenceOf
<1>6. \A k \in 1..n : s[k].id = q[k].id
  BY <1>1, <1>2, <1>3
<1> HIDE DEF s
<1>7. Len(s) = Len(lane.ranges) /\ \A k \in DOMAIN lane.ranges : s[k].id = lane.ranges[k].id
  BY <1>1, <1>5, <1>6 DEF q
<1> QED
  BY <1>1, <1>3, <1>5, <1>7, RangesMoved

LEMMA FieldPatched ==
  ASSUME NEW range \in LaneRange, NEW calcs \in SUBSET Nat, NEW f \in RangeFields(calcs)
  PROVE  Patched(range, f.field, f.value) \in LaneRange /\ Patched(range, f.field, f.value).id = range.id
<1>1. \/ f.field = "min" /\ f.value \in Nat
      \/ f.field = "max" /\ f.value \in Bound
      \/ f.field = "calc" /\ f.value \in Nat
  BY StudioAssumption DEF RangeFields, Bound
<1>2. CASE f.field = "min" /\ f.value \in Nat
  BY <1>2 DEF Patched, LaneRange
<1>3. CASE f.field = "max" /\ f.value \in Bound
  BY <1>3 DEF Patched, LaneRange
<1>4. CASE f.field = "calc" /\ f.value \in Nat
  BY <1>4 DEF Patched, LaneRange
<1> QED
  BY <1>1, <1>2, <1>3, <1>4

LEMMA Joined ==
  ASSUME NEW a \in Seq(LaneRange), NEW b \in Seq(LaneRange)
  PROVE  a \o b \in Seq(LaneRange) /\ Len(a \o b) = Len(a) + Len(b)
OBVIOUS

LEMMA RemovedAt ==
  ASSUME NEW n \in Nat, NEW s \in Seq(LaneRange), Len(s) = n, NEW i \in 1..n, NEW t, t = Lists!RemoveAt(s, i)
  PROVE  /\ t \in Seq(LaneRange) /\ DOMAIN t = 1..(n - 1) /\ Len(t) = n - 1
         /\ \A k \in 1..(n - 1) : t[k] = IF k < i THEN s[k] ELSE s[k + 1]
<1> DEFINE a == SubSeq(s, 1, i - 1)
           b == SubSeq(s, i + 1, n)
<1>1. t = a \o b
  BY DEF Lists!RemoveAt
<1>2. a \in Seq(LaneRange) /\ Len(a) = i - 1 /\ \A k \in 1..(i - 1) : a[k] = s[k]
  OBVIOUS
<1>3. b \in Seq(LaneRange) /\ Len(b) = n - i /\ \A k \in 1..(n - i) : b[k] = s[i + k]
  OBVIOUS
<1> HIDE DEF a, b
<1>4. t \in Seq(LaneRange) /\ Len(t) = n - 1 /\ DOMAIN t = 1..(n - 1)
  <2>3. a \o b \in Seq(LaneRange)
    BY <1>2, <1>3
  <2>4. Len(a \o b) = Len(a) + Len(b)
    BY <1>2, <1>3, Joined
  <2>1. t \in Seq(LaneRange) /\ Len(t) = (i - 1) + (n - i)
    BY <1>1, <1>2, <1>3, <2>3, <2>4
  <2>2. (i - 1) + (n - i) = n - 1
    OBVIOUS
  <2> QED
    BY <2>1, <2>2
<1>5. ASSUME NEW k \in 1..(n - 1) PROVE t[k] = IF k < i THEN s[k] ELSE s[k + 1]
  <2>1. CASE k < i
    BY <1>1, <1>2, <1>3, <2>1
  <2>2. CASE ~(k < i)
    <3>1. t[k] = b[k - (i - 1)] /\ k - (i - 1) \in 1..(n - i)
      BY <1>1, <1>2, <1>3, <2>2
    <3>2. i + (k - (i - 1)) = k + 1
      OBVIOUS
    <3> QED
      BY <1>3, <2>2, <3>1, <3>2
  <2> QED
    BY <2>1, <2>2
<1> QED
  BY <1>4, <1>5

LEMMA RangeRemoved ==
  ASSUME NEW lane, LaneOK(lane), NEW i \in DOMAIN lane.ranges,
         NEW new, new = WithRanges(lane, lane.mode, Lists!RemoveAt(lane.ranges, i))
  PROVE  /\ LaneOK(new) /\ (Drawable(lane) => Drawable(new))
         /\ \A k \in DOMAIN lane.ranges : k < i => k \in DOMAIN new.ranges /\ new.ranges[k].id = lane.ranges[k].id
<1> DEFINE q == lane.ranges
           n == Len(lane.ranges)
           s == Lists!RemoveAt(q, i)
           mode == lane.mode
<1>1. /\ lane \in LaneText /\ q \in Seq(LaneRange) /\ n \in Nat /\ DOMAIN q = 1..n /\ mode \in STRING
      /\ i \in 1..n /\ n <= MaxRanges
  BY LaneParts DEF LaneOK
<1>2. n = Len(q) /\ new = WithRanges(lane, mode, s) /\ MaxRanges \in Nat
  BY StudioAssumption
<1>3. ASSUME Drawable(lane) PROVE /\ \A k \in 1..n : q[k].id # 0
                                  /\ \A k, l \in 1..n : q[k].id = q[l].id => k = l
  BY <1>1, <1>3 DEF Drawable, UniqueIds
<1> HIDE DEF q, mode, n
<1>4. /\ s \in Seq(LaneRange) /\ DOMAIN s = 1..(n - 1) /\ Len(s) = n - 1
  <2> HIDE DEF s
  <2>1. s = Lists!RemoveAt(q, i)
    BY DEF s
  <2>2. Len(q) = n
    BY <1>2
  <2> QED
    BY <1>1, <2>1, <2>2, RemovedAt
<1>5. \A k \in 1..(n - 1) : s[k] = IF k < i THEN q[k] ELSE q[k + 1]
  <2> HIDE DEF s
  <2>1. s = Lists!RemoveAt(q, i) /\ Len(q) = n
    BY <1>2 DEF s
  <2>2. \A m \in Nat : \A u \in Seq(LaneRange) : \A k \in 1..m : \A t :
          Len(u) = m /\ t = Lists!RemoveAt(u, k) => \A l \in 1..(m - 1) : t[l] = IF l < k THEN u[l] ELSE u[l + 1]
    BY RemovedAt
  <2> QED
    BY <1>1, <2>1, <2>2
<1> HIDE DEF s
<1>6. ASSUME Drawable(lane) PROVE NamedApart(s)
  <2>1. \A k \in 1..(n - 1) : s[k].id # 0
    BY <1>1, <1>3, <1>5, <1>6
  <2>2. ASSUME NEW k \in 1..(n - 1), NEW l \in 1..(n - 1), s[k].id = s[l].id PROVE k = l
    <3> DEFINE kk == IF k < i THEN k ELSE k + 1
               ll == IF l < i THEN l ELSE l + 1
    <3>1. kk \in 1..n /\ ll \in 1..n /\ s[k] = q[kk] /\ s[l] = q[ll]
      BY <1>1, <1>5
    <3>2. kk = ll
      <4> HIDE DEF kk, ll
      <4> QED
        BY <1>3, <1>6, <2>2, <3>1
    <3> QED
      BY <1>1, <3>2
  <2> QED
    BY <1>4, <2>1, <2>2 DEF NamedApart, UniqueIds
<1>7. Len(s) <= MaxRanges
  BY <1>1, <1>2, <1>4
<1>8. LaneOK(new) /\ (Drawable(lane) => Drawable(new)) /\ new.ranges = s
  BY <1>1, <1>2, <1>4, <1>6, <1>7, RangesChanged
<1>9. \A k \in 1..n : k < i => k \in 1..(n - 1) /\ s[k] = q[k]
  BY <1>1, <1>5
<1> QED
  BY <1>1, <1>4, <1>8, <1>9 DEF q

-----------------------------------------------------------------------------
(* The studio: what its state is at any time.                               *)
RowOK(row) ==
  /\ row = [status |-> row.status, maker |-> row.maker, contract |-> row.contract]
  /\ row.status \in FlowStatus /\ IsContract(row.contract) /\ Drawable(row.contract.lane)

StudioModes == {"visual", "manual", "json"}
StudioScope == [target : Targets, modes : SUBSET StudioModes, edits : Nat, requests : Nat, status : FlowStatus,
                maker : STRING]

EditorKept ==
  /\ editor = [flow |-> editor.flow, contract |-> editor.contract, mode |-> editor.mode, draft |-> editor.draft,
               typed |-> editor.typed]
  /\ editor.flow \in {0} \cup FlowId /\ editor.mode \in StudioModes /\ editor.draft \in Nat
  /\ editor.typed \in BOOLEAN /\ IsContract(editor.contract)
  /\ ~editor.typed => Drawable(Lane)

WireKept ==
  /\ wire \in [index : 0..MaxRanges, id : Nat, moved : BOOLEAN]
  /\ editor.mode # "visual" => wire = NoWire
  /\ wire # NoWire /\ ~wire.moved => wire.index \in DOMAIN Lane.ranges /\ Lane.ranges[wire.index].id = wire.id

FlowsKept ==
  /\ flowRows = [i \in FlowId |-> flowRows[i]] /\ listed = [i \in FlowId |-> listed[i]]
  /\ \A i \in FlowId : /\ flowRows[i] # NoFlowRow => RowOK(flowRows[i])
                       /\ listed[i] # NoFlowRow => RowOK(listed[i]) /\ flowRows[i] # NoFlowRow

SaveOK(c, rows) ==
  /\ c.kind = "save" /\ IsContract(c.contract) /\ Accepts(c.contract) /\ c.flow \in {0} \cup FlowId /\ c.draft \in Nat
  /\ c.flow # 0 => rows[c.flow] # NoFlowRow /\ c.seen.status \in {"DRAFT", "REJECTED"}
StepOK(c, rows) ==
  /\ c.kind \in DOMAIN FlowSteps /\ c.flow \in FlowId /\ c.draft \in Nat
  /\ rows[c.flow] # NoFlowRow /\ Offers(c.kind, c.seen)
ReloadOK(c, rows) ==
  /\ c.kind = "reload" /\ c.flow \in FlowId /\ rows[c.flow] # NoFlowRow /\ c.draft \in Nat
  /\ IsContract(c.contract) /\ Drawable(c.contract.lane)
CallOK(c, rows) ==
  c = NoStudioCall \/ c.kind \in {"load", "simulate"} \/ SaveOK(c, rows) \/ StepOK(c, rows) \/ ReloadOK(c, rows)

CallsKept ==
  studioCalls = [s \in StudioSlot |-> studioCalls[s]] /\ \A s \in StudioSlot : CallOK(studioCalls[s], flowRows)

(* There is room for every flow that is being stored.                       *)
FreshSaves == {s \in StudioSlot : studioCalls[s].kind = "save" /\ studioCalls[s].flow = 0}
FreeRows == {i \in FlowId : flowRows[i] = NoFlowRow}
RoomKept == Cardinality(FreshSaves) <= Cardinality(FreeRows)

Past == [created : SUBSET Nat, twice : BOOLEAN, overlapped : BOOLEAN, failed : BOOLEAN, unlawful : BOOLEAN,
         miswired : BOOLEAN]
PastKept == studioPast \in Past /\ ~studioPast.unlawful /\ ~studioPast.miswired

StudioWrites(call) == call.kind \notin {"none", "simulate"}
OneAtATime ==
  ~studioPast.overlapped =>
    /\ studioBusy = "" => \A s \in StudioSlot : studioCalls[s] = NoStudioCall
    /\ \A s, t \in StudioSlot : StudioWrites(studioCalls[s]) /\ StudioWrites(studioCalls[t]) => s = t

(* A draft that is created is not the one of a request, nor, until the list *)
(* shows its flow, the one in the editor.                                   *)
Carries(call) == call.kind \notin {"none", "simulate", "load"}
DraftsKept ==
  ~studioPast.overlapped /\ ~studioPast.failed =>
    /\ ~studioPast.twice /\ \A d \in studioPast.created : d <= editor.draft
    /\ \A s \in StudioSlot : Carries(studioCalls[s]) =>
         /\ studioCalls[s].draft <= editor.draft /\ \A d \in studioPast.created : d <= studioCalls[s].draft
         /\ studioCalls[s].kind = "save" /\ studioCalls[s].flow = 0 => studioCalls[s].draft \notin studioPast.created
    /\ editor.draft \in studioPast.created => Listed \/ \E s \in StudioSlot : studioCalls[s].kind = "reload"

StudioInv ==
  /\ studioScope \in StudioScope /\ EditorKept /\ WireKept /\ FlowsKept /\ CallsKept /\ RoomKept
  /\ PastKept /\ OneAtATime /\ DraftsKept

LEMMA StudioKept == StudioInv => CanvasTruthful /\ DraftsCreatedOnce /\ ConnectsPicked /\ StudioTypeOK
<1> SUFFICES ASSUME StudioInv PROVE CanvasTruthful /\ DraftsCreatedOnce /\ ConnectsPicked /\ StudioTypeOK
  OBVIOUS
<1>1. CanvasTruthful
  <2>1. IsContract(editor.contract) /\ studioScope.target \in Targets /\ (~editor.typed => Drawable(Lane))
    BY DEF StudioInv, EditorKept, StudioScope
  <2> QED
    BY <2>1, CanvasKept
<1>2. DraftsCreatedOnce
  BY DEF StudioInv, DraftsKept, PastKept, Past, DraftsCreatedOnce
<1>3. ConnectsPicked
  BY DEF StudioInv, PastKept, ConnectsPicked
<1>4. StudioTypeOK
  <2>1. Len(Lane.ranges) <= MaxRanges /\ wire.index \in 0..MaxRanges
    BY DEF StudioInv, EditorKept, WireKept, IsContract, Lane
  <2>2. \A i \in FlowId : \A row \in {flowRows[i], listed[i]} : row = NoFlowRow \/ row.status \in FlowStatus
    BY DEF StudioInv, FlowsKept, RowOK
  <2> QED
    BY <2>1, <2>2 DEF StudioInv, EditorKept, StudioModes, StudioTypeOK
<1> QED
  BY <1>1, <1>2, <1>3, <1>4

LEMMA NoneIsNoRow == ASSUME NEW row, RowOK(row) PROVE row # NoFlowRow /\ row.status # "none"
BY DEF RowOK, FlowStatus, NoFlowRow

LEMMA BlankContract ==
  ASSUME studioScope.target \in Targets
  PROVE  IsContract(blankPricingFlow) /\ Drawable(blankPricingFlow.lane)
<1> DEFINE l == BlankLane(studioScope.target)
<1>1. l \in LaneText /\ Drawable(l) /\ Len(l.ranges) \in 1..2
  BY BlankIs DEF Targets
<1>2. Len(l.ranges) <= MaxRanges
  <2> DEFINE n == Len(l.ranges)
  <2>1. n \in 1..2
    BY <1>1
  <2>2. MaxRanges \in Nat /\ MaxRanges >= 2
    BY StudioAssumption
  <2> HIDE DEF n
  <2>3. n <= MaxRanges
    BY <2>1, <2>2
  <2> QED
    BY <2>3 DEF n
<1> HIDE DEF l
<1>3. blankPricingFlow = [lane |-> l, other |-> TRUE, keywords |-> <<"PMNT">>, keyword |-> "PMNT"]
  BY DEF blankPricingFlow, l
<1> QED
  BY <1>1, <1>2, <1>3 DEF IsContract

LEMMA SlotsFinite == IsFiniteSet(StudioSlot) /\ IsFiniteSet(FlowId)
<1>1. MaxStudioFlows \in Int /\ 1 \in Int /\ 2 \in Int
  BY StudioAssumption
<1>2. IsFiniteSet(1..2) /\ IsFiniteSet(1..MaxStudioFlows)
  BY <1>1, FS_Interval
<1> QED
  BY <1>2 DEF StudioSlot, FlowId

LEMMA StudioStart == StudioInit => StudioInv
<1> SUFFICES ASSUME StudioInit PROVE StudioInv
  OBVIOUS
<1>1. studioScope \in StudioScope
  BY StudioAssumption DEF StudioInit, StudioScope, Targets, StudioModes
<1>2. studioScope.target \in Targets /\ studioScope.status \in FlowStatus
  BY <1>1 DEF StudioScope
<1>3. IsContract(blankPricingFlow) /\ Drawable(blankPricingFlow.lane)
  BY <1>2, BlankContract
<1>4. EditorKept
  <2>1. editor = [flow |-> 0, contract |-> blankPricingFlow, mode |-> "visual", draft |-> 0, typed |-> FALSE]
    BY DEF StudioInit
  <2> QED
    BY <1>3, <2>1 DEF EditorKept, StudioModes, Lane
<1>5. WireKept
  BY StudioAssumption DEF StudioInit, WireKept, NoWire
<1>6. FlowsKept
  <2> DEFINE row == [status |-> studioScope.status, maker |-> studioScope.maker, contract |-> blankPricingFlow]
  <2>1. RowOK(row)
    BY <1>2, <1>3 DEF RowOK
  <2> HIDE DEF row
  <2>2. flowRows = [i \in FlowId |-> IF i = 1 THEN row ELSE NoFlowRow] /\ listed = [i \in FlowId |-> NoFlowRow]
    BY DEF StudioInit, row
  <2> QED
    BY <2>1, <2>2 DEF FlowsKept
<1>7. studioCalls = [s \in StudioSlot |-> IF s = 1 THEN [kind |-> "load"] ELSE NoStudioCall] /\ studioBusy = "load"
  BY DEF StudioInit
<1>8. CallsKept
  BY <1>7 DEF CallsKept, CallOK
<1>9. RoomKept
  <2>1. \A s \in StudioSlot : studioCalls[s].kind # "save"
    BY <1>7 DEF NoStudioCall
  <2>2. FreshSaves = {}
    BY <2>1 DEF FreshSaves
  <2>3. Cardinality(FreshSaves) = 0
    BY <2>2, FS_EmptySet
  <2>4. IsFiniteSet(FreeRows)
    BY SlotsFinite, FS_Subset DEF FreeRows
  <2>5. Cardinality(FreeRows) \in Nat
    BY <2>4, FS_CardinalityType
  <2> QED
    BY <2>3, <2>5 DEF RoomKept
<1>10. studioPast = [created |-> {}, twice |-> FALSE, overlapped |-> FALSE, failed |-> FALSE,
                     unlawful |-> FALSE, miswired |-> FALSE]
  BY DEF StudioInit
<1>11. PastKept
  BY <1>10 DEF PastKept, Past
<1>12. OneAtATime
  BY <1>7 DEF OneAtATime, StudioWrites, NoStudioCall
<1>13. DraftsKept
  BY <1>7, <1>10 DEF DraftsKept, Carries, NoStudioCall
<1> QED
  BY <1>1, <1>4, <1>5, <1>6, <1>8, <1>9, <1>11, <1>12, <1>13 DEF StudioInv

-----------------------------------------------------------------------------
(* Steps in the editor.                                                     *)
LEMMA RequestsStill ==
  ASSUME StudioInv, UNCHANGED <<flowRows, listed, studioCalls, studioBusy>>,
         editor'.flow = editor.flow, editor'.draft = editor.draft,
         studioPast' \in Past, studioPast'.created = studioPast.created, studioPast'.twice = studioPast.twice,
         studioPast'.overlapped = studioPast.overlapped, studioPast'.failed = studioPast.failed
  PROVE  FlowsKept' /\ CallsKept' /\ RoomKept' /\ OneAtATime' /\ DraftsKept'
<1>1. FlowsKept'
  BY DEF StudioInv, FlowsKept
<1>2. CallsKept'
  BY DEF StudioInv, CallsKept, CallOK, SaveOK, StepOK, ReloadOK
<1>3. RoomKept'
  BY DEF StudioInv, RoomKept, FreshSaves, FreeRows
<1>4. OneAtATime'
  BY DEF StudioInv, OneAtATime
<1>5. DraftsKept'
  <2>1. Listed' <=> Listed
    BY DEF Listed
  <2> QED
    BY <2>1 DEF StudioInv, DraftsKept
<1> QED
  BY <1>1, <1>2, <1>3, <1>4, <1>5

LEMMA PastStill == ASSUME PastKept, UNCHANGED studioPast PROVE PastKept'
BY DEF PastKept

LEMMA EditStep ==
  ASSUME StudioInv, NEW mode \in StudioModes, NEW contract, Edits(mode, contract), IsContract(contract),
         mode = "visual" /\ Drawable(Lane) => Drawable(contract.lane), WireKept'
  PROVE  StudioInv'
<1>1. /\ editor = [flow |-> editor.flow, contract |-> editor.contract, mode |-> editor.mode, draft |-> editor.draft,
                   typed |-> editor.typed]
      /\ editor.typed \in BOOLEAN /\ (~editor.typed => Drawable(Lane))
      /\ editor.flow \in {0} \cup FlowId /\ editor.mode \in StudioModes /\ editor.draft \in Nat
  BY DEF StudioInv, EditorKept
<1>2. /\ editor.mode = mode /\ editor' = [editor EXCEPT !.contract = contract, !.typed = @ \/ mode # "visual"]
      /\ studioScope.edits > 0 /\ studioScope' = [studioScope EXCEPT !.edits = @ - 1]
      /\ UNCHANGED <<flowRows, listed, studioCalls, studioBusy, studioPast>>
  BY DEF Edits
<1> DEFINE typed == editor.typed \/ mode # "visual"
<1>3. typed \in BOOLEAN /\ (~typed => ~editor.typed /\ mode = "visual")
  BY <1>1
<1>4. editor' = [flow |-> editor.flow, contract |-> contract, mode |-> editor.mode, draft |-> editor.draft,
                 typed |-> typed]
  BY <1>1, <1>2
<1> HIDE DEF typed
<1>5. EditorKept'
  <2>1. Lane' = contract.lane /\ editor'.contract = contract /\ editor'.typed = typed
    BY <1>4 DEF Lane
  <2>2. ~typed => Drawable(contract.lane)
    BY <1>1, <1>3
  <2> QED
    BY <1>1, <1>3, <1>4, <2>1, <2>2 DEF EditorKept
<1>6. studioScope' \in StudioScope
  <2>1. studioScope \in StudioScope
    BY DEF StudioInv
  <2> QED
    BY <1>2, <2>1 DEF StudioScope
<1>7. studioPast' \in Past
  BY <1>2 DEF StudioInv, PastKept
<1>8. FlowsKept' /\ CallsKept' /\ RoomKept' /\ OneAtATime' /\ DraftsKept'
  BY <1>2, <1>4, <1>7, RequestsStill
<1>9. PastKept'
  BY <1>2, PastStill DEF StudioInv
<1> QED
  BY <1>5, <1>6, <1>8, <1>9 DEF StudioInv

(* The wire: unchanged, or moved.                                           *)
LEMMA WireTyped ==
  ASSUME WireKept
  PROVE  /\ wire = [index |-> wire.index, id |-> wire.id, moved |-> wire.moved]
         /\ wire.index \in 0..MaxRanges /\ wire.id \in Nat /\ wire.moved \in BOOLEAN
         /\ NoWire \in [index : 0..MaxRanges, id : Nat, moved : BOOLEAN]
BY StudioAssumption DEF WireKept, NoWire

LEMMA WireStill ==
  ASSUME WireKept, UNCHANGED wire, editor'.mode = editor.mode,
         editor.mode = "visual" =>
           \A i \in DOMAIN Lane.ranges : i \in DOMAIN Lane'.ranges /\ Lane'.ranges[i].id = Lane.ranges[i].id
  PROVE  WireKept'
BY DEF WireKept

LEMMA WireShifted ==
  ASSUME WireKept, wire' = Shifted, editor'.mode = editor.mode \/ editor'.mode = "visual"
  PROVE  WireKept'
<1>1. wire.index \in 0..MaxRanges /\ wire.id \in Nat
      /\ wire = [index |-> wire.index, id |-> wire.id, moved |-> wire.moved]
  BY WireTyped
<1>2. CASE wire = NoWire
  <2>1. wire' = NoWire
    BY <1>2 DEF Shifted
  <2> QED
    BY <2>1, WireTyped DEF WireKept
<1>3. CASE wire # NoWire
  <2>1. wire' = [index |-> wire.index, id |-> wire.id, moved |-> TRUE]
    BY <1>1, <1>3 DEF Shifted
  <2>2. wire'.moved /\ wire' \in [index : 0..MaxRanges, id : Nat, moved : BOOLEAN]
    BY <1>1, <2>1
  <2>3. editor.mode = "visual" /\ editor'.mode = "visual"
    BY <1>3 DEF WireKept
  <2> QED
    BY <2>2, <2>3 DEF WireKept
<1> QED
  BY <1>2, <1>3

LEMMA WireCut == ASSUME WireKept, wire' = NoWire PROVE WireKept'
BY WireTyped DEF WireKept

LEMMA LaneReplaced ==
  ASSUME NEW c, IsContract(c), NEW lane, LaneOK(lane), NEW new, new = [c EXCEPT !.lane = lane]
  PROVE  IsContract(new) /\ new.lane = lane
<1>1. new = [lane |-> lane, other |-> c.other, keywords |-> c.keywords, keyword |-> c.keyword]
  BY DEF IsContract
<1>2. lane \in LaneText /\ Len(lane.ranges) <= MaxRanges /\ c.other \in BOOLEAN
  BY DEF LaneOK, IsContract
<1> QED
  BY <1>1, <1>2 DEF IsContract

LEMMA LaneIs == ASSUME StudioInv PROVE LaneOK(Lane) /\ IsContract(editor.contract) /\ Lane = editor.contract.lane
BY DEF StudioInv, EditorKept, IsContract, Lane, LaneOK

LEMMA RedrawnStep ==
  ASSUME StudioInv, NEW lane, EditsLane("visual", lane), Redrawn(Lane, lane)
  PROVE  StudioInv'
<1> DEFINE c == [editor.contract EXCEPT !.lane = lane]
<1>1. LaneOK(lane) /\ IsContract(editor.contract)
  BY LaneIs DEF Redrawn, LaneOK
<1>2. IsContract(c) /\ c.lane = lane
  BY <1>1, LaneReplaced
<1>3. Edits("visual", c) /\ UNCHANGED wire
  BY DEF EditsLane
<1> HIDE DEF c
<1>4. editor'.contract = c /\ editor'.mode = editor.mode
  BY <1>3 DEF Edits, StudioInv, EditorKept
<1>5. Lane' = lane
  BY <1>2, <1>4 DEF Lane
<1>6. WireKept'
  BY <1>3, <1>4, <1>5, WireStill DEF StudioInv, Redrawn
<1>7. Drawable(Lane) => Drawable(c.lane)
  BY <1>2 DEF Redrawn
<1> QED
  BY <1>2, <1>3, <1>6, <1>7, EditStep DEF StudioModes

LEMMA TypedStep ==
  ASSUME StudioInv, NEW lane, EditsLane("manual", lane), LaneOK(lane)
  PROVE  StudioInv'
<1> DEFINE c == [editor.contract EXCEPT !.lane = lane]
<1>1. IsContract(editor.contract)
  BY LaneIs
<1>2. IsContract(c)
  BY <1>1, LaneReplaced
<1>3. Edits("manual", c) /\ UNCHANGED wire
  BY DEF EditsLane
<1> HIDE DEF c
<1>4. editor'.mode = editor.mode /\ editor.mode = "manual"
  BY <1>3 DEF Edits, StudioInv, EditorKept
<1>5. WireKept'
  BY <1>3, <1>4, WireStill DEF StudioInv
<1> QED
  BY <1>2, <1>3, <1>5, EditStep DEF StudioModes

(* An edit of another part of the contract.                                 *)
LEMMA SameLaneStep ==
  ASSUME StudioInv, NEW mode \in {"visual", "manual"}, NEW contract, Edits(mode, contract), UNCHANGED wire,
         IsContract(contract), contract.lane = Lane
  PROVE  StudioInv'
<1>1. editor'.contract = contract /\ editor'.mode = editor.mode
  BY DEF Edits, StudioInv, EditorKept
<1>2. Lane' = Lane
  BY <1>1 DEF Lane
<1>3. WireKept'
  BY <1>1, <1>2, WireStill DEF StudioInv
<1> QED
  BY <1>3, EditStep DEF StudioModes

LEMMA SetEnabledStep == ASSUME StudioInv, setEnabled PROVE StudioInv'
<1>1. Redrawn(Lane, [Lane EXCEPT !.enabled = ~Lane.enabled])
  BY LaneIs, Switched3, StudioAssumption
<1> QED
  BY <1>1, RedrawnStep DEF setEnabled

LEMMA SetOtherStep == ASSUME StudioInv, setOther PROVE StudioInv'
<1> DEFINE c == editor.contract
           new == [c EXCEPT !.other = ~c.other]
<1>1. IsContract(c) /\ Lane = c.lane
  BY LaneIs
<1>2. new = [lane |-> c.lane, other |-> ~c.other, keywords |-> c.keywords, keyword |-> c.keyword]
  BY <1>1 DEF IsContract
<1>3. IsContract(new) /\ new.lane = Lane
  BY <1>1, <1>2 DEF IsContract
<1>4. Edits("visual", new) /\ UNCHANGED wire
  BY DEF setOther
<1> QED
  BY <1>3, <1>4, SameLaneStep

LEMMA SetConditionStep == ASSUME StudioInv, NEW m \in Modes, setCondition(m) PROVE StudioInv'
<1> DEFINE new == [Lane EXCEPT !.mode = m,
             !.ranges = IF m = "FLEXIBLE" /\ @ = <<>> THEN <<AmountRange(1, 0, WidestRange, Lane.default)>> ELSE @]
<1>1. EditsLane("visual", new)
  BY DEF setCondition
<1>2. Redrawn(Lane, new)
  BY LaneIs, ConditionSet
<1> HIDE DEF new
<1> QED
  BY <1>1, <1>2, RedrawnStep

WithKeywords(c, words, word) == [c EXCEPT !.keywords = words, !.keyword = word]

LEMMA KeywordsReplaced ==
  ASSUME NEW c, IsContract(c), NEW words, NEW word, NEW new, new = WithKeywords(c, words, word)
  PROVE  IsContract(new) /\ new.lane = c.lane
<1> DEFINE one == [c EXCEPT !.keywords = words]
<1>1. one = [lane |-> c.lane, other |-> c.other, keywords |-> words, keyword |-> c.keyword]
  BY DEF IsContract
<1>2. new = [one EXCEPT !.keyword = word]
  BY DEF WithKeywords
<1> HIDE DEF one
<1>3. new = [lane |-> c.lane, other |-> c.other, keywords |-> words, keyword |-> word]
  BY <1>1, <1>2
<1> QED
  BY <1>3 DEF IsContract

LEMMA ToggleKeywordStep == ASSUME StudioInv, NEW k, toggleKeyword(k) PROVE StudioInv'
<1> DEFINE c == editor.contract
<1>1. PICK words, word : Edits("visual", [c EXCEPT !.keywords = words, !.keyword = word]) /\ UNCHANGED wire
  BY DEF toggleKeyword
<1> DEFINE new == WithKeywords(c, words, word)
<1>2. IsContract(c) /\ Lane = c.lane
  BY LaneIs
<1>4. IsContract(new) /\ new.lane = Lane
  BY <1>2, KeywordsReplaced
<1>5. Edits("visual", new) /\ UNCHANGED wire
  BY <1>1 DEF WithKeywords
<1> QED
  BY <1>4, <1>5, SameLaneStep

LEMMA AddCalculationStep == ASSUME StudioInv, addCalculation PROVE StudioInv'
<1> DEFINE id == FreshId(Lane.calcs)
           new == [Lane EXCEPT !.calcs = Append(@, LaneCalculation(id)), !.default = Or(@, id)]
<1>1. EditsLane("visual", new)
  BY DEF addCalculation
<1>2. Redrawn(Lane, new)
  BY LaneIs, CalculationAdded
<1> HIDE DEF new
<1> QED
  BY <1>1, <1>2, RedrawnStep

LEMMA SetDefaultStep ==
  ASSUME StudioInv, NEW i \in DOMAIN Lane.calcs, setDefaultCalculation(i) PROVE StudioInv'
<1> DEFINE id == Lane.calcs[i].id
           new == [Lane EXCEPT !.default = id]
<1>1. EditsLane("visual", new)
  BY DEF setDefaultCalculation
<1>2. Redrawn(Lane, new)
  <2>1. id \in Ids(Lane.calcs)
    BY DEF Ids
  <2>2. LaneOK(Lane) /\ Lane.mode \in STRING
    BY LaneIs, LaneParts DEF LaneOK
  <2> HIDE DEF id
  <2> QED
    BY <2>1, <2>2, Switched3
<1> HIDE DEF new
<1> QED
  BY <1>1, <1>2, RedrawnStep

LEMMA UpdateCalculationStep ==
  ASSUME StudioInv, NEW i \in DOMAIN Lane.calcs, NEW rule \in StudioRule, updateCalculation(i, rule) PROVE StudioInv'
<1> DEFINE new == [Lane EXCEPT !.calcs[i].rule = rule]
<1>1. EditsLane("visual", new)
  BY DEF updateCalculation
<1>2. Redrawn(Lane, new)
  BY LaneIs, RuleChanged, StudioAssumption
<1> HIDE DEF new
<1> QED
  BY <1>1, <1>2, RedrawnStep

LEMMA AddRangeStep == ASSUME StudioInv, addRange PROVE StudioInv'
<1>1. EditsLane("visual", Appended(Lane)) /\ Len(Lane.ranges) < MaxRanges
  BY DEF addRange
<1>2. Redrawn(Lane, Appended(Lane))
  BY <1>1, LaneIs, RangeAdded
<1> QED
  BY <1>1, <1>2, RedrawnStep

LEMMA AddStep == ASSUME StudioInv, add PROVE StudioInv'
<1> DEFINE n == Len(Lane.ranges)
           from == IF n = 0 \/ Lane.ranges[n].max = Undefined THEN 0 ELSE Lane.ranges[n].max + 1
           new == [Lane EXCEPT !.ranges = Append(@, AmountRange(FreshId(@), from, from + RangeSpan, FirstId(Lane)))]
<1>1. EditsLane("visual", new) /\ n < MaxRanges
  BY DEF add
<1>2. Redrawn(Lane, new)
  BY <1>1, LaneIs, RangeAddedInEditor
<1> HIDE DEF new
<1> QED
  BY <1>1, <1>2, RedrawnStep

LEMMA PatchIs ==
  ASSUME NEW lane, LaneOK(lane), NEW i \in DOMAIN lane.ranges, NEW calcs \in SUBSET Nat, NEW f \in RangeFields(calcs),
         NEW new, new = [lane EXCEPT !.ranges[i] = Patched(@, f.field, f.value)]
  PROVE  Redrawn(lane, new)
<1> DEFINE r == Patched(lane.ranges[i], f.field, f.value)
<1>1. lane.ranges[i] \in LaneRange
  BY LaneElements DEF LaneOK
<1>2. r \in LaneRange /\ r.id = lane.ranges[i].id
  BY <1>1, FieldPatched
<1>3. new = WithRanges(lane, lane.mode, [lane.ranges EXCEPT ![i] = r])
  BY LaneParts DEF LaneOK, WithRanges
<1> HIDE DEF r
<1> QED
  BY <1>2, <1>3, RangePatched

LEMMA UpdateRangeStep ==
  ASSUME StudioInv, NEW i \in DOMAIN Lane.ranges, NEW f \in RangeFields(Ids(Lane.calcs)), updateRange(i, f)
  PROVE  StudioInv'
<1> DEFINE new == [Lane EXCEPT !.ranges[i] = Patched(@, f.field, f.value)]
<1>1. EditsLane("visual", new)
  BY DEF updateRange
<1>2. Redrawn(Lane, new)
  <2>1. Ids(Lane.calcs) \in SUBSET Nat
    BY LaneIs, LaneElements DEF LaneOK, Ids
  <2> QED
    BY <2>1, LaneIs, PatchIs
<1> HIDE DEF new
<1> QED
  BY <1>1, <1>2, RedrawnStep

LEMMA UpdatePathStep == ASSUME StudioInv, updatePath PROVE StudioInv'
<1>1. LaneOK(Lane) /\ IsContract(editor.contract) /\ Lane = editor.contract.lane /\ UpperCase(1) \in Nat
  BY LaneIs DEF UpperCase
<1>2. ASSUME NEW lane, Redrawn(Lane, lane) PROVE LaneOK(lane)
  BY <1>2 DEF Redrawn, LaneOK
<1>3. CASE \E i \in DOMAIN Lane.ranges, f \in RangeFields({UpperCase(1)}) :
             EditsLane("manual", [Lane EXCEPT !.ranges[i] = Patched(@, f.field, f.value)])
  <2>1. PICK i \in DOMAIN Lane.ranges, f \in RangeFields({UpperCase(1)}) :
          EditsLane("manual", [Lane EXCEPT !.ranges[i] = Patched(@, f.field, f.value)])
    BY <1>3
  <2> DEFINE new == [Lane EXCEPT !.ranges[i] = Patched(@, f.field, f.value)]
  <2>2. EditsLane("manual", new)
    BY <2>1
  <2>3. Redrawn(Lane, new)
    <3>1. {UpperCase(1)} \in SUBSET Nat
      BY <1>1
    <3> QED
      BY <1>1, <3>1, PatchIs
  <2> HIDE DEF new
  <2> QED
    BY <1>2, <2>2, <2>3, TypedStep
<1>4. CASE \E m \in {"FIXED", "FLEXIBLE", "FL"} : EditsLane("manual", [Lane EXCEPT !.mode = m])
  <2>1. PICK m \in {"FIXED", "FLEXIBLE", "FL"} : EditsLane("manual", [Lane EXCEPT !.mode = m])
    BY <1>4
  <2>2. m \in STRING
    BY StudioAssumption
  <2>3. Redrawn(Lane, [Lane EXCEPT !.mode = m])
    BY <1>1, <2>2, Switched3
  <2> QED
    BY <1>2, <2>1, <2>3, TypedStep
<1>5. CASE \E id \in {0, UpperCase(1)} : EditsLane("manual", [Lane EXCEPT !.default = id])
  <2>1. PICK id \in {0, UpperCase(1)} : EditsLane("manual", [Lane EXCEPT !.default = id])
    BY <1>5
  <2>2. id \in Nat /\ Lane.mode \in STRING
    BY <1>1, LaneParts DEF LaneOK
  <2>3. LaneOK([Lane EXCEPT !.default = id])
    BY <1>1, <2>2, Switched3
  <2> QED
    BY <2>1, <2>3, TypedStep
<1>6. CASE EditsLane("manual", [Lane EXCEPT !.enabled = ~@])
  <2>1. Redrawn(Lane, [Lane EXCEPT !.enabled = ~Lane.enabled])
    BY <1>1, Switched3, StudioAssumption
  <2> QED
    BY <1>2, <1>6, <2>1, TypedStep
<1>7. CASE \E i \in DOMAIN Lane.calcs, r \in StudioRule : EditsLane("manual", [Lane EXCEPT !.calcs[i].rule = r])
  <2>1. PICK i \in DOMAIN Lane.calcs, r \in StudioRule : EditsLane("manual", [Lane EXCEPT !.calcs[i].rule = r])
    BY <1>7
  <2> DEFINE new == [Lane EXCEPT !.calcs[i].rule = r]
  <2>2. EditsLane("manual", new)
    BY <2>1
  <2>3. Redrawn(Lane, new)
    BY <1>1, RuleChanged, StudioAssumption
  <2> HIDE DEF new
  <2> QED
    BY <1>2, <2>2, <2>3, TypedStep
<1>8. CASE \E k \in {<<>>} \cup {<<x>> : x \in StudioKeyword} :
             /\ Edits("manual", [editor.contract EXCEPT !.keywords = k, !.keyword = IF k = <<>> THEN "" ELSE Head(k)])
             /\ UNCHANGED wire
  <2> DEFINE c == editor.contract
  <2>1. PICK words, word : Edits("manual", [c EXCEPT !.keywords = words, !.keyword = word]) /\ UNCHANGED wire
    BY <1>8
  <2> DEFINE new == WithKeywords(c, words, word)
  <2>3. IsContract(new) /\ new.lane = Lane
    BY <1>1, KeywordsReplaced
  <2>4. Edits("manual", new) /\ UNCHANGED wire
    BY <2>1 DEF WithKeywords
  <2> QED
    BY <2>3, <2>4, SameLaneStep
<1> QED
  BY <1>3, <1>4, <1>5, <1>6, <1>7, <1>8 DEF updatePath

LEMMA RemoveRangeStep ==
  ASSUME StudioInv, NEW i \in DOMAIN Lane.ranges, removeRange(i) PROVE StudioInv'
<1> DEFINE c == editor.contract
           lane == WithRanges(Lane, Lane.mode, Lists!RemoveAt(Lane.ranges, i))
           new == [c EXCEPT !.lane = lane]
<1>1. IsContract(c) /\ LaneOK(Lane) /\ Lane = c.lane
  BY LaneIs
<1>2. /\ LaneOK(lane) /\ (Drawable(Lane) => Drawable(lane))
      /\ \A k \in DOMAIN Lane.ranges : k < i => k \in DOMAIN lane.ranges /\ lane.ranges[k].id = Lane.ranges[k].id
  BY <1>1, RangeRemoved
<1>3. [c EXCEPT !.lane.ranges = Lists!RemoveAt(@, i)] = new
  BY <1>1, LaneParts DEF LaneOK, WithRanges, IsContract
<1>4. Edits("visual", new) /\ wire' = IF i <= wire.index THEN Shifted ELSE wire
  BY <1>3 DEF removeRange
<1> HIDE DEF lane
<1>5. IsContract(new) /\ new.lane = lane
  BY <1>1, <1>2, LaneReplaced
<1> HIDE DEF new
<1>6. editor'.contract = new /\ editor'.mode = editor.mode
  BY <1>4 DEF Edits, StudioInv, EditorKept
<1>7. Lane' = lane
  BY <1>5, <1>6 DEF Lane
<1>8. WireKept /\ i \in Nat
  BY <1>1, LaneParts DEF StudioInv, LaneOK
<1>9. WireKept'
  <2>1. CASE i <= wire.index
    BY <1>4, <1>6, <1>8, <2>1, WireShifted
  <2>2. CASE ~(i <= wire.index)
    <3>1. wire' = wire
      BY <1>4, <2>2
    <3>2. ASSUME wire # NoWire, ~wire.moved
          PROVE  wire.index \in DOMAIN lane.ranges /\ lane.ranges[wire.index].id = wire.id
      <4>1. wire.index \in DOMAIN Lane.ranges /\ Lane.ranges[wire.index].id = wire.id
        BY <1>8, <3>2 DEF WireKept
      <4>2. wire.index < i
        BY <1>1, <1>8, <2>2, <4>1, LaneParts DEF LaneOK
      <4> QED
        BY <1>2, <4>1, <4>2
    <3> QED
      BY <1>6, <1>7, <1>8, <3>1, <3>2 DEF WireKept
  <2> QED
    BY <2>1, <2>2
<1> QED
  BY <1>2, <1>4, <1>5, <1>9, EditStep DEF StudioModes

LEMMA ApplyJsonStep ==
  ASSUME StudioInv, NEW lane \in StudioText, NEW listGiven \in BOOLEAN, applyJson(lane, listGiven) PROVE StudioInv'
<1> DEFINE c == editor.contract
           words == IF listGiven THEN c.keywords ELSE <<c.keyword>>
           new == [c EXCEPT !.lane = lane, !.keywords = words]
<1>1. IsContract(c) /\ LaneOK(lane)
  BY LaneIs, StudioAssumption DEF LaneOK
<1>2. IsContract(new)
  <2> DEFINE one == [c EXCEPT !.lane = lane]
  <2>1. one = [lane |-> lane, other |-> c.other, keywords |-> c.keywords, keyword |-> c.keyword]
    BY <1>1 DEF IsContract
  <2>2. new = [one EXCEPT !.keywords = words]
    OBVIOUS
  <2> HIDE DEF one, words, new
  <2>3. new = [lane |-> lane, other |-> c.other, keywords |-> words, keyword |-> c.keyword]
    BY <2>1, <2>2
  <2> QED
    BY <1>1, <2>3 DEF IsContract, LaneOK
<1>3. /\ editor.mode = "json" /\ editor' = [editor EXCEPT !.contract = new, !.typed = TRUE, !.mode = "visual"]
      /\ studioScope.edits > 0 /\ studioScope' = [studioScope EXCEPT !.edits = @ - 1]
      /\ UNCHANGED <<wire, flowRows, listed, studioCalls, studioBusy, studioPast>>
  BY DEF applyJson
<1> HIDE DEF new
<1>4. editor = [flow |-> editor.flow, contract |-> editor.contract, mode |-> editor.mode, draft |-> editor.draft,
                typed |-> editor.typed]
      /\ editor.flow \in {0} \cup FlowId /\ editor.draft \in Nat
  BY DEF StudioInv, EditorKept
<1>5. editor' = [flow |-> editor.flow, contract |-> new, mode |-> "visual", draft |-> editor.draft, typed |-> TRUE]
  BY <1>3, <1>4
<1>6. EditorKept'
  BY <1>2, <1>4, <1>5 DEF EditorKept, StudioModes
<1>7. WireKept'
  <2>1. wire = NoWire /\ wire' = NoWire
    BY <1>3 DEF StudioInv, WireKept
  <2> QED
    BY <2>1, WireCut DEF StudioInv
<1>8. studioScope' \in StudioScope
  <2>1. studioScope \in StudioScope
    BY DEF StudioInv
  <2> QED
    BY <1>3, <2>1 DEF StudioScope
<1>9. studioPast' \in Past
  BY <1>3 DEF StudioInv, PastKept
<1>10. FlowsKept' /\ CallsKept' /\ RoomKept' /\ OneAtATime' /\ DraftsKept'
  BY <1>3, <1>5, <1>9, RequestsStill
<1>11. PastKept'
  BY <1>3, PastStill DEF StudioInv
<1> QED
  BY <1>6, <1>7, <1>8, <1>10, <1>11 DEF StudioInv

LEMMA SetModeStep == ASSUME StudioInv, NEW m \in StudioModes, setMode(m) PROVE StudioInv'
<1>1. /\ editor' = [editor EXCEPT !.mode = m] /\ wire' = NoWire
      /\ UNCHANGED <<flowRows, listed, studioCalls, studioBusy, studioScope, studioPast>>
  BY DEF setMode
<1>2. EditorKept
  BY DEF StudioInv
<1>3. editor' = [flow |-> editor.flow, contract |-> editor.contract, mode |-> m, draft |-> editor.draft,
                 typed |-> editor.typed]
  BY <1>1, <1>2 DEF EditorKept
<1>4. EditorKept'
  BY <1>2, <1>3 DEF EditorKept, Lane
<1>5. WireKept'
  BY <1>1, WireCut DEF StudioInv
<1>6. studioPast' \in Past
  BY <1>1 DEF StudioInv, PastKept
<1>7. FlowsKept' /\ CallsKept' /\ RoomKept' /\ OneAtATime' /\ DraftsKept'
  BY <1>1, <1>3, <1>6, RequestsStill
<1>8. PastKept'
  BY <1>1, PastStill DEF StudioInv
<1> QED
  BY <1>1, <1>4, <1>5, <1>7, <1>8 DEF StudioInv

LEMMA StartConnectionStep ==
  ASSUME StudioInv, NEW i \in DOMAIN Lane.ranges, startConnection(i) PROVE StudioInv'
<1>1. /\ editor.mode = "visual" /\ wire' = [index |-> i, id |-> Lane.ranges[i].id, moved |-> FALSE]
      /\ UNCHANGED <<editor, flowRows, listed, studioCalls, studioBusy, studioScope, studioPast>>
  BY DEF startConnection
<1>2. LaneOK(Lane) /\ Lane' = Lane /\ editor'.mode = "visual"
  BY <1>1, LaneIs DEF Lane
<1>3. i \in 0..MaxRanges /\ Lane.ranges[i].id \in Nat
  BY <1>2, LaneParts, LaneElements, StudioAssumption DEF LaneOK
<1>4. WireKept'
  BY <1>1, <1>2, <1>3 DEF WireKept
<1>5. studioPast' \in Past /\ EditorKept'
  BY <1>1 DEF StudioInv, PastKept, EditorKept, Lane
<1>6. FlowsKept' /\ CallsKept' /\ RoomKept' /\ OneAtATime' /\ DraftsKept'
  BY <1>1, <1>5, RequestsStill
<1>7. PastKept'
  BY <1>1, PastStill DEF StudioInv
<1> QED
  BY <1>1, <1>4, <1>5, <1>6, <1>7 DEF StudioInv

LEMMA LaneItself == ASSUME NEW lane \in LaneText PROVE WithRanges(lane, lane.mode, lane.ranges) = lane
<1>1. lane = [enabled |-> lane.enabled, mode |-> lane.mode, default |-> lane.default, calcs |-> lane.calcs,
              ranges |-> lane.ranges]
  BY LaneParts
<1> DEFINE one == [lane EXCEPT !.mode = lane.mode]
<1>2. one = lane
  BY <1>1
<1>3. WithRanges(lane, lane.mode, lane.ranges) = [one EXCEPT !.ranges = lane.ranges]
  BY DEF WithRanges
<1> HIDE DEF one
<1>4. [one EXCEPT !.ranges = lane.ranges] = [enabled |-> lane.enabled, mode |-> lane.mode, default |-> lane.default,
                                             calcs |-> lane.calcs, ranges |-> lane.ranges]
  BY <1>1, <1>2
<1> QED
  BY <1>1, <1>3, <1>4

LEMMA ConnectStep ==
  ASSUME StudioInv, NEW id \in LaneCalculations(Lane), connect(id) PROVE StudioInv'
<1> DEFINE i == wire.index
           there == i \in DOMAIN Lane.ranges
           q == Lane.ranges
           ranges == IF there THEN [q EXCEPT ![i].calc = id] ELSE q
           lane == WithRanges(Lane, Lane.mode, ranges)
           new == [editor.contract EXCEPT !.lane = lane]
           missed == ~wire.moved /\ ~(there /\ q[i].id = wire.id)
<1>1. /\ wire # NoWire /\ editor.mode = "visual"
      /\ editor' = [editor EXCEPT !.contract.lane.ranges = ranges]
      /\ studioPast' = [studioPast EXCEPT !.miswired = @ \/ missed]
      /\ wire' = NoWire /\ UNCHANGED <<flowRows, listed, studioCalls, studioBusy, studioScope>>
  BY DEF connect, Lane
<1>2. LaneOK(Lane) /\ IsContract(editor.contract) /\ Lane = editor.contract.lane
  BY LaneIs
<1>3. EditorKept /\ WireKept /\ PastKept
  BY DEF StudioInv
<1>4. ~missed
  BY <1>1, <1>3 DEF WireKept
<1> HIDE DEF missed
<1>5. studioPast' = studioPast
  BY <1>1, <1>3, <1>4 DEF PastKept, Past
<1>6. Redrawn(Lane, lane)
  <2>1. id \in Nat
    BY <1>2, LaneElements DEF LaneCalculations, Ids, LaneOK
  <2>2. CASE there
    <3> DEFINE r == [q[i] EXCEPT !.calc = id]
    <3>1. q[i] \in LaneRange
      BY <1>2, <2>2, LaneElements DEF LaneOK
    <3>2. r \in LaneRange /\ r.id = q[i].id
      BY <2>1, <3>1 DEF LaneRange
    <3>3. ranges = [q EXCEPT ![i] = r]
      BY <2>2
    <3>4. lane = WithRanges(Lane, Lane.mode, [Lane.ranges EXCEPT ![i] = r])
      BY <3>3
    <3> HIDE DEF r, lane, ranges
    <3> QED
      BY <1>2, <2>2, <3>2, <3>4, RangePatched
  <2>3. CASE ~there
    <3>1. ranges = q
      BY <2>3
    <3>2. lane = Lane
      <4>1. lane = WithRanges(Lane, Lane.mode, Lane.ranges)
        BY <3>1
      <4> HIDE DEF lane
      <4> QED
        BY <1>2, <4>1, LaneItself DEF LaneOK
    <3> HIDE DEF lane
    <3> QED
      BY <1>2, <3>2 DEF Redrawn, LaneOK
  <2> QED
    BY <2>2, <2>3
<1>7. editor' = [flow |-> editor.flow, contract |-> new, mode |-> editor.mode, draft |-> editor.draft,
                 typed |-> editor.typed]
  <2>1. [editor EXCEPT !.contract.lane.ranges = ranges] = [editor EXCEPT !.contract = new]
    <3> HIDE DEF ranges
    <3>1. [editor.contract EXCEPT !.lane.ranges = ranges] = new
      BY <1>2, LaneParts DEF LaneOK, WithRanges, IsContract
    <3> HIDE DEF new, lane
    <3> QED
      BY <1>3, <3>1 DEF EditorKept
  <2> HIDE DEF new
  <2> QED
    BY <1>1, <1>3, <2>1 DEF EditorKept
<1> HIDE DEF lane
<1>8. IsContract(new) /\ new.lane = lane
  BY <1>2, <1>6, LaneReplaced DEF Redrawn, LaneOK
<1> HIDE DEF new
<1>9. Lane' = lane /\ (Drawable(Lane) => Drawable(lane))
  BY <1>6, <1>7, <1>8 DEF Lane, Redrawn
<1>10. EditorKept'
  BY <1>3, <1>7, <1>8, <1>9 DEF EditorKept
<1>11. WireKept'
  BY <1>1, <1>3, WireCut
<1>12. studioPast' \in Past /\ PastKept'
  BY <1>3, <1>5, PastStill DEF PastKept
<1>13. FlowsKept' /\ CallsKept' /\ RoomKept' /\ OneAtATime' /\ DraftsKept'
  BY <1>1, <1>5, <1>7, <1>12, RequestsStill
<1> QED
  BY <1>1, <1>10, <1>11, <1>12, <1>13 DEF StudioInv

LEMMA SelectFlowStep == ASSUME StudioInv, NEW i \in FlowId, selectFlow(i) PROVE StudioInv'
<1> DEFINE c == listed[i].contract
<1>1. /\ listed[i] # NoFlowRow
      /\ editor' = [editor EXCEPT !.flow = i, !.contract = c, !.draft = editor.draft, !.typed = FALSE]
      /\ wire' = Shifted
      /\ UNCHANGED <<flowRows, listed, studioCalls, studioBusy, studioScope, studioPast>>
  BY DEF selectFlow, hydrate
<1>2. IsContract(c) /\ Drawable(c.lane)
  BY <1>1 DEF StudioInv, FlowsKept, RowOK
<1> HIDE DEF c
<1>3. EditorKept
  BY DEF StudioInv
<1>4. editor' = [flow |-> i, contract |-> c, mode |-> editor.mode, draft |-> editor.draft, typed |-> FALSE]
  BY <1>1, <1>3 DEF EditorKept
<1>5. EditorKept'
  BY <1>2, <1>3, <1>4 DEF EditorKept, Lane
<1>6. WireKept'
  BY <1>1, <1>4, WireShifted DEF StudioInv
<1>7. FlowsKept' /\ CallsKept' /\ RoomKept' /\ OneAtATime' /\ PastKept'
  <2>1. FlowsKept'
    BY <1>1 DEF StudioInv, FlowsKept
  <2>2. CallsKept'
    BY <1>1 DEF StudioInv, CallsKept, CallOK, SaveOK, StepOK, ReloadOK
  <2>3. RoomKept'
    BY <1>1 DEF StudioInv, RoomKept, FreshSaves, FreeRows
  <2>4. OneAtATime'
    BY <1>1 DEF StudioInv, OneAtATime
  <2> QED
    BY <1>1, <2>1, <2>2, <2>3, <2>4, PastStill DEF StudioInv
<1>8. DraftsKept'
  <2>1. Listed'
    BY <1>1, <1>4, StudioAssumption DEF Listed, FlowId
  <2>2. editor'.draft = editor.draft
    BY <1>4
  <2> QED
    BY <1>1, <2>1, <2>2 DEF StudioInv, DraftsKept
<1> QED
  BY <1>1, <1>5, <1>6, <1>7, <1>8 DEF StudioInv

LEMMA NewDraftStep == ASSUME StudioInv, newDraft PROVE StudioInv'
<1>1. /\ studioScope.requests > 0 /\ studioScope' = [studioScope EXCEPT !.requests = @ - 1] /\ wire' = Shifted
      /\ editor' = [flow |-> 0, contract |-> blankPricingFlow, mode |-> "visual", draft |-> editor.draft + 1,
                    typed |-> FALSE]
      /\ UNCHANGED <<flowRows, listed, studioCalls, studioBusy, studioPast>>
  BY DEF newDraft
<1>2. EditorKept /\ studioScope \in StudioScope
  BY DEF StudioInv
<1>3. studioScope' \in StudioScope /\ studioScope.target \in Targets
  BY <1>1, <1>2 DEF StudioScope
<1>4. IsContract(blankPricingFlow) /\ Drawable(blankPricingFlow.lane)
  BY <1>3, BlankContract
<1> DEFINE c == blankPricingFlow
<1>5. editor' = [flow |-> 0, contract |-> c, mode |-> "visual", draft |-> editor.draft + 1, typed |-> FALSE]
  BY <1>1
<1>6. IsContract(c) /\ Drawable(c.lane)
  BY <1>4
<1> HIDE DEF c
<1>7. EditorKept'
  BY <1>2, <1>5, <1>6 DEF EditorKept, Lane, StudioModes
<1>8. WireKept'
  BY <1>1, <1>5, WireShifted DEF StudioInv
<1>9. FlowsKept' /\ CallsKept' /\ RoomKept' /\ OneAtATime' /\ PastKept'
  <2>1. FlowsKept'
    BY <1>1 DEF StudioInv, FlowsKept
  <2>2. CallsKept'
    BY <1>1 DEF StudioInv, CallsKept, CallOK, SaveOK, StepOK, ReloadOK
  <2>3. RoomKept'
    BY <1>1 DEF StudioInv, RoomKept, FreshSaves, FreeRows
  <2>4. OneAtATime'
    BY <1>1 DEF StudioInv, OneAtATime
  <2> QED
    BY <1>1, <2>1, <2>2, <2>3, <2>4, PastStill DEF StudioInv
<1>10. DraftsKept'
  <2> SUFFICES ASSUME ~studioPast'.overlapped, ~studioPast'.failed
               PROVE  /\ ~studioPast'.twice /\ \A d \in studioPast'.created : d <= editor'.draft
                      /\ \A s \in StudioSlot : Carries(studioCalls'[s]) =>
                           /\ studioCalls'[s].draft <= editor'.draft
                           /\ \A d \in studioPast'.created : d <= studioCalls'[s].draft
                           /\ studioCalls'[s].kind = "save" /\ studioCalls'[s].flow = 0
                                => studioCalls'[s].draft \notin studioPast'.created
                      /\ editor'.draft \notin studioPast'.created
    BY DEF DraftsKept
  <2>1. studioPast \in Past /\ editor.draft \in Nat /\ editor'.draft = editor.draft + 1
    BY <1>2, <1>5 DEF StudioInv, PastKept, EditorKept
  <2>2. /\ ~studioPast.twice /\ \A d \in studioPast.created : d <= editor.draft
        /\ \A s \in StudioSlot : Carries(studioCalls[s]) =>
             /\ studioCalls[s].draft <= editor.draft /\ \A d \in studioPast.created : d <= studioCalls[s].draft
             /\ studioCalls[s].kind = "save" /\ studioCalls[s].flow = 0 =>
                  studioCalls[s].draft \notin studioPast.created
    BY <1>1 DEF StudioInv, DraftsKept
  <2>3. \A d \in studioPast.created : d \in Nat
    BY <2>1 DEF Past
  <2>4. \A d \in studioPast.created : d <= editor.draft + 1 /\ d # editor.draft + 1
    BY <2>1, <2>2, <2>3
  <2>5. ASSUME NEW s \in StudioSlot, Carries(studioCalls[s]) PROVE studioCalls[s].draft <= editor.draft + 1
    <3>1. studioCalls[s].draft \in Nat
      BY <2>5 DEF StudioInv, CallsKept, CallOK, SaveOK, StepOK, ReloadOK, Carries, NoStudioCall
    <3>2. studioCalls[s].draft <= editor.draft
      BY <2>2, <2>5
    <3> QED
      BY <2>1, <3>1, <3>2
  <2> QED
    BY <1>1, <2>1, <2>2, <2>4, <2>5
<1> QED
  BY <1>3, <1>7, <1>8, <1>9, <1>10 DEF StudioInv

-----------------------------------------------------------------------------
(* Requests.                                                                *)
LEMMA LeastOf == ASSUME NEW S \in SUBSET Nat, S # {} PROVE Min(S) \in S
<1>1. PICK x \in S : \A y \in S : x =< y
  BY LeastNatural
<1> QED
  BY <1>1 DEF Min

LEMMA CallPlaced ==
  ASSUME StudioInv, NEW call, NEW busy, Asks(call, busy)
  PROVE  \E t \in StudioSlot :
           /\ studioCalls[t] = NoStudioCall /\ studioCalls' = [studioCalls EXCEPT ![t] = call]
           /\ studioCalls'[t] = call /\ \A s \in StudioSlot \ {t} : studioCalls'[s] = studioCalls[s]
           /\ studioCalls' = [s \in StudioSlot |-> studioCalls'[s]]
<1> DEFINE t == Min(StudioFree)
<1>1. StudioFree # {} /\ studioCalls' = [studioCalls EXCEPT ![t] = call]
  BY DEF Asks
<1>2. StudioFree \in SUBSET Nat
  BY DEF StudioFree, StudioSlot
<1>3. t \in StudioFree
  BY <1>1, <1>2, LeastOf
<1> HIDE DEF t
<1>4. t \in StudioSlot /\ studioCalls[t] = NoStudioCall
  BY <1>3 DEF StudioFree
<1>5. studioCalls = [s \in StudioSlot |-> studioCalls[s]]
  BY DEF StudioInv, CallsKept
<1>6. studioCalls' = [s \in StudioSlot |-> IF s = t THEN call ELSE studioCalls[s]]
  BY <1>1, <1>4, <1>5
<1>7. studioCalls'[t] = call /\ \A s \in StudioSlot \ {t} : studioCalls'[s] = studioCalls[s]
  BY <1>4, <1>6
<1>8. studioCalls' = [s \in StudioSlot |-> studioCalls'[s]]
  BY <1>6
<1> QED
  BY <1>1, <1>4, <1>7, <1>8

LEMMA RoomIs ==
  /\ IsFiniteSet(FreshSaves) /\ Cardinality(FreshSaves) \in Nat
  /\ IsFiniteSet(FreeRows) /\ Cardinality(FreeRows) \in Nat
<1>1. FreshSaves \in SUBSET StudioSlot /\ FreeRows \in SUBSET FlowId
  BY DEF FreshSaves, FreeRows
<1>2. IsFiniteSet(FreshSaves) /\ IsFiniteSet(FreeRows)
  BY <1>1, SlotsFinite, FS_Subset
<1> QED
  BY <1>2, FS_CardinalityType

StudioIdle(busy) == busy = ""

(* What a request leaves alone.                                             *)
LEMMA AskStep ==
  ASSUME StudioInv, NEW call, NEW busy, Asks(call, busy), CallOK(call, flowRows), ~StudioIdle(busy),
         StudioWrites(call) => StudioIdle(studioBusy),
         call.kind = "save" /\ call.flow = 0 => RoomForFlow,
         Carries(call) => /\ call.draft = editor.draft
                          /\ call.kind = "save" /\ call.flow = 0 => ~Listed
  PROVE  StudioInv'
<1>1. /\ studioScope.requests > 0 /\ studioScope' = [studioScope EXCEPT !.requests = @ - 1] /\ studioBusy' = busy
      /\ UNCHANGED <<editor, wire, flowRows, listed, studioPast>>
  BY DEF Asks
<1>2. PICK t \in StudioSlot :
           /\ studioCalls[t] = NoStudioCall /\ studioCalls' = [studioCalls EXCEPT ![t] = call]
           /\ studioCalls'[t] = call /\ \A s \in StudioSlot \ {t} : studioCalls'[s] = studioCalls[s]
           /\ studioCalls' = [s \in StudioSlot |-> studioCalls'[s]]
  BY CallPlaced
<1>3. studioScope' \in StudioScope
  <2>1. studioScope \in StudioScope
    BY DEF StudioInv
  <2>2. studioScope.requests \in Nat /\ studioScope.requests - 1 \in Nat
    BY <1>1, <2>1 DEF StudioScope
  <2>3. studioScope' = [studioScope EXCEPT !.requests = studioScope.requests - 1]
    BY <1>1
  <2> QED
    BY <2>1, <2>2, <2>3 DEF StudioScope
<1>4. EditorKept' /\ WireKept' /\ FlowsKept' /\ PastKept'
  <2>1. EditorKept' /\ WireKept'
    BY <1>1 DEF StudioInv, EditorKept, WireKept, Lane
  <2>2. FlowsKept'
    BY <1>1 DEF StudioInv, FlowsKept
  <2> QED
    BY <1>1, <2>1, <2>2, PastStill DEF StudioInv
<1>5. CallsKept'
  <2>1. \A s \in StudioSlot : CallOK(studioCalls[s], flowRows)
    BY DEF StudioInv, CallsKept
  <2>2. \A s \in StudioSlot : CallOK(studioCalls'[s], flowRows)
    BY <1>2, <2>1
  <2>4. \A s \in StudioSlot : CallOK(studioCalls'[s], flowRows')
    BY <1>1, <2>2
  <2> QED
    BY <1>2, <2>4 DEF CallsKept
<1>6. RoomKept'
  <2>1. FreeRows' = FreeRows
    BY <1>1 DEF FreeRows
  <2>2. RoomKept
    BY DEF StudioInv
  <2> DEFINE Fresh(c) == c.kind = "save" /\ c.flow = 0
  <2>5. /\ FreshSaves = {s \in StudioSlot : Fresh(studioCalls[s])}
        /\ FreshSaves' = {s \in StudioSlot : Fresh(studioCalls'[s])}
    BY DEF FreshSaves
  <2>6. ~Fresh(NoStudioCall)
    BY DEF NoStudioCall
  <2>7. Fresh(call) <=> call.kind = "save" /\ call.flow = 0
    OBVIOUS
  <2> HIDE DEF Fresh
  <2>3. CASE ~(call.kind = "save" /\ call.flow = 0)
    <3>2. \A s \in StudioSlot : Fresh(studioCalls'[s]) <=> Fresh(studioCalls[s])
      BY <1>2, <2>3, <2>6, <2>7
    <3>1. FreshSaves' = FreshSaves
      BY <2>5, <3>2
    <3> QED
      BY <2>1, <2>2, <3>1 DEF RoomKept
  <2>4. CASE call.kind = "save" /\ call.flow = 0
    <3> DEFINE saves == {s \in StudioSlot : studioCalls[s].kind = "save"}
    <3>1. Cardinality(FreeRows) > Cardinality(saves)
      BY <2>4 DEF RoomForFlow, FreeRows
    <3>7. /\ \A s \in StudioSlot \ {t} : Fresh(studioCalls'[s]) <=> Fresh(studioCalls[s])
          /\ Fresh(studioCalls'[t]) /\ ~Fresh(studioCalls[t])
      BY <1>2, <2>4, <2>6, <2>7
    <3>2. FreshSaves' = FreshSaves \cup {t} /\ t \notin FreshSaves
      BY <2>5, <3>7
    <3>3. Cardinality(FreshSaves \cup {t}) = Cardinality(FreshSaves) + 1
      BY <3>2, RoomIs, FS_AddElement
    <3>4. IsFiniteSet(saves) /\ FreshSaves \in SUBSET saves
      BY SlotsFinite, FS_Subset DEF FreshSaves
    <3> HIDE DEF saves
    <3>5. Cardinality(FreshSaves) <= Cardinality(saves) /\ Cardinality(saves) \in Nat
      BY <3>4, FS_Subset, FS_CardinalityType
    <3> DEFINE x == Cardinality(FreshSaves)
               y == Cardinality(saves)
               z == Cardinality(FreeRows)
    <3>8. x \in Nat /\ y \in Nat /\ z \in Nat /\ x <= y /\ z > y
      BY <3>1, <3>5, RoomIs
    <3> HIDE DEF x, y, z
    <3>9. x + 1 <= z
      BY <3>8
    <3>6. Cardinality(FreshSaves) + 1 <= Cardinality(FreeRows)
      BY <3>9 DEF x, z
    <3> QED
      BY <2>1, <3>2, <3>3, <3>6 DEF RoomKept
  <2> QED
    BY <2>3, <2>4
<1>7. OneAtATime'
  <2> SUFFICES ASSUME ~studioPast.overlapped
               PROVE  \A r, s \in StudioSlot : StudioWrites(studioCalls'[r]) /\ StudioWrites(studioCalls'[s]) => r = s
    BY <1>1 DEF OneAtATime, StudioIdle
  <2>1. /\ StudioIdle(studioBusy) => \A s \in StudioSlot : studioCalls[s] = NoStudioCall
        /\ \A r, s \in StudioSlot : StudioWrites(studioCalls[r]) /\ StudioWrites(studioCalls[s]) => r = s
    BY DEF StudioInv, OneAtATime, StudioIdle
  <2>2. ~StudioWrites(NoStudioCall)
    BY DEF StudioWrites, NoStudioCall
  <2>3. CASE StudioWrites(call)
    <3>1. \A s \in StudioSlot \ {t} : ~StudioWrites(studioCalls'[s])
      BY <1>2, <2>1, <2>2, <2>3
    <3> QED
      BY <3>1
  <2>4. CASE ~StudioWrites(call)
    <3>1. \A s \in StudioSlot : StudioWrites(studioCalls'[s]) => StudioWrites(studioCalls[s])
      BY <1>2, <2>4
    <3> QED
      BY <2>1, <3>1
  <2> QED
    BY <2>3, <2>4
<1>8. DraftsKept'
  <2> SUFFICES ASSUME ~studioPast.overlapped, ~studioPast.failed
               PROVE  /\ ~studioPast.twice /\ \A d \in studioPast.created : d <= editor.draft
                      /\ \A s \in StudioSlot : Carries(studioCalls'[s]) =>
                           /\ studioCalls'[s].draft <= editor.draft
                           /\ \A d \in studioPast.created : d <= studioCalls'[s].draft
                           /\ studioCalls'[s].kind = "save" /\ studioCalls'[s].flow = 0
                                => studioCalls'[s].draft \notin studioPast.created
                      /\ editor.draft \in studioPast.created
                           => Listed \/ \E s \in StudioSlot : studioCalls'[s].kind = "reload"
    BY <1>1 DEF DraftsKept, Listed
  <2>1. /\ ~studioPast.twice /\ \A d \in studioPast.created : d <= editor.draft
        /\ \A s \in StudioSlot : Carries(studioCalls[s]) =>
             /\ studioCalls[s].draft <= editor.draft /\ \A d \in studioPast.created : d <= studioCalls[s].draft
             /\ studioCalls[s].kind = "save" /\ studioCalls[s].flow = 0 =>
                  studioCalls[s].draft \notin studioPast.created
        /\ editor.draft \in studioPast.created => Listed \/ \E s \in StudioSlot : studioCalls[s].kind = "reload"
    BY DEF StudioInv, DraftsKept
  <2>2. editor.draft \in Nat
    BY DEF StudioInv, EditorKept
  <2>3. editor.draft \in studioPast.created => Listed \/ \E s \in StudioSlot : studioCalls'[s].kind = "reload"
    <3>1. ASSUME NEW s \in StudioSlot, studioCalls[s].kind = "reload" PROVE studioCalls'[s].kind = "reload"
      <4>1. NoStudioCall.kind # "reload"
        BY DEF NoStudioCall
      <4>2. s # t
        BY <1>2, <3>1, <4>1
      <4> QED
        BY <1>2, <3>1, <4>2
    <3> QED
      BY <2>1, <3>1
  <2>4. ASSUME Carries(call)
        PROVE  /\ call.draft <= editor.draft /\ \A d \in studioPast.created : d <= call.draft
               /\ call.kind = "save" /\ call.flow = 0 => call.draft \notin studioPast.created
    <3>1. call.draft = editor.draft /\ (call.kind = "save" /\ call.flow = 0 => ~Listed)
      BY <2>4
    <3>2. StudioIdle(studioBusy)
      BY <2>4 DEF Carries, StudioWrites
    <3>3. \A s \in StudioSlot : studioCalls[s] = NoStudioCall
      BY <3>2 DEF StudioInv, OneAtATime, StudioIdle
    <3>4. NoStudioCall.kind # "reload"
      BY DEF NoStudioCall
    <3>5. \A s \in StudioSlot : studioCalls[s].kind # "reload"
      BY <3>3, <3>4
    <3>6. call.draft <= editor.draft
      BY <2>2, <3>1
    <3>7. \A d \in studioPast.created : d <= call.draft
      BY <2>1, <3>1
    <3>8. call.kind = "save" /\ call.flow = 0 => call.draft \notin studioPast.created
      BY <2>1, <3>1, <3>5
    <3> QED
      BY <3>6, <3>7, <3>8
  <2>5. ASSUME NEW s \in StudioSlot, Carries(studioCalls'[s])
        PROVE  /\ studioCalls'[s].draft <= editor.draft
               /\ \A d \in studioPast.created : d <= studioCalls'[s].draft
               /\ studioCalls'[s].kind = "save" /\ studioCalls'[s].flow = 0
                    => studioCalls'[s].draft \notin studioPast.created
    <3>1. CASE s = t
      BY <1>2, <2>4, <2>5, <3>1
    <3>2. CASE s # t
      BY <1>2, <2>1, <2>5, <3>2
    <3> QED
      BY <3>1, <3>2
  <2> QED
    BY <2>1, <2>3, <2>5
<1> QED
  BY <1>3, <1>4, <1>5, <1>6, <1>7, <1>8 DEF StudioInv

LEMMA SaveStep_ == ASSUME StudioInv, save PROVE StudioInv'
<1> DEFINE call == [kind |-> "save", flow |-> IF Listed THEN editor.flow ELSE 0, contract |-> editor.contract,
                    seen |-> IF Listed THEN ShownRow ELSE NoFlowRow, draft |-> editor.draft]
<1>1. /\ CanEdit /\ studioBusy = "" /\ Accepts(editor.contract) /\ (Listed \/ RoomForFlow) /\ Asks(call, "save")
  BY DEF save
<1>2. /\ call.kind = "save" /\ call.flow = (IF Listed THEN editor.flow ELSE 0) /\ call.contract = editor.contract
      /\ call.seen = (IF Listed THEN ShownRow ELSE NoFlowRow) /\ call.draft = editor.draft
  OBVIOUS
<1> HIDE DEF call
<1>3. EditorKept /\ FlowsKept
  BY DEF StudioInv
<1>4. Listed =>
        call.flow # 0 /\ editor.flow \in FlowId /\ flowRows[editor.flow] # NoFlowRow /\ listed[editor.flow] # NoFlowRow
  BY <1>2, <1>3 DEF Listed, EditorKept, FlowsKept
<1>5. CallOK(call, flowRows)
  <2>1. SaveOK(call, flowRows)
    BY <1>1, <1>2, <1>3, <1>4 DEF SaveOK, EditorKept, CanEdit
  <2> QED
    BY <2>1 DEF CallOK
<1>6. call.flow = 0 => RoomForFlow /\ ~Listed
  BY <1>1, <1>4
<1>7. StudioIdle(studioBusy) /\ ~StudioIdle("save")
  BY <1>1 DEF StudioIdle
<1> QED
  BY <1>1, <1>2, <1>5, <1>6, <1>7, AskStep

LEMMA TransitionStep_ ==
  ASSUME StudioInv, NEW step \in DOMAIN FlowSteps, transitionFlow(step) PROVE StudioInv'
<1> DEFINE call == [kind |-> step, flow |-> editor.flow, seen |-> ShownRow, draft |-> editor.draft]
<1>1. /\ Listed /\ studioBusy = "" /\ Offers(step, ShownRow) /\ Asks(call, step)
  BY DEF transitionFlow
<1>2. call.kind = step /\ call.flow = editor.flow /\ call.seen = ShownRow /\ call.draft = editor.draft
  OBVIOUS
<1> HIDE DEF call
<1>3. EditorKept /\ FlowsKept
  BY DEF StudioInv
<1>4. editor.flow \in FlowId /\ flowRows[editor.flow] # NoFlowRow
  BY <1>1, <1>3 DEF Listed, EditorKept, FlowsKept
<1>5. CallOK(call, flowRows)
  <2>1. StepOK(call, flowRows)
    BY <1>1, <1>2, <1>3, <1>4 DEF StepOK, EditorKept
  <2> QED
    BY <2>1 DEF CallOK
<1>6. step \notin {"", "save", "none", "simulate", "load"}
  BY DEF FlowSteps
<1>7. StudioIdle(studioBusy) /\ ~StudioIdle(step)
  BY <1>1, <1>6 DEF StudioIdle
<1>8. call.kind # "save"
  BY <1>2, <1>6
<1> QED
  BY <1>1, <1>2, <1>5, <1>7, <1>8, AskStep

LEMMA SimulateStep_ == ASSUME StudioInv, simulate PROVE StudioInv'
<1>1. Asks([kind |-> "simulate"], "simulate")
  BY DEF simulate
<1>2. CallOK([kind |-> "simulate"], flowRows) /\ ~StudioWrites([kind |-> "simulate"]) /\ ~Carries([kind |-> "simulate"])
  BY DEF CallOK, StudioWrites, Carries
<1>3. ~StudioIdle("simulate") /\ [kind |-> "simulate"].kind # "save"
  BY DEF StudioIdle
<1> DEFINE call == [kind |-> "simulate"]
<1>4. Asks(call, "simulate") /\ CallOK(call, flowRows) /\ ~StudioWrites(call) /\ ~Carries(call) /\ call.kind # "save"
  BY <1>1, <1>2, <1>3
<1> HIDE DEF call
<1> QED
  BY <1>3, <1>4, AskStep

LEMMA CallEnded ==
  ASSUME StudioInv, NEW s \in StudioSlot, NEW past \in Past, Ends(s, past)
  PROVE  /\ studioCalls' = [t \in StudioSlot |-> studioCalls'[t]] /\ studioCalls'[s] = NoStudioCall
         /\ \A t \in StudioSlot \ {s} : studioCalls'[t] = studioCalls[t]
         /\ studioPast' \in Past /\ studioPast'.created = past.created /\ studioPast'.twice = past.twice
         /\ studioPast'.failed = past.failed /\ studioPast'.unlawful = past.unlawful
         /\ studioPast'.miswired = past.miswired
         /\ ~studioPast'.overlapped => ~past.overlapped /\ \A t \in StudioSlot : studioCalls'[t] = NoStudioCall
<1> DEFINE other == \E t \in StudioSlot \ {s} : studioCalls[t] # NoStudioCall
<1>1. /\ studioCalls' = [studioCalls EXCEPT ![s] = NoStudioCall]
      /\ studioPast' = [past EXCEPT !.overlapped = @ \/ other]
  BY DEF Ends
<1>2. studioCalls = [t \in StudioSlot |-> studioCalls[t]]
  BY DEF StudioInv, CallsKept
<1>3. studioCalls' = [t \in StudioSlot |-> IF t = s THEN NoStudioCall ELSE studioCalls[t]]
  BY <1>1, <1>2
<1>4. /\ studioCalls' = [t \in StudioSlot |-> studioCalls'[t]] /\ studioCalls'[s] = NoStudioCall
      /\ \A t \in StudioSlot \ {s} : studioCalls'[t] = studioCalls[t]
  BY <1>3
<1> DEFINE over == past.overlapped \/ other
<1>5. over \in BOOLEAN /\ (~over => ~past.overlapped)
  BY DEF Past
<1>6. ~over => \A t \in StudioSlot \ {s} : studioCalls[t] = NoStudioCall
  OBVIOUS
<1>7. studioPast' = [past EXCEPT !.overlapped = over]
  BY <1>1
<1> HIDE DEF over, other
<1>8. studioPast' = [created |-> past.created, twice |-> past.twice, overlapped |-> over, failed |-> past.failed,
                     unlawful |-> past.unlawful, miswired |-> past.miswired]
  BY <1>7 DEF Past
<1>9. studioPast' \in Past
  BY <1>5, <1>8 DEF Past
<1>10. ~over => \A t \in StudioSlot : studioCalls'[t] = NoStudioCall
  BY <1>4, <1>6
<1> QED
  BY <1>4, <1>5, <1>8, <1>9, <1>10

LEMMA NoneWrites == ~StudioWrites(NoStudioCall) /\ ~Carries(NoStudioCall) /\ NoStudioCall.kind = "none"
BY DEF StudioWrites, Carries, NoStudioCall

LEMMA CallStays ==
  ASSUME NEW c, NEW old, NEW new, CallOK(c, old), \A i \in FlowId : old[i] # NoFlowRow => new[i] # NoFlowRow
  PROVE  CallOK(c, new)
BY DEF CallOK, SaveOK, StepOK, ReloadOK

LEMMA CallsCarryOn ==
  ASSUME StudioInv, NEW s \in StudioSlot, CallOK(studioCalls'[s], flowRows'),
         studioCalls' = [t \in StudioSlot |-> studioCalls'[t]],
         \A t \in StudioSlot \ {s} : studioCalls'[t] = studioCalls[t],
         \A i \in FlowId : flowRows[i] # NoFlowRow => flowRows'[i] # NoFlowRow
  PROVE  CallsKept'
<1>1. \A t \in StudioSlot : CallOK(studioCalls[t], flowRows)
  BY DEF StudioInv, CallsKept
<1>2. \A t \in StudioSlot : CallOK(studioCalls[t], flowRows')
  BY <1>1, CallStays
<1>3. \A t \in StudioSlot : CallOK(studioCalls'[t], flowRows')
  BY <1>2
<1> QED
  BY <1>3 DEF CallsKept

LEMMA NoneOK == ASSUME NEW rows PROVE CallOK(NoStudioCall, rows)
BY DEF CallOK

(* The slot of the call is freed, or holds another that is no fresh save.   *)
LEMMA SavesLeft ==
  ASSUME NEW s \in StudioSlot, \A t \in StudioSlot \ {s} : studioCalls'[t] = studioCalls[t],
         studioCalls'[s].kind # "save"
  PROVE  FreshSaves' = FreshSaves \ {s}
<1> DEFINE Fresh(c) == c.kind = "save" /\ c.flow = 0
<1>1. /\ FreshSaves = {t \in StudioSlot : Fresh(studioCalls[t])}
      /\ FreshSaves' = {t \in StudioSlot : Fresh(studioCalls'[t])}
  BY DEF FreshSaves
<1>2. ~Fresh(studioCalls'[s])
  OBVIOUS
<1> HIDE DEF Fresh
<1>3. \A t \in StudioSlot \ {s} : Fresh(studioCalls'[t]) <=> Fresh(studioCalls[t])
  OBVIOUS
<1> QED
  BY <1>1, <1>2, <1>3

LEMMA RoomLeft ==
  ASSUME RoomKept, NEW s, FreshSaves' = FreshSaves \ {s},
         NEW rows, rows = FreeRows', rows = FreeRows \/ \E i : rows = FreeRows \ {i} /\ s \in FreshSaves
  PROVE  RoomKept'
<1> DEFINE a == Cardinality(FreshSaves)
           b == Cardinality(FreeRows)
           c == Cardinality(FreshSaves \ {s})
           d == Cardinality(rows)
<1>1. a \in Nat /\ b \in Nat /\ a <= b
  BY RoomIs DEF RoomKept
<1>2. c = (IF s \in FreshSaves THEN a - 1 ELSE a)
  BY RoomIs, FS_RemoveElement
<1>3. d = b \/ (s \in FreshSaves /\ (d = b - 1 \/ d = b))
  <2>1. CASE rows = FreeRows
    BY <2>1
  <2>2. CASE \E i : rows = FreeRows \ {i} /\ s \in FreshSaves
    <3>1. PICK i : rows = FreeRows \ {i} /\ s \in FreshSaves
      BY <2>2
    <3>2. Cardinality(FreeRows \ {i}) = (IF i \in FreeRows THEN b - 1 ELSE b)
      BY RoomIs, FS_RemoveElement
    <3> QED
      BY <3>1, <3>2
  <2> QED
    BY <2>1, <2>2
<1> HIDE DEF a, b, c, d
<1>4. c <= d
  BY <1>1, <1>2, <1>3
<1>5. RoomKept' <=> Cardinality(FreshSaves') <= Cardinality(FreeRows')
  BY DEF RoomKept
<1> QED
  BY <1>4, <1>5 DEF c, d

LEMMA CallEndStep ==
  ASSUME StudioInv, NEW s \in StudioSlot, NEW past \in Past, Ends(s, past),
         UNCHANGED <<editor, wire, flowRows, studioScope>>, FlowsKept', Listed => Listed',
            studioCalls[s].kind # "reload",
         past.created = studioPast.created, past.twice = studioPast.twice, past.overlapped = studioPast.overlapped,
         studioPast.failed => past.failed, ~past.unlawful, ~past.miswired
  PROVE  StudioInv'
<1>1. /\ studioCalls' = [t \in StudioSlot |-> studioCalls'[t]] /\ studioCalls'[s] = NoStudioCall
      /\ \A t \in StudioSlot \ {s} : studioCalls'[t] = studioCalls[t]
  BY CallEnded
<1>2. /\ studioPast' \in Past /\ studioPast'.created = past.created /\ studioPast'.twice = past.twice
      /\ studioPast'.failed = past.failed /\ studioPast'.unlawful = past.unlawful
      /\ studioPast'.miswired = past.miswired
  BY CallEnded
<1>3. ~studioPast'.overlapped => ~past.overlapped /\ \A t \in StudioSlot : studioCalls'[t] = NoStudioCall
  BY CallEnded
<1>4. EditorKept' /\ WireKept' /\ studioScope' \in StudioScope
  BY DEF StudioInv, EditorKept, WireKept, Lane
<1>5. CallsKept'
  BY <1>1, NoneOK, CallsCarryOn
<1>6. RoomKept'
  <2>1. FreshSaves' = FreshSaves \ {s}
    BY <1>1, NoneWrites, SavesLeft
  <2>2. FreeRows' = FreeRows
    BY DEF FreeRows
  <2> QED
    BY <2>1, <2>2, RoomLeft DEF StudioInv
<1>7. PastKept'
  BY <1>2 DEF PastKept
<1>8. OneAtATime'
  BY <1>3, NoneWrites DEF OneAtATime
<1>9. DraftsKept'
  <2> SUFFICES ASSUME ~studioPast'.overlapped, ~studioPast'.failed
               PROVE  /\ ~studioPast'.twice /\ \A d \in studioPast'.created : d <= editor'.draft
                      /\ \A t \in StudioSlot : ~Carries(studioCalls'[t])
                      /\ editor'.draft \in studioPast'.created => Listed'
    BY DEF DraftsKept
  <2>1. ~studioPast.overlapped /\ ~studioPast.failed
    BY <1>2, <1>3
  <2>2. /\ ~studioPast.twice /\ \A d \in studioPast.created : d <= editor.draft
        /\ editor.draft \in studioPast.created => Listed \/ \E t \in StudioSlot : studioCalls[t].kind = "reload"
    BY <2>1 DEF StudioInv, DraftsKept
  <2>3. \A t \in StudioSlot : ~Carries(studioCalls'[t])
    BY <1>3, NoneWrites
  <2>4. \A t \in StudioSlot : studioCalls[t].kind # "reload"
    BY <1>1, <1>3, NoneWrites
  <2> QED
    BY <1>2, <2>2, <2>3, <2>4
<1> QED
  BY <1>4, <1>5, <1>6, <1>7, <1>8, <1>9 DEF StudioInv

LEMMA SimulatedStep_ == ASSUME StudioInv, NEW s \in StudioSlot, simulated(s) PROVE StudioInv'
<1>1. studioCalls[s].kind = "simulate" /\ Ends(s, studioPast)
      /\ UNCHANGED <<editor, wire, flowRows, listed, studioScope>>
  BY DEF simulated
<1>2. FlowsKept' /\ (Listed => Listed') /\ studioPast \in Past /\ ~studioPast.unlawful /\ ~studioPast.miswired
  BY <1>1 DEF StudioInv, FlowsKept, Listed, PastKept
<1>3. studioCalls[s].kind # "reload"
  BY <1>1
<1> QED
  BY <1>1, <1>2, <1>3, CallEndStep

LEMMA LoadStep_ == ASSUME StudioInv, NEW s \in StudioSlot, NEW ok \in BOOLEAN, load(s, ok) PROVE StudioInv'
<1> DEFINE c == studioCalls[s]
           failed == studioPast.failed \/ ~ok
           past == [studioPast EXCEPT !.failed = failed]
<1>1. /\ c.kind \in {"load", "reload"} /\ listed' = (IF ok THEN flowRows ELSE listed)
      /\ Ends(s, past) /\ UNCHANGED <<flowRows, studioScope>>
  BY DEF load
<1>2. studioPast \in Past /\ ~studioPast.unlawful /\ ~studioPast.miswired
  BY DEF StudioInv, PastKept
<1>3. failed \in BOOLEAN /\ (studioPast.failed => failed) /\ (~failed => ok)
  BY <1>2 DEF Past
<1> HIDE DEF failed
<1>4. past = [created |-> studioPast.created, twice |-> studioPast.twice, overlapped |-> studioPast.overlapped,
              failed |-> failed, unlawful |-> studioPast.unlawful, miswired |-> studioPast.miswired]
  BY <1>2 DEF Past
<1>5. /\ past \in Past /\ past.created = studioPast.created /\ past.twice = studioPast.twice
      /\ past.overlapped = studioPast.overlapped /\ past.failed = failed
      /\ ~past.unlawful /\ ~past.miswired
  BY <1>2, <1>3, <1>4 DEF Past
<1> HIDE DEF past
<1>6. FlowsKept'
  <2>1. FlowsKept
    BY DEF StudioInv
  <2>2. CASE ok
    <3>1. listed' = flowRows /\ flowRows' = flowRows
      BY <1>1, <2>2
    <3> QED
      BY <2>1, <3>1 DEF FlowsKept
  <2>3. CASE ~ok
    <3>1. listed' = listed /\ flowRows' = flowRows
      BY <1>1, <2>3
    <3> QED
      BY <2>1, <3>1 DEF FlowsKept
  <2> QED
    BY <2>2, <2>3
<1>7. CASE c.kind = "load"
  <2>1. UNCHANGED <<editor, wire>>
    BY <1>7 DEF load
  <2>2. Listed => Listed'
    <3> SUFFICES ASSUME Listed PROVE listed'[editor.flow] # NoFlowRow
      BY <2>1 DEF Listed
    <3>1. editor.flow \in FlowId /\ listed[editor.flow] # NoFlowRow
      BY DEF StudioInv, EditorKept, Listed
    <3>2. flowRows[editor.flow] # NoFlowRow
      BY <3>1 DEF StudioInv, FlowsKept
    <3> QED
      BY <1>1, <3>1, <3>2
  <2>3. studioCalls[s].kind # "reload"
    BY <1>7
  <2> HIDE DEF c
  <2> QED
    BY <1>1, <1>3, <1>5, <1>6, <2>1, <2>2, <2>3, CallEndStep
<1>8. CASE c.kind = "reload"
  <2>1. hydrate(c.flow, c.contract, c.draft)
    BY <1>8 DEF load
  <2>2. ReloadOK(c, flowRows)
    <3>1. CallOK(c, flowRows)
      BY DEF StudioInv, CallsKept
    <3> QED
      BY <1>8, <3>1 DEF CallOK, SaveOK, StepOK, NoStudioCall, FlowSteps
  <2>3. /\ c.flow \in FlowId /\ flowRows[c.flow] # NoFlowRow /\ c.draft \in Nat
        /\ IsContract(c.contract) /\ Drawable(c.contract.lane)
    BY <2>2 DEF ReloadOK
  <2>4. EditorKept
    BY DEF StudioInv
  <2> DEFINE flow == c.flow
             contract == c.contract
             draft == c.draft
  <2>5. editor' = [editor EXCEPT !.flow = flow, !.contract = contract, !.draft = draft, !.typed = FALSE]
        /\ wire' = Shifted
    BY <2>1 DEF hydrate
  <2> HIDE DEF flow, contract, draft
  <2>6. editor' = [flow |-> flow, contract |-> contract, mode |-> editor.mode, draft |-> draft, typed |-> FALSE]
    BY <2>4, <2>5 DEF EditorKept
  <2>7. flow \in FlowId /\ flowRows[flow] # NoFlowRow /\ draft \in Nat /\ IsContract(contract)
        /\ Drawable(contract.lane)
    BY <2>3 DEF flow, contract, draft
  <2>8. EditorKept'
    BY <2>4, <2>6, <2>7 DEF EditorKept, Lane
  <2>9. WireKept'
    BY <2>5, <2>6, WireShifted DEF StudioInv
  <2>10. /\ studioCalls' = [t \in StudioSlot |-> studioCalls'[t]] /\ studioCalls'[s] = NoStudioCall
         /\ \A t \in StudioSlot \ {s} : studioCalls'[t] = studioCalls[t]
    BY <1>1, <1>5, CallEnded
  <2>11. /\ studioPast' \in Past /\ studioPast'.created = past.created /\ studioPast'.twice = past.twice
         /\ studioPast'.failed = past.failed /\ studioPast'.unlawful = past.unlawful
         /\ studioPast'.miswired = past.miswired
    BY <1>1, <1>5, CallEnded
  <2>12. ~studioPast'.overlapped => ~past.overlapped /\ \A t \in StudioSlot : studioCalls'[t] = NoStudioCall
    BY <1>1, <1>5, CallEnded
  <2>13. CallsKept'
    BY <1>1, <2>10, NoneOK, CallsCarryOn
  <2>14. RoomKept'
    <3>1. FreshSaves' = FreshSaves \ {s}
      BY <2>10, NoneWrites, SavesLeft
    <3>2. FreeRows' = FreeRows
      BY <1>1 DEF FreeRows
    <3> QED
      BY <3>1, <3>2, RoomLeft DEF StudioInv
  <2>15. PastKept'
    BY <1>5, <2>11 DEF PastKept
  <2>16. OneAtATime'
    BY <2>12, NoneWrites DEF OneAtATime
  <2>17. DraftsKept'
    <3> SUFFICES ASSUME ~studioPast'.overlapped, ~studioPast'.failed
                 PROVE  /\ ~studioPast'.twice /\ \A d \in studioPast'.created : d <= editor'.draft
                        /\ \A t \in StudioSlot : ~Carries(studioCalls'[t])
                        /\ Listed'
      BY DEF DraftsKept
    <3>1. ~studioPast.overlapped /\ ~studioPast.failed /\ ok
      BY <1>3, <1>5, <2>11, <2>12
    <3>2. Carries(c)
      BY <1>8 DEF Carries
    <3>3. ~studioPast.twice /\ \A d \in studioPast.created : d <= c.draft
      BY <3>1, <3>2 DEF StudioInv, DraftsKept
    <3>4. \A t \in StudioSlot : ~Carries(studioCalls'[t])
      BY <2>12, NoneWrites
    <3>5. editor'.draft = c.draft /\ editor'.flow = flow
      BY <2>6 DEF draft
    <3>6. Listed'
      <4>1. flow # 0
        BY <2>7 DEF FlowId
      <4>2. listed' = flowRows
        BY <1>1, <3>1
      <4> QED
        BY <2>7, <3>5, <4>1, <4>2 DEF Listed
    <3> QED
      BY <1>5, <2>11, <3>3, <3>4, <3>5, <3>6
  <2>18. studioScope' \in StudioScope
    BY <1>1 DEF StudioInv
  <2> QED
    BY <1>6, <2>8, <2>9, <2>13, <2>14, <2>15, <2>16, <2>17, <2>18 DEF StudioInv
<1> QED
  BY <1>1, <1>7, <1>8

-----------------------------------------------------------------------------
(* Rows that are stored or taken a step on.                                 *)
LEMMA StatusSet == ASSUME NEW row, RowOK(row), NEW st \in FlowStatus PROVE RowOK([row EXCEPT !.status = st])
<1> DEFINE new == [row EXCEPT !.status = st]
<1>1. row = [status |-> row.status, maker |-> row.maker, contract |-> row.contract]
  BY DEF RowOK
<1>2. new = [status |-> st, maker |-> row.maker, contract |-> row.contract]
  BY <1>1
<1> HIDE DEF new
<1>3. RowOK(new)
  BY <1>2 DEF RowOK
<1> QED
  BY <1>3 DEF new

LEMMA MakerSet == ASSUME NEW row, RowOK(row), NEW maker PROVE RowOK([row EXCEPT !.maker = maker])
<1> DEFINE new == [row EXCEPT !.maker = maker]
<1>1. row = [status |-> row.status, maker |-> row.maker, contract |-> row.contract]
  BY DEF RowOK
<1>2. new = [status |-> row.status, maker |-> maker, contract |-> row.contract]
  BY <1>1
<1> HIDE DEF new
<1>3. RowOK(new)
  BY <1>2 DEF RowOK
<1> QED
  BY <1>3 DEF new

(* No row goes, and those that are there are as they should be.             *)
RowsGood(rows) ==
  /\ rows = [j \in FlowId |-> rows[j]]
  /\ \A j \in FlowId : /\ flowRows[j] # NoFlowRow => rows[j] # NoFlowRow
                       /\ rows[j] # NoFlowRow => RowOK(rows[j])

LEMMA RowsKept ==
  ASSUME FlowsKept, RowsGood(flowRows'), UNCHANGED listed
  PROVE  FlowsKept'
<1>1. /\ flowRows' = [j \in FlowId |-> flowRows'[j]]
      /\ \A j \in FlowId : /\ flowRows[j] # NoFlowRow => flowRows'[j] # NoFlowRow
                           /\ flowRows'[j] # NoFlowRow => RowOK(flowRows'[j])
  BY DEF RowsGood
<1> QED
  BY <1>1 DEF FlowsKept

LEMMA SteppedRows ==
  ASSUME FlowsKept, NEW step \in DOMAIN FlowSteps, NEW i \in FlowId, flowRows[i] # NoFlowRow,
         NEW rows, rows = Stepped(step, i)
  PROVE  RowsGood(rows) /\ \A j \in FlowId : rows[j] = NoFlowRow <=> flowRows[j] = NoFlowRow
<1> DEFINE to == FlowSteps[step].to
           Out(j) == step = "activate" /\ j # i /\ flowRows[j].status = "ACTIVE"
                       /\ Lists!ToSet(flowRows[j].contract.keywords) \cap Lists!ToSet(flowRows[i].contract.keywords) # {}
           row == [flowRows[i] EXCEPT !.status = to]
           Retired(j) == [flowRows[j] EXCEPT !.status = "RETIRED"]
<1>1. to \in FlowStatus /\ "RETIRED" \in FlowStatus
  BY DEF FlowSteps, FlowStatus
<1> HIDE DEF to
<1>2. \A j \in FlowId : flowRows[j] # NoFlowRow => RowOK(flowRows[j])
  BY DEF FlowsKept
<1>3. RowOK(row) /\ row # NoFlowRow
  BY <1>1, <1>2, StatusSet, NoneIsNoRow
<1>4. ASSUME NEW j \in FlowId, flowRows[j] # NoFlowRow
      PROVE  RowOK(Retired(j)) /\ Retired(j) # NoFlowRow
  BY <1>1, <1>2, <1>4, StatusSet, NoneIsNoRow
<1>5. ASSUME NEW j \in FlowId, Out(j) PROVE flowRows[j] # NoFlowRow
  BY <1>5 DEF NoFlowRow
<1>6. rows = [j \in FlowId |-> IF j = i THEN row ELSE IF Out(j) THEN Retired(j) ELSE flowRows[j]]
  <2>1. rows = [j \in FlowId |-> CASE j = i -> row [] Out(j) -> Retired(j) [] OTHER -> flowRows[j]]
    BY DEF Stepped, to
  <2>2. \A j \in FlowId : Out(j) => j # i
    OBVIOUS
  <2> HIDE DEF row, Out, Retired
  <2>3. \A j \in FlowId : (CASE j = i -> row [] Out(j) -> Retired(j) [] OTHER -> flowRows[j])
                            = IF j = i THEN row ELSE IF Out(j) THEN Retired(j) ELSE flowRows[j]
    BY <2>2
  <2> QED
    BY <2>1, <2>3
<1> HIDE DEF row, Out, Retired
<1>7. ASSUME NEW j \in FlowId
      PROVE  /\ rows[j] = NoFlowRow <=> flowRows[j] = NoFlowRow
             /\ rows[j] # NoFlowRow => RowOK(rows[j])
  <2>1. CASE j = i
    <3>1. rows[j] = row
      BY <1>6, <2>1
    <3> QED
      BY <1>3, <2>1, <3>1
  <2>2. CASE j # i /\ Out(j)
    <3>1. rows[j] = Retired(j)
      BY <1>6, <2>2
    <3> QED
      BY <1>4, <1>5, <2>2, <3>1
  <2>3. CASE j # i /\ ~Out(j)
    <3>1. rows[j] = flowRows[j]
      BY <1>6, <2>3
    <3> QED
      BY <1>2, <3>1
  <2> QED
    BY <2>1, <2>2, <2>3
<1>8. rows = [j \in FlowId |-> rows[j]]
  BY <1>6
<1> QED
  BY <1>7, <1>8 DEF RowsGood

LEMMA WrittenRows ==
  ASSUME FlowsKept, NEW c, NEW i \in FlowId, IsContract(Normalized(c)), Drawable(Normalized(c).lane),
         NEW rows, rows = Written(c, i)
  PROVE  /\ RowsGood(rows) /\ rows[i] # NoFlowRow
         /\ \A j \in FlowId : rows[j] = NoFlowRow <=> flowRows[j] = NoFlowRow /\ j # i
<1> DEFINE contract == Normalized(c)
           row == [status |-> "DRAFT", maker |-> "me", contract |-> contract]
<1>1. flowRows = [j \in FlowId |-> flowRows[j]] /\ rows = [flowRows EXCEPT ![i] = row]
  BY DEF FlowsKept, Written
<1>2. "DRAFT" \in FlowStatus /\ IsContract(contract) /\ Drawable(contract.lane)
  BY DEF FlowStatus
<1> HIDE DEF contract
<1>3. RowOK(row)
  BY <1>2 DEF RowOK
<1>4. row # NoFlowRow
  BY <1>3, NoneIsNoRow
<1> HIDE DEF row
<1>5. rows = [j \in FlowId |-> IF j = i THEN row ELSE flowRows[j]]
  BY <1>1
<1>6. \A j \in FlowId : flowRows[j] # NoFlowRow => RowOK(flowRows[j])
  BY DEF FlowsKept
<1> QED
  BY <1>3, <1>4, <1>5, <1>6 DEF RowsGood

(* A save or a step that reaches the service: where it writes.              *)
PlaceOf(s) == IF studioCalls[s].flow # 0 THEN studioCalls[s].flow ELSE Min(FreeRows)
RowsOf(s) ==
  IF studioCalls[s].kind = "save" THEN Written(studioCalls[s].contract, PlaceOf(s))
  ELSE Stepped(studioCalls[s].kind, PlaceOf(s))

LEMMA ServedRows ==
  ASSUME StudioInv, NEW s \in StudioSlot, studioCalls[s].kind \in {"save"} \cup DOMAIN FlowSteps, ~Refused(s),
         NEW i, i = PlaceOf(s), NEW rows, rows = RowsOf(s)
  PROVE  /\ i \in FlowId /\ RowsGood(rows) /\ rows[i] # NoFlowRow
         /\ \/ \A j \in FlowId : rows[j] = NoFlowRow <=> flowRows[j] = NoFlowRow
            \/ s \in FreshSaves /\ \A j \in FlowId : rows[j] = NoFlowRow <=> flowRows[j] = NoFlowRow /\ j # i
<1> DEFINE c == studioCalls[s]
<1>1. FlowsKept /\ CallOK(c, flowRows) /\ studioScope.target \in Targets
  BY DEF StudioInv, CallsKept, StudioScope
<1>2. CASE c.kind = "save"
  <2>1. SaveOK(c, flowRows)
    BY <1>1, <1>2 DEF CallOK, StepOK, ReloadOK, NoStudioCall, FlowSteps
  <2>2. IsContract(c.contract) /\ Accepts(c.contract) /\ ServiceAccepts(c.contract)
    BY <1>2, <2>1 DEF SaveOK, Refused
  <2>3. c.contract.lane.mode \in Modes
    BY <2>2 DEF Accepts, Modes
  <2>4. IsContract(Normalized(c.contract)) /\ Drawable(Normalized(c.contract).lane)
    BY <1>1, <2>2, <2>3, NormalizedGood
  <2>5. rows = Written(c.contract, i)
    BY <1>2 DEF RowsOf
  <2>6. CASE c.flow # 0
    <3>1. i = c.flow /\ i \in FlowId /\ flowRows[i] # NoFlowRow
      BY <2>1, <2>6 DEF SaveOK, PlaceOf
    <3>2. /\ RowsGood(rows) /\ rows[i] # NoFlowRow
          /\ \A j \in FlowId : rows[j] = NoFlowRow <=> flowRows[j] = NoFlowRow /\ j # i
      BY <1>1, <2>4, <2>5, <3>1, WrittenRows
    <3> QED
      BY <3>1, <3>2
  <2>7. CASE c.flow = 0
    <3>1. s \in FreshSaves
      BY <1>2, <2>7 DEF FreshSaves
    <3>2. FreeRows # {}
      <4> SUFFICES ASSUME FreeRows = {} PROVE FALSE
        OBVIOUS
      <4>1. Cardinality(FreeRows) = 0
        BY FS_EmptySet
      <4>2. Cardinality(FreshSaves) \in Nat /\ Cardinality(FreshSaves) <= 0
        BY <4>1, RoomIs DEF StudioInv, RoomKept
      <4>3. FreshSaves = {}
        BY <4>2, RoomIs, FS_EmptySet
      <4> QED
        BY <3>1, <4>3
    <3>3. FreeRows \in SUBSET Nat
      BY DEF FreeRows, FlowId
    <3>4. i \in FlowId
      <4>1. Min(FreeRows) \in FreeRows
        BY <3>2, <3>3, LeastOf
      <4> QED
        BY <2>7, <4>1 DEF PlaceOf, FreeRows
    <3>5. /\ RowsGood(rows) /\ rows[i] # NoFlowRow
          /\ \A j \in FlowId : rows[j] = NoFlowRow <=> flowRows[j] = NoFlowRow /\ j # i
      BY <1>1, <2>4, <2>5, <3>4, WrittenRows
    <3> QED
      BY <3>1, <3>4, <3>5
  <2> QED
    BY <2>6, <2>7
<1>3. CASE c.kind \in DOMAIN FlowSteps
  <2>1. StepOK(c, flowRows) /\ c.kind # "save"
    BY <1>1, <1>3 DEF CallOK, SaveOK, ReloadOK, NoStudioCall, FlowSteps
  <2>2. i = c.flow /\ i \in FlowId /\ flowRows[i] # NoFlowRow
    BY <2>1 DEF StepOK, PlaceOf, FlowId
  <2>3. rows = Stepped(c.kind, i)
    BY <2>1 DEF RowsOf
  <2>4. RowsGood(rows) /\ \A j \in FlowId : rows[j] = NoFlowRow <=> flowRows[j] = NoFlowRow
    BY <1>1, <1>3, <2>2, <2>3, SteppedRows
  <2> QED
    BY <2>2, <2>4
<1> QED
  BY <1>2, <1>3

LEMMA RoomAfter ==
  ASSUME StudioInv, NEW s \in StudioSlot, FreshSaves' = FreshSaves \ {s}, NEW i \in FlowId,
         \/ \A j \in FlowId : flowRows'[j] = NoFlowRow <=> flowRows[j] = NoFlowRow
         \/ s \in FreshSaves /\ \A j \in FlowId : flowRows'[j] = NoFlowRow <=> flowRows[j] = NoFlowRow /\ j # i
  PROVE  RoomKept'
<1>1. FreeRows' = {j \in FlowId : flowRows'[j] = NoFlowRow} /\ FreeRows = {j \in FlowId : flowRows[j] = NoFlowRow}
  BY DEF FreeRows
<1>2. FreeRows' = FreeRows \/ (s \in FreshSaves /\ FreeRows' = FreeRows \ {i})
  <2>1. CASE \A j \in FlowId : flowRows'[j] = NoFlowRow <=> flowRows[j] = NoFlowRow
    BY <1>1, <2>1
  <2>2. CASE s \in FreshSaves /\ \A j \in FlowId : flowRows'[j] = NoFlowRow <=> flowRows[j] = NoFlowRow /\ j # i
    BY <1>1, <2>2
  <2> QED
    BY <2>1, <2>2
<1>3. FreeRows' = FreeRows \/ \E k : FreeRows' = FreeRows \ {k} /\ s \in FreshSaves
  BY <1>2
<1> QED
  BY <1>3, RoomLeft DEF StudioInv

(* What a step offers is lawful for the row that was seen.                  *)
LEMMA OfferedIsLawful ==
  ASSUME NEW step \in DOMAIN FlowSteps, NEW row, Offers(step, row)
  PROVE  Lawful(step, row, "me")
BY DEF FlowSteps, Offers, Lawful

LEMMA RefusedStep ==
  ASSUME StudioInv, NEW s \in StudioSlot, NEW ok \in BOOLEAN, serve(s, ok), Refused(s)
  PROVE  StudioInv'
<1> DEFINE c == studioCalls[s]
           unlawful == studioPast.unlawful \/ (c.flow # 0 /\ c.seen = flowRows[c.flow]
                                                /\ (c.kind = "save" => ServiceAccepts(c.contract)))
           past == [studioPast EXCEPT !.unlawful = unlawful]
<1>1. /\ c.kind \in {"save"} \cup DOMAIN FlowSteps /\ Ends(s, past)
      /\ UNCHANGED <<flowRows, editor, wire, listed, studioScope>>
  BY DEF serve
<1>2. studioPast \in Past /\ ~studioPast.unlawful /\ ~studioPast.miswired /\ CallOK(c, flowRows) /\ FlowsKept
  BY DEF StudioInv, PastKept, CallsKept
<1>3. ~unlawful
  <2> SUFFICES ASSUME c.flow # 0, c.seen = flowRows[c.flow], c.kind = "save" => ServiceAccepts(c.contract) PROVE FALSE
    BY <1>2
  <2>1. CASE c.kind = "save"
    <3>1. SaveOK(c, flowRows)
      BY <1>2, <2>1 DEF CallOK, StepOK, ReloadOK, NoStudioCall, FlowSteps
    <3> QED
      BY <2>1, <3>1 DEF SaveOK, Refused, FlowSteps
  <2>2. CASE c.kind \in DOMAIN FlowSteps
    <3>1. StepOK(c, flowRows) /\ c.kind # "save"
      BY <1>2, <2>2 DEF CallOK, SaveOK, ReloadOK, NoStudioCall, FlowSteps
    <3>2. Lawful(c.kind, flowRows[c.flow], "me")
      BY <2>2, <3>1, OfferedIsLawful DEF StepOK
    <3> QED
      BY <3>1, <3>2 DEF Refused
  <2> QED
    BY <1>1, <2>1, <2>2
<1>4. past = [studioPast EXCEPT !.unlawful = FALSE]
  BY <1>3
<1> HIDE DEF unlawful
<1>5. past = [created |-> studioPast.created, twice |-> studioPast.twice, overlapped |-> studioPast.overlapped,
              failed |-> studioPast.failed, unlawful |-> FALSE, miswired |-> studioPast.miswired]
  BY <1>2, <1>4 DEF Past
<1>6. /\ past \in Past /\ past.created = studioPast.created /\ past.twice = studioPast.twice
      /\ past.overlapped = studioPast.overlapped /\ past.failed = studioPast.failed
      /\ ~past.unlawful /\ ~past.miswired
  BY <1>2, <1>5 DEF Past
<1> HIDE DEF past
<1>7. FlowsKept' /\ (Listed => Listed') /\ c.kind # "reload"
  BY <1>1, <1>2 DEF FlowsKept, Listed, FlowSteps
<1> QED
  BY <1>1, <1>6, <1>7, CallEndStep

PastOf(s) ==
  IF studioCalls[s].kind = "save" /\ studioCalls[s].flow = 0
  THEN [studioPast EXCEPT !.created = @ \cup {studioCalls[s].draft},
                          !.twice = @ \/ studioCalls[s].draft \in studioPast.created]
  ELSE studioPast

LEMMA PastServed ==
  ASSUME StudioInv, NEW s \in StudioSlot, studioCalls[s].kind \in {"save"} \cup DOMAIN FlowSteps,
         NEW past, past = PastOf(s)
  PROVE  /\ past \in Past /\ past.overlapped = studioPast.overlapped /\ past.failed = studioPast.failed
         /\ ~past.unlawful /\ ~past.miswired
         /\ IF s \in FreshSaves
            THEN /\ past.created = studioPast.created \cup {studioCalls[s].draft}
                 /\ past.twice <=> studioPast.twice \/ studioCalls[s].draft \in studioPast.created
            ELSE past.created = studioPast.created /\ past.twice = studioPast.twice
<1> DEFINE c == studioCalls[s]
           d == c.draft
           created == studioPast.created \cup {d}
           twice == studioPast.twice \/ d \in studioPast.created
<1>1. studioPast \in Past /\ ~studioPast.unlawful /\ ~studioPast.miswired /\ CallOK(c, flowRows)
  BY DEF StudioInv, PastKept, CallsKept
<1>2. d \in Nat
  BY <1>1 DEF CallOK, SaveOK, StepOK, ReloadOK, NoStudioCall, FlowSteps
<1>3. s \in FreshSaves <=> c.kind = "save" /\ c.flow = 0
  BY DEF FreshSaves
<1>4. CASE c.kind = "save" /\ c.flow = 0
  <2>1. past = [studioPast EXCEPT !.created = created, !.twice = twice]
    BY <1>4 DEF PastOf
  <2>2. created \in SUBSET Nat /\ twice \in BOOLEAN
    BY <1>1, <1>2 DEF Past
  <2>3. created = studioPast.created \cup {d} /\ (twice <=> studioPast.twice \/ d \in studioPast.created)
    OBVIOUS
  <2> HIDE DEF created, twice, d
  <2> DEFINE mid == [studioPast EXCEPT !.created = created]
  <2>4. mid = [created |-> created, twice |-> studioPast.twice, overlapped |-> studioPast.overlapped,
               failed |-> studioPast.failed, unlawful |-> studioPast.unlawful, miswired |-> studioPast.miswired]
    BY <1>1 DEF Past
  <2>5. past = [mid EXCEPT !.twice = twice]
    BY <2>1
  <2> HIDE DEF mid
  <2>6. past = [created |-> created, twice |-> twice, overlapped |-> studioPast.overlapped,
                failed |-> studioPast.failed, unlawful |-> studioPast.unlawful, miswired |-> studioPast.miswired]
    BY <2>4, <2>5
  <2>7. past \in Past
    BY <1>1, <2>2, <2>6 DEF Past
  <2>8. /\ past.created = created /\ past.twice = twice /\ past.overlapped = studioPast.overlapped
        /\ past.failed = studioPast.failed /\ past.unlawful = studioPast.unlawful
        /\ past.miswired = studioPast.miswired
    BY <2>6
  <2> QED
    BY <1>1, <1>3, <1>4, <2>3, <2>7, <2>8 DEF d
<1>5. CASE ~(c.kind = "save" /\ c.flow = 0)
  <2>1. past = studioPast
    BY <1>5 DEF PastOf
  <2> QED
    BY <1>1, <1>3, <1>5, <2>1
<1> QED
  BY <1>4, <1>5

LEMMA ServedAs ==
  ASSUME NEW s \in StudioSlot, NEW ok \in BOOLEAN, serve(s, ok), ~Refused(s)
  PROVE  /\ studioCalls[s].kind \in {"save"} \cup DOMAIN FlowSteps /\ flowRows' = RowsOf(s)
         /\ UNCHANGED <<editor, wire, listed, studioScope>>
         /\ ok => /\ studioCalls' = [studioCalls EXCEPT ![s] =
                                       [kind |-> "reload", flow |-> PlaceOf(s),
                                          contract |-> RowsOf(s)[PlaceOf(s)].contract,
                                        draft |-> studioCalls[s].draft]]
                  /\ studioPast' = PastOf(s) /\ studioBusy' = "load"
         /\ ~ok => Ends(s, [PastOf(s) EXCEPT !.failed = TRUE])
BY DEF serve, PlaceOf, RowsOf, PastOf, FreeRows

LEMMA NowFailed ==
  ASSUME NEW past \in Past, NEW v \in BOOLEAN
  PROVE  [past EXCEPT !.failed = v] = [created |-> past.created, twice |-> past.twice, overlapped |-> past.overlapped,
                                       failed |-> v, unlawful |-> past.unlawful, miswired |-> past.miswired]
BY DEF Past

LEMMA UnansweredStep ==
  ASSUME StudioInv, NEW s \in StudioSlot, serve(s, FALSE), ~Refused(s)
  PROVE  StudioInv'
<1> DEFINE i == PlaceOf(s)
           rows == RowsOf(s)
           before == PastOf(s)
           past == [before EXCEPT !.failed = TRUE]
<1>1. /\ studioCalls[s].kind \in {"save"} \cup DOMAIN FlowSteps /\ flowRows' = rows
      /\ UNCHANGED <<editor, wire, listed, studioScope>> /\ Ends(s, past)
  BY ServedAs
<1>2. /\ i \in FlowId /\ RowsGood(rows) /\ rows[i] # NoFlowRow
      /\ \/ \A j \in FlowId : rows[j] = NoFlowRow <=> flowRows[j] = NoFlowRow
         \/ s \in FreshSaves /\ \A j \in FlowId : rows[j] = NoFlowRow <=> flowRows[j] = NoFlowRow /\ j # i
  BY <1>1, ServedRows
<1>3. before \in Past /\ ~before.unlawful /\ ~before.miswired
  BY <1>1, PastServed
<1> HIDE DEF i, rows, before
<1>4. past = [created |-> before.created, twice |-> before.twice, overlapped |-> before.overlapped,
              failed |-> TRUE, unlawful |-> before.unlawful, miswired |-> before.miswired]
  BY <1>3, NowFailed
<1>5. past \in Past /\ ~past.unlawful /\ ~past.miswired /\ past.failed
  BY <1>3, <1>4 DEF Past
<1> HIDE DEF past
<1>6. /\ studioCalls' = [t \in StudioSlot |-> studioCalls'[t]] /\ studioCalls'[s] = NoStudioCall
      /\ \A t \in StudioSlot \ {s} : studioCalls'[t] = studioCalls[t]
  BY <1>1, <1>5, CallEnded
<1>7. /\ studioPast' \in Past /\ studioPast'.failed = past.failed /\ studioPast'.unlawful = past.unlawful
      /\ studioPast'.miswired = past.miswired
  BY <1>1, <1>5, CallEnded
<1>8. ~studioPast'.overlapped => \A t \in StudioSlot : studioCalls'[t] = NoStudioCall
  BY <1>1, <1>5, CallEnded
<1>9. EditorKept' /\ WireKept' /\ studioScope' \in StudioScope
  BY <1>1 DEF StudioInv, EditorKept, WireKept, Lane
<1>10. FlowsKept'
  BY <1>1, <1>2, RowsKept DEF StudioInv
<1>11. CallsKept'
  <2>1. \A j \in FlowId : flowRows[j] # NoFlowRow => flowRows'[j] # NoFlowRow
    BY <1>1, <1>2 DEF RowsGood
  <2> QED
    BY <1>6, <2>1, NoneOK, CallsCarryOn
<1>12. RoomKept'
  <2>1. FreshSaves' = FreshSaves \ {s}
    BY <1>6, NoneWrites, SavesLeft
  <2> QED
    BY <1>1, <1>2, <2>1, RoomAfter
<1>13. PastKept'
  BY <1>5, <1>7 DEF PastKept
<1>14. OneAtATime'
  BY <1>8, NoneWrites DEF OneAtATime
<1>15. DraftsKept'
  BY <1>5, <1>7 DEF DraftsKept
<1> QED
  BY <1>9, <1>10, <1>11, <1>12, <1>13, <1>14, <1>15 DEF StudioInv

LEMMA AnsweredStep ==
  ASSUME StudioInv, NEW s \in StudioSlot, serve(s, TRUE), ~Refused(s)
  PROVE  StudioInv'
<1> DEFINE c == studioCalls[s]
           i == PlaceOf(s)
           rows == RowsOf(s)
           past == PastOf(s)
           contract == rows[i].contract
           draft == c.draft
           next == [kind |-> "reload", flow |-> i, contract |-> contract, draft |-> draft]
<1>1. /\ c.kind \in {"save"} \cup DOMAIN FlowSteps /\ flowRows' = rows
      /\ UNCHANGED <<editor, wire, listed, studioScope>>
      /\ studioCalls' = [studioCalls EXCEPT ![s] = next] /\ studioPast' = past /\ studioBusy' = "load"
  BY ServedAs
<1>2. /\ i \in FlowId /\ RowsGood(rows) /\ rows[i] # NoFlowRow
      /\ \/ \A j \in FlowId : rows[j] = NoFlowRow <=> flowRows[j] = NoFlowRow
         \/ s \in FreshSaves /\ \A j \in FlowId : rows[j] = NoFlowRow <=> flowRows[j] = NoFlowRow /\ j # i
  BY <1>1, ServedRows
<1>3. /\ past \in Past /\ past.overlapped = studioPast.overlapped /\ past.failed = studioPast.failed
      /\ ~past.unlawful /\ ~past.miswired
  BY <1>1, PastServed
<1>4. IF s \in FreshSaves
      THEN /\ past.created = studioPast.created \cup {draft}
           /\ past.twice <=> studioPast.twice \/ draft \in studioPast.created
      ELSE past.created = studioPast.created /\ past.twice = studioPast.twice
  BY <1>1, PastServed
<1>5. CallOK(c, flowRows)
  BY DEF StudioInv, CallsKept
<1>6. draft \in Nat
  BY <1>1, <1>5 DEF CallOK, SaveOK, StepOK, ReloadOK, NoStudioCall, FlowSteps
<1>7. IsContract(contract) /\ Drawable(contract.lane)
  BY <1>2 DEF RowsGood, RowOK
<1>8. StudioWrites(c) /\ Carries(c)
  BY <1>1 DEF StudioWrites, Carries, FlowSteps
<1> HIDE DEF i, rows, past, contract
<1>9. ReloadOK(next, rows)
  BY <1>2, <1>6, <1>7 DEF ReloadOK
<1>10. next.kind = "reload" /\ next.draft = draft
  OBVIOUS
<1> HIDE DEF next
<1>11. /\ studioCalls' = [t \in StudioSlot |-> studioCalls'[t]] /\ studioCalls'[s] = next
       /\ \A t \in StudioSlot \ {s} : studioCalls'[t] = studioCalls[t]
  <2>1. studioCalls = [t \in StudioSlot |-> studioCalls[t]]
    BY DEF StudioInv, CallsKept
  <2>2. studioCalls' = [t \in StudioSlot |-> IF t = s THEN next ELSE studioCalls[t]]
    BY <1>1, <2>1
  <2> QED
    BY <2>2
<1>12. EditorKept' /\ WireKept' /\ studioScope' \in StudioScope
  BY <1>1 DEF StudioInv, EditorKept, WireKept, Lane
<1>13. FlowsKept'
  BY <1>1, <1>2, RowsKept DEF StudioInv
<1>14. CallsKept'
  <2>1. \A j \in FlowId : flowRows[j] # NoFlowRow => flowRows'[j] # NoFlowRow
    BY <1>1, <1>2 DEF RowsGood
  <2>2. CallOK(studioCalls'[s], flowRows')
    BY <1>1, <1>9, <1>11 DEF CallOK
  <2> QED
    BY <1>11, <2>1, <2>2, CallsCarryOn
<1>15. RoomKept'
  <2>1. FreshSaves' = FreshSaves \ {s}
    BY <1>10, <1>11, SavesLeft
  <2> QED
    BY <1>1, <1>2, <2>1, RoomAfter
<1>16. PastKept'
  BY <1>1, <1>3 DEF PastKept
<1>17. ~StudioIdle(studioBusy')
  BY <1>1 DEF StudioIdle
<1>18. ASSUME ~studioPast.overlapped
       PROVE  \A t \in StudioSlot \ {s} : ~StudioWrites(studioCalls'[t])
  <2>1. \A t \in StudioSlot : StudioWrites(studioCalls[t]) => t = s
    BY <1>8, <1>18 DEF StudioInv, OneAtATime
  <2> QED
    BY <1>11, <2>1
<1>19. OneAtATime'
  <2>1. studioPast'.overlapped = studioPast.overlapped
    BY <1>1, <1>3
  <2> QED
    BY <1>17, <1>18, <2>1 DEF OneAtATime, StudioIdle
<1>20. DraftsKept'
  <2> SUFFICES ASSUME ~studioPast'.overlapped, ~studioPast'.failed
               PROVE  /\ ~studioPast'.twice /\ \A d \in studioPast'.created : d <= editor'.draft
                      /\ \A t \in StudioSlot : Carries(studioCalls'[t]) =>
                           /\ studioCalls'[t].kind = "reload" /\ studioCalls'[t].draft <= editor'.draft
                           /\ \A d \in studioPast'.created : d <= studioCalls'[t].draft
                      /\ \E t \in StudioSlot : studioCalls'[t].kind = "reload"
    BY DEF DraftsKept
  <2>1. ~studioPast.overlapped /\ ~studioPast.failed /\ editor' = editor /\ studioPast' = past
    BY <1>1, <1>3
  <2>2. /\ ~studioPast.twice /\ draft <= editor.draft /\ \A d \in studioPast.created : d <= draft
        /\ s \in FreshSaves => draft \notin studioPast.created
    BY <1>8, <2>1 DEF StudioInv, DraftsKept, FreshSaves
  <2>3. past.created \subseteq studioPast.created \cup {draft} /\ ~past.twice
    BY <1>4, <2>2
  <2>4. \A d \in past.created : d <= draft
    BY <1>6, <2>2, <2>3
  <2>5. \A d \in past.created : d <= editor.draft
    <3>1. editor.draft \in Nat /\ past.created \subseteq Nat
      BY <1>3 DEF StudioInv, EditorKept, Past
    <3> QED
      BY <1>6, <2>2, <2>4, <3>1
  <2>6. ASSUME NEW t \in StudioSlot, Carries(studioCalls'[t]) PROVE t = s
    <3>1. StudioWrites(studioCalls'[t])
      BY <2>6 DEF Carries, StudioWrites
    <3> QED
      BY <1>18, <2>1, <3>1
  <2> QED
    BY <1>10, <1>11, <2>1, <2>2, <2>3, <2>4, <2>5, <2>6
<1> QED
  BY <1>12, <1>13, <1>14, <1>15, <1>16, <1>19, <1>20 DEF StudioInv

LEMMA ServeStep_ == ASSUME StudioInv, NEW s \in StudioSlot, NEW ok \in BOOLEAN, serve(s, ok) PROVE StudioInv'
<1>1. CASE Refused(s)
  BY <1>1, RefusedStep
<1>2. CASE ~Refused(s) /\ ok
  <2>1. serve(s, TRUE)
    BY <1>2
  <2> QED
    BY <1>2, <2>1, AnsweredStep
<1>3. CASE ~Refused(s) /\ ~ok
  <2>1. serve(s, FALSE)
    BY <1>3
  <2> QED
    BY <1>3, <2>1, UnansweredStep
<1> QED
  BY <1>1, <1>2, <1>3

LEMMA ElsewhereStep == ASSUME StudioInv, NEW i \in FlowId, elsewhere(i) PROVE StudioInv'
<1>1. /\ flowRows[i] # NoFlowRow /\ studioScope.requests > 0
      /\ studioScope' = [studioScope EXCEPT !.requests = @ - 1]
      /\ UNCHANGED <<editor, wire, listed, studioCalls, studioBusy, studioPast>>
  BY DEF elsewhere
<1>2. FlowsKept /\ studioScope \in StudioScope
  BY DEF StudioInv
<1>3. RowsGood(flowRows') /\ \A j \in FlowId : flowRows'[j] = NoFlowRow <=> flowRows[j] = NoFlowRow
  <2>1. CASE \E step \in DOMAIN FlowSteps : flowRows' = Stepped(step, i)
    BY <1>1, <1>2, <2>1, SteppedRows
  <2>2. CASE flowRows' = [flowRows EXCEPT ![i].status = "DRAFT", ![i].maker = "other"]
    <3> DEFINE mid == [flowRows[i] EXCEPT !.status = "DRAFT"]
               row == [mid EXCEPT !.maker = "other"]
    <3>1. flowRows = [j \in FlowId |-> flowRows[j]] /\ \A j \in FlowId : flowRows[j] # NoFlowRow => RowOK(flowRows[j])
      BY <1>2 DEF FlowsKept
    <3>2. RowOK(mid)
      <4>1. "DRAFT" \in FlowStatus
        BY DEF FlowStatus
      <4> QED
        BY <1>1, <3>1, <4>1, StatusSet
    <3>3. RowOK(row) /\ row # NoFlowRow
      <4> HIDE DEF mid
      <4> QED
        BY <3>2, MakerSet, NoneIsNoRow
    <3>4. flowRows' = [flowRows EXCEPT ![i] = row]
      <4> DEFINE rows == [flowRows EXCEPT ![i] = mid]
      <4>1. rows[i] = mid
        BY <3>1
      <4>2. flowRows' = [rows EXCEPT ![i] = [rows[i] EXCEPT !.maker = "other"]]
        BY <2>2
      <4>3. flowRows' = [rows EXCEPT ![i] = row]
        BY <4>1, <4>2
      <4> HIDE DEF row, mid
      <4> QED
        BY <3>1, <4>3
    <3> HIDE DEF row, mid
    <3>5. flowRows' = [j \in FlowId |-> IF j = i THEN row ELSE flowRows[j]]
      BY <3>1, <3>4
    <3> QED
      BY <1>1, <3>1, <3>3, <3>5 DEF RowsGood
  <2> QED
    BY <2>1, <2>2 DEF elsewhere
<1>4. studioScope' \in StudioScope
  <2> DEFINE left == studioScope.requests - 1
  <2>1. left \in Nat
    BY <1>1, <1>2 DEF StudioScope
  <2>2. studioScope' = [studioScope EXCEPT !.requests = left]
    BY <1>1
  <2> HIDE DEF left
  <2> QED
    BY <1>2, <2>1, <2>2 DEF StudioScope
<1>5. EditorKept' /\ WireKept'
  BY <1>1 DEF StudioInv, EditorKept, WireKept, Lane
<1>6. FlowsKept'
  BY <1>1, <1>2, <1>3, RowsKept
<1>7. CallsKept'
  <2>1. \A t \in StudioSlot : CallOK(studioCalls[t], flowRows)
    BY DEF StudioInv, CallsKept
  <2>2. \A t \in StudioSlot : CallOK(studioCalls[t], flowRows')
    BY <1>3, <2>1, CallStays
  <2> QED
    BY <1>1, <2>2 DEF StudioInv, CallsKept
<1>8. RoomKept'
  <2>1. FreshSaves' = FreshSaves
    BY <1>1 DEF FreshSaves
  <2>2. FreeRows' = FreeRows
    <3>1. FreeRows' = {j \in FlowId : flowRows'[j] = NoFlowRow} /\ FreeRows = {j \in FlowId : flowRows[j] = NoFlowRow}
      BY DEF FreeRows
    <3> QED
      BY <1>3, <3>1
  <2> QED
    BY <2>1, <2>2 DEF StudioInv, RoomKept
<1>9. PastKept' /\ OneAtATime'
  BY <1>1 DEF StudioInv, PastKept, OneAtATime
<1>10. DraftsKept'
  <2>1. Listed' <=> Listed
    BY <1>1 DEF Listed
  <2> QED
    BY <1>1, <2>1 DEF StudioInv, DraftsKept
<1> QED
  BY <1>4, <1>5, <1>6, <1>7, <1>8, <1>9, <1>10 DEF StudioInv

LEMMA StudioStill == ASSUME StudioInv, UNCHANGED studioVars PROVE StudioInv'
<1>1. UNCHANGED <<editor, wire, flowRows, listed, studioCalls, studioBusy, studioScope, studioPast>>
  BY DEF studioVars
<1>2. Listed' <=> Listed
  BY <1>1 DEF Listed
<1>3. EditorKept' /\ WireKept' /\ FlowsKept' /\ CallsKept'
  BY <1>1 DEF StudioInv, EditorKept, WireKept, FlowsKept, CallsKept, Lane
<1>4. RoomKept' /\ PastKept' /\ OneAtATime'
  BY <1>1 DEF StudioInv, RoomKept, FreshSaves, FreeRows, PastKept, OneAtATime
<1>5. DraftsKept'
  BY <1>1, <1>2 DEF StudioInv, DraftsKept
<1> QED
  BY <1>1, <1>3, <1>4, <1>5 DEF StudioInv

LEMMA StudioStep == ASSUME StudioInv, [StudioNext]_studioVars PROVE StudioInv'
<1>1. CASE UNCHANGED studioVars
  BY <1>1, StudioStill
<1>2. CASE newDraft \/ setEnabled \/ setOther \/ addCalculation \/ addRange \/ add \/ updatePath \/ save \/ simulate
  BY <1>2, NewDraftStep, SetEnabledStep, SetOtherStep, AddCalculationStep, AddRangeStep, AddStep, UpdatePathStep,
     SaveStep_, SimulateStep_
<1>3. CASE \E i \in FlowId : selectFlow(i) \/ elsewhere(i)
  BY <1>3, SelectFlowStep, ElsewhereStep
<1>4. CASE \E m \in {"visual", "manual", "json"} : setMode(m)
  BY <1>4, SetModeStep DEF StudioModes
<1>5. CASE \E m \in {"FIXED", "FLEXIBLE"} : setCondition(m)
  BY <1>5, SetConditionStep DEF Modes
<1>6. CASE \E k \in StudioKeyword : toggleKeyword(k)
  BY <1>6, ToggleKeywordStep
<1>7. CASE \E i \in DOMAIN Lane.calcs : setDefaultCalculation(i) \/ \E r \in StudioRule : updateCalculation(i, r)
  BY <1>7, SetDefaultStep, UpdateCalculationStep
<1>8. CASE \E i \in DOMAIN Lane.ranges :
             removeRange(i) \/ startConnection(i) \/ \E f \in RangeFields(Ids(Lane.calcs)) : updateRange(i, f)
  BY <1>8, RemoveRangeStep, StartConnectionStep, UpdateRangeStep
<1>9. CASE \E id \in LaneCalculations(Lane) : connect(id)
  BY <1>9, ConnectStep
<1>10. CASE \E lane \in StudioText, listGiven \in BOOLEAN : applyJson(lane, listGiven)
  BY <1>10, ApplyJsonStep
<1>11. CASE \E step \in DOMAIN FlowSteps : transitionFlow(step)
  BY <1>11, TransitionStep_
<1>12. CASE \E s \in StudioSlot, ok \in BOOLEAN : serve(s, ok) \/ load(s, ok)
  BY <1>12, ServeStep_, LoadStep_
<1>13. CASE \E s \in StudioSlot : simulated(s)
  BY <1>13, SimulatedStep_
<1> QED
  BY <1>1, <1>2, <1>3, <1>4, <1>5, <1>6, <1>7, <1>8, <1>9, <1>10, <1>11, <1>12, <1>13 DEF StudioNext
=============================================================================
