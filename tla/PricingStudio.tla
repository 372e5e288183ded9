----------------------------- MODULE PricingStudio -----------------------------
(***************************************************************************)
(* The pricing studio of the administration console: an editor of one      *)
(* pricing definition on a canvas, in fields or as text, beside the list of*)
(* stored flows.  It judges a definition before the service does, draws it,*)
(* and sends it; answers come when they come and replace what is edited.   *)
(* One of the two lanes, charge or commission, is followed; of the other   *)
(* only whether it is on.  Which range or calculation is highlighted, the  *)
(* payer, the wallets and the result of a simulation decide nothing here.  *)
(***************************************************************************)
EXTENDS PricingRules
Lists == INSTANCE SequencesExt

CONSTANTS
  StudioKeyword,   \* keywords on offer
  StudioRule,      \* rules typed into a calculation
  StudioAmount,    \* amounts typed into a range, in cents
  StudioText,      \* lanes written as JSON
  RangeSpan,       \* what a new range spans: 100 000
  WidestRange,     \* where the ranges of a blank flow end: 10 000 000
  MaxRanges,       \* bound on the ranges of a lane
  MaxStudioFlows,  \* bound on stored flows
  StudioScopes     \* bounds of a behaviour: the lane followed, the modes used, the flow that is stored,
                   \* numbers of edits and of requests

(* A lane written as text, as far as it can be read at all.                 *)
LaneText ==
  [enabled : BOOLEAN, mode : STRING, default : Nat, calcs : Seq([id : Nat, rule : AmountRule]),
   ranges : Seq([id : Nat, min : Nat, max : Bound, calc : Nat])]

FlowStatus == {"DRAFT", "SUBMITTED", "APPROVED", "ACTIVE", "RETIRED", "REJECTED"}

(* The last conjunct is a fact about STRING, for the provers.               *)
ASSUME StudioAssumption ==
  /\ {RangeSpan, WidestRange, MaxRanges, MaxStudioFlows} \subseteq Nat /\ RangeSpan < WidestRange /\ MaxRanges >= 2
  /\ StudioAmount \subseteq Nat /\ StudioRule \subseteq AmountRule
  /\ \A lane \in StudioText : lane \in LaneText /\ Len(lane.ranges) <= MaxRanges
  /\ StudioScopes \subseteq [target : {"charge", "commission"}, modes : SUBSET {"visual", "manual", "json"},
                            edits : Nat, requests : Nat, status : FlowStatus, maker : STRING]
  /\ {"FIXED", "FLEXIBLE", "FL"} \subseteq STRING

VARIABLES
  editor,        \* what is edited: the id of its flow (0: unsaved), the contract, the mode; draft, a number
                 \* for every new draft, and typed, whether fields or text were used, are history
  wire,          \* pending: the range whose port was clicked; history: its id, and whether ranges moved since
  flowRows,      \* pricing_rule_flows
  listed,        \* flows: the rows as they were last loaded
  studioCalls,   \* requests in flight
  studioBusy,    \* busy
  studioScope,   \* the bounds of this behaviour, edits and requests counted down
  studioPast     \* history: drafts created and created twice, flags that overlapped, failures, refusals

studioVars == <<editor, wire, flowRows, listed, studioCalls, studioBusy, studioScope, studioPast>>

NoWire == [index |-> 0, id |-> 0, moved |-> FALSE]
NoFlowRow == [status |-> "none"]
FlowId == 1..MaxStudioFlows
StudioSlot == 1..2
NoStudioCall == [kind |-> "none"]
PlainRule == [type |-> "FIXED", value |-> 1, minimum |-> Undefined, maximum |-> Undefined]

-----------------------------------------------------------------------------
(* blankPricingFlow                                                         *)
AmountRange(id, min, max, calc) == [id |-> id, min |-> min, max |-> max, calc |-> calc]
LaneCalculation(id) == [id |-> id, rule |-> PlainRule]

BlankLane(target) ==
  IF target = "charge"
  THEN [enabled |-> TRUE, mode |-> "FLEXIBLE", default |-> 1, calcs |-> <<LaneCalculation(1), LaneCalculation(2)>>,
        ranges |-> <<AmountRange(1, 0, RangeSpan, 1), AmountRange(2, RangeSpan + 1, WidestRange, 2)>>]
  ELSE [enabled |-> TRUE, mode |-> "FIXED", default |-> 1, calcs |-> <<LaneCalculation(1)>>,
        ranges |-> <<AmountRange(1, 0, WidestRange, 1)>>]

blankPricingFlow ==
  [lane |-> BlankLane(studioScope.target), other |-> TRUE, keywords |-> <<"PMNT">>, keyword |-> "PMNT"]

(* pricingFlowErrors finds none.  The ranges of a lane that is off, or      *)
(* fixed, are not looked at, nor is the default calculation.  Faulty: an    *)
(* open range may be followed by another.                                   *)
FaultyRangesAccepted(lane) ==
  LET ranges == ByMinimum(lane.ranges)
  IN  \A i \in 2..Len(ranges) : ranges[i].min > ranges[i - 1].max

RangesAccepted(lane) ==
  LET ranges == ByMinimum(lane.ranges)
  IN  /\ ranges # <<>>
      /\ \A i \in DOMAIN ranges :
           /\ ranges[i].max = Undefined \/ ranges[i].max >= ranges[i].min
           /\ ranges[i].calc \in Ids(lane.calcs)
           /\ i > 1 => ranges[i - 1].max # Undefined /\ ranges[i].min > ranges[i - 1].max

Accepts(c) ==
  /\ c.keywords # <<>> /\ c.lane.mode \in {"FIXED", "FLEXIBLE"} /\ (c.lane.enabled \/ c.other)
  /\ \A i \in DOMAIN c.lane.calcs : RuleOK(c.lane.calcs[i].rule)
  /\ c.lane.enabled /\ c.lane.mode = "FLEXIBLE" => RangesAccepted(c.lane)

(* The contract as the service gets it: the other lane is as it was.        *)
AsSent(c) ==
  LET side(lane) == [enabled |-> lane.enabled, mode |-> lane.mode, party |-> "S", rule |-> PlainRule,
                     calcs |-> lane.calcs, default |-> lane.default,
                     ranges |-> [i \in DOMAIN lane.ranges |->
                                   [min |-> lane.ranges[i].min, max |-> lane.ranges[i].max,
                                    calc |-> lane.ranges[i].calc, commission |-> 0, rule |-> PlainRule]]]
      other(target) == side([BlankLane(target) EXCEPT !.enabled = c.other])
      charge == studioScope.target = "charge"
  IN  [condition |-> [min |-> 0, max |-> WidestRange],
       charge |-> IF charge THEN side(c.lane) ELSE other("charge"),
       commission |-> IF charge THEN other("commission") ELSE side(c.lane)]

ServiceSide(c) ==
  LET d == Validated(AsSent(c)) IN IF studioScope.target = "charge" THEN d.charge ELSE d.commission

(* Ranges without an id are named by their position.                        *)
Named(ranges) == [i \in DOMAIN ranges |-> [ranges[i] EXCEPT !.id = Or(@, 10 + i)]]

ServiceAccepts(c) ==
  /\ c.keywords # <<>> /\ DefinitionOK(Validated(AsSent(c)))
  /\ c.lane.mode = "FLEXIBLE" => UniqueIds(Named(c.lane.ranges))

FirstId(lane) == IF lane.calcs = <<>> THEN 0 ELSE lane.calcs[1].id

(* What the service stores of it, and sends back: a flexible lane without   *)
(* ranges has got one.                                                      *)
Normalized(c) ==
  LET side == ServiceSide(c)
      named == IF c.lane.ranges = <<>> THEN <<AmountRange(11, 0, WidestRange, 0)>> ELSE ByMinimum(Named(c.lane.ranges))
  IN  [c EXCEPT !.lane.calcs = side.calcs, !.lane.default = side.default,
                !.lane.ranges = [i \in DOMAIN side.ranges |->
                  AmountRange(named[i].id, side.ranges[i].min, side.ranges[i].max, side.ranges[i].calc)]]

-----------------------------------------------------------------------------
(* selected: the listed row of the flow in the editor, if it is listed.     *)
Listed == editor.flow # 0 /\ listed[editor.flow] # NoFlowRow
ShownRow == listed[editor.flow]
CanEdit == Listed => ShownRow.status \in {"DRAFT", "REJECTED"}

StudioInit ==
  /\ studioScope \in StudioScopes
  /\ editor = [flow |-> 0, contract |-> blankPricingFlow, mode |-> "visual", draft |-> 0, typed |-> FALSE]
  /\ wire = NoWire
  /\ flowRows = [i \in FlowId |-> IF i = 1 THEN [status |-> studioScope.status, maker |-> studioScope.maker,
                                                  contract |-> blankPricingFlow]
                                 ELSE NoFlowRow]
  /\ listed = [i \in FlowId |-> NoFlowRow]
  /\ studioCalls = [s \in StudioSlot |-> IF s = 1 THEN [kind |-> "load"] ELSE NoStudioCall]
  /\ studioBusy = "load"
  /\ studioPast = [created |-> {}, twice |-> FALSE, overlapped |-> FALSE, failed |-> FALSE,
                   unlawful |-> FALSE, miswired |-> FALSE]

(* Another contract in the editor: a wire that is pending stays.            *)
Shifted == IF wire = NoWire THEN wire ELSE [wire EXCEPT !.moved = TRUE]

hydrate(flow, contract, draft) ==
  /\ editor' = [editor EXCEPT !.flow = flow, !.contract = contract, !.draft = draft, !.typed = FALSE]
  /\ wire' = Shifted

newDraft ==
  /\ studioScope.requests > 0
  /\ editor' = [flow |-> 0, contract |-> blankPricingFlow, mode |-> "visual", draft |-> editor.draft + 1,
                typed |-> FALSE]
  /\ wire' = Shifted /\ studioScope' = [studioScope EXCEPT !.requests = @ - 1]
  /\ UNCHANGED <<flowRows, listed, studioCalls, studioBusy, studioPast>>

selectFlow(i) ==
  /\ listed[i] # NoFlowRow /\ editor.flow # i /\ hydrate(i, listed[i].contract, editor.draft)
  /\ UNCHANGED <<flowRows, listed, studioCalls, studioBusy, studioScope, studioPast>>

(* The canvas, and the wire with it, is there in the visual mode only.      *)
setMode(m) ==
  /\ editor.mode # m /\ m \in studioScope.modes /\ editor' = [editor EXCEPT !.mode = m] /\ wire' = NoWire
  /\ UNCHANGED <<flowRows, listed, studioCalls, studioBusy, studioScope, studioPast>>

-----------------------------------------------------------------------------
Lane == editor.contract.lane
FreshId(s) == 1 + (IF s = <<>> THEN 0 ELSE Max({s[i].id : i \in DOMAIN s}))

(* onChange of the inspector and of the manual fields; disabled otherwise.  *)
Edits(mode, contract) ==
  /\ editor.mode = mode /\ CanEdit /\ studioScope.edits > 0 /\ contract # editor.contract
  /\ editor' = [editor EXCEPT !.contract = contract, !.typed = @ \/ mode # "visual"]
  /\ studioScope' = [studioScope EXCEPT !.edits = @ - 1]
  /\ UNCHANGED <<flowRows, listed, studioCalls, studioBusy, studioPast>>

EditsLane(mode, lane) == Edits(mode, [editor.contract EXCEPT !.lane = lane]) /\ UNCHANGED wire

setEnabled == EditsLane("visual", [Lane EXCEPT !.enabled = ~@])

setOther == Edits("visual", [editor.contract EXCEPT !.other = ~@]) /\ UNCHANGED wire

(* A lane that becomes flexible gets a range when it has none.              *)
setCondition(m) ==
  /\ Lane.enabled
  /\ EditsLane("visual", [Lane EXCEPT !.mode = m,
       !.ranges = IF m = "FLEXIBLE" /\ @ = <<>> THEN <<AmountRange(1, 0, WidestRange, Lane.default)>> ELSE @])

(* MultiSelectField: the primary keyword is the first of those that stay.   *)
toggleKeyword(k) ==
  LET old == editor.contract.keywords
      new == IF Lists!Contains(old, k) THEN Lists!Remove(old, k) ELSE Append(old, k)
  IN  /\ Edits("visual", [editor.contract EXCEPT !.keywords = new,
                                                 !.keyword = IF new = <<>> THEN "" ELSE Head(new)])
      /\ UNCHANGED wire

(* ReusableCalculationEditor and, for the rule, MoneyRuleEditor.            *)
addCalculation ==
  LET id == FreshId(Lane.calcs)
  IN  /\ Lane.enabled
      /\ EditsLane("visual", [Lane EXCEPT !.calcs = Append(@, LaneCalculation(id)), !.default = Or(@, id)])

setDefaultCalculation(i) == Lane.enabled /\ EditsLane("visual", [Lane EXCEPT !.default = Lane.calcs[i].id])

updateCalculation(i, rule) == Lane.enabled /\ EditsLane("visual", [Lane EXCEPT !.calcs[i].rule = rule])

(* appendChargeRange and appendCommissionRange, from the canvas: an open    *)
(* range is closed before the new one.                                      *)
Appended(lane) ==
  LET n == Len(lane.ranges)
      last == lane.ranges[n]
      end == IF last.max = Undefined THEN last.min + RangeSpan ELSE last.max
      from == IF n = 0 THEN 0 ELSE end + 1
      calc == IF studioScope.target = "charge" THEN Or(lane.default, FirstId(lane)) ELSE lane.default
  IN  [lane EXCEPT !.mode = "FLEXIBLE",
         !.ranges = Append(IF n = 0 THEN @ ELSE [@ EXCEPT ![n].max = end],
                           AmountRange(FreshId(lane.ranges), from, from + RangeSpan, calc))]

addRange ==
  /\ Lane.enabled /\ Lane.mode = "FLEXIBLE" /\ Len(Lane.ranges) < MaxRanges
  /\ EditsLane("visual", Appended(Lane))

(* FlexibleRangeEditor and CommissionRangeEditor: after an open range the   *)
(* new one begins at 0.  That of the charge stays when the lane is off.     *)
RangeEditor == Lane.mode = "FLEXIBLE" /\ (studioScope.target = "charge" \/ Lane.enabled)

add ==
  LET n == Len(Lane.ranges)
      from == IF n = 0 \/ Lane.ranges[n].max = Undefined THEN 0 ELSE Lane.ranges[n].max + 1
  IN  /\ RangeEditor /\ n < MaxRanges
      /\ EditsLane("visual", [Lane EXCEPT !.ranges =
           Append(@, AmountRange(FreshId(@), from, from + RangeSpan, FirstId(Lane)))])

removeRange(i) ==
  /\ RangeEditor /\ Len(Lane.ranges) > 1
  /\ Edits("visual", [editor.contract EXCEPT !.lane.ranges = Lists!RemoveAt(@, i)])
  /\ wire' = IF i <= wire.index THEN Shifted ELSE wire

(* The fields of a range; fields \in {"visual", "manual"}.                  *)
Patched(range, field, value) ==
  CASE field = "min" -> [range EXCEPT !.min = value]
    [] field = "max" -> [range EXCEPT !.max = value]
    [] OTHER -> [range EXCEPT !.calc = value]

RangeFields(calcs) ==
  {[field |-> "min", value |-> v] : v \in StudioAmount}
    \cup {[field |-> "max", value |-> v] : v \in StudioAmount \cup {Undefined}}
    \cup {[field |-> "calc", value |-> v] : v \in calcs}

updateRange(i, f) ==
  /\ RangeEditor /\ EditsLane("visual", [Lane EXCEPT !.ranges[i] = Patched(@, f.field, f.value)])

(* updatePath of the manual fields: names are turned to upper case, and so  *)
(* an id that is typed is none of those the editor gives out.               *)
UpperCase(id) == id + 100

updatePath ==
  \/ \E i \in DOMAIN Lane.ranges, f \in RangeFields({UpperCase(1)}) :
       EditsLane("manual", [Lane EXCEPT !.ranges[i] = Patched(@, f.field, f.value)])
  \/ \E m \in {"FIXED", "FLEXIBLE", "FL"} : EditsLane("manual", [Lane EXCEPT !.mode = m])
  \/ \E id \in {0, UpperCase(1)} : EditsLane("manual", [Lane EXCEPT !.default = id])
  \/ EditsLane("manual", [Lane EXCEPT !.enabled = ~@])
  \/ \E i \in DOMAIN Lane.calcs, r \in StudioRule : EditsLane("manual", [Lane EXCEPT !.calcs[i].rule = r])
  \/ \E k \in {<<>>} \cup {<<x>> : x \in StudioKeyword} :
       /\ Edits("manual", [editor.contract EXCEPT !.keywords = k, !.keyword = IF k = <<>> THEN "" ELSE Head(k)])
       /\ UNCHANGED wire

(* The text replaces the contract when nothing is wrong with it; keywords   *)
(* are taken from the single one when the list is not there.                *)
applyJson(lane, listGiven) ==
  LET next == [editor.contract EXCEPT !.lane = lane, !.keywords = IF listGiven THEN @ ELSE <<editor.contract.keyword>>]
  IN  /\ Accepts(next) /\ editor.mode = "json" /\ CanEdit /\ studioScope.edits > 0
      /\ editor' = [editor EXCEPT !.contract = next, !.typed = TRUE, !.mode = "visual"]
      /\ studioScope' = [studioScope EXCEPT !.edits = @ - 1]
      /\ UNCHANGED <<wire, flowRows, listed, studioCalls, studioBusy, studioPast>>

-----------------------------------------------------------------------------
(* The canvas: the calculations a lane shows, and the wires it draws from   *)
(* the condition over the ranges to the calculations.                       *)
LaneCalculations(lane) ==
  {id \in Ids(lane.calcs) : lane.enabled /\ (lane.mode = "FLEXIBLE" \/ id = lane.default)}

Condition == <<"condition", 0>>
RangePort(r) == <<"range", r.id>>
CalculationPort(id) == <<"calculation", id>>
Settlement == <<"settlement", 0>>

Wires(lane) ==
  LET shown == LaneCalculations(lane)
      drawn == IF lane.enabled /\ lane.mode # "FIXED" THEN Lists!ToSet(lane.ranges) ELSE {}
  IN  {<<CalculationPort(id), Settlement>> : id \in shown}
        \cup {<<Condition, CalculationPort(id)>> : id \in {x \in shown : lane.mode = "FIXED"}}
        \cup {<<Condition, RangePort(r)>> : r \in drawn}
        \cup {<<RangePort(r), CalculationPort(r.calc)>> : r \in {x \in drawn : x.calc \in shown}}

(* A click on the port of a range, also where nothing can be edited.        *)
startConnection(i) ==
  /\ editor.mode = "visual" /\ Lane.enabled /\ Lane.mode = "FLEXIBLE" /\ wire.index # i
  /\ wire' = [index |-> i, id |-> Lane.ranges[i].id, moved |-> FALSE]
  /\ UNCHANGED <<editor, flowRows, listed, studioCalls, studioBusy, studioScope, studioPast>>

connect(id) ==
  LET there == wire.index \in DOMAIN Lane.ranges
  IN  /\ wire # NoWire /\ editor.mode = "visual" /\ CanEdit
      /\ editor' = [editor EXCEPT !.contract.lane.ranges =
                      IF there THEN [@ EXCEPT ![wire.index].calc = id] ELSE @]
      /\ studioPast' = [studioPast EXCEPT !.miswired =
                          @ \/ (~wire.moved /\ ~(there /\ Lane.ranges[wire.index].id = wire.id))]
      /\ wire' = NoWire /\ UNCHANGED <<flowRows, listed, studioCalls, studioBusy, studioScope>>

-----------------------------------------------------------------------------
StudioFree == {s \in StudioSlot : studioCalls[s] = NoStudioCall}

Asks(call, busy) ==
  /\ StudioFree # {} /\ studioScope.requests > 0
  /\ studioCalls' = [studioCalls EXCEPT ![Min(StudioFree)] = call] /\ studioBusy' = busy
  /\ studioScope' = [studioScope EXCEPT !.requests = @ - 1]
  /\ UNCHANGED <<editor, wire, flowRows, listed, studioPast>>

(* The bound on stored flows.                                               *)
RoomForFlow ==
  Cardinality({i \in FlowId : flowRows[i] = NoFlowRow}) > Cardinality({s \in StudioSlot : studioCalls[s].kind = "save"})

save ==
  /\ CanEdit /\ studioBusy = "" /\ Accepts(editor.contract) /\ (Listed \/ RoomForFlow)
  /\ Asks([kind |-> "save", flow |-> IF Listed THEN editor.flow ELSE 0, contract |-> editor.contract,
           seen |-> IF Listed THEN ShownRow ELSE NoFlowRow, draft |-> editor.draft], "save")

(* Which steps of its life the studio offers for the row it lists.          *)
Offers(step, row) ==
  CASE step = "submit" -> row.status = "DRAFT"
    [] step = "approve" -> row.status = "SUBMITTED" /\ row.maker # "me"
    [] step = "activate" -> row.status = "APPROVED"
    [] step = "retire" -> row.status \in {"ACTIVE", "APPROVED"}
    [] OTHER -> FALSE

transitionFlow(step) ==
  /\ Listed /\ studioBusy = "" /\ Offers(step, ShownRow)
  /\ Asks([kind |-> step, flow |-> editor.flow, seen |-> ShownRow, draft |-> editor.draft], step)

(* Only a simulation in progress disables another.                          *)
simulate ==
  /\ studioBusy # "simulate" /\ Accepts(editor.contract) /\ Asks([kind |-> "simulate"], "simulate")

(* The service: what each step asks of a row, and makes of it.              *)
FlowSteps == [submit |-> [from |-> {"DRAFT", "REJECTED"}, to |-> "SUBMITTED"],
              approve |-> [from |-> {"SUBMITTED"}, to |-> "APPROVED"],
              activate |-> [from |-> {"APPROVED"}, to |-> "ACTIVE"],
              retire |-> [from |-> {"ACTIVE", "APPROVED"}, to |-> "RETIRED"],
              reject |-> [from |-> {"SUBMITTED"}, to |-> "REJECTED"]]

Lawful(step, row, by) == row.status \in FlowSteps[step].from /\ (step = "approve" => row.maker # by)

Stepped(step, i) ==
  [j \in FlowId |->
     CASE j = i -> [flowRows[i] EXCEPT !.status = FlowSteps[step].to]
       [] step = "activate" /\ j # i /\ flowRows[j].status = "ACTIVE"
            /\ Lists!ToSet(flowRows[j].contract.keywords) \cap Lists!ToSet(flowRows[i].contract.keywords) # {} ->
          [flowRows[j] EXCEPT !.status = "RETIRED"]
       [] OTHER -> flowRows[j]]

Written(c, i) ==
  [flowRows EXCEPT ![i] = [status |-> "DRAFT", maker |-> "me", contract |-> Normalized(c)]]

(* The handler has its answer, or none, and clears the flag whoever set it. *)
Ends(s, past) ==
  /\ studioCalls' = [studioCalls EXCEPT ![s] = NoStudioCall] /\ studioBusy' = ""
  /\ studioPast' = [past EXCEPT !.overlapped = @ \/ \E t \in StudioSlot \ {s} : studioCalls[t] # NoStudioCall]

(* A save or a step reaches the service.  Refused, or not answered, it ends *)
(* there; otherwise the list is loaded next.                                *)
Refused(s) ==
  LET c == studioCalls[s]
  IN  \/ c.kind = "save" /\ (~ServiceAccepts(c.contract) \/ (c.flow # 0 /\ flowRows[c.flow].status \notin {"DRAFT", "REJECTED"}))
      \/ c.kind \in DOMAIN FlowSteps /\ ~Lawful(c.kind, flowRows[c.flow], "me")

serve(s, answered) ==
  LET c == studioCalls[s]
      i == IF c.flow # 0 THEN c.flow ELSE Min({j \in FlowId : flowRows[j] = NoFlowRow})
      rows == IF c.kind = "save" THEN Written(c.contract, i) ELSE Stepped(c.kind, i)
      past == IF c.kind = "save" /\ c.flow = 0
              THEN [studioPast EXCEPT !.created = @ \cup {c.draft}, !.twice = @ \/ c.draft \in studioPast.created]
              ELSE studioPast
  IN  /\ c.kind \in {"save"} \cup DOMAIN FlowSteps
      /\ IF Refused(s)
         THEN /\ Ends(s, [studioPast EXCEPT !.unlawful = @ \/ (c.flow # 0 /\ c.seen = flowRows[c.flow]
                                                               /\ (c.kind = "save" => ServiceAccepts(c.contract)))])
              /\ UNCHANGED flowRows
         ELSE /\ flowRows' = rows
              /\ IF answered
                 THEN /\ studioCalls' = [studioCalls EXCEPT ![s] =
                                           [kind |-> "reload", flow |-> i, contract |-> rows[i].contract, draft |-> c.draft]]
                      /\ studioPast' = past /\ studioBusy' = "load"
                 ELSE Ends(s, [past EXCEPT !.failed = TRUE])
      /\ UNCHANGED <<editor, wire, listed, studioScope>>

(* load, alone or after a write, whose result comes into the editor then.   *)
load(s, ok) ==
  LET c == studioCalls[s]
  IN  /\ c.kind \in {"load", "reload"}
      /\ listed' = IF ok THEN flowRows ELSE listed
      /\ IF c.kind = "reload" THEN hydrate(c.flow, c.contract, c.draft) ELSE UNCHANGED <<editor, wire>>
      /\ Ends(s, [studioPast EXCEPT !.failed = @ \/ ~ok])
      /\ UNCHANGED <<flowRows, studioScope>>

simulated(s) ==
  /\ studioCalls[s].kind = "simulate" /\ Ends(s, studioPast)
  /\ UNCHANGED <<editor, wire, flowRows, listed, studioScope>>

(* Another administrator takes a row one step on, or edits it.              *)
elsewhere(i) ==
  /\ flowRows[i] # NoFlowRow /\ studioScope.requests > 0
  /\ \/ \E step \in DOMAIN FlowSteps : Lawful(step, flowRows[i], "other") /\ flowRows' = Stepped(step, i)
     \/ flowRows[i].status \in {"DRAFT", "REJECTED"}
        /\ flowRows' = [flowRows EXCEPT ![i].status = "DRAFT", ![i].maker = "other"]
  /\ studioScope' = [studioScope EXCEPT !.requests = @ - 1]
  /\ UNCHANGED <<editor, wire, listed, studioCalls, studioBusy, studioPast>>

StudioNext ==
  \/ newDraft \/ setEnabled \/ setOther \/ addCalculation \/ addRange \/ add \/ updatePath \/ save \/ simulate
  \/ \E i \in FlowId : selectFlow(i) \/ elsewhere(i)
  \/ \E m \in {"visual", "manual", "json"} : setMode(m)
  \/ \E m \in {"FIXED", "FLEXIBLE"} : setCondition(m)
  \/ \E k \in StudioKeyword : toggleKeyword(k)
  \/ \E i \in DOMAIN Lane.calcs : setDefaultCalculation(i) \/ \E r \in StudioRule : updateCalculation(i, r)
  \/ \E i \in DOMAIN Lane.ranges :
       removeRange(i) \/ startConnection(i) \/ \E f \in RangeFields(Ids(Lane.calcs)) : updateRange(i, f)
  \/ \E id \in LaneCalculations(Lane) : connect(id)
  \/ \E lane \in StudioText, listGiven \in BOOLEAN : applyJson(lane, listGiven)
  \/ \E step \in DOMAIN FlowSteps : transitionFlow(step)
  \/ \E s \in StudioSlot, ok \in BOOLEAN : serve(s, ok) \/ load(s, ok)
  \/ \E s \in StudioSlot : simulated(s)

StudioTypeOK ==
  /\ editor.flow \in {0} \cup FlowId /\ editor.mode \in {"visual", "manual", "json"}
  /\ Len(Lane.ranges) <= MaxRanges /\ wire.index \in 0..MaxRanges
  /\ \A i \in FlowId : \A row \in {flowRows[i], listed[i]} :
       row = NoFlowRow \/ row.status \in FlowStatus

-----------------------------------------------------------------------------
(* The calculations the canvas leads an amount to, and the one the service  *)
(* applies to it.                                                           *)
LeadsTo(lane, amount) ==
  {id \in Ids(lane.calcs) :
     /\ <<CalculationPort(id), Settlement>> \in Wires(lane)
     /\ \/ <<Condition, CalculationPort(id)>> \in Wires(lane)
        \/ \E i \in DOMAIN lane.ranges : Within(lane.ranges[i], amount) /\
             {<<Condition, RangePort(lane.ranges[i])>>, <<RangePort(lane.ranges[i]), CalculationPort(id)>>}
               \subseteq Wires(lane)}

Applied(side, amount) ==
  IF ~Applies(side, amount) THEN {}
  ELSE {IF side.mode = "FIXED" THEN side.default ELSE side.ranges[Min(Matching(side, amount))].calc}

(* What is edited on the canvas and passes the studio's check passes that   *)
(* of the service too, when its lane is on; the service then applies to     *)
(* every amount the calculation that is drawn for it, now and when the flow *)
(* is read back.  Fields and text also let through what the service refuses.*)
CanvasTruthful ==
  LET c == editor.contract
  IN  Accepts(c) /\ c.lane.enabled /\ ~editor.typed =>
        /\ ServiceAccepts(c) /\ ServiceSide(Normalized(c)) = ServiceSide(c)
        /\ \A amount \in 0..(WidestRange + 1) : LeadsTo(c.lane, amount) = Applied(ServiceSide(c), amount)

(* One draft becomes one flow, unless a request that ended had cleared the  *)
(* flag of another, or an answer or the list after it did not come; and a   *)
(* step the studio offers is refused only for a row that changed meanwhile. *)
DraftsCreatedOnce ==
  /\ studioPast.twice => studioPast.overlapped \/ studioPast.failed
  /\ ~studioPast.unlawful

(* A click on a calculation connects the range whose port was clicked,      *)
(* unless ranges before it were removed or another contract came in.        *)
ConnectsPicked == ~studioPast.miswired
=============================================================================
