------------------------------ MODULE PricingFlows ------------------------------
(***************************************************************************)
(* The life of a pricing flow, from draft to retirement.  Each operation is*)
(* a transaction that locks the row of its flow; an activation also reads  *)
(* the flows that are active, without a lock, and is two steps here.       *)
(***************************************************************************)
EXTENDS Naturals, Sequences, FiniteSets

CONSTANTS
  Route,          \* keywords and source wallet types: [keywords, sources], first one first
  Editor,         \* administrators with pricing_rules.make and .check
  SuperEditor,    \* those with the super_admin role
  MaxFlows        \* bound on created flows

ASSUME FlowAssumption == SuperEditor \subseteq Editor /\ MaxFlows \in Nat /\ "nobody" \notin Editor

VARIABLES
  flows,          \* pricing_rule_flows, in order of id
  activation      \* an administrator's activation between its read and its writes

flowVars == <<flows, activation>>

NoActivation == [flow |-> 0, retire |-> {}]

FlowInit == flows = <<>> /\ activation = [a \in Editor |-> NoActivation]

RowUnlocked(i) == \A a \in Editor : activation[a].flow # i
Items(s) == {s[i] : i \in DOMAIN s}

Overlap(r, s) ==
  /\ Items(r.keywords) \cap Items(s.keywords) # {}
  /\ Items(r.sources) \cap Items(s.sources) # {}

(* UQ_ACTIVE_PRICING_RULE_FLOW covers the first keyword and source only.    *)
SamePrimary(r, s) == r.keywords[1] = s.keywords[1] /\ r.sources[1] = s.sources[1]

CreateFlow(a) ==
  /\ Len(flows) < MaxFlows
  /\ \E r \in Route :
       flows' = Append(flows, [status |-> "DRAFT", route |-> r, creator |-> a, editor |-> "nobody",
                               approver |-> "nobody", reviewed |-> r])
  /\ UNCHANGED activation

UpdateFlow(a, i) ==
  /\ RowUnlocked(i) /\ flows[i].status \in {"DRAFT", "REJECTED"}
  /\ \E r \in Route :
       flows' = [flows EXCEPT ![i].route = r, ![i].status = "DRAFT", ![i].editor = a,
                              ![i].approver = "nobody"]
  /\ UNCHANGED activation

Transition(i, from, to) ==
  /\ RowUnlocked(i) /\ flows[i].status \in from
  /\ flows' = [flows EXCEPT ![i].status = to]
  /\ UNCHANGED activation

SubmitFlow(i) == Transition(i, {"DRAFT", "REJECTED"}, "SUBMITTED")
RejectFlow(i) == Transition(i, {"SUBMITTED"}, "REJECTED")
RetireFlow(i) == Transition(i, {"ACTIVE", "APPROVED"}, "RETIRED")

(* Faulty: who made the flow counts, not who edited it last.                *)
FaultyMaker(f) == f.creator

Maker(f) == IF f.editor # "nobody" THEN f.editor ELSE f.creator

ApproveFlow(a, i) ==
  /\ RowUnlocked(i) /\ flows[i].status = "SUBMITTED"
  /\ a # Maker(flows[i]) \/ a \in SuperEditor
  /\ flows' = [flows EXCEPT ![i].status = "APPROVED", ![i].approver = a,
                            ![i].reviewed = flows[i].route]
  /\ UNCHANGED activation

Conflicting(i) ==
  {j \in DOMAIN flows \ {i} : flows[j].status = "ACTIVE" /\ Overlap(flows[i].route, flows[j].route)}

BeginActivation(a, i) ==
  /\ activation[a] = NoActivation /\ RowUnlocked(i) /\ flows[i].status = "APPROVED"
  /\ activation' = [activation EXCEPT ![a] = [flow |-> i, retire |-> Conflicting(i)]]
  /\ UNCHANGED flows

Indexed(a) ==
  \A j \in DOMAIN flows \ activation[a].retire :
    flows[j].status = "ACTIVE" => ~SamePrimary(flows[j].route, flows[activation[a].flow].route)

(* The retired flows and the active one, or nothing when the index refuses. *)
FinishActivation(a) ==
  /\ activation[a] # NoActivation /\ \A j \in activation[a].retire : RowUnlocked(j)
  /\ flows' = IF Indexed(a)
              THEN [i \in DOMAIN flows |->
                      CASE i = activation[a].flow -> [flows[i] EXCEPT !.status = "ACTIVE"]
                        [] i \in activation[a].retire -> [flows[i] EXCEPT !.status = "RETIRED"]
                        [] OTHER -> flows[i]]
              ELSE flows
  /\ activation' = [activation EXCEPT ![a] = NoActivation]

FlowNext ==
  \E a \in Editor :
    \/ CreateFlow(a) \/ FinishActivation(a)
    \/ \E i \in DOMAIN flows :
         UpdateFlow(a, i) \/ SubmitFlow(i) \/ RejectFlow(i) \/ RetireFlow(i)
         \/ ApproveFlow(a, i) \/ BeginActivation(a, i)

FlowSpec == FlowInit /\ [][FlowNext]_flowVars

-----------------------------------------------------------------------------
FlowTypeOK ==
  /\ \A i \in DOMAIN flows :
       /\ flows[i].status \in {"DRAFT", "SUBMITTED", "APPROVED", "ACTIVE", "RETIRED", "REJECTED"}
       /\ flows[i].route \in Route
       /\ {flows[i].creator, flows[i].editor, flows[i].approver} \subseteq Editor \cup {"nobody"}
  /\ \A a \in Editor : activation[a].flow \in {0} \cup DOMAIN flows

(* The prices in force are the ones an administrator approved who was not   *)
(* the last to edit the flow, super administrators apart, whatever was      *)
(* edited, rejected and submitted again before (an edit that leaves the     *)
(* prices as they are counts, so who wrote them may approve after it); and a*)
(* flow active under a keyword and source as its first ones is alone with   *)
(* them, also when two activations overlap.                                 *)
ActiveFlowReviewed ==
  \A i \in DOMAIN flows :
    /\ flows[i].status \in {"APPROVED", "ACTIVE"} =>
         /\ flows[i].route = flows[i].reviewed /\ flows[i].approver # "nobody"
         /\ \/ flows[i].approver \in SuperEditor
            \/ flows[i].approver # (IF flows[i].editor = "nobody" THEN flows[i].creator ELSE flows[i].editor)
    /\ \A j \in DOMAIN flows : {flows[i].status, flows[j].status} = {"ACTIVE"} /\ i # j =>
         ~SamePrimary(flows[i].route, flows[j].route)
=============================================================================
