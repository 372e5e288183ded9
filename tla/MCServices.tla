------------------------------ MODULE MCServices ------------------------------
(* The services around the payment path, one small instance of each.        *)
EXTENDS Services, TLC

CONSTANTS ann, ben, i1, i2, o1, gbp, k1, r1, r2, d1, w1, w2, UGX, j1, j2, web, s1, t1, t2, c1, c2

(* Nobody, for the service at rest; an operator beside one process and a     *)
(* request; two processes and an error; one process over a longer time.    *)
MCScopes == {[running |-> {}, days |-> 1, requests |-> 0, errors |-> 0],
             [running |-> {i1, o1}, days |-> 2, requests |-> 1, errors |-> 0],
             [running |-> {i1, i2}, days |-> 2, requests |-> 0, errors |-> 1],
             [running |-> {i1}, days |-> 3, requests |-> 0, errors |-> 0]}

(* Pricing flows: the second shares a keyword with the first.               *)
MCRoute == {[keywords |-> <<"k1">>, sources |-> <<"s1">>],
            [keywords |-> <<"k2", "k1">>, sources |-> <<"s1">>]}

-----------------------------------------------------------------------------
(* Pricing definitions an editor may send, calc and commission 0 for none.  *)
PriceRule(type, value, lo, hi) == [type |-> type, value |-> value, minimum |-> lo, maximum |-> hi]
Flat  == PriceRule("FIXED", 2, -1, -1)
Share == PriceRule("PERCENTAGE", 50, 1, 2)

RawRange   == [min : 0..2, max : {-1, 1, 3}, calc : {0, 1}, commission : {0, 1}, rule : {Flat}]
PlainRange == {r \in RawRange : r.calc = 0 /\ r.commission = 1}
RawCalcs   == {<<>>, <<[id |-> 1, rule |-> Flat]>>,
               <<[id |-> 0, rule |-> Share], [id |-> 1, rule |-> Flat]>>}

RawSide(modes, ranges, parties, rules, calcs) ==
  [enabled : BOOLEAN, mode : modes, party : parties, rule : rules, calcs : calcs,
   default : {0, 1}, ranges : ranges]

RawCharges ==
  RawSide({"FIXED", "FLEXIBLE"}, {<<>>} \cup {<<r, q>> : r, q \in PlainRange}, {"D"}, {Share}, {<<>>})
    \cup RawSide({"FLEXIBLE"}, {<<r>> : r \in RawRange}, {"S"}, {Flat}, RawCalcs)
OneRange == CHOOSE r \in RawRange : r.min = 1 /\ r.max = 3
RawCommissions ==
  RawSide({"FIXED", "FLEXIBLE"}, {<<>>, <<OneRange>>}, {"S"}, {Share, PriceRule("PERCENTAGE", 101, -1, -1)}, RawCalcs)

PlainCommissions ==
  {c \in RawCommissions : c.mode = "FIXED" /\ c.default = 0 /\ c.calcs = <<>> /\ c.rule = Share /\ c.ranges = <<>>}
PlainCharges ==
  {c \in RawCharges : c.default = 0 /\ c.calcs = <<>> /\ Len(c.ranges) = 1
                     /\ c.ranges[1].min = 1 /\ c.ranges[1].calc = 0 /\ c.ranges[1].commission = 1}

MCRaw ==
  [condition : {[min |-> 1, max |-> -1]}, charge : RawCharges, commission : PlainCommissions]
    \cup [condition : {[min |-> 2, max |-> 1], [min |-> 1, max |-> 2]}, charge : PlainCharges,
          commission : RawCommissions]

-----------------------------------------------------------------------------
(* Charges and commissions: headers of every kind over one plain detail,    *)
(* and pairs of details of every kind under plain headers.                  *)
MCHeader ==
  [approved : BOOLEAN, expires : {FALSE}, expired : {FALSE}, default : {"none"}, fixed : {TRUE}]
    \cup [approved : BOOLEAN, expires : {TRUE}, expired : BOOLEAN, default : {"none", t1, t2},
          fixed : {TRUE}]
SimpleHeader(fixed) ==
  [approved |-> TRUE, expires |-> FALSE, expired |-> FALSE, default |-> "none", fixed |-> fixed]

MCDetail == [flat : {TRUE}, start : 1..3, end : 1..3, value : {3}, min : {0}, max : {1}]
              \cup [flat : {FALSE}, start : 1..3, end : 1..3, value : {3}, min : {0, 2}, max : {1}]
MCNegative == [flat : BOOLEAN, start : {1}, end : {2}, value : {-50, -1}, min : {-1}, max : {-1, 1}]
OneDetail == [flat |-> TRUE, start |-> 1, end |-> 2, value |-> 1, min |-> 0, max |-> 0]
ToHeader(exact, h) == [exact |-> exact, header |-> h, party |-> "D"]

MCTables ==
  [kind : {"charge", "commission"}, configurations : {{ToHeader(TRUE, t1), ToHeader(FALSE, t2)}},
   headers : [{t1, t2} -> MCHeader], details : {{OneDetail}}]
    \cup
  [kind : {"charge", "commission"},
   configurations : {{ToHeader(FALSE, t2)}, {ToHeader(FALSE, t2), ToHeader(FALSE, t1)}},
   headers : {[t \in {t1, t2} |-> SimpleHeader(fixed)] : fixed \in BOOLEAN},
   details : {{d, e} : d, e \in MCDetail}]
    \cup
  [kind : {"charge", "commission"}, configurations : {{ToHeader(FALSE, t1)}},
   headers : {[t \in {t1, t2} |-> SimpleHeader(TRUE)]}, details : {{d} : d \in MCNegative}]

-----------------------------------------------------------------------------
(* An onboarding journey with a node of every type.                         *)
MCNodeType ==
  [start |-> "START", otp |-> "OTP_VERIFICATION", handoff |-> "CHANNEL_HANDOFF", kyc |-> "KYC",
   wallet |-> "WALLET_ALLOCATION", decision |-> "DECISION", manual |-> "MANUAL_REVIEW",
   complete |-> "END", rejected |-> "END"]

JEdge(from, outcome, to) == [from |-> from, outcome |-> outcome, to |-> to]

MCEdge ==
  {JEdge("start", "SUCCESS", "otp"), JEdge("otp", "SUCCESS", "handoff"),
   JEdge("handoff", "SUCCESS", "kyc"), JEdge("kyc", "APPROVED", "wallet"),
   JEdge("kyc", "REJECTED", "rejected"), JEdge("wallet", "SUCCESS", "decision"),
   JEdge("decision", "APPROVED", "complete"), JEdge("decision", "MANUAL_REVIEW", "manual"),
   JEdge("decision", "REJECTED", "rejected"), JEdge("manual", "APPROVED", "complete"),
   JEdge("manual", "REJECTED", "rejected")}

(* Every choice among eight edges of a start, two steps and an end.         *)
To(node, outcome) == [to |-> node, outcome |-> outcome]

MCNodes == [s |-> "START", x |-> "STEP", y |-> "STEP", e |-> "END"]

EdgeChoices(edges) == {SelectSeq(edges, LAMBDA edge : edge \in E) : E \in SUBSET {edges[i] : i \in DOMAIN edges}}

MCGraph ==
  {[type |-> MCNodes, entry |-> "s", edges |-> edges] :
     edges \in [s : EdgeChoices(<<To("x", "SUCCESS"), To("y", "FAILURE")>>),
                x : EdgeChoices(<<To("y", "SUCCESS"), To("e", "FAILURE"), To("x", "SUCCESS")>>),
                y : EdgeChoices(<<To("x", "FAILURE"), To("e", "SUCCESS")>>),
                e : EdgeChoices(<<To("x", "SUCCESS")>>)]}

-----------------------------------------------------------------------------
(* Policies for one category and band, for all scores of the category, and  *)
(* for any category: two calls at once on two policies of one scope; one    *)
(* call at a time on two policies of any.                                   *)
MCScope(category, band) == [product |-> "loan", category |-> category, currency |-> "none", band |-> band]
MCPolicyScope == {MCScope("gold", "low"), MCScope("gold", "all"), MCScope("ANY", "all")}
MCBudget == {[masters |-> 2, scopes |-> {MCScope("gold", "all")}, inTurn |-> TRUE, atOnce |-> 2, calls |-> 7],
             [masters |-> 2, scopes |-> MCPolicyScope, inTurn |-> TRUE, atOnce |-> 1, calls |-> 7]}

Act(type, value) == [type |-> type, value |-> value]
PolicyRule(group, onMatch, onNoMatch, onFailure, stops) ==
  [group |-> group, onMatch |-> onMatch, onNoMatch |-> onNoMatch, onFailure |-> onFailure,
   stopOnMatch |-> stops, stopOnNoMatch |-> FALSE]

MCRules == <<
  PolicyRule("g", Act("SET_LIMIT_FROM_VALUE_MULTIPLIER", 2), Act("CONTINUE", 0),
             Act("MANUAL_REVIEW", 0), FALSE),
  PolicyRule("g", Act("SET_LIMIT_FIXED", 1), Act("ADD_LIMIT_FIXED", 2),
             Act("CAP_LIMIT_FIXED", 1), TRUE),
  PolicyRule("", Act("CAP_LIMIT_FROM_VALUE_MULTIPLIER", 1), Act("SUBTRACT_LIMIT_FIXED", 1),
             Act("REJECT", 0), FALSE)>>

MCPolicy ==
  {[base |-> base, minimum |-> 2, maximum |-> 2, auto |-> auto, otherwise |-> otherwise,
    rules |-> MCRules] :
     base \in {0, 2}, auto \in BOOLEAN, otherwise \in {"REJECTED", "MANUAL_REVIEW"}}

(* The console with the setup, two entries and no polls; with one poll; with *)
(* requests that are lost.                                                  *)
MCConsole == {[polls |-> 0, mounts |-> 2, offline |-> TRUE, lossy |-> FALSE],
              [polls |-> 1, mounts |-> 2, offline |-> FALSE, lossy |-> FALSE],
              [polls |-> 1, mounts |-> 1, offline |-> FALSE, lossy |-> TRUE]}

(* The studio: a commission, fixed at first, with three edits on the canvas; *)
(* a charge, with two ranges, with one; an edit in any mode beside a        *)
(* request; and requests for a flow at every stage.                         *)
MCVisual == {"visual"}
MCStudio ==
  [target : {"commission"}, modes : {MCVisual}, edits : {3}, requests : {0}, status : {"DRAFT"}, maker : {"me"}]
    \cup [target : {"charge"}, modes : {MCVisual}, edits : {1}, requests : {0}, status : {"DRAFT"}, maker : {"me"}]
    \cup [target : {"commission"}, modes : {{"visual", "manual", "json"}}, edits : {1}, requests : {1},
          status : {"DRAFT"}, maker : {"other"}]
    \cup [target : {"commission"}, modes : {MCVisual}, edits : {0}, requests : {3},
          status : {"DRAFT", "APPROVED"}, maker : {"me"}]
    \cup [target : {"commission"}, modes : {MCVisual}, edits : {0}, requests : {2},
          status : {"SUBMITTED"}, maker : {"me", "other"}]
StudioRange(min, max, calc) == [id |-> 1, min |-> min, max |-> max, calc |-> calc]
MCText == {[enabled |-> TRUE, mode |-> mode, default |-> default, calcs |-> calcs, ranges |-> <<StudioRange(1, -1, 1)>>] :
             mode \in {"FIXED", "FLEXIBLE"}, default \in {0, 2}, calcs \in {<<>>, <<[id |-> 1, rule |-> Flat]>>}}
MCTyped == {Share, PriceRule("PERCENTAGE", 101, -1, -1)}

MCRequest == [requested : {1, 2}, exposure : {0}, reserved : {0, 1}, simulation : BOOLEAN]
===============================================================================
