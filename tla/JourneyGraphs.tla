------------------------------ MODULE JourneyGraphs ------------------------------
(***************************************************************************)
(* The checks a journey graph passes before it is stored, submitted or     *)
(* activated, with the queue that walks it from its entry, and the         *)
(* simulation an administrator runs on a stored graph.  Node keys are      *)
(* distinct; the fields a node type requires are present.                  *)
(***************************************************************************)
EXTENDS Naturals, FiniteSets, Sequences

CONSTANTS
  GraphNode, EdgeOutcome,
  CandidateGraph        \* graphs: the type of each node, the entry, and of each node the transitions
                        \* whose from it is, in the order of their priority

ASSUME GraphAssumption ==
  /\ {"SUCCESS", "FAILURE"} \subseteq EdgeOutcome /\ IsFiniteSet(GraphNode) /\ "nowhere" \notin GraphNode
  /\ \A g \in CandidateGraph :
       /\ g.type \in [GraphNode -> {"START", "STEP", "END"}] /\ g.entry \in GraphNode
       /\ g.edges \in [GraphNode -> Seq([to : GraphNode, outcome : EdgeOutcome])]

VARIABLES
  graph,                \* the graph under validation, then under simulation
  walk,                 \* the queue of node keys and the reachable set of validateGraph
  trace                 \* the simulation: where it is, what it visited, how often it looked at a node

graphVars == <<graph, walk, trace>>

GraphInit ==
  /\ graph \in CandidateGraph
  /\ walk = [queue |-> <<graph.entry>>, reached |-> {}]
  /\ trace = [at |-> "nowhere", visited |-> {}, looks |-> 0, ended |-> FALSE]

Successors(n) == {graph.edges[n][i].to : i \in DOMAIN graph.edges[n]}

(* Faulty: only the edges of success are followed.                          *)
FaultyOutgoing(n) == SelectSeq(graph.edges[n], LAMBDA edge : edge.outcome = "SUCCESS")

Outgoing(n) == graph.edges[n]

(* One turn of the loop: the head of the queue, when it is new, queues     *)
(* the nodes its edges lead to.                                             *)
WalkOn ==
  LET n == Head(walk.queue)
      next == Outgoing(n)
  IN  /\ walk.queue # <<>>
      /\ walk' = IF n \in walk.reached THEN [walk EXCEPT !.queue = Tail(@)]
                 ELSE [queue |-> Tail(walk.queue) \o [i \in DOMAIN next |-> next[i].to],
                       reached |-> walk.reached \cup {n}]
      /\ UNCHANGED <<graph, trace>>

Walked == walk.queue = <<>>

ValidGraph ==
  /\ graph.type[graph.entry] = "START"
  /\ \E n \in GraphNode : graph.type[n] = "END"
  /\ \A n \in GraphNode : n \notin Successors(n) /\ (graph.type[n] = "END" => Successors(n) = {})
  /\ walk.reached = GraphNode

SimulateGraph ==
  /\ Walked /\ ValidGraph /\ trace.at = "nowhere" /\ ~trace.ended
  /\ trace' = [trace EXCEPT !.at = graph.entry]
  /\ UNCHANGED <<graph, walk>>

(* The outcome asked for, else success, else the first edge.                *)
Chosen(n, asked) ==
  LET next == Outgoing(n)
      With(outcome) == {i \in DOMAIN next : next[i].outcome = outcome}
      first(S) == next[CHOOSE i \in S : \A j \in S : i <= j].to
  IN  IF next = <<>> THEN "nowhere"
      ELSE IF With(asked) # {} THEN first(With(asked))
      ELSE IF With("SUCCESS") # {} THEN first(With("SUCCESS")) ELSE next[1].to

Stops(n) == graph.type[n] = "END" \/ n \in trace.visited

(* The loop also ends when it has looked at more nodes than there are.      *)
SimulateOn(asked) ==
  LET n == trace.at
      next == Chosen(n, asked)
  IN  /\ n # "nowhere" /\ ~trace.ended
      /\ trace' = IF Stops(n) \/ next = "nowhere"
                  THEN [trace EXCEPT !.looks = @ + 1, !.ended = TRUE, !.visited = @ \cup {n}]
                  ELSE [at |-> next, visited |-> trace.visited \cup {n}, looks |-> trace.looks + 1,
                        ended |-> trace.looks + 1 > Cardinality(GraphNode)]
      /\ UNCHANGED <<graph, walk>>

GraphNext == WalkOn \/ SimulateGraph \/ \E asked \in EdgeOutcome : SimulateOn(asked)

GraphTypeOK ==
  /\ graph \in CandidateGraph
  /\ walk.queue \in Seq(GraphNode) /\ walk.reached \subseteq GraphNode
  /\ trace \in [at : GraphNode \cup {"nowhere"}, visited : SUBSET GraphNode, looks : 0..(Cardinality(GraphNode) + 1),
                ended : BOOLEAN]

(* The nodes an entry leads to: those in every set closed under the edges.  *)
ClosedGraph(S) == \A n \in S : Successors(n) \subseteq S
Reachable == {n \in GraphNode : \A S \in SUBSET GraphNode : graph.entry \in S /\ ClosedGraph(S) => n \in S}

(* The walk finds exactly the nodes the entry leads to, and a simulation    *)
(* follows edges of a valid graph to an end, to a node that nothing leaves  *)
(* or to one it has been at, before its bound cuts it.                      *)
GraphsJudged ==
  /\ Walked => walk.reached = Reachable
  /\ trace.at # "nowhere" => ValidGraph /\ trace.visited \cup {trace.at} \subseteq Reachable
  /\ trace.ended => \/ graph.type[trace.at] = "END"
                    \/ Successors(trace.at) = {}
                    \/ trace.looks > Cardinality(trace.visited)
=============================================================================
