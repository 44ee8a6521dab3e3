--------------------------- MODULE GraphValidator --------------------------
(***************************************************************************)
(* validateGraph: whether the graph of a workflow is accepted.  The checks *)
(* of nodes and edges are one step; the depth-first search for a cycle and *)
(* the breadth-first search from the trigger run node by node, with the    *)
(* edges of a node in any order, so that every order of the list is meant. *)
(***************************************************************************)
EXTENDS Naturals, Sequences

CONSTANTS
  NodeList,   \* lists of nodes; a node is [id, type, configured]
  NodeId,
  Stranger    \* an id that no node has

VARIABLES
  graph,      \* [nodes, edges]: the argument
  phase,      \* which check is running, or the verdict
  color,      \* color[i] of the depth-first search
  stack,      \* its calls: [node, todo], todo the edges not followed yet
  visited,    \* of the breadth-first search
  queue

validatorVars == <<graph, phase, color, stack, visited, queue>>

NodeType == {"trigger", "email", "delay", "end"}

ASSUME NodesAssumption ==
  /\ \A nodes \in NodeList : nodes \in Seq([id: NodeId, type: STRING, configured: BOOLEAN])
  /\ Stranger \notin NodeId

Last(calls) == calls[Len(calls)]

Edges == (SUBSET (NodeId \X NodeId)) \union {{<<i, Stranger>>} : i \in NodeId}

--------------------------------------------------------------------------
Nodes == {graph.nodes[i] : i \in DOMAIN graph.nodes}
Ids == {n.id : n \in Nodes}
OfType(type) == {k \in DOMAIN graph.nodes : graph.nodes[k].type = type}
Trigger == graph.nodes[CHOOSE k \in OfType("trigger") : TRUE].id

\* buildAdjacency
Successors(i) == {e[2] : e \in {d \in graph.edges : d[1] = i}}

ValidatorInit ==
  /\ graph = [nodes |-> << >>, edges |-> {}]
  /\ phase = "new"
  /\ color = [i \in NodeId |-> "white"]
  /\ stack = << >>
  /\ visited = {}
  /\ queue = {}

ValidateGraph(nodes, edges) ==
  /\ phase = "new"
  /\ graph' = [nodes |-> nodes, edges |-> edges]
  /\ phase' = "nodes"
  /\ UNCHANGED <<color, stack, visited, queue>>

\* validateNodeConfig finds no error in the config of the node.
Configured(n) == n.configured

WellFormed ==
  /\ graph.nodes # << >>
  /\ \A i, j \in DOMAIN graph.nodes : graph.nodes[i].id = graph.nodes[j].id => i = j
  /\ \A n \in Nodes : n.type \in NodeType /\ Configured(n)
  /\ \E k \in DOMAIN graph.nodes : OfType("trigger") = {k}
  /\ OfType("end") # {}
  /\ \A e \in graph.edges : e[1] \in Ids /\ e[2] \in Ids

CheckNodes ==
  /\ phase = "nodes"
  /\ phase' = IF WellFormed THEN "cycle" ELSE "rejected"
  /\ UNCHANGED <<graph, color, stack, visited, queue>>

--------------------------------------------------------------------------
Call(i) == [node |-> i, todo |-> Successors(i)]
Caller == SubSeq(stack, 1, Len(stack) - 1)

\* dfs(id) for the next white node of the list.
StartDfs ==
  /\ phase = "cycle"
  /\ stack = << >>
  /\ LET white == {k \in DOMAIN graph.nodes : color[graph.nodes[k].id] = "white"} IN
     IF white = {}
     THEN /\ phase' = "reach"
          /\ queue' = {Trigger}
          /\ UNCHANGED <<color, stack>>
     ELSE LET first == CHOOSE k \in white : \A j \in white : k <= j
              i == graph.nodes[first].id
          IN
          /\ stack' = <<Call(i)>>
          /\ color' = [color EXCEPT ![i] = "gray"]
          /\ UNCHANGED <<phase, queue>>
  /\ UNCHANGED <<graph, visited>>

\* Mutant of FollowEdge: visited nodes are not told from nodes on the path.
FollowEdge_AnyColor(v) ==
  /\ phase = "cycle" /\ stack # << >>
  /\ v \in Last(stack).todo
  /\ IF color[v] # "white"
     THEN phase' = "rejected" /\ UNCHANGED <<color, stack>>
     ELSE LET rest == Append(Caller, [Last(stack) EXCEPT !.todo = @ \ {v}]) IN
          /\ stack' = Append(rest, Call(v))
          /\ color' = [color EXCEPT ![v] = "gray"]
          /\ UNCHANGED phase
  /\ UNCHANGED <<graph, visited, queue>>

FollowEdge(v) ==
  /\ phase = "cycle" /\ stack # << >>
  /\ v \in Last(stack).todo
  /\ IF color[v] = "gray"
     THEN phase' = "rejected" /\ UNCHANGED <<color, stack>>
     ELSE LET rest == Append(Caller, [Last(stack) EXCEPT !.todo = @ \ {v}]) IN
          /\ stack' = IF color[v] = "white" THEN Append(rest, Call(v)) ELSE rest
          /\ color' = IF color[v] = "white" THEN [color EXCEPT ![v] = "gray"] ELSE color
          /\ UNCHANGED phase
  /\ UNCHANGED <<graph, visited, queue>>

EndDfs ==
  /\ phase = "cycle" /\ stack # << >>
  /\ Last(stack).todo = {}
  /\ color' = [color EXCEPT ![Last(stack).node] = "black"]
  /\ stack' = Caller
  /\ UNCHANGED <<graph, phase, visited, queue>>

\* bfsReachable
Visit(i) ==
  /\ phase = "reach"
  /\ i \in queue
  /\ visited' = visited \union {i}
  /\ queue' = (queue \ {i}) \union (IF i \in visited THEN {} ELSE Successors(i))
  /\ UNCHANGED <<graph, phase, color, stack>>

Conclude ==
  /\ phase = "reach" /\ queue = {}
  /\ phase' = IF Ids \subseteq visited THEN "accepted" ELSE "rejected"
  /\ UNCHANGED <<graph, color, stack, visited, queue>>

ValidatorNext ==
  \/ \E nodes \in NodeList, edges \in Edges : ValidateGraph(nodes, edges)
  \/ CheckNodes \/ StartDfs \/ EndDfs \/ Conclude
  \/ \E i \in NodeId : FollowEdge(i) \/ Visit(i)

ValidatorSpec == ValidatorInit /\ [][ValidatorNext]_validatorVars

--------------------------------------------------------------------------
\* Types; white nodes are in no call, gray ones are those of the calls.
ValidatorTypeOK ==
  /\ graph.nodes \in NodeList \union {<< >>} /\ graph.edges \in Edges
  /\ phase \in {"new", "nodes", "cycle", "reach", "accepted", "rejected"}
  /\ color \in [NodeId -> {"white", "gray", "black"}]
  /\ {stack[k].node : k \in DOMAIN stack} = {i \in NodeId : color[i] = "gray"}
  /\ visited \subseteq NodeId /\ queue \subseteq NodeId

\* A path leads from i to j: j is in every set that contains i and that no
\* edge leaves.
LeadsTo(i, j) ==
  \A S \in SUBSET Ids : i \in S /\ (\A k \in S : Successors(k) \subseteq S) => j \in S

\* There is no cycle: no set of nodes has edges from each node into the set.
Acyclic == \A S \in SUBSET Ids : S # {} => \E i \in S : Successors(i) \cap S = {}

\* A graph is accepted exactly if its nodes are well formed with one trigger
\* and an end, it has no cycle, and a path leads from the trigger to every
\* node.
VerdictRight ==
  phase \in {"accepted", "rejected"} =>
    (phase = "accepted" <=> WellFormed /\ Acyclic /\ \A i \in Ids : LeadsTo(Trigger, i))
==========================================================================
