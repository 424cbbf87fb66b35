------------------------------ MODULE ProcessGraph ------------------------------
(***************************************************************************)
(* The supervisor's process graph: validation and the choice of the next   *)
(* node.  A graph is a record of a sequence of node names and a sequence   *)
(* of transitions; nothing reads the required inputs of a node, and they   *)
(* are left out.                                                           *)
(***************************************************************************)
EXTENDS Integers, Sequences

CONSTANT NoNode     \* what next_node returns when it finds none

NodeNames(graph) == {graph.nodes[i] : i \in DOMAIN graph.nodes}

\* The position at which a scan from the front stops.
First(positions) == CHOOSE i \in positions : \A j \in positions : i <= j

TransitionError(graph, transition) ==
    IF {transition.source, transition.target} \subseteq NodeNames(graph)
    THEN IF transition.bounded THEN "none" ELSE "unbounded_retry"
    ELSE "unknown_node"

\* validate reports the first thing that is wrong.
Validate(graph) ==
    LET wrong == {i \in DOMAIN graph.transitions :
                    TransitionError(graph, graph.transitions[i]) # "none"}
    IN  IF graph.nodes = <<>> THEN "empty_graph"
        ELSE IF wrong = {} THEN "ok"
        ELSE TransitionError(graph, graph.transitions[First(wrong)])

\* The first transition from the source decides, whether or not its target is a
\* node of the graph.
NextNode(graph, source) ==
    LET from == {i \in DOMAIN graph.transitions : graph.transitions[i].source = source}
    IN  IF from = {} THEN NoNode
        ELSE LET target == graph.transitions[First(from)].target
             IN  IF target \in NodeNames(graph) THEN target ELSE NoNode

DefaultGateGraph ==
    [nodes |-> <<"discord_command_received", "run_gate_worker">>,
     transitions |-> <<[source |-> "discord_command_received",
                        target |-> "run_gate_worker",
                        bounded |-> TRUE]>>]

===============================================================================
