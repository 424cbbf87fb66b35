------------------------------- MODULE MCGateWork -------------------------------
(***************************************************************************)
(* Bounds for GateWork, and the process graph against its reference on all *)
(* graphs of up to two nodes out of three names with up to two transitions.*)
(***************************************************************************)
EXTENDS GateWork, TLC

ThreadFile == [t \in Threads |-> t]

\* Threads go with their files; nothing tells them, the items or the binders apart.
Alike == Permutations(Threads) \cup Permutations(Items) \cup Permutations(Binders)

\* The registry of run_gate_work, an empty one and one with another version.
ThreeRegistries ==
    {[name \in {"run_gate_worker"} |-> "1"],
     [name \in {} |-> "1"],
     [name \in {"run_gate_worker"} |-> "2"]}

Names == {"discord_command_received", "run_gate_worker", "other"}
SeqsUpTo(S, n) == UNION {[1..k -> S] : k \in 0..n}
SmallGraphs ==
    [nodes : SeqsUpTo(Names, 2),
     transitions : SeqsUpTo([source : Names, target : Names, bounded : BOOLEAN], 2)]

\* Where a source leads, in words: to the target of the transition from it that
\* comes before all others, if the graph has that node.
LeadsTo(graph, source, node) ==
    \E i \in DOMAIN graph.transitions :
        /\ graph.transitions[i].source = source
        /\ graph.transitions[i].target = node
        /\ \A j \in 1..(i - 1) : graph.transitions[j].source # source
        /\ \E n \in DOMAIN graph.nodes : graph.nodes[n] = node

\* next_node finds where a source leads, and in a graph that validate accepts it
\* finds a node for every source of a transition.
ASSUME GraphsAreRouted ==
    \A graph \in SmallGraphs, source \in Names :
        /\ \A node \in Names : NextNode(graph, source) = node <=> LeadsTo(graph, source, node)
        /\ Validate(graph) = "ok" =>
             (NextNode(graph, source) = NoNode <=>
                \A i \in DOMAIN graph.transitions : graph.transitions[i].source # source)

ASSUME DefaultGraphIsValid == Validate(DefaultGateGraph) = "ok"

===============================================================================
