---------------------------- MODULE GraphStorage ----------------------------
(***************************************************************************)
(* A test input of the structured fuzzer: a list of 16 bit ops and a list  *)
(* of data bytes (graph_storage.rs), read back node by node (graph_iter.rs)*)
(* with the node types of the target (spec.rs).  A node is one op for its  *)
(* type and one op for every value it consumes (inputs), borrows           *)
(* (passthroughs) and produces (outputs), in that order.                   *)
(***************************************************************************)
EXTENDS Naturals, Integers, SequencesExt

CONSTANTS VTypes,      \* the value types
          Nodes        \* NodeSpec of every node type id

\* AtomicSize of a node's data: none, Fixed(n), or Dynamic() of min to max
\* elements of size elem behind a two byte header.
Fixed(n) == [kind |-> "Fixed", n |-> n]
Dynamic(min, max, elem) == [kind |-> "Dynamic", min |-> min, max |-> max, elem |-> elem]
NoData == [kind |-> "None"]

min_data_size(d) ==
    CASE d.kind = "None" -> 0 [] d.kind = "Fixed" -> d.n [] d.kind = "Dynamic" -> 2

size(n) == Len(n.inputs) + Len(n.passthroughs) + Len(n.outputs)

Count(s, v) == Cardinality({i \in 1 .. Len(s) : s[i] = v})

required_values(n, v) == Count(n.inputs, v) + Min({1, Count(n.passthroughs, v)})

biggest_ops == Max({1 + size(Nodes[t]) : t \in DOMAIN Nodes})
biggest_data == Max({min_data_size(Nodes[t].data) : t \in DOMAIN Nodes})

\* OpIter: what each op of a node of type t is.
Kinds(t) ==
    LET Each(k, s) == [i \in 1 .. Len(s) |-> [k |-> k, vt |-> s[i]]]
    IN  << [k |-> "Node", vt |-> 0] >> \o Each("Get", Nodes[t].inputs)
          \o Each("Pass", Nodes[t].passthroughs) \o Each("Set", Nodes[t].outputs)

OpIter(node) ==
    LET ks == Kinds(node.id)
    IN  [i \in 1 .. Len(ks) |-> [k |-> ks[i].k, vt |-> ks[i].vt, id |-> node.ops[i]]]

\* The bytes of data that a node of type t takes at the head of data; -1 when
\* the header of a Dynamic one is past the end.
DataLen(t, data) ==
    LET d == Nodes[t].data
    IN  CASE d.kind # "Dynamic" -> min_data_size(d)
          [] d.kind = "Dynamic" /\ Len(data) < 2 -> -1
          [] d.kind = "Dynamic" /\ Len(data) >= 2 -> data[1] + 256 * data[2] + 2

\* NodeIter::next on a non-empty rest of a graph panics.
NextPanics(g) ==
    \/ g.ops[1] \notin DOMAIN Nodes
    \/ 1 + size(Nodes[g.ops[1]]) > Len(g.ops)
    \/ DataLen(g.ops[1], g.data) = -1
    \/ DataLen(g.ops[1], g.data) > Len(g.data)

\* NodeIter: the nodes of a graph, with whether it reads them all.
RECURSIVE NodeIter(_)
NodeIter(g) ==
    IF g.ops = << >> THEN [nodes |-> << >>, ok |-> TRUE]
    ELSE IF NextPanics(g) THEN [nodes |-> << >>, ok |-> FALSE]
    ELSE LET t    == g.ops[1]
             n    == 1 + size(Nodes[t])
             len  == DataLen(t, g.data)
             rest == NodeIter([ops  |-> SubSeq(g.ops, n + 1, Len(g.ops)),
                               data |-> SubSeq(g.data, len + 1, Len(g.data))])
         IN  [nodes |-> << [id |-> t, ops |-> SubSeq(g.ops, 1, n),
                            data |-> SubSeq(g.data, 1, len)] >> \o rest.nodes,
              ok    |-> rest.ok]

node_iter(g) == NodeIter(g).nodes

EmptyGraph == [ops |-> << >>, data |-> << >>]

\* calc_edges: walks the ops of a graph with the values that are live (vt, id and
\* the op that produced it), and notes for every value used where it comes from.
\* ok is FALSE when an unwrap of a value that is not live would panic.  A port is
\* the position of an op in its node.
EdgeStep(acc, op) ==
    LET at   == IF op.k = "Node" THEN [node |-> acc.at.node + 1, port |-> 1]
                ELSE [acc.at EXCEPT !.port = @ + 1]
        same == {l \in acc.live : l.vt = op.vt /\ l.id = op.id}
    IN  CASE op.k = "Node" -> [acc EXCEPT !.at = at]
          [] op.k = "Set"  -> [acc EXCEPT !.at = at,
                                          !.live = (@ \ same) \cup {[vt |-> op.vt, id |-> op.id, at |-> at]}]
          [] op.k \in {"Get", "Pass"} ->
               [acc EXCEPT !.at = at, !.ok = @ /\ same # {},
                           !.live = IF op.k = "Get" THEN @ \ same ELSE @,
                           !.edges = @ \cup {[src |-> same, dst |-> at, live |-> acc.live]}]

NoEdges == [ok |-> TRUE, at |-> [node |-> 0, port |-> 0], live |-> {}, edges |-> {}]

calc_edges(nodes) ==
    FoldLeft(EdgeStep, NoEdges, FlattenSeq([i \in 1 .. Len(nodes) |-> OpIter(nodes[i])]))
=============================================================================
