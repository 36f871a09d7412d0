---------------------------- MODULE GraphMutator ----------------------------
(***************************************************************************)
(* The mutation strategies (mutator.rs) as the fuzzer runs them: a graph   *)
(* of the queue is turned into a new one in the shared payload buffer, the *)
(* result is executed and may enter the queue.  A strategy makes its       *)
(* random choices, then handles one node after the other: todo holds what  *)
(* it still has to write.                                                  *)
(***************************************************************************)
EXTENDS GraphBuilder, GraphInterpreter

CONSTANTS Scenarios,   \* each one the size of the buffers, the strategies used, and bounds
                       \* on the queue and on the nodes generated at once (50, 100 and
                       \* up to 1515 in the code)
          MaxRepeat,   \* bound: nodes repeated (3 in the code)
          MaxSplice    \* bound: nodes spliced in (15 in the code)

ASSUME SpecHasSource ==
    \E t \in DOMAIN Nodes : Nodes[t].inputs = << >> /\ Nodes[t].passthroughs = << >>

VARIABLES scenario, queue, orig, todo, b, strategy, origin, fail

vars == << scenario, queue, orig, todo, b, strategy, origin, fail >>

cap == scenario.cap
Graph(bb) == [ops |-> bb.ops, data |-> bb.data]

\* origin: for every node written, the node of orig it is a copy of (0 for a node
\* that was generated or comes from another graph).  It only serves the properties.
Init ==
    /\ scenario \in Scenarios
    /\ queue = {} /\ orig = EmptyGraph /\ todo = << >> /\ b = NewBuilder
    /\ strategy = "idle" /\ origin = << >> /\ fail = ""

\* What is left to do for node i of orig: check tells whether is_full is looked at
\* first.
Item(how, node, i, check) == [how |-> how, node |-> node, i |-> i, check |-> check]
Items(how, g, from, to, check) ==
    [k \in 1 .. to - from |-> Item(how, node_iter(g)[from + k], from + k, check)]
Generate(n) == [k \in 1 .. n |-> Item("random", 0, 0, TRUE)]

Start(name, g, items) ==
    /\ strategy' = name /\ orig' = g /\ todo' = items
    /\ b' = start(b) /\ origin' = << >>
    /\ UNCHANGED << scenario, queue, fail >>

Enabled(name) ==
    /\ strategy = "idle" /\ fail = ""
    /\ name \in scenario.strategies

Ready(name, g) == Enabled(name) /\ g.ops # << >>

\* The fuzzer fills an empty queue by generating, and mutate() generates when the
\* input has no ops.
generate ==
    /\ Enabled("generate")
    /\ queue = {} \/ EmptyGraph \in queue
    /\ \E n \in 1 .. scenario.generate : Start("generate", EmptyGraph, Generate(n))

\* gen_tail_generation_strategy: the last nodes are dropped, a power of two
\* percent of them.
drop_last(n) ==
    {IF k >= n THEN 0 ELSE k : k \in {(2 ^ e * n) \div 100 : e \in 0 .. 5}}

generate_tail(g) ==
    /\ Ready("generate_tail", g)
    /\ LET n == Len(node_iter(g))
       IN  \E d \in drop_last(n), k \in 1 .. scenario.generate :
             Start("generate_tail", g, Items("copy", g, 0, n - d, TRUE) \o Generate(k))

mutate_data(g) ==
    /\ Ready("data_only", g)
    /\ Start("data_only", g, Items("data", g, 0, Len(node_iter(g)), TRUE))

splice_random(g) ==
    /\ Ready("splice_random", g)
    /\ Start("splice_random", g, Items("pick", g, 0, Len(node_iter(g)), TRUE))

repeat(g) ==
    /\ Ready("repeat", g)
    /\ LET n == Len(node_iter(g))
       IN  \E m \in 0 .. MaxRepeat, pos \in 0 .. n - 1 :
             LET again == Items("mutate", g, pos, Min({pos + m, n}), TRUE)
             IN  Start("repeat", g, Items("copy", g, 0, pos, TRUE)
                         \o FlattenSeq([k \in 1 .. m |-> again]) \o Items("copy", g, pos, n, TRUE))

\* The splice points are popped from the end of a list in ascending order, so the
\* largest one is the only one used.  No node of the other graph and not the node
\* at the splice point is checked for room.
splice(g) ==
    /\ Ready("splice", g)
    /\ LET n == Len(node_iter(g))
       IN  \E p \in 0 .. n - 1, other \in queue :
             IF other.ops = << >>
             THEN fail' = "gen_range(0,0)" /\ UNCHANGED << scenario, queue, orig, todo, b, strategy, origin >>
             ELSE LET m == Len(node_iter(other))
                  IN  \E from \in 0 .. m - 1, len \in 1 .. MaxSplice :
                        LET in == Items("copy", other, from, Min({from + len, m}), FALSE)
                        IN  Start("splice", g, Items("copy", g, 0, p, TRUE)
                              \o [k \in 1 .. Len(in) |-> [in[k] EXCEPT !.i = 0, !.check = (k = 1)]]
                              \o Items("copy", g, p, p + 1, FALSE) \o Items("copy", g, p + 1, n, TRUE))

\* Minimization drops one node at a time, from a graph of more than five nodes also
\* a block of less than half of them; nothing is checked for room.
Blocks(n) ==
    {<< i, i + 1 >> : i \in 0 .. n - 1} \cup
    {<< i, i + len >> : i \in 0 .. n - 2, len \in IF n > 5 THEN 1 .. n \div 2 - 1 ELSE {}}

drop_range(g) ==
    /\ Ready("minimize", g)
    /\ LET n == Len(node_iter(g))
       IN  \E r \in {x \in Blocks(n) : x[2] <= n} :
             Start("minimize", g, Items("copy", g, 0, r[1], FALSE) \o Items("copy", g, r[2], n, FALSE))

\* The builders that the first item of todo may leave behind.  origin follows
\* whether a node was written.
Write(bs, i, rest) ==
    \E c \in bs :
      /\ b' = c
      /\ fail' = IF c.panic THEN "panic" ELSE ""
      /\ origin' = IF Len(c.ops) > Len(b.ops) THEN Append(origin, i) ELSE origin
      /\ todo' = rest
      /\ UNCHANGED << scenario, queue, orig, strategy >>

Stop == todo' = << >> /\ UNCHANGED << scenario, queue, orig, b, strategy, origin, fail >>

Step ==
    /\ todo # << >> /\ fail = ""
    /\ LET it == Head(todo)
           n  == it.node
           rest == Tail(todo)
       IN  IF it.check /\ is_full(b, cap) THEN Stop
           ELSE \/ it.how \in {"copy", "data", "pick"} /\ Write(append_node(b, n, cap), it.i, rest)
                \/ it.how \in {"mutate", "data", "pick"} /\ Write(append_node_mutated(b, n, cap), it.i, rest)
                \/ it.how = "random" /\ Write(append_random(b, cap), 0, rest)
                \/ it.how = "pick" /\ Write({b}, 0, rest)                    \* DropNode
                \/ /\ it.how = "pick"                                        \* SkipAndGenerate
                   /\ \E k \in 1 .. scenario.generate : Write({b}, 0, Generate(k) \o rest)

\* The input is executed and, when it shows something new, kept.
Execute ==
    /\ strategy # "idle" /\ todo = << >> /\ fail = ""
    /\ \/ UNCHANGED queue
       \/ Cardinality(queue) < scenario.queue /\ queue' = queue \cup {Graph(b)}
    /\ strategy' = "idle" /\ orig' = EmptyGraph /\ origin' = << >>
    /\ UNCHANGED << scenario, todo, b, fail >>

Mutate(g) ==
    \/ generate_tail(g) \/ mutate_data(g) \/ splice_random(g) \/ repeat(g) \/ splice(g) \/ drop_range(g)

Next == generate \/ (\E g \in queue : Mutate(g)) \/ Step \/ Execute

Spec == Init /\ [][Next]_vars
-----------------------------------------------------------------------------
\* The values the builder offers are exactly the ones that the graph written so
\* far leaves unconsumed, each is found in the sampling list through the index,
\* and an old name leads to an available value.  So no panic of the builder is
\* reached: no value is taken twice, none is missing after can_append_node or
\* is_available held, data that was found to fit fits.
BuilderKnowsTheGraph ==
    /\ ~b.panic
    /\ \A v \in VTypes :
        LET vs   == b.state[v]
            live == {l.id : l \in {m \in calc_edges(node_iter(Graph(b))).live : m.vt = v}}
        IN  /\ get_random_input(vs) = live
            /\ DOMAIN vs.index = live
            /\ \A id \in live : vs.index[id] \in 1 .. Len(vs.ids) /\ vs.ids[vs.index[id]] = id
            /\ \A o \in DOMAIN vs.new : vs.new[o] \in live



\* A copied node is linked to the copies of the nodes it was linked to: when the
\* value it used in the original was copied too and is still available, it is the
\* one it gets.
LinkedAsBefore ==
    LET O == calc_edges(node_iter(orig)).edges
        G == calc_edges(node_iter(Graph(b))).edges
        CopyOf(l, s) == l.vt = s.vt /\ l.at.port = s.at.port /\ origin[l.at.node] = s.at.node
    IN  \A e \in G, o \in O :
          (origin[e.dst.node] = o.dst.node /\ e.dst.port = o.dst.port) =>
             \A s \in o.src : LET C == {l \in e.live : CopyOf(l, s)}
                              IN  C # {} => e.src \subseteq C

\* The strategies that only copy nodes of one graph keep its links.
CopiesKeepTheirLinks ==
    strategy \in {"data_only", "minimize", "generate_tail"} => LinkedAsBefore
=============================================================================
