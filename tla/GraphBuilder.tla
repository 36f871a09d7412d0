---------------------------- MODULE GraphBuilder ----------------------------
(***************************************************************************)
(* The builder that writes a graph into the shared payload buffer node by  *)
(* node (graph_builder.rs, RefGraph of graph_storage.rs).  Every operation *)
(* is the set of its possible results: a builder b holds the graph written *)
(* so far, the values that are available and whether the code panicked.    *)
(***************************************************************************)
EXTENDS ValueState, GraphStorage

\* The buffers are ops_len ops and data_len bytes long.
NewBuilder == [ops |-> << >>, data |-> << >>, state |-> [v \in VTypes |-> EmptyValues], panic |-> FALSE]

start(b) == [ops |-> << >>, data |-> << >>, panic |-> FALSE,
             state |-> [v \in VTypes |-> clear(b.state[v])]]

Panicked(b) == {[b EXCEPT !.panic = TRUE]}

\* RefGraph::append_op drops the op when the buffer is full.
append_op(b, op, cap) == IF Len(b.ops) < cap.ops THEN [b EXCEPT !.ops = Append(@, op)] ELSE b

data_available(b, cap) == cap.data - Len(b.data)
ops_available(b, cap) == cap.ops - Len(b.ops)

\* append_data(..).unwrap()
append_data(b, data, cap) ==
    IF Len(b.data) + Len(data) <= cap.data THEN {[b EXCEPT !.data = @ \o data]} ELSE Panicked(b)


is_full(b, cap) ==
    \/ biggest_data >= data_available(b, cap)
    \/ biggest_ops >= ops_available(b, cap)

is_available(b, t) ==
    \A v \in VTypes : Len(b.state[v].ids) >= required_values(Nodes[t], v)

\* RefGraph::can_append looks at the data only.
can_append(b, node, cap) == Len(b.data) + Len(node.data) < cap.data

can_append_node(b, node, cap) == is_available(b, node.id) /\ can_append(b, node, cap)

\* An op that uses one of the values choices: the op is written, and a consumed value
\* is taken.  No choice is the panic "couldn get random input", an id that is not
\* available the panic "unknown new id".
Use(b, op, choices, cap) ==
    IF choices = {} THEN Panicked(b)
    ELSE UNION {IF op.k = "Pass" THEN {append_op(b, id, cap)}
                ELSE IF ~Known(b.state[op.vt], id) THEN Panicked(b)
                ELSE {append_op([b EXCEPT !.state[op.vt] = take_new_input(@, id)], id, cap)} :
                id \in choices}

rename_and_relink_op_val(b, op, cap) ==
    CASE op.k = "Node" -> {append_op(b, op.id, cap)}
      [] op.k = "Set" ->
           LET vs == insert_old_id(b.state[op.vt], op.id)
           IN  {append_op([b EXCEPT !.state[op.vt] = vs], vs.cur_id, cap)}
      [] op.k \in {"Get", "Pass"} ->
           Use(b, op, get_old_available_input(b.state[op.vt], op.id), cap)

\* A step applied to every possible builder that has not panicked.
Each(bs, Step(_)) == UNION {IF b.panic THEN {b} ELSE Step(b) : b \in bs}

append_slice(b, node, cap) ==
    FoldLeft(LAMBDA bs, op : Each(bs, LAMBDA c : rename_and_relink_op_val(c, op, cap)), {b}, OpIter(node))

append_node(b, node, cap) ==
    IF can_append_node(b, node, cap)
    THEN Each(append_slice(b, node, cap), LAMBDA c : append_data(c, node.data, cap))
    ELSE {b}

\* PrimitiveMutator::mutate in place: some byte of the payload changes, never
\* the length of the data nor the header of a Dynamic one.
append_mutated(b, node, cap) ==
    LET head == IF Nodes[node.id].data.kind = "Dynamic" THEN 2 ELSE 0
    IN  UNION {append_data(b, d, cap) :
               d \in {node.data} \cup {[node.data EXCEPT ![i] = 1 - @] : i \in head + 1 .. Len(node.data)}}

append_node_mutated(b, node, cap) ==
    IF can_append_node(b, node, cap)
    THEN Each(append_slice(b, node, cap), LAMBDA c : append_mutated(c, node, cap))
    ELSE {b}

\* DataVec: gen_num_array_elems elements, with their length in a header.
gen_num_array_elems(d, max_data) ==
    IF max_data \div d.elem > d.min THEN d.min .. Min({d.max, max_data \div d.elem}) - 1
    ELSE {max_data \div d.elem}

append_generate(b, t, cap) ==
    LET d == Nodes[t].data
    IN  CASE d.kind = "None" -> {b}
          [] d.kind = "Fixed" -> append_data(b, [i \in 1 .. d.n |-> 0], cap)
          [] d.kind = "Dynamic" ->
               UNION {append_data(b, << (n * d.elem) % 256, (n * d.elem) \div 256 >> \o [i \in 1 .. n * d.elem |-> 0], cap) :
                      n \in gen_num_array_elems(d, data_available(b, cap) - 2)}

GenerateOp(b, op, cap) ==
    LET new == insert_new_id(b.state[op.vt])
    IN  IF op.k = "Set" THEN {append_op([b EXCEPT !.state[op.vt] = new], new.cur_id, cap)}
        ELSE Use(b, op, get_random_input(b.state[op.vt]), cap)

can_generate_node(b, t, cap) ==
    /\ size(Nodes[t]) + 1 <= ops_available(b, cap)
    /\ min_data_size(Nodes[t].data) <= data_available(b, cap)

append_random_node(b, t, cap) ==
    IF can_generate_node(b, t, cap)
    THEN Each(FoldLeft(LAMBDA bs, op : Each(bs, LAMBDA c : GenerateOp(c, op, cap)),
                       {append_op(b, t, cap)}, Tail(Kinds(t))),
              LAMBDA c : append_generate(c, t, cap))
    ELSE {b}

\* One round of append_random: the node types pick_available_type may choose.
\* InvalidSpecs is unwrapped by the callers.
append_random(b, cap) ==
    LET ts == {t \in DOMAIN Nodes : is_available(b, t)}
    IN  IF ts = {} THEN Panicked(b) ELSE UNION {append_random_node(b, t, cap) : t \in ts}
=============================================================================
