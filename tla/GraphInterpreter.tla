-------------------------- MODULE GraphInterpreter --------------------------
(***************************************************************************)
(* The interpreter that runs a graph in the guest (interpreter.jinja.h,    *)
(* called by start_fuzzing of hypertrash_os).  A run is the list of        *)
(* handlers it calls, each with its ops and the place of its data, and     *)
(* whether no ASSERT failed.                                               *)
(***************************************************************************)
EXTENDS GraphStorage


\* read_<type>: an int or struct is read in place; of a vec, the header is read and
\* skipped, and vals is two bytes behind the place the reader is then at.
read_data(t, g, data_i) ==
    LET d == Nodes[t].data
    IN  IF d.kind # "Dynamic"
        THEN [ok |-> data_i + min_data_size(d) <= Len(g.data),
              vals |-> [at |-> data_i, len |-> min_data_size(d)], data_i |-> data_i + min_data_size(d)]
        ELSE IF data_i + 2 > Len(g.data) THEN [ok |-> FALSE, vals |-> [at |-> 0, len |-> 0], data_i |-> data_i]
        ELSE LET byte_size == g.data[data_i + 1] + 256 * g.data[data_i + 2]
             IN  [ok |-> data_i + 2 + byte_size <= Len(g.data),
                  vals |-> [at |-> data_i + 4, len |-> byte_size], data_i |-> data_i + 2 + byte_size]

\* The loop of interpreter_run from ops_i and data_i on.
RECURSIVE Run(_, _, _)
Run(g, ops_i, data_i) ==
    LET op   == g.ops[ops_i + 1]
        read == read_data(op, g, data_i)
    IN  IF ops_i >= Len(g.ops) THEN [ok |-> TRUE, calls |-> << >>]
        ELSE IF \/ op \notin DOMAIN Nodes
                \/ Len(g.ops) < ops_i + 1 + size(Nodes[op])
                \/ ~read.ok
        THEN [ok |-> FALSE, calls |-> << >>]
        ELSE LET next == ops_i + 1 + size(Nodes[op])
                 rest == Run(g, next, read.data_i)
             IN  [ok    |-> rest.ok,
                  calls |-> << [ops |-> SubSeq(g.ops, ops_i + 1, next), vals |-> read.vals] >> \o rest.calls]

interpreter_run(g) == Run(g, 0, 0)
=============================================================================
