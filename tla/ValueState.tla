----------------------------- MODULE ValueState -----------------------------
(***************************************************************************)
(* The set of values of one type that the nodes written so far have        *)
(* produced and no node has consumed (struct ValueState of                 *)
(* graph_builder.rs).  A value is named by a ConnectorID; a graph that is  *)
(* copied has its ids renamed, and both directions of the renaming are     *)
(* kept.  A HashMap is a function whose domain is its keys.                *)
(***************************************************************************)
EXTENDS Naturals, Sequences, TLC

NoKeys == [x \in {} |-> 0]                    \* an empty HashMap
Without(map, k) == [x \in DOMAIN map \ {k} |-> map[x]]

\* ids is new_ids_for_sampling, index new_id_to_ids_index, old new_id_to_old_id
\* and new old_id_to_new_id.
EmptyValues == [cur_id |-> 0, ids |-> << >>, index |-> NoKeys, old |-> NoKeys, new |-> NoKeys]

\* clear() leaves new_id_to_old_id as it is.
clear(vs) == [EmptyValues EXCEPT !.old = vs.old]

insert_new_id(vs) ==
    [vs EXCEPT !.cur_id = vs.cur_id + 1,
               !.ids = Append(vs.ids, vs.cur_id + 1),
               !.index = (vs.cur_id + 1 :> Len(vs.ids) + 1) @@ vs.index]

\* MUTANT: the way back from the old name is not recorded
insert_old_id_OneWay(vs, old_id) ==
    [insert_new_id(vs) EXCEPT !.old = (vs.cur_id + 1 :> old_id) @@ vs.old]

insert_old_id(vs, old_id) ==
    [insert_new_id(vs) EXCEPT !.old = (vs.cur_id + 1 :> old_id) @@ vs.old,
                              !.new = (old_id :> vs.cur_id + 1) @@ vs.new]

\* Vec::swap_remove: the last element takes the place of the removed one.
swap_remove(s, i) == [k \in 1 .. Len(s) - 1 |-> IF k = i THEN s[Len(s)] ELSE s[k]]

Known(vs, new_id) == new_id \in DOMAIN vs.index

take_new_input(vs, new_id) ==
    LET i     == vs.index[new_id]
        ids   == swap_remove(vs.ids, i)
        index == Without(vs.index, new_id)
        old   == IF new_id \in DOMAIN vs.old THEN {vs.old[new_id]} ELSE {}
    IN  [vs EXCEPT !.ids = ids,
                   !.index = IF Len(ids) >= i THEN (ids[i] :> i) @@ index ELSE index,
                   !.old = Without(vs.old, new_id),
                   !.new = [o \in DOMAIN vs.new \ old |-> vs.new[o]]]

\* The ids get_random_input may return; none when it panics.
get_random_input(vs) == {vs.ids[i] : i \in 1 .. Len(vs.ids)}

get_old_available_input(vs, old_id) ==
    IF old_id \in DOMAIN vs.new THEN {vs.new[old_id]} ELSE get_random_input(vs)
=============================================================================
