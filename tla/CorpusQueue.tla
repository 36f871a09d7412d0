---------------------------- MODULE CorpusQueue ----------------------------
(***************************************************************************)
(* The fuzzer threads and the corpus they share (queue.rs, bitmap.rs,      *)
(* input.rs, fuzzer.rs of rust_fuzzer).                                    *)
(*                                                                         *)
(* Queue is one RwLock around QueueData and one RwLock around every input. *)
(* A thread runs tests, reports results with new coverage to the global    *)
(* bitmaps, adds them to the queue, and minimises inputs it schedules.     *)
(*                                                                         *)
(* One action is one critical section under the data lock together with    *)
(* the thread-local steps around it.  Only where the code waits for a      *)
(* second lock while it holds one are the two acquisitions separate        *)
(* actions: set_state and set_custom_dict wait for an input's write lock   *)
(* with the data lock held for writing, and perform_min keeps an input's   *)
(* read guard while set_custom_dict waits for the data lock.               *)
(***************************************************************************)
EXTENDS Integers, Sequences

CONSTANTS Threads,    \* fuzzer threads
          Idx,        \* bitmap indices
          MaxLevel,   \* largest value of a bitmap byte (255 in the code)
          Targets,    \* programs under test, by the results their tests may have
          Havocs      \* runs per havoc round (10 in the code)

Tracked == {"Normal", "Crash", "Timeout", "InvalidWriteToPayload"}
Queued  == {"Normal", "Crash"}
ExitReasons == Tracked \union {"Asan", "FuzzerError"}
NoThread == "none"

ASSUME ThreadsAssumption == NoThread \notin Threads
ASSUME SizesAssumption == MaxLevel \in Nat /\ Havocs \in Nat \ {0}

Levels  == 0 .. MaxLevel
Bits    == [Idx -> Levels]

(* A target: the bitmaps its tests produce, the numbers of nodes of their     *)
(* graphs, and their exit reasons.                                            *)
ASSUME TargetsAssumption ==
  \A g \in Targets : /\ g.bits \subseteq Bits /\ g.lens \subseteq Nat
                     /\ g.exits \subseteq ExitReasons

Lens    == UNION {g.lens : g \in Targets}
Reasons == [index : Idx, old : Levels, new : Levels]
(* Input: data is its length, id counts from 1 and 0 is InputID::invalid() *)
Inputs  == [id : Nat, len : Lens \union {0}, bits : Bits, reasons : SUBSET Reasons,
            exit : ExitReasons, state : {"Minimize", "Havoc"}, dict : BOOLEAN]

VARIABLES
  target,    \* the program under test
  (* QueueData *)
  inputs, favqueue, bitmap_bits, min_example, bitmaps, next_input_id,
  writer,    \* thread that keeps data locked for writing between two steps
  (* thread-local *)
  pc, task,
  local,     \* StructFuzzer.bitmaps
  entry,     \* the scheduled input, as it was when it was cloned
  left,      \* havoc runs left
  found,     \* the input being added
  graphs,    \* minimize_new_bytes' smallest graph for every new byte
  todo,      \* minimised inputs not yet added
  held,      \* id of the input whose read guard perform_min keeps, 0 if none
  favids,    \* calc_fav_bits' local of that name
  (* history *)
  overlap,   \* an input was added since favids was computed
  late       \* the favqueue was last installed after such an add

corpus  == <<inputs, favqueue, bitmap_bits, min_example, bitmaps, next_input_id>>
splits  == <<graphs, todo, held>>
history == <<favids, overlap, late>>
vars    == <<target, corpus, writer, pc, task, local, entry, left, found, splits, history>>

Ids == 1 .. Len(inputs)

NoInput == [id |-> 0, len |-> 0, bits |-> [i \in Idx |-> 0], reasons |-> {}, exit |-> "Asan",
            state |-> "Minimize", dict |-> FALSE]

(* Every variable has its type, and every id refers to an input: indexing    *)
(* inputs with an id of the favqueue, of bitmap_index_to_min_example, or of a *)
(* clone never panics.                                                        *)
TypeOK ==
  /\ target \in Targets
  /\ inputs \in Seq(Inputs) /\ favqueue \subseteq Ids
  /\ DOMAIN min_example \subseteq Idx /\ \A i \in DOMAIN min_example : min_example[i] \in Ids
  /\ bitmap_bits = DOMAIN min_example
  /\ bitmaps \in [Tracked -> Bits] /\ local \in [Threads -> [Tracked -> Bits]]
  /\ next_input_id \in Nat
  /\ writer \in Threads \union {NoThread}
  /\ pc \in [Threads -> {"iter", "run", "set_state", "set_state_w", "min", "add", "favs",
                         "install", "trace", "set_dict", "set_dict_w"}]
  /\ task \in [Threads -> {"havoc", "min", "split"}]
  /\ entry \in [Threads -> Inputs] /\ found \in [Threads -> Inputs]
  /\ \A t \in Threads : entry[t].id \in {0} \union Ids
  /\ left \in [Threads -> 0 .. Havocs]
  /\ DOMAIN graphs = Threads
  /\ \A t \in Threads : \A i \in DOMAIN graphs[t] : i \in Idx /\ graphs[t][i] \in Inputs
  /\ todo \in [Threads -> SUBSET Inputs]
  /\ held \in [Threads -> {0} \union Ids]
  /\ favids \in [Threads -> SUBSET Ids]
  /\ overlap \in [Threads -> BOOLEAN] /\ late \in BOOLEAN

NoGraphs == [i \in {} |-> NoInput]

Init ==
  /\ target \in Targets
  /\ inputs = <<>> /\ favqueue = {} /\ bitmap_bits = {} /\ min_example = [i \in {} |-> 0]
  /\ bitmaps = [k \in Tracked |-> [i \in Idx |-> 0]] /\ next_input_id = 0
  /\ writer = NoThread
  /\ pc = [t \in Threads |-> "iter"] /\ task = [t \in Threads |-> "havoc"]
  /\ local = [t \in Threads |-> bitmaps]
  /\ entry = [t \in Threads |-> NoInput] /\ left = [t \in Threads |-> 0]
  /\ found = [t \in Threads |-> NoInput]
  /\ graphs = [t \in Threads |-> NoGraphs] /\ todo = [t \in Threads |-> {}]
  /\ held = [t \in Threads |-> 0]
  /\ favids = [t \in Threads |-> {}] /\ overlap = [t \in Threads |-> FALSE] /\ late = FALSE

-----------------------------------------------------------------------------
(* Definitions whose name has a suffix (X_What) are faulty variants of X: the  *)
(* properties are tried out on them.                                           *)

(* bitmap.rs *)

(* Bitmap::check_new_bytes: what it returns and what it leaves behind *)
check_new_bytes(bitmap, run) ==
  {[index |-> i, old |-> bitmap[i], new |-> run[i]] : i \in {j \in Idx : run[j] > bitmap[j]}}

Raised(bitmap, run) == [i \in Idx |-> IF run[i] > bitmap[i] THEN run[i] ELSE bitmap[i]]

NewBytes(input) == {r \in input.reasons : r.old = 0}

should_minimize(input) == input.exit = "Normal" /\ NewBytes(input) # {}

Support(input) == {i \in Idx : input.bits[i] > 0}

FavIds_OldestFirst(s) ==
  LET Fav[j \in 1 .. Len(s)] ==
        LET covered == UNION {Support(s[k]) : k \in {i \in 1 .. j - 1 : Fav[i]}}
        IN  NewBytes(s[j]) # {} /\ ~(Support(s[j]) \subseteq covered)
  IN  {j \in 1 .. Len(s) : Fav[j]}

(* calc_fav_bits' choice, newest first: an input with new bytes is taken if   *)
(* it covers something that the ones taken before it, all of them newer, do   *)
(* not.                                                                       *)
FavIds(s) ==
  LET Fav[j \in 1 .. Len(s)] ==
        LET covered == UNION {Support(s[k]) : k \in {i \in j + 1 .. Len(s) : Fav[i]}}
        IN  NewBytes(s[j]) # {} /\ ~(Support(s[j]) \subseteq covered)
  IN  {j \in 1 .. Len(s) : Fav[j]}

-----------------------------------------------------------------------------
(* fuzzer.rs: iter *)

Iter(t) ==
  /\ pc[t] = "iter" /\ writer = NoThread
  /\ inputs = <<>>
  /\ pc' = [pc EXCEPT ![t] = "run"] /\ task' = [task EXCEPT ![t] = "havoc"]
  /\ left' = [left EXCEPT ![t] = 1]
  /\ UNCHANGED <<target, corpus, writer, local, entry, found, splits, history>>

(* The three ways in which schedule picks an input *)
schedule ==
  favqueue \union {min_example[b] : b \in bitmap_bits} \union Ids

(* The input is cloned before its state is looked at. *)
IterScheduled(t) ==
  /\ pc[t] = "iter" /\ writer = NoThread
  /\ \E id \in schedule :
       \/ /\ inputs[id].state = "Minimize"
          /\ entry' = [entry EXCEPT ![t] = inputs[id]]
          /\ pc' = [pc EXCEPT ![t] = "set_state"] /\ task' = [task EXCEPT ![t] = "min"]
          /\ UNCHANGED left
       \/ /\ inputs[id].state = "Havoc"
          /\ pc' = [pc EXCEPT ![t] = "run"] /\ task' = [task EXCEPT ![t] = "havoc"]
          /\ left' = [left EXCEPT ![t] = Havocs]
          /\ UNCHANGED entry
  /\ UNCHANGED <<target, corpus, writer, local, found, splits, history>>

(* Where a thread goes on when a run and what came of it are done *)
Back(t) ==
  IF task[t] = "min" THEN "min" ELSE IF left[t] > 1 THEN "run" ELSE "iter"

CountRun(t) == left' = [left EXCEPT ![t] = IF task[t] = "havoc" THEN @ - 1 ELSE @]

-----------------------------------------------------------------------------
(* perform_run *)

update_min_graphs_LengthOnly(t, len, bits, exit) ==
  LET better == {i \in DOMAIN graphs[t] : graphs[t][i].len > len}
      input  == [id |-> 0, len |-> len, bits |-> bits, exit |-> exit, state |-> "Havoc",
                 reasons |-> {r \in NewBytes(entry[t]) : r.index \in better}, dict |-> FALSE]
  IN  [i \in DOMAIN graphs[t] |-> IF i \in better THEN input ELSE graphs[t][i]]

(* update_min_graphs: the result replaces every longer graph whose byte it    *)
(* still reaches.                                                             *)
update_min_graphs(t, len, bits, exit) ==
  LET better == {i \in DOMAIN graphs[t] : bits[i] > 0 /\ graphs[t][i].len > len}
      input  == [id |-> 0, len |-> len, bits |-> bits, exit |-> exit, state |-> "Havoc",
                 reasons |-> {r \in NewBytes(entry[t]) : r.index \in better}, dict |-> FALSE]
  IN  [i \in DOMAIN graphs[t] |-> IF i \in better THEN input ELSE graphs[t][i]]

(* The lengths mutate and generate may produce, and drop_range *)
Lengths(t) ==
  IF task[t] = "min"
  THEN {n \in target.lens : \E i \in DOMAIN graphs[t] : n <= graphs[t][i].len}
  ELSE target.lens

(* run_test and the checks of its bitmap.  A result that is new is run ten    *)
(* more times (filter_nondet_bytes) and keeps the reasons that show up every  *)
(* time; update_min_graphs then looks at the bitmap of the last rerun.        *)
perform_run(t) ==
  /\ pc[t] \in {"run", "min"} /\ writer = NoThread
  /\ \E len \in Lengths(t), bits \in target.bits, exit \in target.exits :
       LET mineNew == exit \in Tracked /\ check_new_bytes(local[t][exit], bits) # {}
           reasons == IF mineNew THEN check_new_bytes(bitmaps[exit], bits) ELSE {}
       IN
       /\ local' = IF mineNew THEN [local EXCEPT ![t][exit] = Raised(@, bits)] ELSE local
       /\ bitmaps' = IF mineNew THEN [bitmaps EXCEPT ![exit] = Raised(@, bits)] ELSE bitmaps
       /\ \E last \in (IF reasons = {} THEN {bits} ELSE target.bits),
             keep \in SUBSET reasons :
            /\ \A r \in keep : last[r.index] >= r.new
            /\ graphs' = [graphs EXCEPT ![t] = update_min_graphs(t, len, last, exit)]
            /\ IF keep # {}
               THEN /\ found' = [found EXCEPT ![t] =
                         [id |-> 0, len |-> len, bits |-> bits, reasons |-> keep, exit |-> exit,
                          state |-> "Minimize", dict |-> FALSE]]
                    /\ pc' = [pc EXCEPT ![t] = "add"]
                    /\ UNCHANGED left
               ELSE /\ pc' = [pc EXCEPT ![t] = Back(t)]
                    /\ CountRun(t)
                    /\ UNCHANGED found
  /\ UNCHANGED <<target, inputs, favqueue, bitmap_bits, min_example, next_input_id, writer, task, entry,
                 todo, held, history>>

-----------------------------------------------------------------------------
(* queue.rs: add *)

Indices(input) == {r.index : r \in input.reasons}

MinExamples_Newest(input, id) ==
  [i \in DOMAIN min_example \union Indices(input) |->
     IF i \in Indices(input) THEN id ELSE min_example[i]]

(* An example is replaced by a shorter one only. *)
MinExamples(input, id) ==
  [i \in DOMAIN min_example \union Indices(input) |->
     IF i \in Indices(input) /\ (i \in DOMAIN min_example => inputs[min_example[i]].len > input.len)
     THEN id ELSE min_example[i]]

(* new_input, which perform_run calls before add: results that will not be    *)
(* minimised are numbered and written to the corpus directory.                *)
new_input(t) ==
  next_input_id' = IF task[t] = "split" \/ should_minimize(found[t])
                   THEN next_input_id ELSE next_input_id + 1

(* perform_min's loop over the minimised inputs *)
SplitOn(t, rest) ==
  \/ /\ rest = {}
     /\ pc' = [pc EXCEPT ![t] = "iter"]
     /\ found' = [found EXCEPT ![t] = NoInput]
     /\ entry' = [entry EXCEPT ![t] = NoInput]
     /\ todo' = [todo EXCEPT ![t] = {}]
  \/ \E g \in rest :
     /\ pc' = [pc EXCEPT ![t] = "add"]
     /\ found' = [found EXCEPT ![t] = g]
     /\ todo' = [todo EXCEPT ![t] = rest \ {g}]
     /\ UNCHANGED entry

(* add returns None: nothing is stored. *)
AddIgnored(t) ==
  /\ pc[t] = "add" /\ writer = NoThread
  /\ found[t].len = 0 \/ found[t].exit \notin Queued
  /\ new_input(t)
  /\ \/ /\ task[t] = "split"
        /\ SplitOn(t, todo[t])
        /\ UNCHANGED left
     \/ /\ task[t] # "split"
        /\ pc' = [pc EXCEPT ![t] = Back(t)]
        /\ found' = [found EXCEPT ![t] = NoInput]
        /\ CountRun(t)
        /\ UNCHANGED <<entry, todo>>
  /\ UNCHANGED <<target, inputs, favqueue, bitmap_bits, min_example, bitmaps, writer, task, local, graphs,
                 held, history>>

Add(t) ==
  /\ pc[t] = "add" /\ writer = NoThread
  /\ found[t].len > 0 /\ found[t].exit \in Queued
  /\ LET id == Len(inputs) + 1 IN
       /\ inputs' = Append(inputs, [found[t] EXCEPT !.id = id])
       /\ found' = [found EXCEPT ![t].id = id]
       /\ min_example' = MinExamples(found[t], id)
       /\ bitmap_bits' = bitmap_bits \union (Indices(found[t]) \ DOMAIN min_example)
  /\ new_input(t)
  /\ overlap' = [u \in Threads |-> pc[u] = "install"]
  /\ pc' = [pc EXCEPT ![t] = "favs"]
  /\ UNCHANGED <<target, favqueue, bitmaps, writer, task, local, entry, left, splits,
                 favids, late>>

(* The favourites are computed under the read lock and installed under the   *)
(* write lock, which is a different acquisition.                             *)
calc_fav_bits(t) ==
  /\ pc[t] = "favs" /\ writer = NoThread
  /\ favids' = [favids EXCEPT ![t] = FavIds(inputs)]
  /\ overlap' = [overlap EXCEPT ![t] = FALSE]
  /\ pc' = [pc EXCEPT ![t] = "install"]
  /\ UNCHANGED <<target, corpus, writer, task, local, entry, left, found, splits, late>>

InstallFavs(t) ==
  /\ pc[t] = "install" /\ writer = NoThread
  /\ favqueue' = favids[t]
  /\ favids' = [favids EXCEPT ![t] = {}]
  /\ late' = overlap[t]
  /\ overlap' = [overlap EXCEPT ![t] = FALSE]
  /\ \/ /\ task[t] = "split"
        /\ pc' = [pc EXCEPT ![t] = "trace"]
        /\ UNCHANGED <<found, left>>
     \/ /\ task[t] # "split"
        /\ pc' = [pc EXCEPT ![t] = Back(t)]
        /\ found' = [found EXCEPT ![t] = NoInput]
        /\ CountRun(t)
  /\ UNCHANGED <<target, inputs, bitmap_bits, min_example, bitmaps, next_input_id, writer, task, local,
                 entry, splits>>

-----------------------------------------------------------------------------
(* perform_min *)

(* set_state and set_custom_dict: data.write(), then the input's write() *)
LockData(t) ==
  /\ pc[t] \in {"set_state", "set_dict"} /\ writer = NoThread
  /\ writer' = t
  /\ pc' = [pc EXCEPT ![t] = IF @ = "set_state" THEN "set_state_w" ELSE "set_dict_w"]
  /\ UNCHANGED <<target, corpus, task, local, entry, left, found, splits, history>>

NobodyReads(id) == \A u \in Threads : held[u] # id

MinimizeCopy_Again(input) == [input EXCEPT !.id = 0]

(* minimize_new_bytes starts from a copy that is not in the queue and that    *)
(* will not be minimised again.                                               *)
MinimizeCopy(input) == [input EXCEPT !.id = 0, !.state = "Havoc"]

set_state(t) ==
  /\ pc[t] = "set_state_w"
  /\ NobodyReads(entry[t].id)
  /\ inputs' = [inputs EXCEPT ![entry[t].id].state = "Havoc"]
  /\ writer' = NoThread
  /\ graphs' = [graphs EXCEPT ![t] = [i \in {r.index : r \in NewBytes(entry[t])} |->
                                        MinimizeCopy(entry[t])]]
  /\ pc' = [pc EXCEPT ![t] = IF NewBytes(entry[t]) = {} THEN "iter" ELSE "min"]
  /\ UNCHANGED <<target, favqueue, bitmap_bits, min_example, bitmaps, next_input_id, task, local, entry,
                 left, found, todo, held, history>>

(* minimize_one_byte is out of iterations or failures for every byte. *)
EndMinimize(t) ==
  /\ pc[t] = "min"
  /\ task' = [task EXCEPT ![t] = "split"]
  /\ graphs' = [graphs EXCEPT ![t] = NoGraphs]
  /\ SplitOn(t, {graphs[t][i] : i \in DOMAIN graphs[t]})
  /\ UNCHANGED <<target, corpus, writer, local, left, held, history>>

(* get_input and the read guard kept while the input is traced *)
get_input(t) ==
  /\ pc[t] = "trace" /\ writer = NoThread
  /\ held' = [held EXCEPT ![t] = found[t].id]
  /\ pc' = [pc EXCEPT ![t] = "set_dict"]
  /\ UNCHANGED <<target, corpus, writer, task, local, entry, left, found, graphs, todo, history>>

(* The dictionary goes to the input that was minimised. *)
set_custom_dict(t) ==
  /\ pc[t] = "set_dict_w"
  /\ NobodyReads(entry[t].id)
  /\ inputs' = [inputs EXCEPT ![entry[t].id].dict = TRUE]
  /\ writer' = NoThread
  /\ held' = [held EXCEPT ![t] = 0]
  /\ SplitOn(t, todo[t])
  /\ UNCHANGED <<target, favqueue, bitmap_bits, min_example, bitmaps, next_input_id, task, local, left,
                 graphs, history>>

Step(t) ==
  \/ Iter(t) \/ IterScheduled(t) \/ perform_run(t)
  \/ AddIgnored(t) \/ Add(t) \/ calc_fav_bits(t) \/ InstallFavs(t)
  \/ LockData(t) \/ set_state(t) \/ EndMinimize(t) \/ get_input(t) \/ set_custom_dict(t)

Next == \E t \in Threads : Step(t)

Spec == Init /\ [][Next]_vars

-----------------------------------------------------------------------------
(* A thread that holds data for writing never waits for an input: nobody who *)
(* keeps an input's read guard keeps it for an input that set_state or        *)
(* set_custom_dict writes.  perform_min waits for data with such a guard in   *)
(* hand, so the two would wait for each other otherwise.                      *)
WriterNeverWaits ==
  \A t \in Threads :
    pc[t] \in {"set_state_w", "set_dict_w"} => writer = t /\ NobodyReads(entry[t].id)

(* bitmap_index_to_min_example names, for every byte some input was stored    *)
(* for, a shortest such input, in whatever order the threads added them.      *)
ExamplesAreMinimal ==
  /\ \A id \in Ids : Indices(inputs[id]) \subseteq DOMAIN min_example
  /\ \A i \in DOMAIN min_example :
       /\ i \in Indices(inputs[min_example[i]])
       /\ \A id \in Ids : i \in Indices(inputs[id]) => inputs[min_example[i]].len <= inputs[id].len

(* What calc_fav_bits computes from the first n inputs: those with new bytes  *)
(* that reach a byte no later one of them reaches.                            *)
Favourites(n) ==
  {j \in 1 .. n :
     /\ NewBytes(inputs[j]) # {}
     /\ \E i \in Support(inputs[j]) :
          \A k \in j + 1 .. n : NewBytes(inputs[k]) # {} => i \notin Support(inputs[k])}

(* The favqueue is the right one for the inputs of some earlier moment, and   *)
(* once no add is under way for all of them, unless an add overlapped the     *)
(* last calc_fav_bits and was overwritten by it.                              *)
FavqueueIsConsistent ==
  /\ \E n \in 0 .. Len(inputs) : favqueue = Favourites(n)
  /\ (\A t \in Threads : pc[t] \notin {"favs", "install"}) /\ ~late =>
       favqueue = Favourites(Len(inputs))

(* Minimisation never gives up a byte: the graph kept for a new byte reaches  *)
(* it, is stored for it, and is no longer than the input minimised.  And the  *)
(* assertions of queue.rs hold: what add is given is not in the queue yet     *)
(* (assert_eq!(input.id, InputID::invalid())), and what set_state and         *)
(* set_custom_dict are given is.                                              *)
MinimizeKeepsBytes ==
  \A t \in Threads :
    /\ pc[t] = "add" => found[t].id = 0
    /\ pc[t] \in {"set_state", "set_state_w", "set_dict", "set_dict_w"} => entry[t].id \in Ids
    /\ pc[t] = "min" => DOMAIN graphs[t] = {r.index : r \in NewBytes(entry[t])}
    /\ \A i \in DOMAIN graphs[t] :
         /\ i \in Support(graphs[t][i]) /\ i \in Indices(graphs[t][i])
         /\ graphs[t][i].len <= entry[t].len
=============================================================================
