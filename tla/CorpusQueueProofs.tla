------------------------- MODULE CorpusQueueProofs -------------------------
(***************************************************************************)
(* Proofs about CorpusQueue, for any number of threads, any programs under *)
(* test and any size of the corpus.                                        *)
(***************************************************************************)
EXTENDS CorpusQueue, WellFoundedInduction, TLAPS

(* TypeOK: what the threads share, and what each has for itself. *)
CorpusType ==
  /\ target \in Targets
  /\ inputs \in Seq(Inputs) /\ favqueue \subseteq Ids
  /\ DOMAIN min_example \subseteq Idx /\ \A i \in DOMAIN min_example : min_example[i] \in Ids
  /\ bitmap_bits = DOMAIN min_example
  /\ bitmaps \in [Tracked -> Bits]
  /\ next_input_id \in Nat
  /\ writer \in Threads \union {NoThread}
  /\ late \in BOOLEAN

ThreadType ==
  /\ local \in [Threads -> [Tracked -> Bits]]
  /\ pc \in [Threads -> {"iter", "run", "set_state", "set_state_w", "min", "add", "favs",
                         "install", "trace", "set_dict", "set_dict_w"}]
  /\ task \in [Threads -> {"havoc", "min", "split"}]
  /\ entry \in [Threads -> Inputs] /\ found \in [Threads -> Inputs]
  /\ left \in [Threads -> 0 .. Havocs]
  /\ DOMAIN graphs = Threads
  /\ \A t \in Threads : \A i \in DOMAIN graphs[t] : i \in Idx /\ graphs[t][i] \in Inputs
  /\ todo \in [Threads -> SUBSET Inputs]
  /\ held \in [Threads -> Nat]
  /\ favids \in [Threads -> SUBSET Nat]
  /\ overlap \in [Threads -> BOOLEAN]

(* The test reaches every byte it is stored for. *)
Reached(input) == \A r \in input.reasons : input.bits[r.index] > 0

(* A minimised input on its way into the queue. *)
Minimised(input) == input.id = 0 /\ input.state = "Havoc" /\ Reached(input)

(* An input is stored under its id. *)
Stored == \A id \in Ids : inputs[id].id = id /\ Reached(inputs[id])

Adding(t)  == pc[t] \in {"add", "favs", "install"}
Tracing(t) == pc[t] \in {"trace", "set_dict", "set_dict_w"}
SplitStored(t) == task[t] = "split" /\ pc[t] \in {"favs", "install", "trace", "set_dict", "set_dict_w"}

(* Where a thread can be in which task. *)
Phases(t) ==
  /\ pc[t] = "run" => task[t] = "havoc"
  /\ pc[t] \in {"set_state", "set_state_w", "min"} => task[t] = "min"
  /\ Tracing(t) => task[t] = "split"
  /\ task[t] = "havoc" /\ pc[t] # "iter" => left[t] > 0
  /\ pc[t] \in {"set_state_w", "set_dict_w"} => writer = t

(* The graphs minimised so far, and what becomes of them. *)
Minimising(t) ==
  /\ DOMAIN graphs[t] # {} => task[t] = "min" /\ (pc[t] = "min" \/ Adding(t))
  /\ task[t] = "min" /\ (pc[t] = "min" \/ Adding(t)) =>
       DOMAIN graphs[t] = {r.index : r \in NewBytes(entry[t])}
  /\ \A i \in DOMAIN graphs[t] :
       /\ Minimised(graphs[t][i])
       /\ i \in Support(graphs[t][i]) /\ i \in Indices(graphs[t][i])
       /\ graphs[t][i].len <= entry[t].len
  /\ \A g \in todo[t] : Minimised(g)

(* The input being minimised and the one being added.  What is added of a     *)
(* split is in state Havoc, and so is never scheduled to be minimised.        *)
Holding(t) ==
  /\ Reached(entry[t]) /\ entry[t].id \in {0} \union Ids
  /\ task[t] # "havoc" /\ pc[t] # "iter" => entry[t].id \in Ids
  /\ Reached(found[t])
  /\ pc[t] = "add" => found[t].id = 0
  /\ pc[t] = "add" /\ task[t] = "split" => found[t].state = "Havoc"
  /\ SplitStored(t) => found[t].id \in Ids /\ inputs[found[t].id].state = "Havoc"
  /\ held[t] \in {0, found[t].id}
  /\ held[t] # 0 => Tracing(t)

(* What calc_fav_bits has computed and not yet installed. *)
Pending(t) ==
  /\ pc[t] = "install" =>
       /\ \E n \in 0 .. Len(inputs) : favids[t] = Favourites(n)
       /\ ~overlap[t] => favids[t] = Favourites(Len(inputs))
  /\ pc[t] # "install" => favids[t] = {}

ThreadInv(t) == Phases(t) /\ Minimising(t) /\ Holding(t) /\ Pending(t)

(* Nobody minimises an input that came out of a minimisation. *)
Apart == \A t, u \in Threads : SplitStored(u) => found[u].id # entry[t].id

IInv == /\ CorpusType /\ ThreadType /\ Stored
        /\ ExamplesAreMinimal /\ FavqueueIsConsistent /\ Apart
        /\ \A t \in Threads : ThreadInv(t)

-----------------------------------------------------------------------------
(* The favourites *)

(* A set of natural numbers has a least element ... *)
LEMMA Least ==
  ASSUME NEW T \in SUBSET Nat, T # {}
  PROVE  \E x \in T : \A y \in T : x <= y
<1> DEFINE R == OpToRel(<, Nat)
<1>1. IsWellFoundedOn(R, Nat)  BY NatLessThanWellFounded, Zenon
<1>2. \A x, y \in Nat : x < y => <<x, y>> \in R  BY DEF OpToRel
<1> HIDE DEF R
<1>3. PICK x \in T : \A y \in T : ~(<<y, x>> \in R)  BY <1>1, WFMin, Zenon
<1>4. \A y \in T : y \in Nat /\ x \in Nat /\ ~(y < x)  BY <1>2, <1>3, Zenon
<1>5. \A y \in T : x <= y  BY <1>4
<1>6. QED  BY <1>5

(* ... and one that is bounded a greatest. *)
LEMMA Greatest ==
  ASSUME NEW n \in Nat, NEW T \in SUBSET (1 .. n), T # {}
  PROVE  \E x \in T : \A y \in T : y <= x
<1> DEFINE S == {n - x : x \in T}
<1>1. S \in SUBSET Nat
  <2>1. \A x \in T : n - x \in Nat  OBVIOUS
  <2>2. QED  BY <2>1
<1>0. S # {}  OBVIOUS
<1> HIDE DEF S
<1>2. PICK s \in S : \A r \in S : s <= r  BY <1>0, <1>1, Least
<1>3. PICK x \in T : s = n - x  BY DEF S
<1>4. ASSUME NEW y \in T PROVE y <= x
  <2>1. n - y \in S  BY DEF S
  <2>2. s <= n - y  BY <1>2, <2>1
  <2>3. x \in 1 .. n /\ y \in 1 .. n  OBVIOUS
  <2>4. QED  BY <1>3, <2>2, <2>3
<1>5. QED  BY <1>4

(* Taking inputs newest first, as long as they cover something that none of   *)
(* those taken does, yields the inputs that cover something no newer input    *)
(* with new bytes does.                                                       *)
LEMMA GreedyIsRight ==
  ASSUME inputs \in Seq(Inputs)
  PROVE  FavIds(inputs) = Favourites(Len(inputs))
<1> DEFINE n == Len(inputs)
           Body(f, j) ==
             LET covered == UNION {Support(inputs[k]) : k \in {i \in j + 1 .. n : f[i]}}
             IN  NewBytes(inputs[j]) # {} /\ ~(Support(inputs[j]) \subseteq covered)
           F == CHOOSE f : f = [j \in 1 .. n |-> Body(f, j)]
           G == [j \in 1 .. n |-> j \in Favourites(n)]
<1>1. FavIds(inputs) = {j \in 1 .. n : F[j]}  BY DEF FavIds
<1>2. n \in Nat  OBVIOUS
<1>3. ASSUME NEW f, NEW j \in 1 .. n, \A k \in j + 1 .. n : f[k] <=> k \in Favourites(n)
      PROVE  Body(f, j) <=> j \in Favourites(n)
  <2> DEFINE New(k) == NewBytes(inputs[k]) # {}
             Sup(k) == Support(inputs[k])
             Cov == UNION {Sup(k) : k \in {i \in j + 1 .. n : f[i]}}
  <2>1. \A i : i \in Cov <=> \E k \in j + 1 .. n : k \in Favourites(n) /\ i \in Sup(k)
    BY <1>3
  <2>2. \A k \in 1 .. n : k \in Favourites(n) <=>
          New(k) /\ \E i \in Sup(k) : \A m \in k + 1 .. n : New(m) => i \notin Sup(m)
    BY Zenon DEF Favourites
  <2>3. Body(f, j) <=> New(j) /\ \E i \in Sup(j) : i \notin Cov
    OBVIOUS
  <2> HIDE DEF New, Sup, Cov, Body
  <2>4. ASSUME NEW i, NEW m \in j + 1 .. n, New(m), i \in Sup(m)
        PROVE  i \in Cov
    <3> DEFINE T == {k \in j + 1 .. n : New(k) /\ i \in Sup(k)}
    <3>1. T \in SUBSET (1 .. n) /\ T # {}  BY <1>2, <2>4
    <3>2. PICK x \in T : \A y \in T : y <= x  BY <1>2, <3>1, Greatest, Zenon
    <3>3. \A y \in x + 1 .. n : New(y) => i \notin Sup(y)
      <4>1. SUFFICES ASSUME NEW y \in x + 1 .. n, New(y), i \in Sup(y) PROVE FALSE
        OBVIOUS
      <4>2. x \in Nat /\ j \in Nat /\ x > j  BY <1>2
      <4>3. y \in T  BY <1>2, <4>1, <4>2
      <4>4. QED  BY <1>2, <3>2, <4>1, <4>2, <4>3
    <3>4. x \in Favourites(n)  BY <1>2, <2>2, <3>3
    <3>5. QED  BY <2>1, <3>4
  <2>5. ASSUME NEW i \in Sup(j)
        PROVE  (i \notin Cov) <=> (\A m \in j + 1 .. n : New(m) => i \notin Sup(m))
    <3>1. CASE i \notin Cov  BY <2>4, <3>1
    <3>2. CASE i \in Cov
      <4>1. PICK k \in j + 1 .. n : k \in Favourites(n) /\ i \in Sup(k)  BY <2>1, <3>2
      <4>2. New(k)  BY <1>2, <2>2, <4>1
      <4>3. QED  BY <3>2, <4>1, <4>2
    <3>3. QED  BY <3>1, <3>2
  <2>6. QED  BY <2>2, <2>3, <2>5
<1>4. G = [j \in 1 .. n |-> Body(G, j)]
  <2>1. ASSUME NEW j \in 1 .. n PROVE Body(G, j) <=> j \in Favourites(n)
    <3>0. \A k \in 1 .. n : G[k] <=> k \in Favourites(n)  BY Zenon, Zenon
    <3> HIDE DEF G, Body
    <3>1. \A k \in j + 1 .. n : G[k] <=> k \in Favourites(n)  BY <1>2, <3>0
    <3>2. QED  BY <1>3, <3>1
  <2>2. \A j \in 1 .. n : Body(G, j) \in BOOLEAN  OBVIOUS
  <2> HIDE DEF Body
  <2>3. QED  BY <2>1, <2>2
<1>5. F = [j \in 1 .. n |-> Body(F, j)]  BY <1>4, Zenon
<1>6. \A j \in 1 .. n : F[j] <=> Body(F, j)
  <2> HIDE DEF F, Body
  <2>1. QED  BY <1>5
<1>7. \A j \in 1 .. n : F[j] <=> j \in Favourites(n)
  <2> DEFINE T == {j \in 1 .. n : ~(F[j] <=> j \in Favourites(n))}
  <2>1. SUFFICES ASSUME T # {} PROVE FALSE  OBVIOUS
  <2>2. T \in SUBSET (1 .. n)  OBVIOUS
  <2> HIDE DEF F, Body
  <2>3. PICK x \in T : \A y \in T : y <= x  BY <1>2, <2>1, <2>2, Greatest, Zenon
  <2>4. \A k \in x + 1 .. n : F[k] <=> k \in Favourites(n)
    <3>1. SUFFICES ASSUME NEW k \in x + 1 .. n, k \in T PROVE FALSE  BY <1>2, <2>2
    <3>2. QED  BY <1>2, <2>2, <2>3, <3>1
  <2>5. x \in 1 .. n  BY <2>2
  <2>6. Body(F, x) <=> x \in Favourites(n)  BY <1>3, <2>4, <2>5
  <2>7. QED  BY <1>6, <2>5, <2>6
<1>8. Favourites(n) \subseteq 1 .. n  BY DEF Favourites
<1> HIDE DEF F
<1>9. QED  BY <1>1, <1>7, <1>8

-----------------------------------------------------------------------------
(* Inputs *)

(* The placeholder is an input, and what set_state, set_custom_dict and add   *)
(* do to an input leaves it one.                                              *)
LEMMA NoInputFacts == NoInput \in Inputs /\ Reached(NoInput) /\ NoInput.id = 0
<1>1. 0 \in Levels /\ [i \in Idx |-> 0] \in Bits  BY SizesAssumption DEF Levels, Bits
<1>2. NoInput \in Inputs  BY <1>1 DEF NoInput, Inputs, ExitReasons
<1>3. QED  BY <1>2 DEF NoInput, Reached

Renamed(new, old) ==
  /\ new \in Inputs /\ new.len = old.len /\ new.bits = old.bits /\ new.reasons = old.reasons
  /\ new.exit = old.exit

(* Renaming, advancing, marking and copying an input keep all else of it. *)
LEMMA Retyped ==
  ASSUME NEW r \in Inputs
  PROVE  /\ \A n \in Nat : /\ Renamed([r EXCEPT !.id = n], r) /\ [r EXCEPT !.id = n].id = n
                           /\ [r EXCEPT !.id = n].state = r.state
         /\ Renamed([r EXCEPT !.state = "Havoc"], r)
         /\ [r EXCEPT !.state = "Havoc"].id = r.id /\ [r EXCEPT !.state = "Havoc"].state = "Havoc"
         /\ Renamed([r EXCEPT !.dict = TRUE], r)
         /\ [r EXCEPT !.dict = TRUE].id = r.id /\ [r EXCEPT !.dict = TRUE].state = r.state
         /\ Renamed(MinimizeCopy(r), r)
         /\ MinimizeCopy(r).id = 0 /\ MinimizeCopy(r).state = "Havoc"
<1>1. ASSUME NEW n \in Nat PROVE [r EXCEPT !.id = n] \in Inputs  BY DEF Inputs
<1>2. [r EXCEPT !.state = "Havoc"] \in Inputs /\ [r EXCEPT !.dict = TRUE] \in Inputs
  BY Zenon DEF Inputs
<1>3. MinimizeCopy(r) \in Inputs  BY Zenon DEF Inputs, MinimizeCopy
<1>4. ASSUME NEW n \in Nat
      PROVE  Renamed([r EXCEPT !.id = n], r) /\ [r EXCEPT !.id = n].id = n
             /\ [r EXCEPT !.id = n].state = r.state
  BY <1>1 DEF Inputs, Renamed
<1>5. /\ Renamed([r EXCEPT !.state = "Havoc"], r)
      /\ [r EXCEPT !.state = "Havoc"].id = r.id /\ [r EXCEPT !.state = "Havoc"].state = "Havoc"
  BY <1>2 DEF Inputs, Renamed
<1>6. /\ Renamed([r EXCEPT !.dict = TRUE], r)
      /\ [r EXCEPT !.dict = TRUE].id = r.id /\ [r EXCEPT !.dict = TRUE].state = r.state
  BY <1>2, Zenon DEF Inputs, Renamed
<1>7. /\ Renamed(MinimizeCopy(r), r)
      /\ MinimizeCopy(r).id = 0 /\ MinimizeCopy(r).state = "Havoc"
  BY <1>3 DEF Inputs, Renamed, MinimizeCopy
<1>8. QED  BY <1>4, <1>5, <1>6, <1>7

(* The corpus grows, and an input changes only its state, once, and its dictionary. *)
Kept ==
  /\ inputs' \in Seq(Inputs) /\ Len(inputs') >= Len(inputs)
  /\ \A id \in Ids : /\ inputs'[id].id = inputs[id].id /\ inputs'[id].len = inputs[id].len
                     /\ inputs'[id].bits = inputs[id].bits
                     /\ inputs'[id].reasons = inputs[id].reasons
                     /\ inputs[id].state = "Havoc" => inputs'[id].state = "Havoc"

(* The favourites of an earlier moment remain what they were. *)
LEMMA FavouritesKept ==
  ASSUME inputs \in Seq(Inputs), Kept, NEW n \in 0 .. Len(inputs)
  PROVE  Favourites(n)' = Favourites(n)
<1>1. Len(inputs) \in Nat /\ \A j \in 1 .. n : j \in Ids /\ \A k \in j + 1 .. n : k \in Ids
  BY DEF Ids
<1>2. \A j \in 1 .. n : NewBytes(inputs'[j]) = NewBytes(inputs[j])
                        /\ Support(inputs'[j]) = Support(inputs[j])
  BY <1>1 DEF Kept, NewBytes, Support
<1>3. ASSUME NEW j \in 1 .. n
      PROVE  (j \in Favourites(n)') <=> (j \in Favourites(n))
  <2>1. \A k \in j + 1 .. n : k \in 1 .. n  BY <1>1
  <2>2. (j \in Favourites(n)) <=>
          /\ NewBytes(inputs[j]) # {}
          /\ \E i \in Support(inputs[j]) :
               \A k \in j + 1 .. n : NewBytes(inputs[k]) # {} => i \notin Support(inputs[k])
    BY Zenon DEF Favourites
  <2>3. (j \in Favourites(n)') <=>
          /\ NewBytes(inputs'[j]) # {}
          /\ \E i \in Support(inputs'[j]) :
               \A k \in j + 1 .. n : NewBytes(inputs'[k]) # {} => i \notin Support(inputs'[k])
    BY Zenon DEF Favourites
  <2>4. QED  BY <1>2, <2>1, <2>2, <2>3, Zenon
<1>4. Favourites(n) \subseteq 1 .. n /\ Favourites(n)' \subseteq 1 .. n  BY DEF Favourites
<1>5. QED  BY <1>3, <1>4, Zenon

-----------------------------------------------------------------------------
(* The threads that do not step *)

Same(u) ==
  /\ pc'[u] = pc[u] /\ task'[u] = task[u] /\ entry'[u] = entry[u] /\ left'[u] = left[u]
  /\ found'[u] = found[u] /\ graphs'[u] = graphs[u] /\ todo'[u] = todo[u]
  /\ held'[u] = held[u] /\ favids'[u] = favids[u]
  /\ writer = u => writer' = u

(* A thread relies on the corpus only in what never changes: its input is     *)
(* there, and a minimised one is not scheduled for minimisation.              *)
LEMMA OtherThread ==
  ASSUME CorpusType, NEW u \in Threads, ThreadInv(u), Same(u), Kept,
         pc[u] = "install" /\ ~overlap'[u] => ~overlap[u] /\ Len(inputs') = Len(inputs)
  PROVE  ThreadInv(u)'
<1>1. inputs \in Seq(Inputs) /\ Len(inputs) \in Nat /\ Len(inputs') \in Nat
      /\ Ids \subseteq Ids'
  BY DEF CorpusType, Kept, Ids
<1>2. Phases(u)'
  BY DEF ThreadInv, Phases, Same, Tracing
<1>3. Minimising(u)'
  BY DEF ThreadInv, Minimising, Same, Adding
<1>4. Holding(u)'
  BY <1>1 DEF ThreadInv, Holding, Same, Kept, Tracing, SplitStored
<1>5. Pending(u)'
  <2>1. CASE pc[u] = "install"
    <3>1. PICK n \in 0 .. Len(inputs) : favids[u] = Favourites(n)
      BY <2>1 DEF ThreadInv, Pending
    <3>2. Favourites(n)' = Favourites(n)  BY <1>1, FavouritesKept
    <3>3. favids'[u] = Favourites(n)' /\ n \in 0 .. Len(inputs')
      BY <1>1, <3>1, <3>2 DEF Same, Kept
    <3>4. ASSUME ~overlap'[u] PROVE favids'[u] = Favourites(Len(inputs))' 
      <4>1. Len(inputs) \in 0 .. Len(inputs)  BY <1>1
      <4>2. Favourites(Len(inputs)) = favids[u] /\ Len(inputs') = Len(inputs)
        BY <2>1, <3>4 DEF ThreadInv, Pending
      <4> DEFINE m == Len(inputs)
      <4>3. ASSUME NEW c \in 0 .. Len(inputs) PROVE Favourites(c)' = Favourites(c)
        BY <1>1, FavouritesKept
      <4>4. QED  BY <4>1, <4>2, <4>3 DEF Same
    <3>5. QED  BY <2>1, <3>3, <3>4 DEF Pending, Same
  <2>2. CASE pc[u] # "install"
    BY <2>2 DEF ThreadInv, Pending, Same
  <2>3. QED  BY <2>1, <2>2
<1>6. QED  BY <1>2, <1>3, <1>4, <1>5 DEF ThreadInv

-----------------------------------------------------------------------------
(* Steps outside an add *)

(* A step of t that changes no more of the corpus than an input's state or     *)
(* dictionary, and that has kept t's own part of the invariant.                *)
Local(t) ==
  /\ Kept /\ Len(inputs') = Len(inputs)
  /\ target' = target /\ min_example' = min_example /\ bitmap_bits' = bitmap_bits
  /\ favqueue' = favqueue /\ late' = late /\ favids' = favids /\ overlap' = overlap
  /\ bitmaps' \in [Tracked -> Bits] /\ next_input_id' \in Nat
  /\ writer' \in Threads \union {NoThread}
  /\ ThreadType'
  /\ \A u \in Threads \ {t} : Same(u)
  /\ pc[t] \notin {"favs", "install"} /\ pc'[t] \notin {"favs", "install"}
  /\ Phases(t)' /\ Minimising(t)' /\ Holding(t)'
  /\ \/ entry'[t].id \in {0, entry[t].id}
     \/ entry'[t].id \in Ids /\ inputs[entry'[t].id].state = "Minimize"
  /\ SplitStored(t)' => SplitStored(t) /\ found'[t].id = found[t].id

(* The rest of the invariant holds after such a step. *)
LEMMA LocalStep ==
  ASSUME IInv, NEW t \in Threads, Local(t)
  PROVE  IInv'
<1>1. /\ inputs \in Seq(Inputs) /\ Len(inputs) \in Nat /\ Kept /\ Len(inputs') = Len(inputs)
      /\ Ids' = Ids /\ Ids \subseteq Nat \ {0}
  BY DEF Local, IInv, CorpusType, Ids
<1>2. CorpusType' /\ ThreadType'
  BY <1>1 DEF Local, Kept, IInv, CorpusType
<1>3. Stored'
  BY <1>1, Zenon DEF Kept, IInv, Stored, Reached
<1>4. ExamplesAreMinimal'
  <2>1. min_example' = min_example /\ \A i \in DOMAIN min_example : min_example[i] \in Ids
    BY DEF Local, IInv, CorpusType
  <2>2. \A id \in Ids : Indices(inputs'[id]) = Indices(inputs[id])
                        /\ inputs'[id].len = inputs[id].len
    BY <1>1 DEF Kept, Indices
  <2>3. QED  BY <1>1, <2>1, <2>2, Zenon DEF IInv, ExamplesAreMinimal
<1>5. FavqueueIsConsistent'
  <2>1. PICK n \in 0 .. Len(inputs) : favqueue = Favourites(n)
    BY DEF IInv, FavqueueIsConsistent
  <2>2. Favourites(n)' = Favourites(n)  BY <1>1, FavouritesKept
  <2>3. favqueue' = Favourites(n)' /\ n \in 0 .. Len(inputs')
    BY <1>1, <2>1, <2>2 DEF Local
  <2>4. ASSUME NEW c \in 0 .. Len(inputs) PROVE Favourites(c)' = Favourites(c)
    BY <1>1, FavouritesKept
  <2>5. Favourites(Len(inputs))' = Favourites(Len(inputs))
    BY <1>1, <2>4
  <2>6. (\A u \in Threads : pc'[u] \notin {"favs", "install"})
        => (\A u \in Threads : pc[u] \notin {"favs", "install"})
    BY DEF Local, Same
  <2>7. QED  BY <2>3, <2>5, <2>6 DEF Local, IInv, FavqueueIsConsistent
<1>6. Apart'
  <2>1. SUFFICES ASSUME NEW a \in Threads, NEW b \in Threads, SplitStored(b)'
                 PROVE  found'[b].id # entry'[a].id
    BY DEF Apart
  <2>2. SplitStored(b) /\ found'[b].id = found[b].id
    BY <2>1 DEF Local, Same, SplitStored
  <2>3. found[b].id \in Ids /\ inputs[found[b].id].state = "Havoc"
    BY <2>2 DEF IInv, ThreadInv, Holding
  <2>4. found[b].id # entry[a].id  BY <2>2 DEF IInv, Apart
  <2>5. \/ entry'[a].id \in {0, entry[a].id}
        \/ entry'[a].id \in Ids /\ inputs[entry'[a].id].state = "Minimize"
    BY DEF Local, Same
  <2>6. QED  BY <1>1, <2>2, <2>3, <2>4, <2>5
<1>7. ASSUME NEW u \in Threads PROVE ThreadInv(u)'
  <2>1. CASE u = t
    <3>1. Pending(t)'
      BY DEF Local, IInv, ThreadInv, Pending
    <3>2. QED  BY <2>1, <3>1 DEF Local, ThreadInv
  <2>2. CASE u # t
    BY <1>1, <2>2, OtherThread DEF Local, IInv
  <2>3. QED  BY <2>1, <2>2
<1>8. QED  BY <1>2, <1>3, <1>4, <1>5, <1>6, <1>7 DEF IInv

(* A step that leaves the inputs alone keeps them. *)
LEMMA Unmoved ==
  ASSUME CorpusType, inputs' = inputs
  PROVE  Kept /\ Len(inputs') = Len(inputs)
BY DEF CorpusType, Kept

(* With an empty corpus a thread generates an input, otherwise it schedules one. *)
LEMMA IterStep ==
  ASSUME IInv, NEW t \in Threads, Iter(t) \/ IterScheduled(t)
  PROVE  IInv'
<1>1. /\ CorpusType /\ ThreadType /\ ThreadInv(t) /\ Havocs \in Nat \ {0}
      /\ pc[t] = "iter"
  BY SizesAssumption DEF IInv, Iter, IterScheduled
<1>2. UNCHANGED <<target, corpus, writer, local, found, splits, history>>
  BY DEF Iter, IterScheduled
<1>3. Kept /\ Len(inputs') = Len(inputs) /\ Ids' = Ids
  BY <1>1, <1>2, Unmoved DEF corpus, Ids
<1>4. \/ /\ pc' = [pc EXCEPT ![t] = "run"] /\ task' = [task EXCEPT ![t] = "havoc"]
         /\ \E n \in 1 .. Havocs : left' = [left EXCEPT ![t] = n]
         /\ entry' = entry
      \/ \E id \in Ids :
           /\ inputs[id].state = "Minimize"
           /\ entry' = [entry EXCEPT ![t] = inputs[id]]
           /\ pc' = [pc EXCEPT ![t] = "set_state"] /\ task' = [task EXCEPT ![t] = "min"]
           /\ left' = left
  <2>1. CASE Iter(t)
    <3>1. 1 \in 1 .. Havocs  BY <1>1
    <3>2. QED  BY <2>1, <3>1, Zenon DEF Iter
  <2>2. CASE IterScheduled(t)
    <3>1. schedule \subseteq Ids  BY <1>1 DEF schedule, CorpusType
    <3>2. Havocs \in 1 .. Havocs  BY <1>1
    <3>3. QED  BY <2>2, <3>1, <3>2 DEF IterScheduled
  <2>3. QED  BY <2>1, <2>2
<1>5. CASE /\ pc' = [pc EXCEPT ![t] = "run"] /\ task' = [task EXCEPT ![t] = "havoc"]
           /\ \E n \in 1 .. Havocs : left' = [left EXCEPT ![t] = n]
           /\ entry' = entry
  <2>1. PICK n \in 1 .. Havocs : left' = [left EXCEPT ![t] = n]  BY <1>5, Zenon
  <2>2. ThreadType'
    BY <1>1, <1>2, <1>5, <2>1 DEF ThreadType, splits, history
  <2>3. /\ pc'[t] = "run" /\ task'[t] = "havoc" /\ left'[t] > 0
        /\ \A u \in Threads \ {t} : Same(u)
    BY <1>1, <1>2, <1>5, <2>1 DEF ThreadType, Same, splits, history
  <2>4. Phases(t)' /\ Minimising(t)' /\ Holding(t)' /\ ~SplitStored(t)'
    BY <1>1, <1>2, <1>3, <1>5, <2>3, Zenon
    DEF ThreadInv, Phases, Minimising, Holding, Tracing, Adding, SplitStored, splits, corpus
  <2>5. Local(t)
    BY <1>1, <1>2, <1>3, <1>5, <2>2, <2>3, <2>4, Zenon DEF Local, corpus, history, CorpusType
  <2>6. QED  BY <2>5, LocalStep
<1>6. ASSUME NEW id \in Ids, inputs[id].state = "Minimize",
             entry' = [entry EXCEPT ![t] = inputs[id]],
             pc' = [pc EXCEPT ![t] = "set_state"], task' = [task EXCEPT ![t] = "min"],
             left' = left
      PROVE  IInv'
  <2>1. inputs[id] \in Inputs /\ inputs[id].id = id /\ Reached(inputs[id])
    BY <1>1 DEF CorpusType, Ids, IInv, Stored
  <2>2. ThreadType'
    BY <1>1, <1>2, <1>6, <2>1 DEF ThreadType, splits, history
  <2>3. /\ pc'[t] = "set_state" /\ task'[t] = "min" /\ entry'[t] = inputs[id]
        /\ \A u \in Threads \ {t} : Same(u)
    BY <1>1, <1>2, <1>6, Zenon DEF ThreadType, Same, splits, history
  <2>4. Phases(t)' /\ Minimising(t)' /\ Holding(t)' /\ ~SplitStored(t)'
    BY <1>1, <1>2, <1>3, <2>1, <2>3, Zenon
    DEF ThreadInv, Phases, Minimising, Holding, Tracing, Adding, SplitStored, splits, corpus
  <2>5. Local(t)
    BY <1>1, <1>2, <1>3, <1>6, <2>1, <2>2, <2>3, <2>4, Zenon DEF Local, corpus, history, CorpusType
  <2>6. QED  BY <2>5, LocalStep, Zenon
<1>7. QED  BY <1>4, <1>5, <1>6

(* set_state and set_custom_dict take the lock of the data, perform_min the   *)
(* read guard of the input it has just added.                                 *)
LEMMA LockStep ==
  ASSUME IInv, NEW t \in Threads, LockData(t) \/ get_input(t)
  PROVE  IInv'
<1>1. /\ CorpusType /\ ThreadType /\ ThreadInv(t) /\ Havocs \in Nat \ {0}
      /\ writer = NoThread /\ NoThread \notin Threads
  BY SizesAssumption, ThreadsAssumption, Zenon DEF IInv, LockData, get_input
<1>2. UNCHANGED <<target, corpus, task, local, entry, left, found, graphs, todo, history>>
  BY DEF LockData, get_input, splits
<1>3. Kept /\ Len(inputs') = Len(inputs) /\ Ids' = Ids
  BY <1>1, <1>2, Unmoved DEF corpus, Ids
<1>4. CASE LockData(t)
  <2>1. /\ \/ pc[t] = "set_state" /\ pc' = [pc EXCEPT ![t] = "set_state_w"]
           \/ pc[t] = "set_dict" /\ pc' = [pc EXCEPT ![t] = "set_dict_w"]
        /\ writer' = t /\ held' = held
    BY <1>1, <1>4, Zenon DEF LockData, splits, ThreadType
  <2>2. ThreadType'
    BY <1>1, <1>2, <2>1 DEF ThreadType, history
  <2>3. \A u \in Threads \ {t} : Same(u)
    BY <1>1, <1>2, <2>1, Zenon DEF ThreadType, Same, history
  <2>4. Phases(t)' /\ Minimising(t)' /\ Holding(t)' /\ (SplitStored(t)' => SplitStored(t))
    BY <1>1, <1>2, <1>3, <2>1, Zenon
    DEF ThreadType, ThreadInv, Phases, Minimising, Holding, Tracing, Adding, SplitStored, corpus
  <2>5. Local(t)
    BY <1>1, <1>2, <1>3, <2>1, <2>2, <2>3, <2>4, Zenon DEF Local, corpus, history, CorpusType, ThreadType
  <2>6. QED  BY <2>5, LocalStep
<1>5. CASE get_input(t)
  <2>1. /\ pc[t] = "trace" /\ pc' = [pc EXCEPT ![t] = "set_dict"]
        /\ writer' = writer /\ held' = [held EXCEPT ![t] = found[t].id]
    BY <1>5 DEF get_input
  <2>0. found[t].id \in Nat  BY <1>1 DEF ThreadType, Inputs
  <2>2. ThreadType'
    BY <1>1, <1>2, <2>0, <2>1 DEF ThreadType, history
  <2>3. \A u \in Threads \ {t} : Same(u)
    BY <1>1, <1>2, <2>1, Zenon DEF ThreadType, Same, history
  <2>4. Phases(t)' /\ Minimising(t)' /\ Holding(t)' /\ (SplitStored(t)' => SplitStored(t))
    BY <1>1, <1>2, <1>3, <2>1, Zenon
    DEF ThreadType, ThreadInv, Phases, Minimising, Holding, Tracing, Adding, SplitStored, corpus
  <2>5. Local(t)
    BY <1>1, <1>2, <1>3, <2>1, <2>2, <2>3, <2>4, Zenon DEF Local, corpus, history, CorpusType, ThreadType
  <2>6. QED  BY <2>5, LocalStep
<1>6. QED  BY <1>4, <1>5

(* The minimised inputs are taken up one after the other. *)
NextSplit(t) ==
  /\ pc' \in [Threads -> {"iter", "run", "set_state", "set_state_w", "min", "add", "favs",
                          "install", "trace", "set_dict", "set_dict_w"}]
  /\ found' \in [Threads -> Inputs] /\ entry' \in [Threads -> Inputs]
  /\ todo' \in [Threads -> SUBSET Inputs]
  /\ \A u \in Threads \ {t} : /\ pc'[u] = pc[u] /\ found'[u] = found[u]
                              /\ entry'[u] = entry[u] /\ todo'[u] = todo[u]
  /\ \A g \in todo'[t] : Minimised(g)
  /\ \/ pc'[t] = "iter" /\ entry'[t] = NoInput /\ found'[t] = NoInput
     \/ pc'[t] = "add" /\ entry'[t] = entry[t] /\ Minimised(found'[t])

(* perform_min's loop: what is left to add are minimised inputs. *)
LEMMA SplitFacts ==
  ASSUME ThreadType, NEW t \in Threads, NEW rest \in SUBSET Inputs,
         \A g \in rest : Minimised(g), SplitOn(t, rest)
  PROVE  NextSplit(t)
<1>1. CASE /\ pc' = [pc EXCEPT ![t] = "iter"]
           /\ found' = [found EXCEPT ![t] = NoInput]
           /\ entry' = [entry EXCEPT ![t] = NoInput]
           /\ todo' = [todo EXCEPT ![t] = {}]
  BY <1>1, NoInputFacts DEF ThreadType, NextSplit
<1>2. ASSUME NEW g \in rest,
             pc' = [pc EXCEPT ![t] = "add"],
             found' = [found EXCEPT ![t] = g],
             todo' = [todo EXCEPT ![t] = rest \ {g}],
             entry' = entry
      PROVE  NextSplit(t)
  BY <1>2 DEF ThreadType, NextSplit
<1>3. QED  BY <1>1, <1>2 DEF SplitOn

(* The end of a minimisation. *)
LEMMA EndMinimizeStep ==
  ASSUME IInv, NEW t \in Threads, EndMinimize(t)
  PROVE  IInv'
<1>1. /\ CorpusType /\ ThreadType /\ ThreadInv(t) /\ pc[t] = "min"
  BY DEF IInv, EndMinimize
<1> DEFINE rest == {graphs[t][i] : i \in DOMAIN graphs[t]}
<1>2. /\ UNCHANGED <<target, corpus, writer, local, left, held, history>>
      /\ task' = [task EXCEPT ![t] = "split"]
      /\ graphs' = [graphs EXCEPT ![t] = NoGraphs]
      /\ SplitOn(t, rest)
  BY DEF EndMinimize
<1>3. rest \in SUBSET Inputs /\ \A g \in rest : Minimised(g)
  BY <1>1 DEF ThreadType, ThreadInv, Minimising
<1> HIDE DEF rest
<1>4. Kept /\ Len(inputs') = Len(inputs) /\ Ids' = Ids
  BY <1>1, <1>2, Unmoved DEF corpus, Ids
<1>5. NextSplit(t)
  BY <1>1, <1>2, <1>3, SplitFacts
<1>6. /\ DOMAIN graphs' = Threads /\ graphs'[t] = NoGraphs /\ DOMAIN NoGraphs = {}
      /\ \A u \in Threads \ {t} : graphs'[u] = graphs[u]
      /\ task' \in [Threads -> {"havoc", "min", "split"}] /\ task'[t] = "split"
      /\ \A u \in Threads \ {t} : task'[u] = task[u]
  BY <1>1, <1>2 DEF ThreadType, NoGraphs
<1>7. ThreadType'
  BY <1>1, <1>2, <1>5, <1>6 DEF ThreadType, history, NextSplit
<1>8. \A u \in Threads \ {t} : Same(u)
  BY <1>2, <1>5, <1>6 DEF Same, history, NextSplit
<1>9. held[t] = 0 /\ entry[t].id \in Ids /\ Reached(entry[t])
  BY <1>1 DEF ThreadInv, Holding, Phases, Tracing
<1>10. Phases(t)' /\ Minimising(t)' /\ ~SplitStored(t)'
  BY <1>5, <1>6, Zenon DEF Phases, Minimising, Tracing, Adding, SplitStored, NextSplit
<1>11. Holding(t)'
  BY <1>2, <1>4, <1>5, <1>6, <1>9, NoInputFacts, Zenon DEF Holding, Tracing, SplitStored, Minimised, NextSplit
<1>12. entry'[t].id \in {0, entry[t].id}
  BY <1>5, NoInputFacts DEF NextSplit
<1>13. Local(t)
  BY <1>1, <1>2, <1>4, <1>5, <1>7, <1>8, <1>10, <1>11, <1>12, Zenon
  DEF Local, corpus, history, CorpusType, NextSplit
<1>14. QED  BY <1>13, LocalStep

(* After a run a thread minimises on, or has another run of its round, or     *)
(* starts over.                                                               *)
Returns(t) ==
  /\ Back(t) \in {"min", "run", "iter"}
  /\ left' \in [Threads -> 0 .. Havocs] /\ \A u \in Threads \ {t} : left'[u] = left[u]
  /\ Back(t) = "run" => left'[t] > 0 /\ task[t] = "havoc"
  /\ Back(t) = "min" <=> task[t] = "min"

(* Every run of a havoc round is counted. *)
LEMMA BackAgain ==
  ASSUME ThreadType, NEW t \in Threads, task[t] # "split", Phases(t), pc[t] # "iter", CountRun(t)
  PROVE  Returns(t)
<1>1. /\ Havocs \in Nat \ {0} /\ left \in [Threads -> 0 .. Havocs]
      /\ task[t] \in {"havoc", "min"}
  BY SizesAssumption DEF ThreadType
<1>2. CASE task[t] = "havoc"
  <2>1. left[t] \in 0 .. Havocs /\ left[t] > 0  BY <1>1, <1>2 DEF Phases
  <2>2. left' = [left EXCEPT ![t] = left[t] - 1] /\ left[t] - 1 \in 0 .. Havocs
    BY <1>1, <1>2, <2>1 DEF CountRun
  <2>3. QED  BY <1>1, <1>2, <2>1, <2>2 DEF Back, Returns
<1>3. CASE task[t] = "min"
  <2>1. left' = left  BY <1>1, <1>3 DEF CountRun
  <2>2. QED  BY <1>1, <1>3, <2>1 DEF Back, Returns
<1>4. QED  BY <1>1, <1>2, <1>3

(* add stores nothing: the thread goes on with the run or with the split. *)
LEMMA AddIgnoredStep ==
  ASSUME IInv, NEW t \in Threads, AddIgnored(t)
  PROVE  IInv'
<1>1. /\ CorpusType /\ ThreadType /\ ThreadInv(t) /\ pc[t] = "add" /\ Havocs \in Nat \ {0}
  BY SizesAssumption DEF IInv, AddIgnored
<1>2. /\ UNCHANGED <<target, inputs, favqueue, bitmap_bits, min_example, bitmaps, writer, task,
                     local, graphs, held, history>>
      /\ new_input(t)
  BY DEF AddIgnored
<1>3. next_input_id' \in Nat
  BY <1>1, <1>2 DEF new_input, CorpusType
<1>4. Kept /\ Len(inputs') = Len(inputs) /\ Ids' = Ids
  BY <1>1, <1>2, Unmoved DEF Ids
<1>5. held[t] = 0
  BY <1>1 DEF ThreadInv, Holding, Tracing
<1>6. CASE task[t] = "split"
  <2>1. NextSplit(t) /\ left' = left
    <3>1. todo[t] \in SUBSET Inputs /\ \A g \in todo[t] : Minimised(g)
      BY <1>1, Zenon DEF ThreadType, ThreadInv, Minimising
    <3>2. SplitOn(t, todo[t]) /\ left' = left  BY <1>6 DEF AddIgnored
    <3>3. QED  BY <1>1, <3>1, <3>2, SplitFacts, Zenon
  <2>2. ThreadType'
    BY <1>1, <1>2, <2>1 DEF ThreadType, NextSplit, history
  <2>3. \A u \in Threads \ {t} : Same(u)
    BY <1>2, <2>1, Zenon DEF Same, NextSplit, history
  <2>4. Phases(t)' /\ Minimising(t)' /\ ~SplitStored(t)'
    BY <1>1, <1>2, <1>6, <2>1, Zenon
    DEF ThreadInv, Phases, Minimising, Tracing, Adding, SplitStored, NextSplit
  <2>5. Holding(t)'
    BY <1>1, <1>2, <1>4, <1>5, <1>6, <2>1, NoInputFacts, Zenon
    DEF ThreadInv, Holding, Tracing, SplitStored, Minimised, NextSplit
  <2>6. entry'[t].id \in {0, entry[t].id}
    BY <2>1, NoInputFacts DEF NextSplit
  <2>7. Local(t)
    BY <1>1, <1>2, <1>3, <1>4, <2>1, <2>2, <2>3, <2>4, <2>5, <2>6, Zenon
    DEF Local, history, CorpusType, NextSplit
  <2>8. QED  BY <2>7, LocalStep
<1>7. CASE task[t] # "split"
  <2>1. /\ pc' = [pc EXCEPT ![t] = Back(t)] /\ found' = [found EXCEPT ![t] = NoInput]
        /\ CountRun(t) /\ entry' = entry /\ todo' = todo
    BY <1>7, Zenon DEF AddIgnored
  <2>2. Returns(t)
    BY <1>1, <1>7, <2>1, BackAgain DEF ThreadInv
  <2>3. ThreadType'
    BY <1>1, <1>2, <2>1, <2>2, NoInputFacts, Zenon DEF ThreadType, history, Returns
  <2>4. /\ pc'[t] = Back(t) /\ found'[t] = NoInput
        /\ \A u \in Threads \ {t} : Same(u)
    BY <1>1, <1>2, <2>1, <2>2 DEF ThreadType, Same, history, Returns
  <2>5. Phases(t)' /\ Minimising(t)' /\ ~SplitStored(t)'
    BY <1>1, <1>2, <1>7, <2>1, <2>2, <2>4, Zenon
    DEF ThreadType, ThreadInv, Phases, Minimising, Tracing, Adding, SplitStored, Returns
  <2>6. Holding(t)'
    BY <1>1, <1>2, <1>4, <1>5, <1>7, <2>1, <2>2, <2>4, NoInputFacts, Zenon
    DEF ThreadInv, Holding, Tracing, SplitStored, Returns
  <2>7. Local(t)
    BY <1>1, <1>2, <1>3, <1>4, <2>1, <2>2, <2>3, <2>4, <2>5, <2>6, Zenon
    DEF Local, history, CorpusType, Returns
  <2>8. QED  BY <2>7, LocalStep
<1>8. QED  BY <1>6, <1>7

(* A state or a dictionary is written. *)
LEMMA Touched ==
  ASSUME inputs \in Seq(Inputs), NEW id \in Ids, NEW r \in Inputs,
         Renamed(r, inputs[id]), r.id = inputs[id].id,
         inputs[id].state = "Havoc" => r.state = "Havoc",
         inputs' = [inputs EXCEPT ![id] = r]
  PROVE  Kept /\ Len(inputs') = Len(inputs)
<1>1. inputs' \in Seq(Inputs) /\ Len(inputs') = Len(inputs) /\ Len(inputs) \in Nat
      /\ \A k \in Ids : inputs'[k] = IF k = id THEN r ELSE inputs[k]
  BY DEF Ids
<1>2. QED  BY <1>1 DEF Kept, Renamed

(* set_state: minimisation starts from the input itself. *)
LEMMA SetStateStep ==
  ASSUME IInv, NEW t \in Threads, set_state(t)
  PROVE  IInv'
<1>1. /\ CorpusType /\ ThreadType /\ ThreadInv(t) /\ pc[t] = "set_state_w" /\ task[t] = "min"
      /\ writer = t
  BY DEF IInv, set_state, ThreadInv, Phases
<1>2. UNCHANGED <<target, favqueue, bitmap_bits, min_example, bitmaps, next_input_id, task, local,
                  entry, left, found, todo, held, history>>
  BY Zenon DEF set_state
<1>3. /\ entry[t] \in Inputs /\ entry[t].id \in Ids /\ Reached(entry[t]) /\ inputs \in Seq(Inputs)
      /\ held[t] = 0
  BY <1>1 DEF ThreadInv, Holding, CorpusType, ThreadType, Tracing
<1>4. Kept /\ Len(inputs') = Len(inputs) /\ Ids' = Ids
  <2> DEFINE id == entry[t].id
             r == [inputs[id] EXCEPT !.state = "Havoc"]
  <2>1. inputs[id] \in Inputs  BY <1>3 DEF Ids
  <2>2. r \in Inputs /\ Renamed(r, inputs[id]) /\ r.id = inputs[id].id /\ r.state = "Havoc"
    BY <2>1, Retyped, Zenon DEF Renamed
  <2>3. inputs' = [inputs EXCEPT ![id] = r]  BY DEF set_state
  <2> HIDE DEF r
  <2>4. QED  BY <1>3, <2>2, <2>3, Touched, Zenon DEF Ids
<1>5. /\ MinimizeCopy(entry[t]) \in Inputs /\ Renamed(MinimizeCopy(entry[t]), entry[t])
      /\ MinimizeCopy(entry[t]).id = 0 /\ MinimizeCopy(entry[t]).state = "Havoc"
  BY <1>3, Retyped, Zenon DEF Renamed
<1> DEFINE new == {r.index : r \in NewBytes(entry[t])}
           copy == MinimizeCopy(entry[t])
<1>6. /\ graphs' = [graphs EXCEPT ![t] = [i \in new |-> copy]]
      /\ pc' = [pc EXCEPT ![t] = IF NewBytes(entry[t]) = {} THEN "iter" ELSE "min"]
      /\ writer' = NoThread
  BY Zenon DEF set_state
<1>7. /\ new \subseteq Idx /\ new \subseteq Indices(copy) /\ new \subseteq Support(copy)
      /\ Minimised(copy) /\ copy.len <= entry[t].len
  <2>1. entry[t].reasons \subseteq Reasons /\ entry[t].len \in Nat
    <3>1. Lens \subseteq Nat  BY TargetsAssumption DEF Lens
    <3>2. entry[t].len \in Lens \union {0}  BY <1>3 DEF Inputs
    <3>3. entry[t].reasons \in SUBSET Reasons  BY <1>3 DEF Inputs
    <3>4. Lens \union {0} \subseteq Nat  BY <3>1
    <3>5. entry[t].len \in Nat  BY <3>2, <3>4
    <3>6. QED  BY <3>3, <3>5
  <2>2. copy.reasons = entry[t].reasons /\ copy.bits = entry[t].bits /\ copy.len = entry[t].len
    BY <1>5 DEF Renamed
  <2>3. new \subseteq Idx  BY <2>1 DEF NewBytes, Reasons
  <2> HIDE DEF copy
  <2>4. new \subseteq Indices(copy)  BY <2>2 DEF NewBytes, Indices
  <2>5. new \subseteq Support(copy)  BY <1>3, <2>2, <2>3 DEF NewBytes, Support, Reached
  <2>6. Minimised(copy)  BY <1>3, <1>5, <2>2 DEF Minimised, Reached, copy
  <2>7. QED  BY <2>1, <2>2, <2>3, <2>4, <2>5, <2>6
<1>8. NewBytes(entry[t]) = {} => new = {}  OBVIOUS
<1>9. copy \in Inputs  BY <1>5
<1> HIDE DEF copy, new
<1>10. /\ graphs'[t] = [i \in new |-> copy] /\ DOMAIN graphs' = Threads
       /\ DOMAIN graphs'[t] = new /\ \A i \in new : graphs'[t][i] = copy
       /\ \A u \in Threads \ {t} : graphs'[u] = graphs[u]
  BY <1>1, <1>6 DEF ThreadType
<1>11. ThreadType'
  BY <1>1, <1>2, <1>6, <1>7, <1>9, <1>10, Zenon DEF ThreadType, history
<1>12. \A u \in Threads \ {t} : Same(u)
  BY <1>1, <1>2, <1>6, <1>10 DEF ThreadType, Same, history
<1>13. pc'[t] = IF NewBytes(entry[t]) = {} THEN "iter" ELSE "min"
  BY <1>1, <1>6 DEF ThreadType
<1>14. Phases(t)' /\ ~SplitStored(t)'
  BY <1>1, <1>2, <1>13, Zenon DEF Phases, Tracing, SplitStored
<1>15. Minimising(t)'
  BY <1>1, <1>2, <1>7, <1>8, <1>10, <1>13, Zenon DEF ThreadInv, Minimising, Adding, new
<1>16. Holding(t)'
  BY <1>1, <1>2, <1>3, <1>4, <1>13, Zenon DEF ThreadInv, Holding, Tracing, SplitStored
<1>17. Local(t)
  <2>1. pc[t] \notin {"favs", "install"} /\ pc'[t] \notin {"favs", "install"}
    BY <1>1, <1>13
  <2>2. /\ bitmaps' \in [Tracked -> Bits] /\ next_input_id' \in Nat
        /\ writer' \in Threads \union {NoThread}
    BY <1>1, <1>2, <1>6, Zenon DEF CorpusType
  <2>3. QED
    BY <1>2, <1>4, <1>11, <1>12, <1>14, <1>15, <1>16, <2>1, <2>2, Zenon DEF Local, history
<1>18. QED  BY <1>17, LocalStep

(* set_custom_dict: the traced input's guard is dropped. *)
LEMMA SetDictStep ==
  ASSUME IInv, NEW t \in Threads, set_custom_dict(t)
  PROVE  IInv'
<1>1. /\ CorpusType /\ ThreadType /\ ThreadInv(t) /\ pc[t] = "set_dict_w" /\ task[t] = "split"
      /\ writer = t
  BY DEF IInv, set_custom_dict, ThreadInv, Phases, Tracing
<1>2. UNCHANGED <<target, favqueue, bitmap_bits, min_example, bitmaps, next_input_id, task, local,
                  left, graphs, history>>
  BY DEF set_custom_dict
<1>3. /\ entry[t] \in Inputs /\ entry[t].id \in Ids /\ Reached(entry[t]) /\ inputs \in Seq(Inputs)
  BY <1>1, Zenon DEF ThreadInv, Holding, CorpusType, ThreadType, Tracing
<1>4. Kept /\ Len(inputs') = Len(inputs) /\ Ids' = Ids
  <2> DEFINE id == entry[t].id
             r == [inputs[id] EXCEPT !.dict = TRUE]
  <2>1. inputs[id] \in Inputs  BY <1>3 DEF Ids
  <2>2. r \in Inputs /\ Renamed(r, inputs[id]) /\ r.id = inputs[id].id
        /\ r.state = inputs[id].state
    BY <2>1, Retyped, Zenon DEF Renamed
  <2>3. inputs' = [inputs EXCEPT ![id] = r]  BY DEF set_custom_dict
  <2> HIDE DEF r
  <2>4. QED  BY <1>3, <2>2, <2>3, Touched, Zenon DEF Ids
<1>5. NextSplit(t) /\ writer' = NoThread /\ held' = [held EXCEPT ![t] = 0]
  <2>1. todo[t] \in SUBSET Inputs /\ \A g \in todo[t] : Minimised(g)
    BY <1>1 DEF ThreadType, ThreadInv, Minimising
  <2>2. SplitOn(t, todo[t]) /\ writer' = NoThread /\ held' = [held EXCEPT ![t] = 0]
    BY DEF set_custom_dict
  <2>3. QED  BY <1>1, <2>1, <2>2, SplitFacts, Zenon
<1>6. held' \in [Threads -> Nat] /\ held'[t] = 0 /\ \A u \in Threads \ {t} : held'[u] = held[u]
  BY <1>1, <1>5 DEF ThreadType
<1>7. ThreadType'
  BY <1>1, <1>2, <1>5, <1>6 DEF ThreadType, NextSplit, history
<1>8. \A u \in Threads \ {t} : Same(u)
  BY <1>1, <1>2, <1>5, <1>6, Zenon DEF Same, NextSplit, history
<1>9. Phases(t)' /\ Minimising(t)' /\ ~SplitStored(t)'
  BY <1>1, <1>2, <1>5 DEF ThreadInv, Phases, Minimising, Tracing, Adding, SplitStored, NextSplit
<1>10. Holding(t)'
  BY <1>1, <1>2, <1>3, <1>4, <1>5, <1>6, NoInputFacts, Zenon
  DEF Holding, Tracing, SplitStored, Minimised, NextSplit
<1>11. entry'[t].id \in {0, entry[t].id}
  BY <1>5, NoInputFacts DEF NextSplit
<1>12. Local(t)
  BY <1>1, <1>2, <1>4, <1>5, <1>7, <1>8, <1>9, <1>10, <1>11, Zenon
  DEF Local, history, CorpusType, NextSplit
<1>13. QED  BY <1>12, LocalStep

(* The lengths of inputs are numbers. *)
LEMMA LensAreNat == Lens \union {0} \subseteq Nat
<1>1. Lens \subseteq Nat  BY TargetsAssumption DEF Lens
<1>2. QED  BY <1>1

(* A graph kept for a byte. *)
KeptFor(g, i, input) ==
  /\ g \in Inputs /\ Minimised(g) /\ i \in Support(g) /\ i \in Indices(g) /\ g.len <= input.len

(* update_min_graphs keeps a graph for the same bytes as before. *)
LEMMA MinGraphs ==
  ASSUME ThreadType, NEW t \in Threads, ThreadInv(t), pc[t] \in {"run", "min"},
         NEW len \in Lens, NEW bits \in Bits, NEW exit \in ExitReasons
  PROVE  /\ DOMAIN update_min_graphs(t, len, bits, exit) = DOMAIN graphs[t]
         /\ \A i \in DOMAIN graphs[t] :
              i \in Idx /\ KeptFor(update_min_graphs(t, len, bits, exit)[i], i, entry[t])
<1> DEFINE better == {i \in DOMAIN graphs[t] : bits[i] > 0 /\ graphs[t][i].len > len}
           kept == {r \in NewBytes(entry[t]) : r.index \in better}
           input == [id |-> 0, len |-> len, bits |-> bits, exit |-> exit, state |-> "Havoc",
                     reasons |-> kept, dict |-> FALSE]
           new == [i \in DOMAIN graphs[t] |-> IF i \in better THEN input ELSE graphs[t][i]]
<1>1. update_min_graphs(t, len, bits, exit) = new  BY Zenon DEF update_min_graphs
<1>2. kept \subseteq Reasons
  <2>1. entry[t] \in Inputs  BY Zenon DEF ThreadType
  <2>2. entry[t].reasons \in SUBSET Reasons  BY <2>1 DEF Inputs
  <2>3. QED  BY <2>2 DEF NewBytes
<1>3. input \in Inputs
  <2> HIDE DEF kept
  <2>1. QED  BY <1>2 DEF Inputs
<1>4. /\ input.id = 0 /\ input.len = len /\ input.bits = bits /\ input.state = "Havoc"
      /\ input.reasons = kept
  OBVIOUS
<1>5. ASSUME NEW i \in DOMAIN graphs[t] PROVE i \in Idx /\ KeptFor(graphs[t][i], i, entry[t])
  BY Zenon DEF ThreadType, ThreadInv, Minimising, KeptFor
<1>6. ASSUME NEW i \in better PROVE KeptFor(input, i, entry[t])
  <2>1. i \in DOMAIN graphs[t] /\ bits[i] > 0 /\ graphs[t][i].len > len  OBVIOUS
  <2>2. DOMAIN graphs[t] = {r.index : r \in NewBytes(entry[t])}
    BY <2>1, Zenon DEF ThreadInv, Minimising
  <2>3. i \in Indices(input)
    <3>1. PICK r \in NewBytes(entry[t]) : i = r.index  BY <2>1, <2>2
    <3>2. r \in kept  BY <3>1, Zenon
    <3>3. QED  BY <1>4, <3>1, <3>2, Zenon DEF Indices
  <2>4. Reached(input)
    <3>1. \A r \in kept : bits[r.index] > 0  OBVIOUS
    <3>2. QED  BY <1>4, <3>1 DEF Reached
  <2>5. i \in Idx /\ i \in Support(input)  BY <1>4, <1>5, <2>1, Zenon DEF Support
  <2>6. len <= entry[t].len
    <3>1. graphs[t][i] \in Inputs /\ entry[t] \in Inputs /\ graphs[t][i].len <= entry[t].len
      BY <1>5, <2>1, Zenon DEF KeptFor, ThreadType
    <3>2. graphs[t][i].len \in Nat /\ entry[t].len \in Nat /\ len \in Nat
      BY <3>1, LensAreNat DEF Inputs
    <3>3. QED  BY <2>1, <3>1, <3>2
  <2> HIDE DEF input
  <2>7. QED  BY <1>3, <1>4, <2>3, <2>4, <2>5, <2>6, Zenon DEF KeptFor, Minimised
<1> HIDE DEF better, input
<1>7. QED  BY <1>1, <1>5, <1>6, Zenon

(* The bitmaps only rise, and what rises is reached. *)
LEMMA Raising ==
  ASSUME NEW b \in Bits, NEW run \in Bits
  PROVE  /\ Raised(b, run) \in Bits
         /\ check_new_bytes(b, run) \in SUBSET Reasons
         /\ \A r \in check_new_bytes(b, run) : run[r.index] > 0
<1>1. \A i \in Idx : b[i] \in Levels /\ run[i] \in Levels  BY DEF Bits
<1>2. Raised(b, run) \in Bits  BY <1>1 DEF Raised, Bits
<1>3. check_new_bytes(b, run) \in SUBSET Reasons  BY <1>1 DEF check_new_bytes, Reasons
<1>4. \A x \in Levels : x \in Int /\ x >= 0  BY SizesAssumption DEF Levels
<1>5. \A r \in check_new_bytes(b, run) : run[r.index] > 0
  BY <1>1, <1>4 DEF check_new_bytes
<1>6. QED  BY <1>2, <1>3, <1>5

(* perform_run: a result is reported to the bitmaps, compared with the graphs *)
(* being minimised and, if it is new, added.                                  *)
LEMMA RunStep ==
  ASSUME IInv, NEW t \in Threads, perform_run(t)
  PROVE  IInv'
<1>1. /\ CorpusType /\ ThreadType /\ ThreadInv(t) /\ pc[t] \in {"run", "min"}
      /\ target \in Targets
  BY DEF IInv, perform_run, CorpusType
<1>2. UNCHANGED <<target, inputs, favqueue, bitmap_bits, min_example, next_input_id, writer, task,
                  entry, todo, held, history>>
  BY DEF perform_run
<1>3. /\ target.bits \subseteq Bits /\ target.lens \subseteq Lens
      /\ target.exits \subseteq ExitReasons
  BY <1>1, TargetsAssumption DEF Lens
<1> DEFINE mineNew(exit, bits) ==
             exit \in Tracked /\ check_new_bytes(local[t][exit], bits) # {}
           news(exit, bits) ==
             IF mineNew(exit, bits) THEN check_new_bytes(bitmaps[exit], bits) ELSE {}
<1>4. PICK len \in Lengths(t), bits \in target.bits, exit \in target.exits :
        /\ local' = IF mineNew(exit, bits)
                    THEN [local EXCEPT ![t][exit] = Raised(@, bits)] ELSE local
        /\ bitmaps' = IF mineNew(exit, bits)
                      THEN [bitmaps EXCEPT ![exit] = Raised(@, bits)] ELSE bitmaps
        /\ \E last \in (IF news(exit, bits) = {} THEN {bits} ELSE target.bits),
              keep \in SUBSET news(exit, bits) :
             /\ \A r \in keep : last[r.index] >= r.new
             /\ graphs' = [graphs EXCEPT ![t] = update_min_graphs(t, len, last, exit)]
             /\ IF keep # {}
                THEN /\ found' = [found EXCEPT ![t] =
                          [id |-> 0, len |-> len, bits |-> bits, reasons |-> keep, exit |-> exit,
                           state |-> "Minimize", dict |-> FALSE]]
                     /\ pc' = [pc EXCEPT ![t] = "add"]
                     /\ UNCHANGED left
                ELSE /\ pc' = [pc EXCEPT ![t] = Back(t)]
                     /\ CountRun(t)
                     /\ UNCHANGED found
  BY Zenon DEF perform_run
<1>5. len \in Lens /\ bits \in Bits /\ exit \in ExitReasons
  BY <1>3, <1>4, Zenon DEF Lengths
<1>6. local' \in [Threads -> [Tracked -> Bits]] /\ bitmaps' \in [Tracked -> Bits]
  <2>1. CASE mineNew(exit, bits)
    <3>1. /\ local[t] \in [Tracked -> Bits] /\ local[t][exit] \in Bits /\ bitmaps[exit] \in Bits
      BY <1>1, <2>1, Zenon DEF CorpusType, ThreadType
    <3>2. Raised(local[t][exit], bits) \in Bits /\ Raised(bitmaps[exit], bits) \in Bits
      BY <1>5, <3>1, Raising
    <3>3. [local[t] EXCEPT ![exit] = Raised(local[t][exit], bits)] \in [Tracked -> Bits]
      BY <3>1, <3>2, Zenon
    <3>4. /\ local' = [local EXCEPT ![t] = [local[t] EXCEPT ![exit] = Raised(local[t][exit], bits)]]
          /\ bitmaps' = [bitmaps EXCEPT ![exit] = Raised(bitmaps[exit], bits)]
      BY <1>4, <2>1
    <3>5. QED  BY <1>1, <3>2, <3>3, <3>4 DEF CorpusType, ThreadType
  <2>2. CASE ~mineNew(exit, bits)
    BY <1>1, <1>4, <2>2, Zenon DEF CorpusType, ThreadType
  <2>3. QED  BY <2>1, <2>2, Zenon
<1>7. news(exit, bits) \in SUBSET Reasons /\ \A r \in news(exit, bits) : bits[r.index] > 0
  <2>1. CASE mineNew(exit, bits)
    <3>1. bitmaps[exit] \in Bits  BY <1>1, <2>1 DEF CorpusType
    <3>2. QED  BY <1>5, <2>1, <3>1, Raising
  <2>2. CASE ~mineNew(exit, bits)  BY <2>2
  <2>3. QED  BY <2>1, <2>2
<1> HIDE DEF mineNew, news
<1>8. PICK last \in Bits, keep \in SUBSET news(exit, bits) :
        /\ graphs' = [graphs EXCEPT ![t] = update_min_graphs(t, len, last, exit)]
        /\ \/ /\ keep # {}
              /\ found' = [found EXCEPT ![t] =
                   [id |-> 0, len |-> len, bits |-> bits, reasons |-> keep, exit |-> exit,
                    state |-> "Minimize", dict |-> FALSE]]
              /\ pc' = [pc EXCEPT ![t] = "add"] /\ left' = left
           \/ /\ pc' = [pc EXCEPT ![t] = Back(t)]
              /\ CountRun(t) /\ found' = found
  BY <1>3, <1>4, <1>5, Zenon
<1>9. /\ DOMAIN graphs' = Threads /\ \A u \in Threads \ {t} : graphs'[u] = graphs[u]
      /\ DOMAIN graphs'[t] = DOMAIN graphs[t]
      /\ \A i \in DOMAIN graphs[t] : i \in Idx /\ KeptFor(graphs'[t][i], i, entry[t])
  <2>1. /\ DOMAIN update_min_graphs(t, len, last, exit) = DOMAIN graphs[t]
        /\ \A i \in DOMAIN graphs[t] :
             i \in Idx /\ KeptFor(update_min_graphs(t, len, last, exit)[i], i, entry[t])
    BY <1>1, <1>5, MinGraphs, Zenon
  <2>2. /\ DOMAIN graphs' = Threads /\ \A u \in Threads \ {t} : graphs'[u] = graphs[u]
        /\ graphs'[t] = update_min_graphs(t, len, last, exit)
    BY <1>1, <1>8, Zenon DEF ThreadType
  <2>3. QED  BY <2>1, <2>2, Zenon
<1>10. Kept /\ Len(inputs') = Len(inputs) /\ Ids' = Ids
  BY <1>1, <1>2, Unmoved, Zenon DEF Ids
<1>11. held[t] = 0 /\ task[t] # "split" /\ (task[t] = "havoc" => left[t] > 0)
  BY <1>1, Zenon DEF ThreadInv, Holding, Phases, Tracing, ThreadType
<1>12. /\ \A u \in Threads : \A i \in DOMAIN graphs'[u] : i \in Idx /\ graphs'[u][i] \in Inputs
  BY <1>1, <1>9, Zenon DEF ThreadType, KeptFor
<1>13. Local(t)
  <2>1. CASE /\ found' = [found EXCEPT ![t] =
                   [id |-> 0, len |-> len, bits |-> bits, reasons |-> keep, exit |-> exit,
                    state |-> "Minimize", dict |-> FALSE]]
             /\ pc' = [pc EXCEPT ![t] = "add"] /\ left' = left
    <3> DEFINE input == [id |-> 0, len |-> len, bits |-> bits, reasons |-> keep, exit |-> exit,
                         state |-> "Minimize", dict |-> FALSE]
    <3>1. input \in Inputs /\ Reached(input) /\ input.id = 0
      <4>1. keep \in SUBSET Reasons /\ \A r \in keep : bits[r.index] > 0  BY <1>7, <1>8, Zenon
      <4>2. input \in Inputs  BY <1>5, <4>1, Zenon DEF Inputs
      <4>3. QED  BY <4>1, <4>2 DEF Reached
    <3>2. found' = [found EXCEPT ![t] = input]  BY <2>1
    <3> HIDE DEF input
    <3>3. ThreadType'
      <4>1. found' \in [Threads -> Inputs]  BY <1>1, <3>1, <3>2, Zenon DEF ThreadType
      <4>2. pc' = [pc EXCEPT ![t] = "add"] /\ left' = left  BY <2>1
      <4>3. QED  BY <1>1, <1>2, <1>6, <1>9, <1>12, <4>1, <4>2, Zenon DEF ThreadType, history
    <3>4. /\ pc'[t] = "add" /\ found'[t] = input
          /\ \A u \in Threads \ {t} : Same(u)
      BY <1>1, <1>2, <1>9, <2>1, <3>2, Zenon DEF ThreadType, Same, history
    <3>5. Phases(t)' /\ ~SplitStored(t)'
      BY <1>1, <1>2, <1>11, <2>1, <3>4, Zenon DEF Phases, Tracing, SplitStored
    <3>6. Minimising(t)'
      BY <1>1, <1>2, <1>9, <1>11, <3>4, Zenon
      DEF ThreadInv, Phases, Minimising, Adding, KeptFor, ThreadType
    <3>7. Holding(t)'
      BY <1>1, <1>2, <1>10, <1>11, <3>1, <3>4, Zenon DEF ThreadInv, Holding, Tracing, SplitStored
    <3>8. QED
      BY <1>1, <1>2, <1>6, <1>10, <3>3, <3>4, <3>5, <3>6, <3>7, Zenon DEF Local, history, CorpusType
  <2>2. CASE /\ pc' = [pc EXCEPT ![t] = Back(t)]
             /\ CountRun(t) /\ found' = found
    <3>1. Returns(t)
      BY <1>1, <1>11, <2>2, BackAgain, Zenon DEF ThreadInv
    <3>2. ThreadType'
      BY <1>1, <1>2, <1>6, <1>9, <1>12, <2>2, <3>1, Zenon DEF ThreadType, history, Returns
    <3>3. /\ pc'[t] = Back(t)
          /\ \A u \in Threads \ {t} : Same(u)
      BY <1>1, <1>2, <1>9, <2>2, <3>1, Zenon DEF ThreadType, Same, history, Returns
    <3>4. Phases(t)' /\ ~SplitStored(t)'
      BY <1>1, <1>2, <1>11, <3>1, <3>3, Zenon DEF Phases, Tracing, SplitStored, Returns
    <3>5. Minimising(t)'
      BY <1>1, <1>2, <1>9, <1>11, <3>1, <3>3, Zenon
      DEF ThreadInv, Phases, Minimising, Adding, KeptFor, ThreadType, Returns
    <3>6. Holding(t)'
      BY <1>1, <1>2, <1>10, <1>11, <2>2, <3>1, <3>3, Zenon
      DEF ThreadInv, Holding, Tracing, SplitStored, Returns
    <3>7. QED
      BY <1>1, <1>2, <1>6, <1>10, <3>1, <3>2, <3>3, <3>4, <3>5, <3>6, Zenon
      DEF Local, history, CorpusType, Returns
  <2>3. QED  BY <1>8, <2>1, <2>2, Zenon
<1>14. QED  BY <1>13, LocalStep

-----------------------------------------------------------------------------
(* Adding an input *)

(* add keeps a shortest example for every byte. *)
LEMMA AddExamples ==
  ASSUME CorpusType, Stored, ExamplesAreMinimal, NEW input \in Inputs, NEW r \in Inputs,
         Renamed(r, input), r.id = Len(inputs) + 1, Reached(input),
         inputs' = Append(inputs, r),
         min_example' = MinExamples(input, Len(inputs) + 1),
         bitmap_bits' = bitmap_bits \union (Indices(input) \ DOMAIN min_example)
  PROVE  /\ Kept /\ Len(inputs') = Len(inputs) + 1 /\ inputs'[Len(inputs) + 1] = r
         /\ DOMAIN min_example' \subseteq Idx /\ bitmap_bits' = DOMAIN min_example'
         /\ \A i \in DOMAIN min_example' : min_example'[i] \in Ids'
         /\ Stored' /\ ExamplesAreMinimal'
<1> DEFINE id == Len(inputs) + 1
<1>1. /\ inputs \in Seq(Inputs) /\ Len(inputs) \in Nat /\ inputs' \in Seq(Inputs)
      /\ Len(inputs') = id /\ inputs'[id] = r /\ \A k \in Ids : inputs'[k] = inputs[k]
      /\ Ids' = Ids \union {id} /\ id \notin Ids /\ Ids \subseteq Nat
  <2>1. inputs \in Seq(Inputs)  BY Zenon DEF CorpusType
  <2>2. /\ Len(inputs) \in Nat /\ inputs' \in Seq(Inputs) /\ Len(inputs') = id /\ inputs'[id] = r
        /\ \A k \in 1 .. Len(inputs) : inputs'[k] = inputs[k]
    BY <2>1
  <2>3. Ids' = Ids \union {id} /\ id \notin Ids /\ Ids \subseteq Nat  BY <2>2 DEF Ids
  <2>4. QED  BY <2>1, <2>2, <2>3, Zenon DEF Ids
<1>2. Kept
  <2>1. Len(inputs') >= Len(inputs)  BY <1>1
  <2>2. \A k \in Ids : inputs'[k] = inputs[k]  BY <1>1, Zenon
  <2>3. inputs' \in Seq(Inputs)  BY <1>1
  <2> HIDE DEF id
  <2>4. QED  BY <2>1, <2>2, <2>3, Zenon DEF Kept
<1>3. /\ DOMAIN min_example' = DOMAIN min_example \union Indices(input)
      /\ \A i \in DOMAIN min_example' :
           min_example'[i] =
             IF i \in Indices(input)
                /\ (i \in DOMAIN min_example => inputs[min_example[i]].len > input.len)
             THEN id ELSE min_example[i]
  BY DEF MinExamples
<1>4. Indices(input) \subseteq Idx
  <2>1. input.reasons \in SUBSET Reasons  BY DEF Inputs
  <2>2. QED  BY <2>1 DEF Indices, Reasons
<1>5. /\ bitmap_bits' = DOMAIN min_example' /\ DOMAIN min_example' \subseteq Idx
  BY <1>3, <1>4, Zenon DEF CorpusType
<1> HIDE DEF id
<1>6. \A i \in DOMAIN min_example' : min_example'[i] \in Ids'
  BY <1>1, <1>3, Zenon DEF CorpusType
<1>7. r.len = input.len /\ Indices(r) = Indices(input) /\ Reached(r) /\ r.id = id
  BY DEF Renamed, Indices, Reached, id
<1>8. Stored'
  BY <1>1, <1>7, Zenon DEF Stored, Reached
<1>9. \A k \in Ids \union {id} : inputs'[k].len \in Nat
  <2>1. \A k \in Ids \union {id} : inputs'[k] \in Inputs  BY <1>1 DEF CorpusType, Ids
  <2>2. QED  BY <2>1, LensAreNat, Zenon DEF Inputs
<1>10. ASSUME NEW k \in Ids' PROVE Indices(inputs'[k]) \subseteq DOMAIN min_example'
  BY <1>1, <1>3, <1>7, Zenon DEF ExamplesAreMinimal
<1>11. ASSUME NEW i \in DOMAIN min_example'
       PROVE  /\ i \in Indices(inputs'[min_example'[i]])
              /\ \A k \in Ids' : i \in Indices(inputs'[k]) =>
                                   inputs'[min_example'[i]].len <= inputs'[k].len
  <2>1. CASE i \in Indices(input) /\ (i \in DOMAIN min_example => inputs[min_example[i]].len > input.len)
    <3>1. min_example'[i] = id  BY <1>3, <2>1, Zenon
    <3>2. ASSUME NEW k \in Ids', i \in Indices(inputs'[k]) PROVE r.len <= inputs'[k].len
      <4>1. CASE k = id  BY <1>1, <1>9, <4>1
      <4>2. CASE k \in Ids
        <5>1. i \in Indices(inputs[k]) /\ i \in DOMAIN min_example
          BY <1>1, <3>2, <4>2, Zenon DEF ExamplesAreMinimal
        <5>2. /\ inputs[min_example[i]].len <= inputs[k].len /\ min_example[i] \in Ids
              /\ inputs[min_example[i]].len > input.len
          BY <2>1, <4>2, <5>1 DEF ExamplesAreMinimal, CorpusType
        <5>3. /\ inputs[min_example[i]].len \in Nat /\ inputs[k].len \in Nat /\ r.len \in Nat
          BY <1>1, <1>9, <4>2, <5>2, Zenon
        <5>4. inputs'[k].len = inputs[k].len /\ r.len = input.len  BY <1>1, <1>7, <4>2, Zenon
        <5>5. QED  BY <5>2, <5>3, <5>4
      <4>3. QED  BY <1>1, <4>1, <4>2, Zenon
    <3>3. QED  BY <1>1, <1>7, <2>1, <3>1, <3>2, Zenon
  <2>2. CASE ~(i \in Indices(input) /\ (i \in DOMAIN min_example => inputs[min_example[i]].len > input.len))
    <3>1. min_example'[i] = min_example[i] /\ i \in DOMAIN min_example  BY <1>3, <2>2
    <3>2. min_example[i] \in Ids /\ i \in Indices(inputs[min_example[i]])
      BY <3>1 DEF CorpusType, ExamplesAreMinimal
    <3>3. ASSUME NEW k \in Ids', i \in Indices(inputs'[k])
          PROVE  inputs[min_example[i]].len <= inputs'[k].len
      <4>1. CASE k = id
        <5>1. i \in Indices(input)  BY <1>1, <1>7, <3>3, <4>1
        <5>2. ~(inputs[min_example[i]].len > input.len)  BY <2>2, <3>1, <5>1
        <5>3. inputs[min_example[i]].len \in Nat /\ input.len \in Nat
          BY <1>1, <1>7, <1>9, <3>2, Zenon
        <5>4. QED  BY <1>1, <1>7, <4>1, <5>2, <5>3
      <4>2. CASE k \in Ids
        BY <1>1, <3>1, <3>3, <4>2, Zenon DEF ExamplesAreMinimal
      <4>3. QED  BY <1>1, <4>1, <4>2, Zenon
    <3>4. QED  BY <1>1, <3>1, <3>2, <3>3, Zenon
  <2>3. QED  BY <2>1, <2>2, Zenon
<1>12. ExamplesAreMinimal'
  BY <1>10, <1>11, Zenon DEF ExamplesAreMinimal
<1>13. QED  BY <1>1, <1>2, <1>5, <1>6, <1>8, <1>12, Zenon DEF id

(* add: the new input has a number that nobody has heard of. *)
LEMMA AddStep ==
  ASSUME IInv, NEW t \in Threads, Add(t)
  PROVE  IInv'
<1> DEFINE id == Len(inputs) + 1
           r == [found[t] EXCEPT !.id = id]
<1>1. /\ CorpusType /\ ThreadType /\ ThreadInv(t) /\ pc[t] = "add" /\ found[t] \in Inputs
      /\ Len(inputs) \in Nat /\ inputs \in Seq(Inputs) /\ Stored /\ ExamplesAreMinimal
  BY DEF IInv, Add, CorpusType, ThreadType
<1>2. /\ UNCHANGED <<target, favqueue, bitmaps, writer, task, local, entry, left, splits, favids, late>>
      /\ overlap' = [u \in Threads |-> pc[u] = "install"]
      /\ pc' = [pc EXCEPT ![t] = "favs"]
      /\ found' = [found EXCEPT ![t] = r]
      /\ next_input_id' \in Nat
  BY <1>1 DEF Add, new_input, CorpusType
<1>3. r \in Inputs /\ Renamed(r, found[t]) /\ r.id = id /\ r.state = found[t].state
  <2>1. id \in Nat  BY <1>1
  <2> HIDE DEF id
  <2>2. QED  BY <1>1, <2>1, Retyped, Zenon DEF Renamed
<1>4. Reached(found[t])  BY <1>1 DEF ThreadInv, Holding
<1>5. /\ inputs' = Append(inputs, r)
      /\ min_example' = MinExamples(found[t], Len(inputs) + 1)
      /\ bitmap_bits' = bitmap_bits \union (Indices(found[t]) \ DOMAIN min_example)
  BY DEF Add
<1> HIDE DEF r
<1>6. /\ Kept /\ Len(inputs') = Len(inputs) + 1 /\ inputs'[Len(inputs) + 1] = r
      /\ DOMAIN min_example' \subseteq Idx /\ bitmap_bits' = DOMAIN min_example'
      /\ \A i \in DOMAIN min_example' : min_example'[i] \in Ids'
      /\ Stored' /\ ExamplesAreMinimal'
  BY <1>1, <1>3, <1>4, <1>5, AddExamples, Zenon
<1>7. Ids \subseteq Ids' /\ id \in Ids' /\ id \notin Ids /\ id # 0 /\ Ids \subseteq Nat /\ id \in Nat
  BY <1>1, <1>6 DEF Ids
<1>8. inputs'[id] = r  BY <1>6
<1>9. CorpusType'
  BY <1>1, <1>2, <1>6, <1>7, Zenon DEF CorpusType, Kept
<1> HIDE DEF id
<1>10. ThreadType'
  <2>1. /\ pc' \in [Threads -> {"iter", "run", "set_state", "set_state_w", "min", "add", "favs",
                                "install", "trace", "set_dict", "set_dict_w"}]
        /\ found' \in [Threads -> Inputs]
    BY <1>1, <1>2, <1>3 DEF ThreadType
  <2>2. overlap' \in [Threads -> BOOLEAN]  BY <1>2
  <2>3. QED  BY <1>1, <1>2, <2>1, <2>2 DEF ThreadType, splits
<1>11. /\ pc'[t] = "favs" /\ found'[t] = r
       /\ \A u \in Threads \ {t} : Same(u)
  BY <1>1, <1>2 DEF ThreadType, Same, splits
<1>12. FavqueueIsConsistent'
  <2>1. PICK n \in 0 .. Len(inputs) : favqueue = Favourites(n)
    BY DEF IInv, FavqueueIsConsistent
  <2>2. Favourites(n)' = Favourites(n)  BY <1>1, <1>6, FavouritesKept
  <2>3. n \in 0 .. Len(inputs')  BY <1>1, <1>6
  <2>4. QED  BY <1>2, <1>11, <2>1, <2>2, <2>3 DEF FavqueueIsConsistent
<1>13. Apart'
  <2>1. SUFFICES ASSUME NEW a \in Threads, NEW b \in Threads, SplitStored(b)'
                 PROVE  found'[b].id # entry'[a].id
    BY Zenon DEF Apart
  <2>2. entry'[a] = entry[a] /\ entry[a].id \in {0} \union Ids
    BY <1>2, Zenon DEF IInv, ThreadInv, Holding
  <2>3. CASE b = t  BY <1>3, <1>7, <1>11, <2>2, <2>3, Zenon
  <2>4. CASE b # t
    <3>1. SplitStored(b) /\ found'[b] = found[b]  BY <1>11, <2>1, <2>4, Zenon DEF Same, SplitStored
    <3>2. QED  BY <2>2, <3>1 DEF IInv, Apart
  <2>5. QED  BY <2>3, <2>4
<1>14. ThreadInv(t)'
  <2>1. Phases(t)'
    BY <1>1, <1>2, <1>11, Zenon DEF ThreadInv, Phases, Tracing
  <2>2. Minimising(t)'
    BY <1>1, <1>2, <1>11, Zenon DEF ThreadInv, Minimising, Adding, splits
  <2>3. Reached(r)  BY <1>3, <1>4 DEF Reached, Renamed
  <2>4. Holding(t)'
    BY <1>1, <1>2, <1>3, <1>7, <1>8, <1>11, <2>3, Zenon
    DEF ThreadInv, Holding, Tracing, SplitStored, splits
  <2>5. Pending(t)'
    BY <1>1, <1>2, <1>11, Zenon DEF ThreadInv, Pending
  <2>6. QED  BY <2>1, <2>2, <2>4, <2>5 DEF ThreadInv
<1>15. ASSUME NEW u \in Threads PROVE ThreadInv(u)'
  <2>1. CASE u = t  BY <1>14, <2>1, Zenon
  <2>2. CASE u # t
    <3>1. overlap'[u] = (pc[u] = "install")  BY <1>2
    <3>2. pc[u] = "install" => overlap'[u]  BY <3>1, Zenon
    <3>3. ThreadInv(u) /\ Same(u)  BY <1>11, <2>2 DEF IInv
    <3>4. QED  BY <1>1, <1>6, <3>2, <3>3, OtherThread
  <2>3. QED  BY <2>1, <2>2
<1>16. QED  BY <1>6, <1>9, <1>10, <1>12, <1>13, <1>15 DEF IInv

(* calc_fav_bits computes the favourites of the inputs it reads. *)
LEMMA CalcStep ==
  ASSUME IInv, NEW t \in Threads, calc_fav_bits(t)
  PROVE  IInv'
<1>1. /\ CorpusType /\ ThreadType /\ ThreadInv(t) /\ pc[t] = "favs" /\ Len(inputs) \in Nat
      /\ inputs \in Seq(Inputs)
  BY DEF IInv, calc_fav_bits, CorpusType
<1>2. /\ UNCHANGED <<target, corpus, writer, task, local, entry, left, found, splits, late>>
      /\ favids' = [favids EXCEPT ![t] = FavIds(inputs)]
      /\ overlap' = [overlap EXCEPT ![t] = FALSE]
      /\ pc' = [pc EXCEPT ![t] = "install"]
  BY DEF calc_fav_bits
<1>3. FavIds(inputs) = Favourites(Len(inputs)) /\ FavIds(inputs) \subseteq Nat
  <2>1. FavIds(inputs) = Favourites(Len(inputs))  BY <1>1, GreedyIsRight
  <2>2. QED  BY <1>1, <2>1 DEF Favourites
<1>4. Kept /\ Len(inputs') = Len(inputs) /\ Ids' = Ids /\ inputs' = inputs
  BY <1>1, <1>2, Unmoved DEF corpus, Ids
<1>5. ThreadType'
  BY <1>1, <1>2, <1>3 DEF ThreadType, splits
<1>6. /\ pc'[t] = "install" /\ favids'[t] = Favourites(Len(inputs)) /\ ~overlap'[t]
      /\ \A u \in Threads \ {t} : Same(u) /\ overlap'[u] = overlap[u]
  BY <1>1, <1>2, <1>3 DEF ThreadType, Same, splits
<1>7. CorpusType' /\ Stored' /\ ExamplesAreMinimal'
  BY <1>1, <1>2, Zenon DEF IInv, CorpusType, Stored, ExamplesAreMinimal, corpus, Ids
<1>8. \A n \in 0 .. Len(inputs) : Favourites(n)' = Favourites(n)
  BY <1>1, <1>4, FavouritesKept
<1>9. FavqueueIsConsistent'
  BY <1>2, <1>4, <1>6, <1>8 DEF IInv, FavqueueIsConsistent, corpus
<1>10. Apart'
  <2>1. \A u \in Threads : SplitStored(u)' => SplitStored(u)
    BY <1>1, <1>2, <1>6 DEF SplitStored, Same
  <2>2. QED  BY <1>2, <2>1, Zenon DEF IInv, Apart
<1>11. ThreadInv(t)'
  <2>1. Phases(t)' /\ Minimising(t)' /\ Holding(t)'
    BY <1>1, <1>2, <1>4, <1>6, Zenon
    DEF ThreadInv, Phases, Minimising, Holding, Tracing, Adding, SplitStored, splits
  <2>2. Pending(t)'
    <3>1. Len(inputs) \in 0 .. Len(inputs)  BY <1>1
    <3>2. Favourites(Len(inputs))' = Favourites(Len(inputs))  BY <1>4, <1>8, <3>1
    <3>3. QED  BY <1>4, <1>6, <1>8, <3>1, <3>2, Zenon DEF Pending
  <2>3. QED  BY <2>1, <2>2 DEF ThreadInv
<1>12. ASSUME NEW u \in Threads PROVE ThreadInv(u)'
  <2>1. CASE u = t  BY <1>11, <2>1
  <2>2. CASE u # t
    BY <1>1, <1>4, <1>6, <2>2, OtherThread, Zenon DEF IInv
  <2>3. QED  BY <2>1, <2>2
<1>13. QED  BY <1>5, <1>7, <1>9, <1>10, <1>12 DEF IInv

(* The favourites are installed; they are those of all inputs unless an add   *)
(* came between.                                                              *)
LEMMA InstallStep ==
  ASSUME IInv, NEW t \in Threads, InstallFavs(t)
  PROVE  IInv'
<1>1. /\ CorpusType /\ ThreadType /\ ThreadInv(t) /\ pc[t] = "install" /\ Len(inputs) \in Nat
      /\ inputs \in Seq(Inputs)
  BY DEF IInv, InstallFavs, CorpusType
<1>2. /\ UNCHANGED <<target, inputs, bitmap_bits, min_example, bitmaps, next_input_id, writer, task,
                     local, entry, splits>>
      /\ favqueue' = favids[t] /\ favids' = [favids EXCEPT ![t] = {}]
      /\ late' = overlap[t] /\ overlap' = [overlap EXCEPT ![t] = FALSE]
  BY DEF InstallFavs
<1>3. Kept /\ Len(inputs') = Len(inputs) /\ Ids' = Ids /\ inputs' = inputs
  BY <1>1, <1>2, Unmoved, Zenon DEF Ids
<1>4. PICK n \in 0 .. Len(inputs) : favids[t] = Favourites(n)
  BY <1>1, Zenon DEF ThreadInv, Pending
<1>5. \A m \in 0 .. Len(inputs) : Favourites(m)' = Favourites(m)
  BY <1>1, <1>3, FavouritesKept
<1>6. favids[t] \subseteq Ids  BY <1>1, <1>4 DEF Favourites, Ids
<1>7. CorpusType' /\ Stored' /\ ExamplesAreMinimal'
  BY <1>1, <1>2, <1>3, <1>6, Zenon DEF IInv, CorpusType, Stored, ExamplesAreMinimal, ThreadType
<1>8. FavqueueIsConsistent'
  <2>1. favqueue' = Favourites(n)' /\ n \in 0 .. Len(inputs')
    BY <1>2, <1>3, <1>4, <1>5
  <2>2. ~late' => favqueue' = Favourites(Len(inputs))
    BY <1>1, <1>2 DEF ThreadInv, Pending
  <2>3. Len(inputs) \in 0 .. Len(inputs)  BY <1>1
  <2>4. Favourites(Len(inputs))' = Favourites(Len(inputs))  BY <1>3, <1>5, <2>3
  <2>5. QED  BY <2>1, <2>2, <2>4 DEF FavqueueIsConsistent
<1>9. held[t] = 0 /\ entry[t] \in Inputs
  BY <1>1, Zenon DEF ThreadInv, Holding, Tracing, ThreadType
<1>10. \/ task[t] = "split" /\ pc' = [pc EXCEPT ![t] = "trace"] /\ found' = found /\ left' = left
       \/ /\ task[t] # "split" /\ pc' = [pc EXCEPT ![t] = Back(t)] /\ Returns(t)
          /\ found' = [found EXCEPT ![t] = NoInput]
  <2>1. task[t] # "split" /\ CountRun(t) => Returns(t)
    BY <1>1, BackAgain DEF ThreadInv
  <2>2. QED  BY <2>1 DEF InstallFavs
<1>11. ThreadType'
  <2>1. favids' \in [Threads -> SUBSET Nat] /\ overlap' \in [Threads -> BOOLEAN]
    BY <1>1, <1>2 DEF ThreadType
  <2>2. /\ pc' \in [Threads -> {"iter", "run", "set_state", "set_state_w", "min", "add", "favs",
                                "install", "trace", "set_dict", "set_dict_w"}]
        /\ found' \in [Threads -> Inputs] /\ left' \in [Threads -> 0 .. Havocs]
    <3>1. CASE task[t] = "split"  BY <1>1, <1>10, <3>1, Zenon DEF ThreadType
    <3>2. CASE task[t] # "split"
      <4>1. /\ pc' = [pc EXCEPT ![t] = Back(t)] /\ found' = [found EXCEPT ![t] = NoInput]
            /\ Back(t) \in {"min", "run", "iter"} /\ left' \in [Threads -> 0 .. Havocs]
        BY <1>10, <3>2 DEF Returns
      <4>2. QED  BY <1>1, <4>1, NoInputFacts, Zenon DEF ThreadType
    <3>3. QED  BY <3>1, <3>2
  <2>3. QED  BY <1>1, <1>2, <2>1, <2>2 DEF ThreadType, splits
<1>12. \A u \in Threads \ {t} : Same(u) /\ overlap'[u] = overlap[u]
  BY <1>1, <1>2, <1>10 DEF ThreadType, Same, splits, Returns
<1>13. /\ favids'[t] = {}
       /\ \/ task[t] = "split" /\ pc'[t] = "trace" /\ found'[t] = found[t] /\ left' = left
          \/ task[t] # "split" /\ pc'[t] = Back(t) /\ Returns(t) /\ found'[t] = NoInput
  BY <1>1, <1>2, <1>10 DEF ThreadType
<1>14. ThreadInv(t)'
  <2>1. Phases(t)'
    BY <1>1, <1>2, <1>13, Zenon DEF ThreadInv, Phases, Tracing, Returns
  <2>2. Minimising(t)'
    BY <1>1, <1>2, <1>13, Zenon DEF ThreadInv, Minimising, Adding, splits, Returns, ThreadType
  <2>3. Holding(t)'
    BY <1>1, <1>2, <1>3, <1>9, <1>13, NoInputFacts, Zenon
    DEF ThreadInv, Holding, Tracing, SplitStored, splits, Returns
  <2>4. Pending(t)'
    BY <1>13, Zenon DEF Pending, Returns
  <2>5. QED  BY <2>1, <2>2, <2>3, <2>4 DEF ThreadInv
<1>15. Apart'
  <2>1. \A u \in Threads : SplitStored(u)' => SplitStored(u) /\ found'[u] = found[u]
    BY <1>1, <1>2, <1>12, <1>13, Zenon DEF SplitStored, Same
  <2>2. QED  BY <1>2, <2>1, Zenon DEF IInv, Apart
<1>16. ASSUME NEW u \in Threads PROVE ThreadInv(u)'
  <2>1. CASE u = t  BY <1>14, <2>1
  <2>2. CASE u # t
    BY <1>1, <1>3, <1>12, <2>2, OtherThread, Zenon DEF IInv
  <2>3. QED  BY <2>1, <2>2
<1>17. QED  BY <1>7, <1>8, <1>11, <1>15, <1>16 DEF IInv

-----------------------------------------------------------------------------
(* The results *)

(* The fuzzer starts with an empty corpus and idle threads. *)
LEMMA InitInv == Init => IInv
<1> SUFFICES ASSUME Init PROVE IInv  OBVIOUS
<1>1. inputs = <<>> /\ Len(inputs) = 0 /\ Ids = {} /\ inputs \in Seq(Inputs)
  BY DEF Init, Ids
<1>2. 0 \in Levels /\ [i \in Idx |-> 0] \in Bits  BY SizesAssumption DEF Levels, Bits
<1>3. CorpusType
  BY <1>1, <1>2, Zenon DEF Init, CorpusType
<1>4. ThreadType
  <2>1. Havocs \in Nat  BY SizesAssumption
  <2>2. local \in [Threads -> [Tracked -> Bits]]  BY <1>2 DEF Init
  <2>3. QED  BY <2>1, <2>2, NoInputFacts DEF Init, ThreadType, NoGraphs
<1>5. Stored /\ ExamplesAreMinimal /\ Apart
  BY <1>1 DEF Init, Stored, ExamplesAreMinimal, Apart, SplitStored
<1>6. Favourites(0) = {} /\ 0 \in 0 .. 0  BY DEF Favourites
<1>7. FavqueueIsConsistent
  BY <1>1, <1>6 DEF Init, FavqueueIsConsistent
<1>8. ASSUME NEW t \in Threads PROVE ThreadInv(t)
  BY NoInputFacts, Zenon DEF Init, ThreadInv, Phases, Minimising, Holding, Pending, Tracing, Adding,
                      SplitStored, NoGraphs
<1>9. QED  BY <1>3, <1>4, <1>5, <1>7, <1>8 DEF IInv

(* The steps of the threads *)
LEMMA NextInv == IInv /\ [Next]_vars => IInv'
<1> SUFFICES ASSUME IInv, [Next]_vars PROVE IInv'  OBVIOUS
<1>1. CASE UNCHANGED vars
  <2>1. CorpusType /\ Kept /\ Len(inputs') = Len(inputs)
    BY <1>1, Unmoved DEF IInv, vars, corpus
  <2>2. CorpusType' /\ ThreadType' /\ Stored' /\ ExamplesAreMinimal'
    BY <1>1, Zenon DEF vars, corpus, splits, history, IInv, CorpusType, ThreadType, Stored, Ids,
                ExamplesAreMinimal
  <2>3. FavqueueIsConsistent'
    <3>1. inputs \in Seq(Inputs) /\ Len(inputs) \in Nat  BY <2>1 DEF CorpusType
    <3>2. \A n \in 0 .. Len(inputs) : Favourites(n)' = Favourites(n)
      BY <2>1, <3>1, FavouritesKept
    <3>3. Len(inputs) \in 0 .. Len(inputs)  BY <3>1
    <3>4. Favourites(Len(inputs))' = Favourites(Len(inputs))  BY <2>1, <3>2, <3>3
    <3>5. favqueue' = favqueue /\ pc' = pc /\ late' = late  BY <1>1 DEF vars, corpus, history
    <3>6. QED  BY <2>1, <3>2, <3>4, <3>5 DEF IInv, FavqueueIsConsistent
  <2>4. Apart'
    BY <1>1 DEF vars, IInv, Apart, SplitStored
  <2>5. ASSUME NEW u \in Threads PROVE ThreadInv(u)'
    <3>1. Same(u) /\ overlap' = overlap
      BY <1>1 DEF vars, corpus, splits, history, Same
    <3>2. QED  BY <2>1, <3>1, OtherThread DEF IInv
  <2>6. QED  BY <2>2, <2>3, <2>4, <2>5 DEF IInv
<1>2. ASSUME NEW t \in Threads, Step(t) PROVE IInv'
  BY <1>2, IterStep, RunStep, AddIgnoredStep, AddStep, CalcStep, InstallStep, LockStep,
     SetStateStep, EndMinimizeStep, SetDictStep DEF Step
<1>3. QED  BY <1>1, <1>2 DEF Next

(* The invariant holds throughout. *)
LEMMA Invariance == Spec => []IInv
BY InitInv, NextInv, PTL DEF Spec

(* Every variable keeps its type, and every id a thread, the favqueue or the *)
(* index of examples has refers to an input of the queue.                     *)
THEOREM TypeCorrect == Spec => []TypeOK
<1>1. IInv => TypeOK
  <2>1. SUFFICES ASSUME IInv PROVE TypeOK  OBVIOUS
  <2>2. CorpusType /\ ThreadType /\ \A t \in Threads : ThreadInv(t)  BY <2>1, Zenon DEF IInv
  <2>3. held \in [Threads -> {0} \union Ids]
    BY <2>2, Zenon DEF ThreadType, ThreadInv, Holding, Phases, Tracing, SplitStored
  <2>4. ASSUME NEW t \in Threads PROVE favids[t] \subseteq Ids
    <3>1. CASE pc[t] = "install"
      <4>1. PICK n \in 0 .. Len(inputs) : favids[t] = Favourites(n)
        BY <2>2, <3>1 DEF ThreadInv, Pending
      <4>2. Len(inputs) \in Nat  BY <2>2 DEF CorpusType
      <4>3. QED  BY <4>1, <4>2 DEF Favourites, Ids
    <3>2. CASE pc[t] # "install"
      BY <2>2, <3>2 DEF ThreadInv, Pending
    <3>3. QED  BY <3>1, <3>2
  <2>5. favids \in [Threads -> SUBSET Ids]
    BY <2>2, <2>4 DEF ThreadType
  <2>6. \A t \in Threads : entry[t].id \in {0} \union Ids
    BY <2>2, Zenon DEF ThreadInv, Holding
  <2>7. QED  BY <2>2, <2>3, <2>5, <2>6, Zenon DEF TypeOK, CorpusType, ThreadType
<1>2. QED  BY <1>1, Invariance, PTL

(* set_state and set_custom_dict never wait for an input's guard with the     *)
(* queue locked for writing: no input that perform_min keeps the guard of is  *)
(* one that any thread minimises.                                             *)
THEOREM NoWaiting == Spec => []WriterNeverWaits
<1>1. IInv => WriterNeverWaits
  <2>1. SUFFICES ASSUME IInv, NEW t \in Threads, pc[t] \in {"set_state_w", "set_dict_w"}
                 PROVE  writer = t /\ NobodyReads(entry[t].id)
    BY Zenon DEF WriterNeverWaits
  <2>2. writer = t /\ task[t] # "havoc" /\ entry[t].id \in Ids
    BY <2>1, Zenon DEF IInv, ThreadInv, Phases, Holding, Tracing
  <2>3. Ids \subseteq Nat \ {0}  BY DEF Ids
  <2>4. ASSUME NEW u \in Threads, held[u] = entry[t].id PROVE FALSE
    <3>1. held[u] # 0 /\ SplitStored(u) /\ held[u] = found[u].id
      BY <2>1, <2>2, <2>3, <2>4, Zenon DEF IInv, ThreadInv, Holding, Phases, Tracing, SplitStored
    <3>2. QED  BY <2>1, <2>4, <3>1, Zenon DEF IInv, Apart
  <2>5. QED  BY <2>2, <2>4 DEF NobodyReads
<1>2. QED  BY <1>1, Invariance, PTL

(* Whatever the order of the adds, add leaves a shortest input for every byte *)
(* in bitmap_index_to_min_example.                                            *)
THEOREM MinimalExamples == Spec => []ExamplesAreMinimal
BY Invariance, PTL DEF IInv

(* The favqueue is the one of some prefix of the queue, and of all of it once *)
(* the adds are done, unless an add came between the two locks of             *)
(* calc_fav_bits.                                                             *)
THEOREM RightFavqueue == Spec => []FavqueueIsConsistent
BY Invariance, PTL DEF IInv

(* perform_min keeps for every new byte a graph that reaches it, and the      *)
(* assertions of queue.rs hold.                                               *)
THEOREM KeptBytes == Spec => []MinimizeKeepsBytes
<1>1. IInv => MinimizeKeepsBytes
  BY Zenon DEF IInv, ThreadInv, Phases, Minimising, Holding, Adding, Tracing, MinimizeKeepsBytes
<1>2. QED  BY <1>1, Invariance, PTL
=============================================================================
