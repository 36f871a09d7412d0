------------------------------ MODULE AsyncPf ------------------------------
(***************************************************************************)
(* Asynchronous page faults of one vCPU (virt/kvm/async_pf.c and the hash  *)
(* table of x86.c).  A work item is named by the gfn it fetches, and the   *)
(* item that wakes every waiting task by WakeupAll.  What the word shared  *)
(* with the guest says is left out: the branch of                          *)
(* kvm_arch_async_page_present that reads it needs a pending exception,    *)
(* and an item is only completed when there is none.                       *)
(***************************************************************************)
EXTENDS Integers, FiniteSets, Sequences, Functions

CONSTANTS
  Gfns,              \* the guest frames that can be swapped out
  HashFn,            \* kvm_async_pf_hash_fn: Gfns -> 0 .. ASYNC_PF_PER_VCPU - 1
  ASYNC_PF_PER_VCPU, \* a power of two: the limit on items and the table's size
  WakeupAll, NoGfn   \* model values; NoGfn is ~0

ASSUME AsyncPfAssumption ==
  /\ ASYNC_PF_PER_VCPU \in {2 ^ k : k \in 1 .. 6}
  /\ HashFn \in [Gfns -> 0 .. ASYNC_PF_PER_VCPU - 1]

VARIABLE
  apf    \* [gfns, queue, done, queued, enabled]

Slots == 0 .. ASYNC_PF_PER_VCPU - 1

kvm_async_pf_hash_reset(a) == [a EXCEPT !.gfns = [k \in Slots |-> NoGfn]]

(* Nothing is outstanding and the guest has not enabled the feature. *)
AsyncPfIdle ==
  [gfns |-> [k \in Slots |-> NoGfn], queue |-> {}, done |-> << >>, queued |-> 0, enabled |-> FALSE]

-----------------------------------------------------------------------------
kvm_async_pf_next_probe(key) == (key + 1) % ASYNC_PF_PER_VCPU

(* The slots from the one key hashes to, in the order they are probed. *)
Probe(gfn, i) == (HashFn[gfn] + i) % ASYNC_PF_PER_VCPU

kvm_add_async_pf_gfn(t, gfn) ==
  LET i == CHOOSE n \in Slots : /\ t[Probe(gfn, n)] = NoGfn
                                /\ \A m \in 0 .. n - 1 : t[Probe(gfn, m)] # NoGfn
  IN  [t EXCEPT ![Probe(gfn, i)] = gfn]

kvm_async_pf_gfn_slot(t, gfn) ==
  LET ends == {n \in Slots : t[Probe(gfn, n)] \in {gfn, NoGfn}}
  IN  IF ends = {} THEN HashFn[gfn]
      ELSE Probe(gfn, CHOOSE n \in ends : \A m \in ends : n <= m)

kvm_find_async_pf_gfn(t, gfn) == t[kvm_async_pf_gfn_slot(t, gfn)] = gfn

kvm_del_async_pf_gfn_NoMove(t, gfn) == [t EXCEPT ![kvm_async_pf_gfn_slot(t, gfn)] = NoGfn]

(* Slot i was emptied: what lies behind it and cannot stay moves up. *)
kvm_del_async_pf_gfn(t, gfn) ==
  LET MoveUp[u \in [Slots -> Gfns \union {NoGfn}], i \in Slots, j0 \in Slots] ==
        LET j == kvm_async_pf_next_probe(j0)
            k == HashFn[u[j]]
            stays == IF i <= j THEN i < k /\ k <= j ELSE i < k \/ k <= j
        IN  CASE u[j] = NoGfn -> u
              [] u[j] # NoGfn /\ stays -> MoveUp[u, i, j]
              [] OTHER -> MoveUp[[u EXCEPT ![i] = u[j], ![j] = NoGfn], j, j]
      slot == kvm_async_pf_gfn_slot(t, gfn)
  IN  MoveUp[[t EXCEPT ![slot] = NoGfn], slot, slot]

-----------------------------------------------------------------------------
kvm_setup_async_pf(a, gfn) ==
  [a EXCEPT !.queue = @ \union {gfn}, !.queued = @ + 1,
            !.gfns = kvm_add_async_pf_gfn(@, gfn)]

(* A worker has fetched the page (the caller wakes the vCPU). *)
Fetching(a) == a.queue \ Range(a.done)

async_pf_execute(a, gfn) == [a EXCEPT !.done = Append(@, gfn)]

kvm_async_pf_wakeup_all(a) ==
  IF a.done # << >> THEN a
  ELSE [a EXCEPT !.done = << WakeupAll >>, !.queued = @ + 1]

(* Items that run are waited for, the others are cancelled. *)
kvm_clear_async_pf_completion_queue(a) ==
  [a EXCEPT !.queue = {}, !.done = << >>, !.queued = 0]

(* The state of apf once the item at the head of the done list is handled. *)
CompletedHead(a) ==
  LET work == Head(a.done)
  IN  [a EXCEPT !.done = Tail(@), !.queued = @ - 1, !.queue = @ \ {work},
                !.gfns = IF work = WakeupAll THEN @ ELSE kvm_del_async_pf_gfn(@, work)]

kvm_pv_enable_async_pf(a, enable) ==
  IF enable THEN kvm_async_pf_wakeup_all([a EXCEPT !.enabled = TRUE])
  ELSE kvm_async_pf_hash_reset(kvm_clear_async_pf_completion_queue([a EXCEPT !.enabled = FALSE]))
=============================================================================
