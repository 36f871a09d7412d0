------------------------------- MODULE MmuTdp -------------------------------
(***************************************************************************)
(* The vCPUs' side of KVM's memory virtualisation (KVM-PT/mmu.c, x86.c,    *)
(* vmx.c): the guest's accesses through its TLB and the shadow pages, the  *)
(* requests handled before an entry, and the handling of EPT violations    *)
(* and misconfigurations, with and without kvm->mmu_lock.                  *)
(*                                                                         *)
(* A vCPU is in guest mode at "guest", in READING_SHADOW_PAGE_TABLES from  *)
(* "walk" to "mark", and OUTSIDE_GUEST_MODE everywhere else; it holds      *)
(* kvm->srcu everywhere but in guest mode.  VcpuRun models how an entry    *)
(* races with a request; here an entry is one step that no pending request *)
(* survives.                                                               *)
(***************************************************************************)
EXTENDS ShadowPages

CONSTANTS VCpus,
          MinFree, Refill,   \* KVM_MIN_FREE_MMU_PAGES and KVM_REFILL_PAGES
          PmlSize,           \* PML_ENTITY_NUM
          MaxTries           \* retries of the lockless update (4 in the code)

VARIABLES
  scen,      \* the hardware's features and the work of this behaviour
  mmu,       \* what kvm->mmu_lock protects (ShadowPages)
  lock,      \* the thread that holds kvm->mmu_lock, or "none"
  wait,      \* the vCPUs each thread waits for in kvm_make_all_cpus_request
  doomed,    \* the invalid list each thread frees after that wait
  slot,      \* the memory slot that covers Gfns, as the installed memslots show it
  gen,       \* kvm->memslots[0]->generation
  bitmap,    \* slot->dirty_bitmap
  notifier,  \* mmu_notifier_count and mmu_notifier_seq
  host,      \* the host's page tables for the slot's memory
  vcpu,      \* the vCPUs
  vm, mm,    \* the ioctl thread and the host's memory management (MmuVm)
  hist       \* what the guest has written (history)

vars == <<scen, mmu, lock, wait, doomed, slot, gen, bitmap, notifier, host, vcpu, vm, mm, hist>>
others == <<scen, host, notifier, slot, gen, mm>>

Threads == VCpus \cup {"vm", "mm", "shrink"}
NoTlb == [k |-> "none"]
NoSlot == 0                \* KVM_PFN_NOSLOT; the versions of the host's pages start at 1
NoExit == [kind |-> "none", g |-> 0, write |-> FALSE, present |-> FALSE]
NoFault == [level |-> 0, force |-> FALSE, seq |-> 0, pfn |-> NoSlot, w |-> FALSE,
            page |-> 0, spte |-> Absent, tries |-> 0]
VcpuInit == [pc |-> "top", root |-> 0, reqs |-> {}, tlb |-> [g \in Gfns |-> NoTlb], psc |-> 0,
             exit |-> NoExit, f |-> NoFault, pml |-> {}, mmio |-> [g |-> 0, gen |-> 0],
             stale |-> FALSE]

\* vcpu->mode # OUTSIDE_GUEST_MODE
Reading(v) == vcpu[v].pc \in {"walk", "leaf", "fix", "mark"}
\* MUTANT: a lockless walk does not announce itself
Running_GuestOnly(v) == vcpu[v].pc = "guest"
Running(v) == vcpu[v].pc = "guest" \/ Reading(v)

\* A vCPU that leaves guest mode or the lockless walk takes the interrupt others wait for.
Acked(v) == [t \in Threads |-> wait[t] \ {v}]

\* kvm_make_all_cpus_request by thread t: set the requests and wait for those running.
Requested(vc, r) == [v \in VCpus |-> [vc[v] EXCEPT !.reqs = @ \cup r]]
Requests(flush, reload) ==
  (IF flush THEN {"flush"} ELSE {}) \cup (IF reload THEN {"reload"} ELSE {})
WaitFor(t, r) ==
  wait' = IF r = {} THEN wait ELSE [wait EXCEPT ![t] = {v \in VCpus \ {t} : Running(v)}]

\* The end of a critical section of thread t: flush and free what it zapped, if anything,
\* and keep the lock until every running vCPU has been waited for.
CommitAndUnlock(t, m, vc, flush, reload, zapped) ==
  LET r == Requests(flush \/ zapped # {}, reload)
  IN /\ mmu' = m
     /\ vcpu' = Requested(vc, r)
     /\ WaitFor(t, r)
     /\ doomed' = [doomed EXCEPT ![t] = zapped]
     /\ lock' = IF r = {} THEN "none" ELSE t

\* The same in the middle of a critical section.
CommitAndHold(t, m, vc, flush, reload, zapped) ==
  LET r == Requests(flush \/ zapped # {}, reload)
  IN /\ mmu' = m
     /\ vcpu' = Requested(vc, r)
     /\ WaitFor(t, r)
     /\ doomed' = [doomed EXCEPT ![t] = zapped]
     /\ lock' = t

Holds(t) == lock = t /\ wait[t] = {}
Free(t) == lock # t /\ wait[t] = {}
At(v, pc) == vcpu[v].pc = pc /\ Free(v)
Freed(t) == kvm_mmu_free_pages(mmu, doomed[t])
Back(v) == [vcpu[v] EXCEPT !.pc = "top", !.exit = NoExit, !.f = NoFault, !.stale = FALSE]
Goto(v, pc) == vcpu' = [vcpu EXCEPT ![v].pc = pc]

\* kvm_vcpu_mark_page_dirty
mark_page_dirty(gfns) ==
  bitmap' = IF slot.st # "absent" /\ slot.log THEN bitmap \cup gfns ELSE bitmap

\* The thread's critical section is over once the vCPUs it waits for have answered.
Unlock(t) ==
  /\ Holds(t)
  /\ t \in VCpus => vcpu[t].pc \in {"top", "emulate"}
  /\ t = "vm" => ~(vm.todo # <<>> /\ Head(vm.todo) \in {"zap", "rearm"})
  /\ mmu' = Freed(t)
  /\ doomed' = [doomed EXCEPT ![t] = {}]
  /\ lock' = "none"
  /\ vm' = IF t \in VCpus THEN vm ELSE [vm EXCEPT !.srcu = @ \ {t}]
  /\ UNCHANGED <<others, wait, bitmap, vcpu, hist>>

-----------------------------------------------------------------------------
(* Before an entry: vcpu_enter_guest and kvm_mmu_reload.                   *)

\* KVM_REQ_MMU_RELOAD: kvm_mmu_unload frees the root and, when it was the last user of
\* an invalid one, the page.
HandleReload(v) ==
  LET root == vcpu[v].root
      put == [mmu EXCEPT !.sp[root].roots = @ - 1]
      vc == [vcpu EXCEPT ![v].reqs = @ \ {"reload"}, ![v].root = 0]
  IN /\ At(v, "top") /\ "reload" \in vcpu[v].reqs
     /\ \/ root = 0 /\ vcpu' = vc /\ UNCHANGED <<mmu, lock, wait, doomed>>
        \/ /\ root # 0 /\ lock = "none"
           /\ IF put.sp[root].roots = 0 /\ put.sp[root].invalid
              THEN LET z == kvm_mmu_prepare_zap_page(put, scen.ad, root)
                   IN CommitAndUnlock(v, z.m, vc, FALSE, z.reload, z.zapped)
              ELSE CommitAndUnlock(v, put, vc, FALSE, FALSE, {})
     /\ UNCHANGED <<others, bitmap, vm, hist>>

\* KVM_REQ_TLB_FLUSH
HandleFlush(v) ==
  /\ At(v, "top") /\ "flush" \in vcpu[v].reqs
  /\ vcpu' = [vcpu EXCEPT ![v].reqs = @ \ {"flush"}, ![v].psc = 0,
                          ![v].tlb = [g \in Gfns |-> NoTlb]]
  /\ UNCHANGED <<others, mmu, lock, wait, doomed, bitmap, vm, hist>>

\* make_mmu_pages_available: zap the oldest pages when few are left.
make_mmu_pages_available ==
  IF kvm_mmu_available_pages(mmu) >= MinFree
  THEN [m |-> mmu, zapped |-> {}, reload |-> FALSE]
  ELSE ZapOldestUntil(mmu, scen.ad, mmu.nmax - Refill)

\* kvm_mmu_load, up to the commit of what make_mmu_pages_available zapped.
LoadStart(v) ==
  LET z == make_mmu_pages_available
  IN /\ At(v, "top") /\ vcpu[v].root = 0 /\ lock = "none"
     /\ CommitAndHold(v, z.m, [vcpu EXCEPT ![v].pc = "load"], FALSE, z.reload, z.zapped)
     /\ UNCHANGED <<others, bitmap, vm, hist>>

\* ... and the rest: the root is allocated (or -ENOSPC), and the TLB flushed.
mmu_alloc_direct_roots(v) ==
  LET r == kvm_mmu_get_page(Freed(v), Root)
  IN /\ vcpu[v].pc = "load" /\ Holds(v)
     /\ IF kvm_mmu_available_pages(mmu) = 0
        THEN Goto(v, "top") /\ mmu' = Freed(v)
        ELSE /\ mmu' = [r.m EXCEPT !.sp[r.p].roots = @ + 1]
             /\ vcpu' = [vcpu EXCEPT ![v].pc = "top", ![v].root = r.p, ![v].psc = 0,
                                     ![v].tlb = [g \in Gfns |-> NoTlb]]
     /\ lock' = "none" /\ doomed' = [doomed EXCEPT ![v] = {}]
     /\ UNCHANGED <<others, wait, bitmap, vm, hist>>

\* The entry: no request is pending, and kvm->srcu is released.
Enter(v) ==
  /\ At(v, "top") /\ vcpu[v].root # 0 /\ vcpu[v].reqs = {}
  /\ Goto(v, "guest")
  /\ vm' = [vm EXCEPT !.srcu = @ \ {v}]
  /\ UNCHANGED <<others, mmu, lock, wait, doomed, bitmap, hist>>

\* An entry that a request cancels releases kvm->srcu and takes it again.
CancelEntry(v) ==
  /\ At(v, "top") /\ v \in vm.srcu /\ (vcpu[v].reqs # {} \/ vcpu[v].root = 0)
  /\ vm' = [vm EXCEPT !.srcu = @ \ {v}]
  /\ UNCHANGED <<others, mmu, lock, wait, doomed, bitmap, vcpu, hist>>

-----------------------------------------------------------------------------
(* The processor in guest mode (external): TLB, paging-structure cache, accessed and *)
(* dirty bits, page-modification logging.                                            *)

\* The entries a walk for guest frame g may end at: through the cached table or the root.
TablesOf(v) ==
  LET e == mmu.sp[vcpu[v].root].spt[Base]
  IN ({vcpu[v].psc} \ {0}) \cup (IF e.k = "table" THEN {e.page} ELSE {})
WalkEnds(v, g) ==
  {<<p, g>> : p \in TablesOf(v)}
    \cup (IF mmu.sp[vcpu[v].root].spt[Base].k # "table" THEN {<<vcpu[v].root, Base>>} ELSE {})
Entry(x) == mmu.sp[x[1]].spt[x[2]]
TableOf(v, x) == IF x[1] = vcpu[v].root THEN 0 ELSE x[1]

\* Cache a translation and set the accessed bit.
TlbFill(v, g) ==
  /\ vcpu[v].pc = "guest" /\ vcpu[v].tlb[g] = NoTlb
  /\ \E x \in WalkEnds(v, g) :
       LET e == Entry(x)
       IN /\ e.k = "map" /\ ~e.track
          /\ mmu' = IF scen.ad THEN [mmu EXCEPT !.sp[x[1]].spt[x[2]].a = TRUE] ELSE mmu
          /\ vcpu' = [vcpu EXCEPT ![v].psc = TableOf(v, x),
                        ![v].tlb[g] = [k |-> "map", pfn |-> e.pfn, w |-> e.w, d |-> ~scen.ad \/ e.d]]
  /\ UNCHANGED <<others, lock, wait, doomed, bitmap, vm, hist>>

Written(g) ==
  hist' = [hist EXCEPT !.unreported = IF hist.armed THEN @ \cup {g} ELSE @,
                       !.touched = @ \cup {g}]

VmExit(v, kind, g, write, present) ==
  /\ vcpu' = [vcpu EXCEPT ![v].pc = "exit",
                ![v].exit = [kind |-> kind, g |-> g, write |-> write, present |-> present],
                ![v].tlb = IF g \in Gfns THEN [@ EXCEPT ![g] = NoTlb] ELSE @]
  /\ wait' = Acked(v)
  /\ UNCHANGED vm

\* A write through the TLB.  A clean translation makes the processor set the dirty bit in
\* memory first, and log the page when page-modification logging is on.
GuestWrite(v, g) ==
  LET t == vcpu[v].tlb[g]
      clean == t.k = "map" /\ t.w /\ ~t.d
  IN /\ vcpu[v].pc = "guest" /\ t.k = "map" /\ t.w
     /\ \/ t.d /\ Written(g) /\ UNCHANGED <<mmu, vcpu, wait, vm>>
        \/ clean /\ \E x \in WalkEnds(v, g) :
             LET e == Entry(x)
                 logs == scen.pml /\ ~e.d
             IN /\ e.k = "map" /\ e.w
                /\ IF logs /\ Cardinality(vcpu[v].pml) = PmlSize
                   THEN VmExit(v, "kick", 0, FALSE, FALSE) /\ UNCHANGED <<mmu, hist>>
                   ELSE /\ mmu' = [mmu EXCEPT !.sp[x[1]].spt[x[2]].d = TRUE,
                                              !.sp[x[1]].spt[x[2]].a = TRUE]
                        /\ vcpu' = [vcpu EXCEPT ![v].tlb[g].d = TRUE,
                                      ![v].pml = IF logs THEN @ \cup {g} ELSE @]
                        /\ Written(g)
                        /\ UNCHANGED <<wait, vm>>
     /\ UNCHANGED <<others, lock, doomed, bitmap>>

\* An access that neither the TLB nor the tables allow.
EptViolation(v, g, write) ==
  LET t == vcpu[v].tlb[g]
  IN /\ vcpu[v].pc = "guest"
     /\ \/ write /\ t.k = "map" /\ ~t.w /\ VmExit(v, "violation", g, write, TRUE)
        \/ /\ t = NoTlb \/ (t # NoTlb /\ write /\ ~t.d)
           /\ \E x \in WalkEnds(v, g) :
                LET e == Entry(x)
                IN /\ e.k # "mmio" /\ ~is_access_allowed(write, e)
                   /\ VmExit(v, "violation", g, write, e.k = "map" /\ ~e.track)
     /\ UNCHANGED <<others, mmu, lock, doomed, bitmap, hist>>

EptMisconfig(v, g) ==
  /\ vcpu[v].pc = "guest" /\ vcpu[v].tlb[g] = NoTlb
  /\ \E x \in WalkEnds(v, g) : Entry(x).k = "mmio"
  /\ VmExit(v, "misconfig", g, FALSE, FALSE)
  /\ UNCHANGED <<others, mmu, lock, doomed, bitmap, hist>>

\* Any other exit: an interrupt, a kick, anything that needs no memory.
OtherExit(v) ==
  /\ vcpu[v].pc = "guest"
  /\ VmExit(v, "kick", 0, FALSE, FALSE)
  /\ UNCHANGED <<others, mmu, lock, doomed, bitmap, hist>>

\* vmx_handle_exit: the PML buffer is flushed first; then the exit is dispatched.
HandleExit(v) ==
  LET next == CASE vcpu[v].exit.kind = "violation" -> "fault"
                [] vcpu[v].exit.kind = "misconfig" -> "mmio"
                [] OTHER -> "top"
  IN /\ At(v, "exit")
     /\ mark_page_dirty(vcpu[v].pml)
     /\ vcpu' = [vcpu EXCEPT ![v].pml = {}, ![v].pc = next,
                             ![v].exit = IF next = "top" THEN NoExit ELSE @]
     /\ UNCHANGED <<others, mmu, lock, wait, doomed, vm, hist>>

-----------------------------------------------------------------------------
(* tdp_page_fault, the lockless part.                                       *)

\* mapping_level, then fast_page_fault when page_fault_can_be_fast.
FaultStart(v) ==
  LET x == vcpu[v].exit
      force == slot.st # "valid" \/ slot.log
      level == IF ~force /\ host.backing = "hugetlb" THEN Root ELSE Leaf
      fast == /\ x.kind = "violation"
              /\ ~scen.ad \/ (x.write /\ x.present)
  IN /\ At(v, "fault")
     /\ vcpu' = [vcpu EXCEPT ![v].pc = IF fast THEN "walk" ELSE "seq",
                             ![v].f = [NoFault EXCEPT !.level = level, !.force = force]]
     /\ UNCHANGED <<others, mmu, lock, wait, doomed, bitmap, vm, hist>>

\* MUTANT: write access is given back to large entries too
fast_page_fault_AnyLevel(write, e, level) ==
  LET r == IF is_access_track_spte(e) THEN restore_acc_track_spte(e) ELSE e
      new == IF write /\ spte_can_locklessly_be_made_writable(e) THEN [r EXCEPT !.w = TRUE] ELSE r
  IN CASE is_access_allowed(write, e) -> [pc |-> "top", new |-> e]
       [] new = e \/ ~is_access_allowed(write, new) -> [pc |-> "seq", new |-> e]
       [] OTHER -> [pc |-> "fix", new |-> new]

\* What fast_page_fault decides about the last entry of its walk: done, the slow path, or
\* the new value of the entry.
fast_page_fault(write, e, level) ==
  LET r == IF is_access_track_spte(e) THEN restore_acc_track_spte(e) ELSE e
      fix == write /\ spte_can_locklessly_be_made_writable(e)
      new == IF fix THEN [r EXCEPT !.w = TRUE] ELSE r
  IN CASE is_access_allowed(write, e) -> [pc |-> "top", new |-> e]
       [] (fix /\ level = Root) \/ new = e \/ ~is_access_allowed(write, new)
            -> [pc |-> "seq", new |-> e]
       [] OTHER -> [pc |-> "fix", new |-> new]

\* A step of the lockless walk that ends it, at entry e of page p.
EndOfWalk(v, p, e) ==
  LET mmio == vcpu[v].exit.kind = "misconfig"
      d == fast_page_fault(vcpu[v].exit.write, e, mmu.sp[p].level)
      pc == CASE mmio -> IF is_mmio_spte(e) THEN "check" ELSE "top"
              [] ~mmio /\ mmu.sp[p].level = Root /\ e.k # "map" -> "seq"
              [] OTHER -> d.pc
  IN /\ vcpu' = [vcpu EXCEPT ![v] =
                   IF pc = "top" THEN Back(v)
                   ELSE [@ EXCEPT !.pc = pc, !.f.page = IF pc = "fix" THEN p ELSE 0,
                                  !.f.spte = IF pc \in {"fix", "check"} THEN e ELSE Absent]]
     /\ wait' = IF pc = "fix" THEN wait ELSE Acked(v)

WalkRoot(v) ==
  LET e == mmu.sp[vcpu[v].root].spt[Base]
  IN /\ At(v, "walk")
     /\ IF e.k = "table"
        THEN /\ vcpu' = [vcpu EXCEPT ![v].pc = "leaf", ![v].f.page = e.page]
             /\ UNCHANGED wait
        ELSE EndOfWalk(v, vcpu[v].root, e)
     /\ UNCHANGED <<others, mmu, lock, doomed, bitmap, vm, hist>>

WalkLeaf(v) ==
  LET p == vcpu[v].f.page
  IN /\ At(v, "leaf")
     /\ EndOfWalk(v, p, mmu.sp[p].spt[vcpu[v].exit.g])
     /\ UNCHANGED <<others, mmu, lock, doomed, bitmap, vm, hist>>

\* fast_pf_fix_direct_spte, the cmpxchg: the entry is still what the walk read, or the walk
\* starts again.
FixSpte(v) ==
  LET f == vcpu[v].f
      p == f.page
      i == Index(mmu, p, vcpu[v].exit.g)
      new == fast_page_fault(vcpu[v].exit.write, f.spte, mmu.sp[p].level).new
  IN /\ At(v, "fix")
     /\ \/ /\ mmu.sp[p].spt[i] = f.spte
           /\ mmu' = [mmu EXCEPT !.sp[p].spt[i] = new]
           /\ IF new.w /\ ~f.spte.w THEN Goto(v, "mark") /\ UNCHANGED wait
              ELSE vcpu' = [vcpu EXCEPT ![v] = Back(v)] /\ wait' = Acked(v)
        \/ /\ mmu.sp[p].spt[i] # f.spte
           /\ UNCHANGED mmu
           /\ IF f.tries < MaxTries
              THEN /\ vcpu' = [vcpu EXCEPT ![v].pc = "walk", ![v].f.tries = @ + 1,
                                           ![v].f.page = 0, ![v].f.spte = Absent]
                   /\ UNCHANGED wait
              ELSE /\ vcpu' = [vcpu EXCEPT ![v].pc = "seq", ![v].f.page = 0,
                                           ![v].f.spte = Absent]
                   /\ wait' = Acked(v)
     /\ UNCHANGED <<others, lock, doomed, bitmap, vm, hist>>

\* ... and kvm_vcpu_mark_page_dirty after it.
FixMark(v) ==
  /\ At(v, "mark")
  /\ mark_page_dirty({vcpu[v].exit.g})
  /\ vcpu' = [vcpu EXCEPT ![v] = Back(v)]
  /\ wait' = Acked(v)
  /\ UNCHANGED <<others, mmu, lock, doomed, vm, hist>>

-----------------------------------------------------------------------------
(* tdp_page_fault, the part that maps a page.                               *)

ReadSeq(v) ==
  /\ At(v, "seq")
  /\ vcpu' = [vcpu EXCEPT ![v].pc = "pfn", ![v].f.seq = notifier.seq]
  /\ UNCHANGED <<others, mmu, lock, wait, doomed, bitmap, vm, hist>>

\* try_async_pf without an asynchronous fault: a write waits until the host has made the page
\* writable; a frame that no slot or an invalid one covers is KVM_PFN_NOSLOT.
try_async_pf(v) ==
  LET x == vcpu[v].exit
      h == host.pte[IF vcpu[v].f.level = Root THEN Base ELSE x.g]
  IN /\ At(v, "pfn")
     /\ IF slot.st = "valid"
        THEN /\ x.write => h.w
             /\ vcpu' = [vcpu EXCEPT ![v].pc = "lock", ![v].f.pfn = h.ver, ![v].f.w = h.w]
        ELSE vcpu' = [vcpu EXCEPT ![v].pc = "cache", ![v].f.pfn = NoSlot]
     /\ UNCHANGED <<others, mmu, lock, wait, doomed, bitmap, vm, hist>>

\* An emulation is stale when memory backs the guest frame and no update is in progress.
Stale == slot.st = "valid" /\ gen % 2 = 0

\* vcpu_cache_mmio_info, in handle_abnormal_pfn and in handle_mmio_page_fault.
vcpu_cache_mmio_info(v) ==
  /\ At(v, "cache")
  /\ vcpu' = [vcpu EXCEPT ![v].mmio = [g |-> vcpu[v].exit.g, gen |-> gen],
                          ![v].pc = IF vcpu[v].f.level = 0 THEN "emulate" ELSE "lock"]
  /\ UNCHANGED <<others, mmu, lock, wait, doomed, bitmap, vm, hist>>

\* Under the lock: a host page that was or is being changed is not mapped.
\* MUTANT: an invalidation that has begun but not ended is not noticed
mmu_notifier_retry_SeqOnly(v) == notifier.seq # vcpu[v].f.seq
mmu_notifier_retry(v) == notifier.count # 0 \/ notifier.seq # vcpu[v].f.seq

LockMmu(v) ==
  LET z == make_mmu_pages_available
  IN /\ At(v, "lock") /\ lock = "none"
     /\ IF mmu_notifier_retry(v)
        THEN vcpu' = [vcpu EXCEPT ![v] = Back(v)] /\ UNCHANGED <<mmu, lock, wait, doomed>>
        ELSE CommitAndHold(v, z.m, [vcpu EXCEPT ![v].pc = "adjust"], FALSE, z.reload, z.zapped)
     /\ UNCHANGED <<others, bitmap, vm, hist>>

\* No page is left (-ENOSPC), or transparent_hugepage_adjust chooses the level, and
\* __direct_map's walk drops a large entry that is in its way.
Adjust(v) ==
  LET f == vcpu[v].f
      m == Freed(v)
      huge == /\ f.pfn # NoSlot /\ ~f.force /\ f.level = Leaf
              /\ host.backing = "thp" /\ slot.st # "absent"
      level == IF huge THEN Root ELSE f.level
      pfn == IF huge THEN host.pte[Base].ver ELSE f.pfn
      root == vcpu[v].root
      split == level = Leaf /\ m.sp[root].spt[Base].k = "map"
      vc == [vcpu EXCEPT ![v].pc = "map", ![v].f.level = level, ![v].f.pfn = pfn]
  IN /\ vcpu[v].pc = "adjust" /\ Holds(v)
     /\ IF kvm_mmu_available_pages(m) = 0
        THEN CommitAndUnlock(v, m, [vcpu EXCEPT ![v] = Back(v)], FALSE, FALSE, {})
        ELSE CommitAndHold(v, IF split THEN drop_spte(m, scen.ad, root, Base) ELSE m, vc,
                           split, FALSE, {})
     /\ UNCHANGED <<others, bitmap, vm, hist>>

\* The neighbours __direct_pte_prefetch maps with entry i of page p: those not mapped that
\* precede i or a mapped one, up to the first that the host does not let KVM write.
direct_pte_prefetch(m, p, i) ==
  LET stop == {j \in Gfns : j = i \/ is_shadow_present_pte(m.sp[p].spt[j])}
      todo == {j \in Gfns \ stop : \E k \in stop : k > j}
      ok == {j \in todo : \A k \in todo : k <= j => host.pte[k].w}
  IN IF scen.ad /\ m.sp[p].level = Leaf /\ slot.st = "valid" /\ ~slot.log THEN ok ELSE {}

\* The rest of __direct_map: get and link the table, set the entry, prefetch, unlock.
\* (kvm->srcu keeps the slot that the frame was looked up in from being absent here.)
direct_map(v) ==
  LET f == vcpu[v].f
      g == vcpu[v].exit.g
      root == vcpu[v].root
      fresh == f.level = Leaf /\ ~is_shadow_present_pte(mmu.sp[root].spt[Base])
      got == kvm_mmu_get_page(mmu, Leaf)
      m1 == IF fresh THEN link_shadow_page(got.m, root, got.p) ELSE mmu
      p == IF f.level = Root THEN root ELSE m1.sp[root].spt[Base].page
      i == Index(m1, p, g)
      mapped == f.pfn # NoSlot
      s == mmu_set_spte(m1, scen.ad, p, i,
             IF mapped THEN make_spte(scen.ad, f.pfn, f.w, FALSE) ELSE mark_mmio_spte(gen))
      m2 == FoldSet(LAMBDA j, n : mmu_set_spte(n, scen.ad, p, j,
                                    make_spte(scen.ad, host.pte[j].ver, TRUE, TRUE)).m,
                    s.m, direct_pte_prefetch(s.m, p, i))
      vc == IF mapped THEN [vcpu EXCEPT ![v] = Back(v)]
            ELSE [vcpu EXCEPT ![v].pc = "emulate", ![v].f = NoFault]
  IN /\ vcpu[v].pc = "map" /\ Holds(v)
     /\ CommitAndUnlock(v, m2, vc, s.flush, FALSE, {})
     /\ IF mapped /\ f.w THEN mark_page_dirty({i}) ELSE UNCHANGED bitmap
     /\ UNCHANGED <<others, vm, hist>>

-----------------------------------------------------------------------------
(* handle_ept_misconfig: an access to a frame that was found to have no memory. *)

\* mmio_info_in_cache, or the lockless walk.
MmioFault(v) ==
  LET hit == vcpu[v].mmio = [g |-> vcpu[v].exit.g, gen |-> gen]
  IN /\ At(v, "mmio")
     /\ vcpu' = [vcpu EXCEPT ![v].pc = IF hit THEN "emulate" ELSE "walk",
                             ![v].stale = hit /\ Stale]
     /\ UNCHANGED <<others, mmu, lock, wait, doomed, bitmap, vm, hist>>

\* check_mmio_spte on the entry the walk found; RET_PF_INVALID goes to tdp_page_fault.
CheckMmio(v) ==
  LET valid == check_mmio_spte(vcpu[v].f.spte, gen)
  IN /\ At(v, "check")
     /\ vcpu' = [vcpu EXCEPT ![v].pc = IF valid THEN "cache" ELSE "fault",
                             ![v].f = NoFault, ![v].stale = valid /\ Stale]
     /\ UNCHANGED <<others, mmu, lock, wait, doomed, bitmap, vm, hist>>

\* x86_emulate_instruction
Emulate(v) ==
  /\ At(v, "emulate")
  /\ vcpu' = [vcpu EXCEPT ![v] = Back(v)]
  /\ UNCHANGED <<others, mmu, lock, wait, doomed, bitmap, vm, hist>>

VcpuStep(v) ==
  \/ HandleReload(v) \/ HandleFlush(v) \/ LoadStart(v) \/ mmu_alloc_direct_roots(v)
  \/ Enter(v) \/ CancelEntry(v)
  \/ \E g \in scen.use : TlbFill(v, g) \/ GuestWrite(v, g) \/ EptMisconfig(v, g)
  \/ \E g \in scen.use, write \in BOOLEAN : EptViolation(v, g, write)
  \/ OtherExit(v) \/ HandleExit(v) \/ FaultStart(v) \/ WalkRoot(v) \/ WalkLeaf(v)
  \/ FixSpte(v) \/ FixMark(v) \/ ReadSeq(v) \/ try_async_pf(v) \/ vcpu_cache_mmio_info(v)
  \/ LockMmu(v) \/ Adjust(v) \/ direct_map(v) \/ MmioFault(v) \/ CheckMmio(v) \/ Emulate(v)
  \/ Unlock(v)
=============================================================================
