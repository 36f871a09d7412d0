------------------------------- MODULE MmuVm -------------------------------
(***************************************************************************)
(* Everything that changes a VM's memory under its running vCPUs: the      *)
(* ioctls on a memory slot (creation, deletion, dirty logging on and off,  *)
(* KVM_GET_DIRTY_LOG), the host's memory management through the MMU        *)
(* notifiers, and the shrinker (KVM-PT/virt/kvm/kvm_main.c, mmu.c, x86.c,  *)
(* vmx.c), composed with the vCPUs of MmuTdp.                              *)
(*                                                                         *)
(* An ioctl runs as a sequence of stages, one for each critical section,   *)
(* synchronize_srcu or flush outside the lock; kvm->slots_lock makes the   *)
(* ioctls follow each other.  "scen" fixes the work: the ioctls in order,  *)
(* the changes the host may make and how many, the number of shrinks.      *)
(***************************************************************************)
EXTENDS MmuTdp

CONSTANT Scenarios     \* the values of "scen"

FirstGeneration == -150   \* kvm_create_vm, address space 0
AddressSpaces == 2     \* KVM_ADDRESS_SPACE_NUM

\* The stages of an ioctl: __kvm_set_memory_region with install_new_memslots and
\* kvm_arch_commit_memory_region, and kvm_vm_ioctl_get_dirty_log.
Install == <<"install", "sync", "updated">>
Stages(op) ==
  CASE op \in {"create", "other"} -> Install \o <<"resize">>
    [] op = "delete" -> <<"invalidate", "sync", "updated", "zapgen", "zap">> \o Install
                          \o <<"resize">>
    [] op = "log" -> Install \o <<"resize">>
                       \o (IF scen.pml THEN <<"leaf_clear_dirty", "flush",
                                              "largepage_remove_write_access", "flush">>
                           ELSE <<"remove_write_access", "flush">>)
                       \o <<"armed">>
    [] op = "unlog" -> Install \o <<"resize", "collapse">>
                         \o (IF scen.pml THEN <<"set_dirty", "flush">> ELSE <<>>)
    [] op = "get" -> <<"snapshot", "rearm", "flush", "return">>

NewSlot == CASE vm.op \in {"create", "unlog"} -> [st |-> "valid", log |-> FALSE]
             [] vm.op = "log" -> [st |-> "valid", log |-> TRUE]
             [] vm.op = "delete" -> [st |-> "absent", log |-> FALSE]
             [] OTHER -> slot

VmStart ==
  /\ vm.todo = <<>> /\ vm.ops # <<>> /\ Free("vm")
  /\ vm' = [vm EXCEPT !.op = Head(vm.ops), !.todo = Stages(Head(vm.ops)), !.ops = Tail(@)]
  /\ hist' = IF Head(vm.ops) \in {"unlog", "delete"}
             THEN [hist EXCEPT !.armed = FALSE, !.unreported = {}] ELSE hist
  /\ UNCHANGED <<others, mmu, lock, wait, doomed, bitmap, vcpu>>

AtStage(s) == vm.todo # <<>> /\ Head(vm.todo) = s
Stage(s) == AtStage(s) /\ Free("vm")
Done == [vm EXCEPT !.todo = Tail(@)]

\* The readers synchronize_srcu_expedited waits for.
SrcuReaders == {v \in scen.cpus : vcpu[v].pc # "guest"} \cup ({lock} \cap {"mm", "shrink"})

\* install_new_memslots: publish the slots with the low bit of the generation set ...
InstallSlots(s, new) ==
  /\ Stage(s)
  /\ slot' = new
  /\ gen' = gen + 1
  /\ bitmap' = IF new.log /\ slot.log THEN bitmap ELSE {}
  /\ vm' = [Done EXCEPT !.srcu = SrcuReaders]
  /\ UNCHANGED <<scen, host, notifier, mm, mmu, lock, wait, doomed, vcpu, hist>>

InvalidateSlot == InstallSlots("invalidate", [slot EXCEPT !.st = "invalid"])
InstallSlot == InstallSlots("install", NewSlot)

\* ... wait for every reader of the old ones ...
SynchronizeSrcu ==
  /\ Stage("sync") /\ vm.srcu = {}
  /\ vm' = Done
  /\ UNCHANGED <<others, mmu, lock, wait, doomed, bitmap, vcpu, hist>>

\* ... and raise the generation again; kvm_mmu_invalidate_mmio_sptes zaps everything when
\* the part of it that an entry keeps is zero.
MemslotsUpdated ==
  /\ Stage("updated")
  /\ gen' = gen + AddressSpaces * 2 - 1
  /\ vm' = IF kvm_current_mmio_generation(gen') = 0
           THEN [vm EXCEPT !.todo = <<"zapgen", "zap">> \o Tail(@)] ELSE Done
  /\ UNCHANGED <<scen, host, notifier, slot, mm, mmu, lock, wait, doomed, bitmap, vcpu, hist>>

-----------------------------------------------------------------------------
(* kvm_mmu_invalidate_zap_all_pages                                         *)

ZapGeneration ==
  /\ Stage("zapgen") /\ lock = "none"
  /\ CommitAndHold("vm", [mmu EXCEPT !.gen = @ + 1], vcpu, FALSE, TRUE, {})
  /\ vm' = Done
  /\ UNCHANGED <<others, bitmap, hist>>

\* kvm_zap_obsolete_pages, one page ...
ZapObsolete ==
  /\ AtStage("zap") /\ Holds("vm")
  /\ \E p \in ObsoleteToZap(mmu) :
       LET z == kvm_mmu_prepare_zap_page(mmu, scen.ad, p)
       IN CommitAndHold("vm", [z.m EXCEPT !.obsolete = @ \cup z.zapped], vcpu, FALSE, z.reload, {})
  /\ UNCHANGED <<others, bitmap, vm, hist>>

\* ... with the lock given up after a batch (which the pages of the rest of the guest's memory
\* may fill at any point) ...
ZapBreak ==
  /\ AtStage("zap")
  /\ \/ Holds("vm") /\ ObsoleteToZap(mmu) # {} /\ lock' = "none"
     \/ lock = "none" /\ lock' = "vm"
  /\ UNCHANGED <<others, mmu, wait, doomed, bitmap, vcpu, vm, hist>>

\* ... and the commit of zapped_obsolete_pages.
ZapCommit ==
  /\ AtStage("zap") /\ Holds("vm") /\ ObsoleteToZap(mmu) = {}
  /\ CommitAndUnlock("vm", [mmu EXCEPT !.obsolete = {}], vcpu, FALSE, FALSE, mmu.obsolete)
  /\ vm' = Done
  /\ UNCHANGED <<others, bitmap, hist>>

\* kvm_mmu_change_mmu_pages, with the goal kvm_mmu_calculate_mmu_pages finds.
ChangeMmuPages ==
  LET goal == IF slot.st = "absent" THEN scen.few ELSE scen.many
      z == ZapOldestUntil(mmu, scen.ad, goal)
      over == Len(mmu.active) > goal
  IN /\ Stage("resize") /\ lock = "none"
     /\ IF over
        THEN CommitAndUnlock("vm", [z.m EXCEPT !.nmax = Len(z.m.active)], vcpu, FALSE, z.reload,
                             z.zapped)
        ELSE CommitAndUnlock("vm", [mmu EXCEPT !.nmax = goal], vcpu, FALSE, FALSE, {})
     /\ vm' = Done
     /\ UNCHANGED <<others, bitmap, hist>>

-----------------------------------------------------------------------------
(* Dirty logging: kvm_mmu_slot_apply_flags and kvm_vm_ioctl_get_dirty_log.  *)

\* A walk of the slot's entries that leaves the flush to the next stage, outside the lock.
SlotStage(s, levels, h) ==
  LET r == slot_handle_level(mmu, scen.ad, levels, Gfns, h)
  IN /\ Stage(s) /\ lock = "none"
     /\ mmu' = r.m
     /\ vm' = [Done EXCEPT !.flush = r.flush]
     /\ UNCHANGED <<others, lock, wait, doomed, bitmap, vcpu, hist>>

kvm_mmu_slot_remove_write_access ==
  SlotStage("remove_write_access", {Leaf, Root}, "write_protect")
kvm_mmu_slot_leaf_clear_dirty ==
  SlotStage("leaf_clear_dirty", {Leaf}, "clear_dirty")
kvm_mmu_slot_largepage_remove_write_access ==
  SlotStage("largepage_remove_write_access", {Root}, "write_protect")
kvm_mmu_slot_set_dirty ==
  SlotStage("set_dirty", {Leaf, Root}, "set_dirty")

\* kvm_flush_remote_tlbs outside the lock.
FlushOutsideLock ==
  /\ Stage("flush")
  /\ vcpu' = Requested(vcpu, Requests(vm.flush, FALSE))
  /\ WaitFor("vm", Requests(vm.flush, FALSE))
  /\ vm' = [Done EXCEPT !.flush = FALSE]
  /\ UNCHANGED <<others, mmu, lock, doomed, bitmap, hist>>

\* The ioctl that turns logging on returns: from here on no write may be missed.
LoggingArmed ==
  /\ Stage("armed")
  /\ hist' = [hist EXCEPT !.armed = TRUE]
  /\ vm' = Done
  /\ UNCHANGED <<others, mmu, lock, wait, doomed, bitmap, vcpu>>

\* kvm_mmu_zap_collapsible_sptes
ZapCollapsible ==
  LET z == kvm_zap_rmapp(mmu, scen.ad,
                         IF host.backing = "thp" THEN RmapEntries(mmu, {Leaf}, Gfns) ELSE {})
  IN /\ Stage("collapse") /\ lock = "none"
     /\ CommitAndUnlock("vm", z.m, vcpu, z.flush, FALSE, {})
     /\ vm' = Done
     /\ UNCHANGED <<others, bitmap, hist>>

\* kvm_get_dirty_log_protect takes the bits ...
TakeBits ==
  /\ Stage("snapshot") /\ lock = "none"
  /\ lock' = "vm"
  /\ bitmap' = {}
  /\ vm' = [Done EXCEPT !.snap = bitmap, !.flush = bitmap # {}]
  /\ UNCHANGED <<others, mmu, wait, doomed, vcpu, hist>>

\* ... and makes the next write of each of those pages fault or be logged again.
enable_log_dirty_pt_masked ==
  LET r == slot_handle_level(mmu, scen.ad, {Leaf}, vm.snap,
                             IF scen.pml THEN "clear_dirty" ELSE "write_protect")
  IN /\ AtStage("rearm") /\ Holds("vm")
     /\ mmu' = r.m
     /\ lock' = "none"
     /\ vm' = Done
     /\ UNCHANGED <<others, wait, doomed, bitmap, vcpu, hist>>

\* The bits reach user space, which reads the pages after that.
ReturnBits ==
  /\ Stage("return")
  /\ hist' = [hist EXCEPT !.unreported = @ \ vm.snap]
  /\ vm' = [Done EXCEPT !.snap = {}]
  /\ UNCHANGED <<others, mmu, lock, wait, doomed, bitmap, vcpu>>

VmStep ==
  \/ VmStart \/ InvalidateSlot \/ InstallSlot \/ SynchronizeSrcu \/ MemslotsUpdated
  \/ ZapGeneration \/ ZapObsolete \/ ZapBreak \/ ZapCommit \/ ChangeMmuPages
  \/ kvm_mmu_slot_remove_write_access \/ kvm_mmu_slot_leaf_clear_dirty
  \/ kvm_mmu_slot_largepage_remove_write_access \/ kvm_mmu_slot_set_dirty
  \/ FlushOutsideLock \/ LoggingArmed \/ ZapCollapsible \/ TakeBits
  \/ enable_log_dirty_pt_masked \/ ReturnBits \/ Unlock("vm")

-----------------------------------------------------------------------------
(* The host's memory management (external) and the notifiers it calls.       *)

\* A change concerns one page, or all of a huge one.
HostRange(op, g) == IF op = "collapse" \/ host.backing # "small" THEN Gfns ELSE {g}
MayStart(op, g) ==
  /\ op = "collapse" => host.backing = "small"
  /\ op = "cow" => /\ ~host.pte[g].w
                   /\ \E v \in VCpus : vcpu[v].pc = "pfn" /\ vcpu[v].exit.write
                                       /\ vcpu[v].exit.g \in HostRange(op, g)
  /\ op # "cow" => mm.left > 0

\* kvm_mmu_notifier_invalidate_range_start
invalidate_range_start(op, g) ==
  LET range == HostRange(op, g)
      R == IF slot.st = "absent" THEN {} ELSE RmapEntries(mmu, {Leaf, Root}, range)
      z == kvm_zap_rmapp(mmu, scen.ad, R)
  IN /\ mm.pc = "idle" /\ Free("mm") /\ lock = "none" /\ MayStart(op, g)
     /\ notifier' = [notifier EXCEPT !.count = @ + 1]
     /\ CommitAndUnlock("mm", z.m, vcpu, z.flush, FALSE, {})
     /\ mm' = [mm EXCEPT !.pc = "change", !.op = op, !.range = range,
                         !.left = IF op = "cow" THEN @ ELSE @ - 1]
     /\ UNCHANGED <<scen, host, slot, gen, bitmap, vm, hist>>

\* The host puts another page in place, and the old one is freed.
ChangeHostPages ==
  LET new == 1 + Max({host.pte[g].ver : g \in mm.range})
  IN
  /\ mm.pc = "change" /\ Free("mm")
  /\ host' = [pte |-> [g \in Gfns |-> IF g \in mm.range
                                      THEN [ver |-> new, w |-> mm.op # "share"]
                                      ELSE host.pte[g]],
              backing |-> IF mm.op = "collapse" THEN "thp" ELSE host.backing]
  /\ mmu' = [mmu EXCEPT !.dirtied = @ \ mm.range]
  /\ hist' = [hist EXCEPT !.touched = @ \ mm.range]
  /\ mm' = [mm EXCEPT !.pc = "end"]
  /\ UNCHANGED <<scen, lock, wait, doomed, slot, gen, bitmap, notifier, vcpu, vm>>

invalidate_range_end ==
  /\ mm.pc = "end" /\ lock = "none"
  /\ notifier' = [count |-> notifier.count - 1, seq |-> notifier.seq + 1]
  /\ mm' = [mm EXCEPT !.pc = "idle", !.op = "none", !.range = {}]
  /\ UNCHANGED <<scen, mmu, lock, wait, doomed, slot, gen, bitmap, host, vcpu, vm, hist>>

\* kvm_mmu_notifier_clear_flush_young, and clear_young, which does not flush.
clear_young(g, flush) ==
  LET r == slot_handle_level(mmu, scen.ad, {Leaf, Root}, HostRange("age", g), "age")
  IN /\ mm.pc = "idle" /\ Free("mm") /\ lock = "none" /\ mm.left > 0 /\ slot.st # "absent"
     /\ CommitAndUnlock("mm", r.m, vcpu, flush /\ r.flush, FALSE, {})
     /\ mm' = [mm EXCEPT !.left = @ - 1]
     /\ UNCHANGED <<scen, host, notifier, slot, gen, bitmap, vm, hist>>

\* mmu_shrink_scan: what a lock break left behind, or the oldest page.
mmu_shrink_scan ==
  LET z == prepare_zap_oldest_mmu_page(mmu, scen.ad)
  IN /\ Free("shrink") /\ lock = "none" /\ mm.shrinks > 0
     /\ mmu.active # <<>> \/ mmu.obsolete # {}
     /\ IF mmu.obsolete # {}
        THEN CommitAndUnlock("shrink", [mmu EXCEPT !.obsolete = {}], vcpu, FALSE, FALSE,
                             mmu.obsolete)
        ELSE CommitAndUnlock("shrink", z.m, vcpu, FALSE, z.reload, z.zapped)
     /\ mm' = [mm EXCEPT !.shrinks = @ - 1]
     /\ UNCHANGED <<scen, host, notifier, slot, gen, bitmap, vm, hist>>

HostStep ==
  \/ \E g \in scen.use : \/ \E op \in (scen.host \cup {"cow"}) \ {"age"} : invalidate_range_start(op, g)
                         \/ \E flush \in BOOLEAN : "age" \in scen.host /\ clear_young(g, flush)
  \/ ChangeHostPages \/ invalidate_range_end \/ mmu_shrink_scan
  \/ Unlock("mm") \/ Unlock("shrink")

-----------------------------------------------------------------------------

Init ==
  /\ scen \in Scenarios
  /\ mmu = [sp |-> [p \in Pages |-> FreePage], active |-> <<>>, obsolete |-> {}, rmap |-> {},
            gen |-> 0, nmax |-> scen.many, dirtied |-> {}]
  /\ lock = "none"
  /\ wait = [t \in Threads |-> {}]
  /\ doomed = [t \in Threads |-> {}]
  /\ slot = [st |-> scen.slot, log |-> FALSE]
  /\ gen = FirstGeneration
  /\ bitmap = {}
  /\ notifier = [count |-> 0, seq |-> 0]
  /\ host = [pte |-> [g \in Gfns |-> [ver |-> 1, w |-> TRUE]], backing |-> scen.backing]
  /\ vcpu = [v \in VCpus |-> VcpuInit]
  /\ vm = [ops |-> scen.ops, op |-> "none", todo |-> <<>>, snap |-> {}, srcu |-> {},
           flush |-> FALSE]
  /\ mm = [pc |-> "idle", op |-> "none", range |-> {}, left |-> scen.changes,
           shrinks |-> scen.shrinks]
  /\ hist = [armed |-> FALSE, unreported |-> {}, touched |-> {}]

Next == (\E v \in scen.cpus : VcpuStep(v)) \/ VmStep \/ HostStep

Spec == Init /\ [][Next]_vars

-----------------------------------------------------------------------------
(* Properties.                                                              *)

Entries == {<<p, i>> \in Pages \X Gfns : mmu.sp[p].spt[i].k = "map"}
MatchesHost(e, g) ==
  /\ slot.st # "absent"
  /\ e.pfn = host.pte[g].ver
  /\ e.w => host.pte[g].w

\* An access is emulated as MMIO only if no memory backs the frame, outside of an update.
\* (The generation in MMIO entries and in the vCPU's cache, install_new_memslots.)
MmioIsCurrent == \A v \in VCpus : ~vcpu[v].stale

\* The guest never reaches a host page through a translation the host has taken back: every
\* entry KVM keeps, and every translation a vCPU in guest mode has cached, is the host's
\* current page, writable only if that one is, of a slot that exists, and no frame with
\* memory is taken for MMIO.  (The notifiers, the retry in tdp_page_fault, the flush before a
\* page is freed, the zap of a deleted slot, the generation of MMIO entries.)
TranslationsAreCurrent ==
  /\ MmioIsCurrent
  /\ \A x \in Entries : \A g \in Covers(mmu, x[1], x[2]) : MatchesHost(Entry(x), g)
  /\ \A v \in VCpus, g \in Gfns :
       (vcpu[v].pc = "guest" /\ vcpu[v].tlb[g].k = "map") => MatchesHost(vcpu[v].tlb[g], g)

\* No page is freed that a processor's walk or a lockless walk may still read.
PagesAreAlive ==
  \A v \in VCpus :
    LET live(p) == p = 0 \/ mmu.sp[p].st # "free"
    IN /\ vcpu[v].pc = "guest" => \A p \in {vcpu[v].root} \cup TablesOf(v) : live(p)
       /\ Reading(v) => live(vcpu[v].root) /\ live(vcpu[v].f.page)

BookkeepingIsExact ==
  /\ mmu.rmap = Entries
  /\ \A p \in Pages :
       /\ mmu.sp[p].parents = {q \in Pages : mmu.sp[q].spt[Base] = Table(p)}
       /\ mmu.sp[p].roots = Cardinality({v \in VCpus : vcpu[v].root = p})
       /\ mmu.sp[p].st = "live" <=> \E i \in DOMAIN mmu.active : mmu.active[i] = p
  /\ IsInjective(mmu.active)

\* No shadow page is freed while the processor or a lockless walk may still read it
\* (kvm_mmu_commit_zap_page, READING_SHADOW_PAGE_TABLES), and the reverse map, the parents,
\* the root counts and the list of active pages say exactly what the entries and the vCPUs'
\* roots are, whatever was zapped or mapped in between.
ShadowPagesAreSound == PagesAreAlive /\ BookkeepingIsExact

\* Once the ioctl that enables dirty logging has returned, no write of the guest is lost: it
\* is in the bitmap, in a snapshot about to be returned, in a vCPU's PML buffer, or a vCPU is
\* about to mark it.  And a page the guest has written is dirty for the host before the host
\* may drop it.  (fast_page_fault, set_spte, kvm_get_dirty_log_protect, vmx_flush_pml_buffer.)
WritesAreLogged ==
  LET marking == {vcpu[v].exit.g : v \in {u \in VCpus : vcpu[u].pc = "mark"}}
      logged == UNION {vcpu[v].pml : v \in VCpus}
      dirty == UNION {Covers(mmu, x[1], x[2]) : x \in {y \in Entries : is_dirty_spte(scen.ad, Entry(y))}}
  IN /\ hist.armed => hist.unreported \subseteq (bitmap \cup vm.snap \cup logged \cup marking)
     /\ hist.touched \subseteq (mmu.dirtied \cup dirty)
=============================================================================
