------------------------------ MODULE MmuSpte ------------------------------
(***************************************************************************)
(* The entries of KVM's shadow page tables (KVM-PT/mmu.c) for a guest that *)
(* runs on EPT (direct map), and what each update of an entry returns.     *)
(* An entry is absent, maps a page, points to a table one level down, or   *)
(* marks a guest frame that no memory slot backs (MMIO).                   *)
(*   pfn    the version of the host's page (HostMm numbers them)           *)
(*   w      PT_WRITABLE_MASK                                               *)
(*   mw     SPTE_HOST_WRITEABLE and SPTE_MMU_WRITEABLE                     *)
(*   a, d   the accessed and dirty bits, where the hardware has them       *)
(*   track  marked for access tracking, where it has not                   *)
(* The parameter "ad" says whether the hardware keeps accessed and dirty   *)
(* bits (shadow_accessed_mask # 0).                                        *)
(***************************************************************************)
EXTENDS Integers

CONSTANT MmioGens     \* 2^MMIO_GEN_SHIFT: how many generations an entry tells apart

ASSUME MmioGensAssumption == MmioGens \in Nat \ {0}

Absent == [k |-> "none"]
Table(p) == [k |-> "table", page |-> p]

is_shadow_present_pte(e) == e.k \in {"map", "table"}
is_mmio_spte(e) == e.k = "mmio"

\* What an MMIO entry keeps of a generation: 20 bits, the lowest presumed zero.
kvm_current_mmio_generation(gen) == gen % MmioGens
generation_mmio_spte_mask(gen) == gen - (gen % 2)
mark_mmio_spte(gen) ==
  [k |-> "mmio", gen |-> generation_mmio_spte_mask(kvm_current_mmio_generation(gen))]
check_mmio_spte(e, gen) == e.gen = kvm_current_mmio_generation(gen)

is_access_track_spte(e) == e.k = "map" /\ e.track
is_accessed_spte(ad, e) == IF ad THEN e.a ELSE ~e.track
is_dirty_spte(ad, e) == IF ad THEN e.d ELSE e.w
spte_can_locklessly_be_made_writable(e) == e.k = "map" /\ e.mw

\* The result of an update is the new entry, whether TLBs must be flushed, and
\* whether the host's page is marked dirty on the way.
Kept(e) == [e |-> e, flush |-> FALSE, dirtied |-> FALSE]

\* mmu_spte_update: replace a present entry by one for the same page.
mmu_spte_update(ad, old, new) ==
  [e |-> new,
   flush |-> \/ old.mw /\ ~new.w
             \/ is_accessed_spte(ad, old) /\ ~is_accessed_spte(ad, new)
             \/ is_dirty_spte(ad, old) /\ ~is_dirty_spte(ad, new),
   dirtied |-> is_dirty_spte(ad, old) /\ ~is_dirty_spte(ad, new)]

mark_spte_for_access_track(ad, e) ==
  IF ad THEN [e EXCEPT !.a = FALSE] ELSE [e EXCEPT !.track = TRUE, !.w = FALSE]

\* Only the read and execute bits are saved: write access comes back with a fault.
restore_acc_track_spte(e) == [e EXCEPT !.track = FALSE]

mmu_spte_age(ad, e) ==
  IF is_accessed_spte(ad, e)
  THEN [e |-> mark_spte_for_access_track(ad, e), flush |-> TRUE, dirtied |-> ~ad /\ e.w]
  ELSE Kept(e)

spte_write_protect(ad, e) ==
  IF e.w THEN mmu_spte_update(ad, e, [e EXCEPT !.w = FALSE]) ELSE Kept(e)

wrprot_ad_disabled_spte(e) == [e |-> [e EXCEPT !.w = FALSE], flush |-> e.w, dirtied |-> e.w]

\* __rmap_clear_dirty on one entry.
spte_clear_dirty(ad, e) ==
  IF ad THEN mmu_spte_update(ad, e, [e EXCEPT !.d = FALSE]) ELSE wrprot_ad_disabled_spte(e)

\* __rmap_set_dirty on one entry.
spte_set_dirty(ad, e) ==
  IF ad THEN mmu_spte_update(ad, e, [e EXCEPT !.d = TRUE]) ELSE Kept(e)

\* The entry set_spte builds for a page the host lets KVM write or not.
make_spte(ad, pfn, host_writable, speculative) ==
  LET e == [k |-> "map", pfn |-> pfn, w |-> host_writable, mw |-> host_writable,
            a |-> ad /\ ~speculative, d |-> ad /\ host_writable, track |-> FALSE]
  IN IF speculative THEN mark_spte_for_access_track(ad, e) ELSE e

\* Does the entry allow the access?  (An MMIO entry has the write bit set and the
\* read bit clear.)
is_access_allowed(write, e) ==
  IF write THEN is_mmio_spte(e) \/ (e.k = "map" /\ e.w) ELSE e.k = "map" /\ ~e.track

=============================================================================
