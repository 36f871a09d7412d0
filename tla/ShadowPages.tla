---------------------------- MODULE ShadowPages ----------------------------
(***************************************************************************)
(* The shadow pages of one VM and their bookkeeping (KVM-PT/mmu.c): the    *)
(* list of active pages, the reverse map from guest frames to entries, the *)
(* parents of a page, zapping and freeing.  Every operator takes the state *)
(* "m" that kvm->mmu_lock protects and returns the new one; an operator    *)
(* whose caller must act on its result returns a record.                   *)
(*                                                                         *)
(* The page table has two levels: a root, whose only entry (at Base)       *)
(* covers all of Gfns (one huge page), and tables with one entry for each  *)
(* guest frame.  The levels above the root's have the same code as its.    *)
(***************************************************************************)
EXTENDS MmuSpte, FiniteSetsExt, SequencesExt

CONSTANTS Gfns,       \* the guest frames of one huge page
          Pages       \* the host memory shadow pages are allocated from

ASSUME GfnsAssumption == Gfns \subseteq Nat \ {0} /\ Gfns # {}
ASSUME PagesAssumption == Pages \subseteq Nat

Base == Min(Gfns)
Root == 2
Leaf == 1

FreePage == [st |-> "free", level |-> Leaf, gen |-> 0, invalid |-> FALSE, roots |-> 0,
             parents |-> {}, spt |-> [g \in Gfns |-> Absent]]

\* The guest frames entry i of page p stands for.
Covers(m, p, i) == IF m.sp[p].level = Root THEN Gfns ELSE {i}
Index(m, p, g) == IF m.sp[p].level = Root THEN Base ELSE g

\* kvm_mmu_get_page: the valid page of that level, or a new one at the head of the list.
kvm_mmu_get_page(m, level) ==
  LET found == {p \in Pages : /\ m.sp[p].st # "free" /\ m.sp[p].level = level
                              /\ m.sp[p].gen = m.gen /\ ~m.sp[p].invalid}
      new == Min({p \in Pages : m.sp[p].st = "free"})
  IN IF found # {}
     THEN [m |-> m, p |-> Min(found)]
     ELSE [m |-> [m EXCEPT !.sp[new] = [FreePage EXCEPT !.st = "live", !.level = level,
                                                        !.gen = m.gen],
                           !.active = <<new>> \o @],
           p |-> new]

link_shadow_page(m, parent, p) ==
  [m EXCEPT !.sp[parent].spt[Base] = Table(p), !.sp[p].parents = @ \cup {parent}]

drop_parent_pte(m, parent, p) ==
  [m EXCEPT !.sp[parent].spt[Base] = Absent, !.sp[p].parents = @ \ {parent}]

drop_spte(m, ad, p, i) ==
  LET e == m.sp[p].spt[i]
  IN [m EXCEPT !.sp[p].spt[i] = Absent, !.rmap = @ \ {<<p, i>>},
               !.dirtied = IF is_dirty_spte(ad, e) THEN @ \cup Covers(m, p, i) ELSE @]

mmu_page_zap_pte(m, ad, p, i) ==
  LET e == m.sp[p].spt[i]
  IN CASE e.k = "map" -> drop_spte(m, ad, p, i)
       [] e.k = "table" -> drop_parent_pte(m, p, e.page)
       [] OTHER -> [m EXCEPT !.sp[p].spt[i] = Absent]

kvm_mmu_page_unlink_children(m, ad, p) ==
  FoldSet(LAMBDA i, n : mmu_page_zap_pte(n, ad, p, i), m, Gfns)

kvm_mmu_unlink_parents(m, p) ==
  FoldSet(LAMBDA q, n : drop_parent_pte(n, q, p), m, m.sp[p].parents)

\* kvm_mmu_prepare_zap_page: a page some vCPU has as its root only becomes invalid
\* (and goes to the head of the list); "reload" asks for kvm_reload_remote_mmus.
kvm_mmu_prepare_zap_page(m, ad, p) ==
  LET n == kvm_mmu_unlink_parents(kvm_mmu_page_unlink_children(m, ad, p), p)
      rest == SelectSeq(m.active, LAMBDA q : q # p)
  IN IF m.sp[p].roots = 0
     THEN [m |-> [n EXCEPT !.sp[p].invalid = TRUE, !.sp[p].st = "zapped", !.active = rest],
           zapped |-> {p}, reload |-> FALSE]
     ELSE [m |-> [n EXCEPT !.sp[p].invalid = TRUE, !.active = <<p>> \o rest],
           zapped |-> {}, reload |-> ~m.sp[p].invalid /\ m.sp[p].gen = m.gen]

prepare_zap_oldest_mmu_page(m, ad) ==
  IF m.active = <<>> THEN [m |-> m, zapped |-> {}, reload |-> FALSE]
  ELSE kvm_mmu_prepare_zap_page(m, ad, Last(m.active))

kvm_mmu_available_pages(m) == IF m.nmax > Len(m.active) THEN m.nmax - Len(m.active) ELSE 0

\* Zap the oldest pages until at most "few" are left or the oldest one is a root in use.
ZapOldestUntil(m, ad, few) ==
  LET step[k \in 0..Cardinality(Pages)] ==
        IF k = 0 THEN [m |-> m, zapped |-> {}, reload |-> FALSE, stop |-> FALSE]
        ELSE LET r == step[k - 1]
                 z == prepare_zap_oldest_mmu_page(r.m, ad)
             IN IF r.stop \/ Len(r.m.active) <= few THEN r
                ELSE [m |-> z.m, zapped |-> r.zapped \cup z.zapped,
                      reload |-> r.reload \/ z.reload, stop |-> z.zapped = {}]
  IN step[Cardinality(Pages)]

\* The pages of an invalid list are freed once every vCPU has been waited for.
kvm_mmu_free_pages(m, list) ==
  [m EXCEPT !.sp = [p \in Pages |-> IF p \in list THEN FreePage ELSE @[p]]]

\* The oldest page kvm_zap_obsolete_pages may still zap: the walk from the tail stops at
\* the first page that is not obsolete and passes over the invalid ones.
ObsoleteToZap(m) ==
  LET stop == {i \in DOMAIN m.active : m.sp[m.active[i]].gen = m.gen}
      todo == {i \in DOMAIN m.active : /\ ~m.sp[m.active[i]].invalid
                                       /\ \A j \in stop : j < i}
  IN IF todo = {} THEN {} ELSE {m.active[Max(todo)]}

\* What a walk does with one entry.
slot_level_handler(h, ad, e) ==
  CASE h = "write_protect" -> spte_write_protect(ad, e)
    [] h = "clear_dirty" -> spte_clear_dirty(ad, e)
    [] h = "set_dirty" -> spte_set_dirty(ad, e)
    [] h = "age" -> mmu_spte_age(ad, e)

\* Apply a handler to the entries the reverse map lists for the levels and guest frames.
RmapEntries(m, levels, gfns) ==
  {x \in m.rmap : m.sp[x[1]].level \in levels /\ Covers(m, x[1], x[2]) \cap gfns # {}}

slot_handle_level(m, ad, levels, gfns, h) ==
  LET R == RmapEntries(m, levels, gfns)
      res(x) == slot_level_handler(h, ad, m.sp[x[1]].spt[x[2]])
  IN [m |-> [m EXCEPT
               !.sp = [p \in Pages |->
                        [@[p] EXCEPT !.spt = [i \in Gfns |->
                           IF <<p, i>> \in R THEN res(<<p, i>>).e ELSE @[i]]]],
               !.dirtied = @ \cup UNION {Covers(m, x[1], x[2]) :
                                         x \in {y \in R : res(y).dirtied}}],
      flush |-> \E x \in R : res(x).flush]

\* kvm_zap_rmapp on the same entries.
kvm_zap_rmapp(m, ad, R) ==
  [m |-> FoldSet(LAMBDA x, n : drop_spte(n, ad, x[1], x[2]), m, R), flush |-> R # {}]

\* mmu_set_spte: put "new" (a mapping or an MMIO mark) at entry i of page p.
mmu_set_spte(m, ad, p, i, new) ==
  LET old == m.sp[p].spt[i]
      same == old.k = "map" /\ new.k = "map" /\ old.pfn = new.pfn
      n == IF is_shadow_present_pte(old) /\ ~same THEN mmu_page_zap_pte(m, ad, p, i) ELSE m
      u == mmu_spte_update(ad, old, new)
  IN [m |-> [n EXCEPT !.sp[p].spt[i] = new,
                      !.rmap = IF new.k = "map" THEN @ \cup {<<p, i>>} ELSE @,
                      !.dirtied = IF same /\ u.dirtied THEN @ \cup Covers(m, p, i) ELSE @],
      flush |-> IF same THEN u.flush ELSE is_shadow_present_pte(old)]

=============================================================================
