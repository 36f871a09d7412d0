----------------------------- MODULE PageCache -----------------------------
(***************************************************************************)
(* The page cache (pt/page_cache.c): the code pages the trace decoder has  *)
(* needed so far, shared by all QEMU processes through three files of the  *)
(* working directory.  page_cache.dump holds the pages, page_cache.addr    *)
(* their addresses, in the same order; an flock on page_cache.lock         *)
(* serialises the processes that change them.  A process keeps a private   *)
(* lookup table from addresses to offsets, and maps the dump.              *)
(*                                                                         *)
(* A process may die at any step, which drops its flock.                   *)
(***************************************************************************)
EXTENDS Naturals, Sequences, SequencesExt

CONSTANTS Procs,      \* QEMU processes
          Pages       \* addresses of code pages

VARIABLES addr,       \* page_cache.addr: the addresses of the dumped pages
          dump,       \* page_cache.dump: the page each slot holds, or Zero
          flock,      \* the process that holds the lock on page_cache.lock, if any
          cache       \* page_cache_t of each process

pageCacheVars == <<addr, dump, flock, cache>>

Zero == "zero"        \* a slot that ftruncate added and nobody filled
NoPage == "no page"

(* at: where the process is in page_cache_fetch; page: what it fetches. *)
Cache ==
  [lookup : UNION {[S -> Nat] : S \in SUBSET Pages}, num_pages : Nat,
   at : {"idle", "lock", "grow", "dump", "put"}, page : Pages \union {NoPage}]

page_cache_new ==
  [lookup |-> [a \in {} |-> 0], num_pages |-> 0,
   at |-> "idle", page |-> NoPage]

PageCacheInit ==
  /\ addr = << >> /\ dump = << >>
  /\ flock = {}
  /\ cache = [p \in Procs |-> page_cache_new]

(* The table after reading the address file from num_pages on: an address  *)
(* that is there already keeps its slot.                                   *)
reload_addresses(c) ==
  LET fresh == {addr[i] : i \in c.num_pages + 1 .. Len(addr)} \ DOMAIN c.lookup
      slot(a) == CHOOSE i \in c.num_pages .. Len(addr) - 1 :
                    /\ addr[i + 1] = a
                    /\ \A j \in c.num_pages .. i - 1 : addr[j + 1] # a
  IN  [c EXCEPT !.lookup = [a \in DOMAIN c.lookup \union fresh |->
                              IF a \in fresh THEN slot(a) ELSE c.lookup[a]],
                !.num_pages = Len(addr)]

Return(c) == [c EXCEPT !.at = "idle", !.page = NoPage]

(* page_cache_fetch changes nothing when the page is the last one returned *)
(* or in the table, or when the caller only tests (test_mode); else it     *)
(* needs the lock.                                                         *)
page_cache_fetch(p, page, test_mode) ==
  /\ cache[p].at = "idle" /\ page \notin DOMAIN cache[p].lookup /\ ~test_mode
  /\ cache' = [cache EXCEPT ![p].at = "lock", ![p].page = page]
  /\ UNCHANGED <<addr, dump, flock>>

update_page_cache_NoReload(p) ==
  /\ cache[p].at = "lock" /\ flock = {}
  /\ cache' = [cache EXCEPT ![p].at = "grow"] /\ flock' = {p}
  /\ UNCHANGED <<addr, dump>>

(* update_page_cache up to the second look into the table: take the lock,  *)
(* read what other processes have added, and leave if the page is there.   *)
update_page_cache(p) ==
  LET c == reload_addresses(cache[p]) IN
  /\ cache[p].at = "lock" /\ flock = {}
  /\ IF c.page \in DOMAIN c.lookup
     THEN cache' = [cache EXCEPT ![p] = Return(c)] /\ UNCHANGED flock
     ELSE cache' = [cache EXCEPT ![p] = [c EXCEPT !.at = "grow"]] /\ flock' = {p}
  /\ UNCHANGED <<addr, dump>>

(* ftruncate: the file has exactly n slots afterwards. *)
Truncated(n) == [i \in 1 .. n |-> IF i <= Len(dump) THEN dump[i] ELSE Zero]

(* append_page makes room for one more page ...                            *)
append_page_grow(p) ==
  /\ cache[p].at = "grow"
  /\ dump' = Truncated(cache[p].num_pages + 1)
  /\ cache' = [cache EXCEPT ![p].at = "dump"]
  /\ UNCHANGED <<addr, flock>>

(* ... and dumps it there, or, when none of the three page tables maps the *)
(* address, takes the room back; update_page_cache then unlocks and fails. *)
append_page_dump(p, mapped) ==
  LET c == cache[p] IN
  /\ c.at = "dump"
  /\ IF mapped
     THEN /\ dump' = [dump EXCEPT ![c.num_pages + 1] = c.page]
          /\ cache' = [cache EXCEPT ![p].at = "put", ![p].num_pages = @ + 1]
          /\ UNCHANGED flock
     ELSE /\ dump' = Truncated(c.num_pages)
          /\ cache' = [cache EXCEPT ![p] = Return(c)]
          /\ flock' = {}
  /\ UNCHANGED addr

(* The rest of update_page_cache: the entry of the table, the address file *)
(* and the unlock.                                                         *)
update_page_cache_put(p) ==
  LET c == cache[p] IN
  /\ c.at = "put"
  /\ addr' = Append(addr, c.page)
  /\ cache' = [cache EXCEPT ![p] =
       Return([c EXCEPT !.lookup = [a \in DOMAIN c.lookup \union {c.page} |->
                                      IF a = c.page THEN c.num_pages - 1 ELSE c.lookup[a]]])]
  /\ flock' = {}
  /\ UNCHANGED dump

(* The process dies, wherever it is: the kernel drops its lock. *)
PageCacheDeath(p) ==
  /\ cache' = [cache EXCEPT ![p] = page_cache_new]
  /\ flock' = flock \ {p}
  /\ UNCHANGED <<addr, dump>>

(* The steps of a fetch that is under way. *)
FetchStep(p) ==
  \/ update_page_cache(p)
  \/ append_page_grow(p)
  \/ \E mapped \in BOOLEAN : append_page_dump(p, mapped)
  \/ update_page_cache_put(p)

PageCacheNext(p) ==
  \/ \E page \in Pages, test_mode \in BOOLEAN : page_cache_fetch(p, page, test_mode)
  \/ FetchStep(p)

-----------------------------------------------------------------------------
PageCacheTypeOK ==
  /\ addr \in Seq(Pages) /\ dump \in Seq(Pages \union {Zero})
  /\ flock \subseteq Procs
  /\ cache \in [Procs -> Cache]

(* Whatever a table says, whoever wrote it, whoever has died meanwhile and *)
(* whatever is being appended or taken back: the slot lies within the dump *)
(* file (a read beyond it would be a bus error) and holds that very page.  *)
(* The address file lists every page once, and never a page whose dump is  *)
(* not there yet, so that a process that starts later sees the same.       *)
CacheIsCoherent ==
  /\ \A p \in Procs : \A a \in DOMAIN cache[p].lookup :
        /\ cache[p].lookup[a] < Len(dump)
        /\ dump[cache[p].lookup[a] + 1] = a
  /\ IsInjective(addr) /\ IsPrefix(addr, dump)
=============================================================================
