------------------------------ MODULE Workers ------------------------------
(***************************************************************************)
(* The workers of a fuzzing session together: they come up (WorkerStart),  *)
(* and those that fuzz share the page cache (PageCache).  A QEMU process   *)
(* may be killed at any step; the files stay, and its lock is dropped.     *)
(***************************************************************************)
EXTENDS WorkerStart, PageCache, FiniteSets

CONSTANT MaxDeaths    \* bound: QEMU processes that are killed

(* Every worker has one QEMU process. *)
ASSUME ProcsAssumption == Procs = Workers

vars == <<startVars, pageCacheVars>>

Init == StartInit /\ PageCacheInit

(* A worker decodes traces once it fuzzes. *)
Decode(w) == qemu[w].at = "fuzz" /\ PageCacheNext(w) /\ UNCHANGED startVars

Killed == {w \in Workers : qemu[w].at = "dead"}

Death(w) ==
  /\ Cardinality(Killed) < MaxDeaths
  /\ QemuDeath(w) /\ PageCacheDeath(w)

Next ==
  \/ StartNext /\ UNCHANGED pageCacheVars
  \/ \E w \in Workers : Decode(w) \/ Death(w)

(* Threads and processes run on, and a process that waits for the lock     *)
(* gets it in the end: the kernel wakes the waiters of an flock in turn.   *)
Fairness ==
  /\ WF_vars((SpawnThread \/ clear_workdir \/ prepare_workdir) /\ UNCHANGED pageCacheVars)
  /\ \A w \in Workers :
       /\ WF_vars(StartStep(w) /\ UNCHANGED pageCacheVars)
       /\ WF_vars(FetchStep(w) /\ UNCHANGED startVars)
       /\ SF_vars(update_page_cache(w) /\ UNCHANGED startVars)

Spec == Init /\ [][Next]_vars /\ Fairness

-----------------------------------------------------------------------------
(* A worker that fuzzes has loaded every file of the snapshot complete and *)
(* from this session (or from the path the configuration names), never one *)
(* that worker 0 is still writing nor one of an earlier session; and no    *)
(* QEMU finds its working directory incomplete, nor a thread a link of an  *)
(* earlier session in its way, whatever the order in which threads and     *)
(* processes run and whoever is killed.                                    *)
SessionIsSound ==
  \A w \in Workers :
    /\ qemu[w].at = "fuzz" /\ ~Creates(w) =>
         \A f \in PartNames : got[w][f] = IF path = "Reuse" THEN "old" ELSE "new"
    /\ qemu[w].at # "abort"
    /\ thread[w] = "panic" => w \in Killed

(* Every worker comes up, unless its QEMU is killed or worker 0 is killed  *)
(* before it has published the snapshot (the wait has no limit); and a     *)
(* fetch of a page ends, also when the process that held the lock of the   *)
(* page cache is killed.                                                   *)
WorkersProceed ==
  \A w \in Workers :
    /\ <>(thread[w] = "ready" \/ w \in Killed \/ (0 \in Killed /\ ready = "none"))
    /\ cache[w].at # "idle" ~> cache[w].at = "idle"
=============================================================================
