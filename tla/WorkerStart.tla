---------------------------- MODULE WorkerStart ----------------------------
(***************************************************************************)
(* How a fuzzing session comes up: main of rust_fuzzer spawns one thread   *)
(* per worker, each thread starts a QEMU process and connects to it, and   *)
(* the QEMU of worker 0 creates the snapshot that the other ones load      *)
(* (rust_fuzzer/src/main.rs, fuzz_runner/src/nyx, and on QEMU's side the   *)
(* device's checks of the working directory, vl.c and fast_vm_reload.c).   *)
(*                                                                         *)
(* The participants meet only in the working directory.  Three of their    *)
(* meetings rest on time and nothing else; the model assumes what the code *)
(* assumes there, in a guard each: SleptEnough, SetupIsFaster and the wait *)
(* for the socket that QEMU has just created.                              *)
(*                                                                         *)
(* The working directory may hold the files of an earlier session.         *)
(***************************************************************************)
EXTENDS Naturals

CONSTANTS N           \* threads of the configuration

ASSUME NAssumption == N \in Nat \ {0}

Workers == 0 .. N - 1

(* The files of a snapshot, in the order fast_reload_create_to_file writes *)
(* and fast_reload_create_from_file_snapshot reads them.                   *)
Parts == <<"mem", "qemu_state", "block_cow", "global.state">>
PartNames == {Parts[i] : i \in 1 .. 4}

Ages == {"none", "old", "torn", "new"}   \* of a file: torn while it is being written

VARIABLES
  path,       \* snapshot_path of the configuration: "DefaultPath" or "Reuse"
  spawned,    \* threads main has spawned
  thread,     \* where each fuzzer thread is
  qemu,       \* where each QEMU process is
  dir,        \* workdir: whether prepared, and for which workers it holds what
  snap,       \* age of each file of the snapshot
  ready,      \* age of ready.lock
  got         \* what each QEMU process has read of the snapshot

startVars == <<path, spawned, thread, qemu, dir, snap, ready, got>>

Nothing == [base |-> FALSE, redqueen |-> {}, links |-> {}]
NoSnapshot == [f \in PartNames |-> "none"]
OldSnapshot == [f \in PartNames |-> "old"]

StartInit ==
  /\ path \in {"DefaultPath", "Reuse"}
  /\ spawned = 0
  /\ thread = [w \in Workers |-> "none"]
  /\ qemu = [w \in Workers |-> [at |-> "none", part |-> 1]]
  /\ \E leftover \in BOOLEAN :
       /\ dir = IF leftover THEN [base |-> TRUE, redqueen |-> Workers, links |-> Workers] ELSE Nothing
       /\ snap = IF leftover \/ path = "Reuse" THEN OldSnapshot ELSE NoSnapshot
       /\ ready = IF leftover \/ path = "Reuse" THEN "old" ELSE "none"
  /\ got = [w \in Workers |-> NoSnapshot]

(* qemu_process_new_from_snapshot: worker 0 creates the snapshot unless    *)
(* the configuration names one; everybody else loads it.                   *)
Creates(w) == path = "DefaultPath" /\ w = 0

-----------------------------------------------------------------------------
(* The fuzzer's side.                                                      *)

SleptEnough_Never == TRUE

(* After the first thread main sleeps a second, so that worker 0 has       *)
(* cleared and prepared the working directory before the others start.     *)
SleptEnough == spawned = 1 => thread[0] \notin {"start", "cleared"}

SpawnThread ==
  /\ spawned < N /\ SleptEnough
  /\ spawned' = spawned + 1
  /\ thread' = [thread EXCEPT ![spawned] = "start"]
  /\ UNCHANGED <<path, qemu, dir, snap, ready, got>>

(* clear_workdir removes the working directory, with the snapshot that is  *)
(* kept in it unless the configuration names a path of its own, and what   *)
(* the session left in /dev/shm.                                           *)
clear_workdir ==
  /\ thread[0] = "start"
  /\ thread' = [thread EXCEPT ![0] = "cleared"]
  /\ dir' = Nothing
  /\ IF path = "Reuse"
     THEN UNCHANGED <<snap, ready>>
     ELSE snap' = NoSnapshot /\ ready' = "none"
  /\ UNCHANGED <<path, spawned, qemu, got>>

prepare_workdir ==
  /\ thread[0] = "cleared"
  /\ thread' = [thread EXCEPT ![0] = "prepared"]
  /\ dir' = [dir EXCEPT !.base = TRUE]
  /\ UNCHANGED <<path, spawned, qemu, snap, ready, got>>

(* QemuProcess::new: the redqueen directory, then the QEMU process.        *)
SpawnQemu(w) ==
  /\ thread[w] = IF w = 0 THEN "prepared" ELSE "start"
  /\ thread' = [thread EXCEPT ![w] = "connect"]
  /\ dir' = [dir EXCEPT !.redqueen = @ \union {w}]
  /\ qemu' = [qemu EXCEPT ![w].at = "boot"]
  /\ UNCHANGED <<path, spawned, snap, ready, got>>

(* The loop around UnixStream::connect ends when QEMU listens.             *)
Connect(w) ==
  /\ thread[w] = "connect" /\ qemu[w].at = "listen"
  /\ thread' = [thread EXCEPT ![w] = "setup"]
  /\ qemu' = [qemu EXCEPT ![w].at = "realize"]
  /\ UNCHANGED <<path, spawned, dir, snap, ready, got>>

(* The files of bitmap and payload and their links in the working          *)
(* directory; a link that cannot be created panics (unwrap).               *)
SetUpShm(w) ==
  /\ thread[w] = "setup"
  /\ IF dir.base /\ w \notin dir.links
     THEN /\ thread' = [thread EXCEPT ![w] = "dry_run"]
          /\ dir' = [dir EXCEPT !.links = @ \union {w}]
     ELSE /\ thread' = [thread EXCEPT ![w] = "panic"]
          /\ UNCHANGED dir
  /\ UNCHANGED <<path, spawned, qemu, snap, ready, got>>

(* The dry run and the runs until the guest is ready, which QEMU answers   *)
(* when it fuzzes; a closed socket panics.  (A thread whose QEMU dies      *)
(* before it is connected tries to connect for ever.)                      *)
DryRun(w) ==
  /\ thread[w] = "dry_run" /\ qemu[w].at \in {"fuzz", "abort", "dead"}
  /\ thread' = [thread EXCEPT ![w] = IF qemu[w].at = "fuzz" THEN "ready" ELSE "panic"]
  /\ UNCHANGED <<path, spawned, qemu, dir, snap, ready, got>>

-----------------------------------------------------------------------------
(* QEMU's side.                                                            *)

(* The chardev creates its socket in the working directory and waits.      *)
Listen(w) ==
  /\ qemu[w].at = "boot"
  /\ qemu' = [qemu EXCEPT ![w].at = "listen"]
  /\ UNCHANGED <<path, spawned, thread, dir, snap, ready, got>>

(* Creating the machine takes QEMU longer than the fuzzer needs, once it   *)
(* is connected, to create two files and two links.                        *)
SetupIsFaster(w) == thread[w] # "setup"

(* pci_kafl_guest_realize aborts when verify_workdir_state misses a file;  *)
(* vl.c then starts to wait for the snapshot, or boots the guest from the  *)
(* pre-image until the agent asks for the snapshot.                        *)
verify_workdir_state(w) == dir.base /\ w \in dir.redqueen /\ w \in dir.links

pci_kafl_guest_realize(w) ==
  /\ qemu[w].at = "realize" /\ SetupIsFaster(w)
  /\ qemu' = [qemu EXCEPT ![w].at = IF ~verify_workdir_state(w) THEN "abort"
                                    ELSE IF Creates(w) THEN "create" ELSE "wait"]
  /\ UNCHANGED <<path, spawned, thread, dir, snap, ready, got>>

(* On to the next file of the snapshot, or past the last. *)
NextFile(q, done) ==
  IF q.part < 4 THEN [q EXCEPT !.part = q.part + 1] ELSE [q EXCEPT !.at = done]

(* fast_reload_create_to_file, one file after the other: each is torn      *)
(* while it is being written.                                              *)
fast_reload_create_to_file(w) ==
  LET f == Parts[qemu[w].part] IN
  /\ qemu[w].at = "create"
  /\ IF snap[f] # "torn"
     THEN /\ snap' = [snap EXCEPT ![f] = "torn"]
          /\ UNCHANGED qemu
     ELSE /\ snap' = [snap EXCEPT ![f] = "new"]
          /\ qemu' = [qemu EXCEPT ![w] = NextFile(qemu[w], "unlock")]
  /\ UNCHANGED <<path, spawned, thread, dir, ready, got>>

unlock_snapshot_Never(w) ==
  /\ qemu[w].at = "unlock"
  /\ qemu' = [qemu EXCEPT ![w].at = "fuzz"]
  /\ UNCHANGED <<path, spawned, thread, dir, snap, ready, got>>

(* Its end: the guest runs again, and unlock_snapshot creates ready.lock.  *)
unlock_snapshot(w) ==
  /\ qemu[w].at = "unlock"
  /\ ready' = "new"
  /\ qemu' = [qemu EXCEPT ![w].at = "fuzz"]
  /\ UNCHANGED <<path, spawned, thread, dir, snap, got>>

(* wait_for_snapshot polls for ready.lock, with no limit.                  *)
wait_for_snapshot(w) ==
  /\ qemu[w].at = "wait" /\ ready # "none"
  /\ qemu' = [qemu EXCEPT ![w].at = "load"]
  /\ UNCHANGED <<path, spawned, thread, dir, snap, ready, got>>

(* fast_reload_create_from_file_snapshot; a missing file is an assertion.  *)
fast_reload_create_from_file_snapshot(w) ==
  LET f == Parts[qemu[w].part] IN
  /\ qemu[w].at = "load"
  /\ got' = [got EXCEPT ![w][f] = snap[f]]
  /\ qemu' = [qemu EXCEPT ![w] = IF snap[f] = "none" THEN [qemu[w] EXCEPT !.at = "abort"]
                                 ELSE NextFile(qemu[w], "fuzz")]
  /\ UNCHANGED <<path, spawned, thread, dir, snap, ready>>

(* A QEMU process is killed, at any step.                                  *)
QemuDeath(w) ==
  /\ qemu[w].at \notin {"none", "abort", "dead"}
  /\ qemu' = [qemu EXCEPT ![w].at = "dead"]
  /\ UNCHANGED <<path, spawned, thread, dir, snap, ready, got>>

StartStep(w) ==
  \/ SpawnQemu(w) \/ Connect(w) \/ SetUpShm(w) \/ DryRun(w)
  \/ Listen(w) \/ pci_kafl_guest_realize(w)
  \/ fast_reload_create_to_file(w) \/ unlock_snapshot(w)
  \/ wait_for_snapshot(w) \/ fast_reload_create_from_file_snapshot(w)

StartNext ==
  \/ SpawnThread
  \/ clear_workdir \/ prepare_workdir
  \/ \E w \in Workers : StartStep(w)
=============================================================================
