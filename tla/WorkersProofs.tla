---------------------------- MODULE WorkersProofs ----------------------------
(***************************************************************************)
(* Proofs about Workers, for any number of workers, code pages and deaths: *)
(* how the session comes up, and what the page cache holds.                *)
(***************************************************************************)
EXTENDS Workers, TLAPS

-----------------------------------------------------------------------------
(* The start of the session *)

Places == {"none", "boot", "listen", "realize", "create", "unlock", "wait", "load", "fuzz",
           "abort", "dead"}

StartType ==
  /\ path \in {"DefaultPath", "Reuse"}
  /\ spawned \in 0 .. N
  /\ thread \in [Workers -> {"none", "start", "cleared", "prepared", "connect", "setup",
                             "dry_run", "ready", "panic"}]
  /\ qemu \in [Workers -> [at : Places, part : 1 .. 4]]
  /\ dir \in [base : BOOLEAN, redqueen : SUBSET Workers, links : SUBSET Workers]
  /\ snap \in [PartNames -> Ages] /\ ready \in Ages
  /\ got \in [Workers -> [PartNames -> Ages]]

(* Worker 0 has prepared the working directory. *)
Prepared == thread[0] \notin {"none", "start", "cleared"}

(* Nobody else starts before that. *)
Order ==
  /\ \A w \in Workers : thread[w] # "none" <=> w < spawned
  /\ ~Prepared => spawned <= 1
  /\ \A w \in Workers : thread[w] \in {"cleared", "prepared"} => w = 0

(* What the working directory holds for whom. *)
Directory ==
  /\ thread[0] = "cleared" => dir.links = {}
  /\ Prepared => /\ dir.base
                 /\ \A w \in dir.links : thread[w] \in {"dry_run", "ready", "panic"}
  /\ \A w \in Workers :
       /\ thread[w] \in {"connect", "setup", "dry_run", "ready"} => w \in dir.redqueen
       /\ thread[w] \in {"dry_run", "ready"} => w \in dir.links

(* Where a thread and its QEMU process are. *)
Pair(w) ==
  /\ thread[w] \in {"none", "start", "cleared", "prepared"} <=> qemu[w].at = "none"
  /\ thread[w] = "connect" => qemu[w].at \in {"boot", "listen", "dead"}
  /\ thread[w] = "setup" => qemu[w].at \in {"realize", "dead"}
  /\ thread[w] = "dry_run" => qemu[w].at \notin {"boot", "listen"}
  /\ thread[w] = "ready" => qemu[w].at \in {"fuzz", "dead"}
  /\ thread[w] = "panic" => qemu[w].at = "dead"
  /\ qemu[w].at # "abort"
  /\ qemu[w].at \in {"create", "unlock"} => Creates(w)
  /\ qemu[w].at \in {"wait", "load"} => ~Creates(w)
  /\ qemu[w].at \in {"none", "boot", "listen", "realize", "wait"} => qemu[w].part = 1

(* The snapshot the session is to use is complete. *)
Final == IF path = "Reuse" THEN "old" ELSE "new"
Finished == \A f \in PartNames : snap[f] = Final

(* The files appear in their order, and ready.lock after the last of them. *)
Snapshot ==
  /\ path = "Reuse" => Finished /\ ready = "old"
  /\ path = "DefaultPath" /\ thread[0] \notin {"none", "start"} =>
       /\ ready \in {"none", "new"}
       /\ ready = "new" => Finished /\ qemu[0].at \in {"fuzz", "dead"}
       /\ qemu[0].at \in {"none", "boot", "listen", "realize"} => snap = NoSnapshot
       /\ qemu[0].at = "create" =>
            \A i \in 1 .. 4 : /\ i < qemu[0].part => snap[Parts[i]] = "new"
                              /\ i > qemu[0].part => snap[Parts[i]] = "none"
                              /\ i = qemu[0].part => snap[Parts[i]] \in {"none", "torn"}
       /\ qemu[0].at = "unlock" => Finished

(* What a process has loaded. *)
Loaded(w) ==
  /\ qemu[w].at = "load" => /\ ready # "none"
                            /\ \A i \in 1 .. 4 : i < qemu[w].part => got[w][Parts[i]] = Final
  /\ qemu[w].at = "fuzz" /\ ~Creates(w) => \A f \in PartNames : got[w][f] = Final

StartInv == /\ StartType /\ Order /\ Directory /\ Snapshot
            /\ \A w \in Workers : Pair(w) /\ Loaded(w)

-----------------------------------------------------------------------------
(* The page cache *)

Tables == UNION {[S -> Nat] : S \in SUBSET Pages}

CacheType ==
  /\ addr \in Seq(Pages) /\ dump \in Seq(Pages \union {Zero})
  /\ flock \subseteq Procs
  /\ cache \in [Procs -> [lookup : Tables, num_pages : Nat,
                          at : {"idle", "lock", "grow", "dump", "put"},
                          page : Pages \union {NoPage}]]

(* The address file lists pages of the dump, each once. *)
Files ==
  /\ Len(addr) <= Len(dump)
  /\ \A i \in 1 .. Len(addr) : dump[i] = addr[i]
  /\ \A i, j \in 1 .. Len(addr) : addr[i] = addr[j] => i = j

(* One process at a time appends. *)
Locked ==
  /\ \A p \in Procs : p \in flock <=> cache[p].at \in {"grow", "dump", "put"}
  /\ \A p, q \in flock : p = q

(* A table is right, and complete for the part of the address file it was     *)
(* read from.                                                                 *)
Table(c) ==
  /\ \A a \in DOMAIN c.lookup : c.lookup[a] < Len(addr) /\ addr[c.lookup[a] + 1] = a
  /\ \A i \in 1 .. Len(addr) : i <= c.num_pages => addr[i] \in DOMAIN c.lookup

(* Where a process is in appending a page. *)
Appending(c) ==
  /\ c.at \in {"idle", "lock"} => c.num_pages <= Len(addr)
  /\ c.at \in {"grow", "dump"} => c.num_pages = Len(addr)
  /\ c.at = "dump" => Len(dump) = Len(addr) + 1
  /\ c.at = "put" => /\ c.num_pages = Len(addr) + 1 /\ Len(dump) = Len(addr) + 1
                     /\ dump[Len(addr) + 1] = c.page
  /\ c.at # "idle" => c.page \in Pages
  /\ c.at \in {"grow", "dump", "put"} => \A i \in 1 .. Len(addr) : addr[i] # c.page

CacheInv == /\ CacheType /\ Files /\ Locked
            /\ \A p \in Procs : Table(cache[p]) /\ Appending(cache[p])

-----------------------------------------------------------------------------
(* The session comes up: StartInv is inductive *)

States == {"none", "start", "cleared", "prepared", "connect", "setup", "dry_run", "ready", "panic"}

(* Thread w goes to s, and nothing else changes among the threads. *)
ThreadTo(w, s) ==
  /\ thread' \in [Workers -> States]
  /\ thread'[w] = s
  /\ \A v \in Workers : v # w => thread'[v] = thread[v]

(* Process w goes to s, with part k. *)
QemuTo(w, s, k) ==
  /\ qemu' \in [Workers -> [at : Places, part : 1 .. 4]]
  /\ qemu'[w].at = s /\ qemu'[w].part = k
  /\ \A v \in Workers : v # w => qemu'[v].at = qemu[v].at /\ qemu'[v].part = qemu[v].part

(* The four files of a snapshot. *)
LEMMA PartFacts ==
  /\ Parts[1] = "mem" /\ Parts[2] = "qemu_state"
  /\ Parts[3] = "block_cow" /\ Parts[4] = "global.state"
  /\ PartNames = {"mem", "qemu_state", "block_cow", "global.state"}
  /\ \A i \in 1 .. 4 : Parts[i] \in PartNames
  /\ \A i, j \in 1 .. 4 : Parts[i] = Parts[j] => i = j
  /\ \A f \in PartNames : \E i \in 1 .. 4 : f = Parts[i]
BY DEF Parts, PartNames

(* A thread's step, as a fact about each thread. *)
LEMMA ThreadMoves ==
  ASSUME StartType, NEW w \in Workers, NEW s \in States, thread' = [thread EXCEPT ![w] = s]
  PROVE  ThreadTo(w, s)
BY DEF StartType, ThreadTo, States

(* A process's step, likewise. *)
LEMMA QemuMoves ==
  ASSUME StartType, NEW w \in Workers, NEW s \in Places, qemu' = [qemu EXCEPT ![w].at = s]
  PROVE  QemuTo(w, s, qemu[w].part)
BY DEF StartType, QemuTo, Places

(* The next file of the snapshot, or the end of it. *)
LEMMA PartMoves ==
  ASSUME StartType, NEW w \in Workers, NEW s \in Places,
         qemu' = [qemu EXCEPT ![w] = NextFile(qemu[w], s)]
  PROVE  IF qemu[w].part < 4 THEN QemuTo(w, qemu[w].at, qemu[w].part + 1) ELSE QemuTo(w, s, 4)
<1> DEFINE r == NextFile(qemu[w], s)
<1>1. qemu[w] \in [at : Places, part : 1 .. 4]
  BY DEF StartType
<1>0. qemu' = [qemu EXCEPT ![w] = r]
  OBVIOUS
<1>2. CASE qemu[w].part < 4
  <2>1. r = [qemu[w] EXCEPT !.part = qemu[w].part + 1] /\ qemu[w].part + 1 \in 1 .. 4
    BY <1>1, <1>2 DEF NextFile
  <2>2. r \in [at : Places, part : 1 .. 4] /\ r.at = qemu[w].at /\ r.part = qemu[w].part + 1
    BY <1>1, <2>1
  <2> HIDE DEF r
  <2> QED
    BY <1>0, <1>2, <2>2 DEF StartType, QemuTo
<1>3. CASE ~(qemu[w].part < 4)
  <2>1. r = [qemu[w] EXCEPT !.at = s] /\ qemu[w].part = 4
    BY <1>1, <1>3 DEF NextFile
  <2>2. r \in [at : Places, part : 1 .. 4] /\ r.at = s /\ r.part = 4
    BY <1>1, <2>1
  <2> HIDE DEF r
  <2> QED
    BY <1>0, <1>3, <2>2 DEF StartType, QemuTo
<1> QED
  BY <1>2, <1>3

(* There is a worker 0. *)
LEMMA First == /\ 0 \in Workers /\ Workers \subseteq Nat
               /\ \A k \in 0 .. N : k < N => k \in Workers
BY NAssumption DEF Workers

(* Whoever has got past its start has done so in a prepared directory. *)
LEMMA Begun ==
  ASSUME StartType, Order, NEW w \in Workers, thread[w] \notin {"none", "start", "cleared"}
  PROVE  Prepared
BY First DEF StartType, Order, Prepared

(* The initial states: an empty directory, or that of an earlier session. *)
LEMMA StartBegins == StartInit => StartInv
<1> SUFFICES ASSUME StartInit PROVE StartInv
  OBVIOUS
<1>1. StartType
  BY First, PartFacts, NAssumption
  DEF StartInit, StartType, Places, Nothing, NoSnapshot, OldSnapshot, Ages
<1>2. Order /\ Directory /\ \A w \in Workers : Pair(w) /\ Loaded(w)
  BY First DEF StartInit, Order, Directory, Pair, Loaded, Prepared
<1>3. Snapshot
  BY First DEF StartInit, Snapshot, Finished, Final, OldSnapshot
<1> QED
  BY <1>1, <1>2, <1>3 DEF StartInv

(* main spawns the next thread. *)
LEMMA SpawnThreadStep == StartInv /\ SpawnThread => StartInv'
<1> SUFFICES ASSUME StartInv, SpawnThread PROVE StartInv'
  OBVIOUS
<1> USE First DEF StartInv
<1>0. spawned \in 0 .. N /\ spawned < N /\ spawned \in Workers
  BY DEF SpawnThread, StartType
<1>10. thread[spawned] = "none"
  BY <1>0 DEF Order
<1>1. ThreadTo(spawned, "start") /\ thread[spawned] = "none"
  BY <1>0, <1>10, ThreadMoves, Zenon DEF SpawnThread, States
<1>2. StartType'
  BY <1>0, <1>1, NAssumption DEF SpawnThread, StartType, ThreadTo, States
<1>3. spawned = 1 => Prepared
  BY DEF SpawnThread, SleptEnough, Order, Prepared
<1>4. Prepared => Prepared'
  BY <1>1 DEF ThreadTo, Prepared, Order
<1>5. Order'
  BY <1>1, <1>3, <1>4 DEF SpawnThread, ThreadTo, Order, StartType
<1>6. Directory'
  BY <1>1 DEF SpawnThread, ThreadTo, Directory, Prepared, Order
<1>7. Snapshot'
  BY <1>1 DEF SpawnThread, ThreadTo, Snapshot, Finished, Final
<1>8. \A w \in Workers : Pair(w)' /\ Loaded(w)'
  BY <1>1 DEF SpawnThread, ThreadTo, Pair, Loaded, Creates, Final
<1> QED
  BY <1>2, <1>5, <1>6, <1>7, <1>8

(* Worker 0 clears the working directory. *)
LEMMA ClearStep == StartInv /\ clear_workdir => StartInv'
<1> SUFFICES ASSUME StartInv, clear_workdir PROVE StartInv'
  OBVIOUS
<1> USE First DEF StartInv
<1>1. ThreadTo(0, "cleared")
  BY ThreadMoves, Zenon DEF clear_workdir, States
<1>2. StartType'
  BY <1>1 DEF clear_workdir, StartType, ThreadTo, States, Nothing, NoSnapshot, Ages
<1>3. Order' /\ \A w \in Workers : w # 0 => thread[w] = "none"
  BY <1>1 DEF clear_workdir, ThreadTo, Order, Prepared, StartType
<1>4. Directory'
  BY <1>1, <1>3 DEF clear_workdir, ThreadTo, Directory, Prepared, Nothing
<1>5. \A w \in Workers : Pair(w)' /\ Loaded(w)' /\ qemu[w].at = "none"
  BY <1>1, <1>3 DEF clear_workdir, ThreadTo, Pair, Loaded, Creates, Final
<1>6. Snapshot'
  BY <1>1, <1>5 DEF clear_workdir, ThreadTo, Snapshot, Finished, Final, StartType
<1> QED
  BY <1>2, <1>3, <1>4, <1>5, <1>6, Zenon

(* Worker 0 prepares it. *)
LEMMA PrepareStep == StartInv /\ prepare_workdir => StartInv'
<1> SUFFICES ASSUME StartInv, prepare_workdir PROVE StartInv'
  OBVIOUS
<1> USE First DEF StartInv
<1>1. ThreadTo(0, "prepared")
  BY ThreadMoves, Zenon DEF prepare_workdir, States
<1>2. StartType' /\ dir'.base /\ dir'.links = dir.links /\ dir'.redqueen = dir.redqueen
  BY <1>1, Zenon DEF prepare_workdir, StartType, ThreadTo, States
<1>3. Order' /\ \A w \in Workers : w # 0 => thread[w] = "none"
  BY <1>1 DEF prepare_workdir, ThreadTo, Order, Prepared, StartType
<1>4. Directory'
  BY <1>1, <1>2, <1>3 DEF prepare_workdir, ThreadTo, Directory, Prepared
<1>5. \A w \in Workers : Pair(w)' /\ Loaded(w)'
  BY <1>1 DEF prepare_workdir, ThreadTo, Pair, Loaded, Creates, Final
<1>6. Snapshot'
  BY <1>1 DEF prepare_workdir, ThreadTo, Snapshot, Finished, Final
<1> QED
  BY <1>2, <1>3, <1>4, <1>5, <1>6, Zenon

(* A thread starts its QEMU process. *)
LEMMA SpawnQemuStep == ASSUME NEW w \in Workers PROVE StartInv /\ SpawnQemu(w) => StartInv'
<1> SUFFICES ASSUME StartInv, SpawnQemu(w) PROVE StartInv'
  OBVIOUS
<1> USE First DEF StartInv
<1>1. /\ ThreadTo(w, "connect") /\ QemuTo(w, "boot", 1)
      /\ thread[w] \in {"start", "prepared"} /\ (w = 0 => thread[w] = "prepared")
  BY ThreadMoves, QemuMoves, Zenon DEF SpawnQemu, States, Places, Pair
<1>2. StartType' /\ dir'.base = dir.base /\ dir'.links = dir.links
                 /\ dir'.redqueen = dir.redqueen \union {w}
  BY <1>1 DEF SpawnQemu, StartType, ThreadTo, QemuTo, States
<1>3. Prepared /\ Prepared'
  BY <1>1 DEF ThreadTo, Prepared, Order, StartType
<1>4. Order'
  BY <1>1, <1>3 DEF SpawnQemu, ThreadTo, Order
<1>5. Directory'
  BY <1>1, <1>2, <1>3 DEF SpawnQemu, ThreadTo, Directory, Prepared
<1>6. \A v \in Workers : Pair(v)' /\ Loaded(v)'
  BY <1>1 DEF SpawnQemu, ThreadTo, QemuTo, Pair, Loaded, Creates, Final
<1>7. Snapshot'
  BY <1>1 DEF SpawnQemu, ThreadTo, QemuTo, Snapshot, Finished, Final, Pair
<1> QED
  BY <1>2, <1>4, <1>5, <1>6, <1>7

(* It connects to it. *)
LEMMA ConnectStep == ASSUME NEW w \in Workers PROVE StartInv /\ Connect(w) => StartInv'
<1> SUFFICES ASSUME StartInv, Connect(w) PROVE StartInv'
  OBVIOUS
<1> USE First DEF StartInv
<1>1. ThreadTo(w, "setup") /\ QemuTo(w, "realize", 1)
  BY ThreadMoves, QemuMoves, Zenon DEF Connect, States, Places, Pair
<1>2. StartType'
  BY <1>1 DEF Connect, StartType, ThreadTo, QemuTo, States
<1>3. Prepared /\ Prepared'
  BY <1>1, Begun DEF Connect, ThreadTo, Prepared
<1>4. Order'
  BY <1>1, <1>3 DEF Connect, ThreadTo, Order
<1>5. Directory'
  BY <1>1, <1>3 DEF Connect, ThreadTo, Directory, Prepared
<1>6. \A v \in Workers : Pair(v)' /\ Loaded(v)'
  BY <1>1 DEF Connect, ThreadTo, QemuTo, Pair, Loaded, Creates, Final
<1>7. Snapshot'
  BY <1>1 DEF Connect, ThreadTo, QemuTo, Snapshot, Finished, Final, Pair
<1> QED
  BY <1>2, <1>4, <1>5, <1>6, <1>7

(* It creates its links, which nobody else has created. *)
LEMMA SetUpStep == ASSUME NEW w \in Workers PROVE StartInv /\ SetUpShm(w) => StartInv'
<1> SUFFICES ASSUME StartInv, SetUpShm(w) PROVE StartInv'
  OBVIOUS
<1> USE First DEF StartInv
<1>1. Prepared /\ w \notin dir.links /\ thread[w] = "setup"
  BY Begun DEF SetUpShm, Directory
<1>2. ThreadTo(w, "dry_run")
  BY <1>1, ThreadMoves DEF SetUpShm, States, Directory
<1>3. StartType' /\ dir'.base = dir.base /\ dir'.links = dir.links \union {w}
                 /\ dir'.redqueen = dir.redqueen
  BY <1>1, <1>2 DEF SetUpShm, StartType, ThreadTo, States, Directory
<1>4. Prepared'
  BY <1>1, <1>2 DEF ThreadTo, Prepared
<1>5. Order'
  BY <1>1, <1>2, <1>4 DEF SetUpShm, ThreadTo, Order
<1>6. Directory'
  <2>1. \A v \in dir'.links : thread'[v] \in {"dry_run", "ready", "panic"}
    BY <1>1, <1>2, <1>3 DEF ThreadTo, Directory, StartType
  <2>2. \A v \in Workers :
           /\ thread'[v] \in {"connect", "setup", "dry_run", "ready"} => v \in dir'.redqueen
           /\ thread'[v] \in {"dry_run", "ready"} => v \in dir'.links
    BY <1>1, <1>2, <1>3 DEF ThreadTo, Directory
  <2> QED
    BY <1>1, <1>3, <1>4, <2>1, <2>2 DEF Directory, Prepared
<1>7. \A v \in Workers : Pair(v)' /\ Loaded(v)'
  BY <1>2 DEF SetUpShm, ThreadTo, Pair, Loaded, Creates, Final
<1>8. Snapshot'
  BY <1>2 DEF SetUpShm, ThreadTo, Snapshot, Finished, Final
<1> QED
  BY <1>3, <1>5, <1>6, <1>7, <1>8, Zenon

(* Its first runs end: the guest is ready, or the process has died. *)
LEMMA DryRunStep == ASSUME NEW w \in Workers PROVE StartInv /\ DryRun(w) => StartInv'
<1> SUFFICES ASSUME StartInv, DryRun(w) PROVE StartInv'
  OBVIOUS
<1> USE First DEF StartInv
<1>1. PICK s \in {"ready", "panic"} : /\ ThreadTo(w, s)
                                      /\ s = "ready" => qemu[w].at = "fuzz"
                                      /\ s = "panic" => qemu[w].at = "dead"
  BY ThreadMoves, Zenon DEF DryRun, States, Pair
<1>2. StartType'
  BY <1>1 DEF DryRun, StartType, ThreadTo, States
<1>3. Prepared /\ Prepared'
  BY <1>1, Begun DEF DryRun, ThreadTo, Prepared
<1>4. Order'
  BY <1>1, <1>3 DEF DryRun, ThreadTo, Order
<1>5. Directory'
  BY <1>1, <1>3 DEF DryRun, ThreadTo, Directory, Prepared
<1>6. \A v \in Workers : Pair(v)' /\ Loaded(v)'
  BY <1>1 DEF DryRun, ThreadTo, Pair, Loaded, Creates, Final
<1>7. Snapshot'
  BY <1>1 DEF DryRun, ThreadTo, Snapshot, Finished, Final
<1> QED
  BY <1>2, <1>4, <1>5, <1>6, <1>7

(* A process moves on while its thread stands: what is left to show when its  *)
(* new place fits the thread's, and the files agree.                          *)
LEMMA QemuSteps ==
  ASSUME StartInv, NEW w \in Workers, NEW s \in Places, NEW k \in 1 .. 4, QemuTo(w, s, k),
         UNCHANGED <<path, spawned, thread, dir>>,
         snap' \in [PartNames -> Ages], ready' \in Ages, got' \in [Workers -> [PartNames -> Ages]],
         Pair(w)', Loaded(w)', Snapshot',
         \A v \in Workers : v # w => got'[v] = got[v],
         ready # "none" => ready' # "none"
  PROVE  StartInv'
<1> USE DEF StartInv
<1>1. StartType'
  BY DEF StartType, QemuTo
<1>2. Order' /\ Directory'
  BY DEF Order, Directory, Prepared
<1>3. ASSUME NEW v \in Workers PROVE Pair(v)' /\ Loaded(v)'
  <2>1. CASE v = w
    BY <2>1
  <2>2. CASE v # w
    BY <2>2 DEF QemuTo, Pair, Loaded, Creates, Final
  <2> QED
    BY <2>1, <2>2
<1> QED
  BY <1>1, <1>2, <1>3

(* The process listens for its thread. *)
LEMMA ListenStep == ASSUME NEW w \in Workers PROVE StartInv /\ Listen(w) => StartInv'
<1> SUFFICES ASSUME StartInv, Listen(w) PROVE StartInv'
  OBVIOUS
<1> USE First DEF StartInv
<1>1. QemuTo(w, "listen", 1) /\ thread[w] = "connect"
  BY QemuMoves, Zenon DEF Listen, Places, Pair, StartType, States
<1>2. Pair(w)' /\ Loaded(w)'
  BY <1>1 DEF Listen, QemuTo, Pair, Loaded, Creates
<1>3. Snapshot'
  BY <1>1 DEF Listen, QemuTo, Snapshot, Finished, Final
<1> QED
  BY <1>1, <1>2, <1>3, QemuSteps DEF Listen, StartType, Places

(* The device finds all it needs in the directory. *)
LEMMA RealizeStep ==
  ASSUME NEW w \in Workers PROVE StartInv /\ pci_kafl_guest_realize(w) => StartInv'
<1> SUFFICES ASSUME StartInv, pci_kafl_guest_realize(w) PROVE StartInv'
  OBVIOUS
<1> USE First DEF StartInv
<1>1. thread[w] = "dry_run"
  BY Zenon DEF pci_kafl_guest_realize, SetupIsFaster, Pair, StartType
<1>2. verify_workdir_state(w)
  BY <1>1, Begun DEF verify_workdir_state, Directory
<1>3. PICK s \in {"create", "wait"} : QemuTo(w, s, 1) /\ (s = "create" <=> Creates(w))
  BY <1>2, QemuMoves, Zenon DEF pci_kafl_guest_realize, Places, Pair
<1>4. Pair(w)' /\ Loaded(w)'
  BY <1>1, <1>3 DEF pci_kafl_guest_realize, QemuTo, Pair, Loaded, Creates
<1>5. Snapshot'
  <2>1. CASE path = "Reuse"
    BY <2>1 DEF pci_kafl_guest_realize, Snapshot, Finished, Final
  <2>2. CASE path = "DefaultPath" /\ w = 0
    <3>1. snap = NoSnapshot /\ \A i \in 1 .. 4 : snap[Parts[i]] = "none"
      BY <1>1, <2>2, PartFacts DEF pci_kafl_guest_realize, Snapshot, NoSnapshot
    <3> QED
      BY <1>1, <1>3, <2>2, <3>1
      DEF pci_kafl_guest_realize, QemuTo, Snapshot, Finished, Final, Creates
  <2>3. CASE w # 0
    BY <1>3, <2>3 DEF pci_kafl_guest_realize, QemuTo, Snapshot, Finished, Final
  <2> QED
    BY <2>1, <2>2, <2>3 DEF StartType
<1> QED
  BY <1>3, <1>4, <1>5, QemuSteps DEF pci_kafl_guest_realize, StartType, Places

(* The snapshot grows file by file. *)
LEMMA CreateStep ==
  ASSUME NEW w \in Workers PROVE StartInv /\ fast_reload_create_to_file(w) => StartInv'
<1> SUFFICES ASSUME StartInv, fast_reload_create_to_file(w) PROVE StartInv'
  OBVIOUS
<1> USE First, PartFacts DEF StartInv
<1> DEFINE k == qemu[w].part
<1>1. /\ w = 0 /\ path = "DefaultPath" /\ thread[w] \in {"dry_run", "panic"}
      /\ k \in 1 .. 4 /\ Parts[k] \in PartNames /\ qemu[w].at = "create" /\ ready \in {"none", "new"}
      /\ ready = "none"
  BY DEF fast_reload_create_to_file, Pair, Creates, StartType, Snapshot
<1>2. \A i \in 1 .. 4 : /\ i < k => snap[Parts[i]] = "new"
                        /\ i > k => snap[Parts[i]] = "none"
                        /\ i = k => snap[Parts[i]] \in {"none", "torn"}
  BY <1>1 DEF Snapshot
<1>3. CASE snap[Parts[k]] # "torn"
  <2>1. snap' = [snap EXCEPT ![Parts[k]] = "torn"] /\ UNCHANGED qemu
    BY <1>3 DEF fast_reload_create_to_file
  <2>2. snap' \in [PartNames -> Ages] /\ \A i \in 1 .. 4 : snap'[Parts[i]] = IF i = k THEN "torn" ELSE snap[Parts[i]]
    BY <1>1, <2>1 DEF StartType, Ages
  <2>3. QemuTo(w, "create", k)
    BY <1>1, <2>1 DEF QemuTo, StartType
  <2>4. Pair(w)' /\ Loaded(w)'
    BY <1>1, <2>1, Zenon DEF fast_reload_create_to_file, Pair, Loaded, Creates
  <2>5. Snapshot'
    BY <1>1, <1>2, <2>1, <2>2 DEF fast_reload_create_to_file, Snapshot
  <2> QED
    BY <1>1, <2>2, <2>3, <2>4, <2>5, QemuSteps, Zenon
    DEF fast_reload_create_to_file, StartType, Places
<1>4. CASE snap[Parts[k]] = "torn"
  <2>1. snap' = [snap EXCEPT ![Parts[k]] = "new"]
        /\ qemu' = [qemu EXCEPT ![w] = NextFile(qemu[w], "unlock")]
    BY <1>4 DEF fast_reload_create_to_file
  <2>2. snap' \in [PartNames -> Ages] /\ \A i \in 1 .. 4 : snap'[Parts[i]] = IF i = k THEN "new" ELSE snap[Parts[i]]
    BY <1>1, <2>1 DEF StartType, Ages
  <2>3. IF k < 4 THEN QemuTo(w, "create", k + 1) ELSE QemuTo(w, "unlock", 4)
    BY <1>1, <2>1, PartMoves, Zenon DEF Places
  <2>4. Pair(w)' /\ Loaded(w)'
    BY <1>1, <2>3 DEF fast_reload_create_to_file, QemuTo, Pair, Loaded, Creates
  <2>5. CASE k < 4
    <3>1. Snapshot'
      BY <1>1, <1>2, <2>2, <2>3, <2>5 DEF fast_reload_create_to_file, QemuTo, Snapshot
    <3>2. QemuTo(w, "create", k + 1) /\ k + 1 \in 1 .. 4 /\ "create" \in Places
      BY <1>1, <2>3, <2>5 DEF Places
    <3>3. /\ UNCHANGED <<path, spawned, thread, dir>> /\ ready' \in Ages
          /\ got' \in [Workers -> [PartNames -> Ages]] /\ got' = got /\ ready' = ready
      BY DEF fast_reload_create_to_file, StartType
    <3> QED
      BY <2>2, <2>4, <3>1, <3>2, <3>3, QemuSteps, Zenon
  <2>6. CASE ~(k < 4)
    <3>1. \A f \in PartNames : snap'[f] = "new"
      BY <1>1, <1>2, <2>2, <2>6
    <3>2. Snapshot'
      BY <1>1, <2>3, <2>6, <3>1 DEF fast_reload_create_to_file, QemuTo, Snapshot, Finished, Final
    <3>3. QemuTo(w, "unlock", 4) /\ 4 \in 1 .. 4 /\ "unlock" \in Places
      BY <1>1, <2>3, <2>6 DEF Places
    <3>4. /\ UNCHANGED <<path, spawned, thread, dir>> /\ ready' \in Ages
          /\ got' \in [Workers -> [PartNames -> Ages]] /\ got' = got /\ ready' = ready
      BY DEF fast_reload_create_to_file, StartType
    <3> QED
      BY <2>2, <2>4, <3>2, <3>3, <3>4, QemuSteps, Zenon
  <2> QED
    BY <2>5, <2>6
<1> QED
  BY <1>3, <1>4

(* ready.lock appears when all files are complete. *)
LEMMA UnlockStep ==
  ASSUME NEW w \in Workers PROVE StartInv /\ unlock_snapshot(w) => StartInv'
<1> SUFFICES ASSUME StartInv, unlock_snapshot(w) PROVE StartInv'
  OBVIOUS
<1> USE First DEF StartInv
<1>1. /\ w = 0 /\ path = "DefaultPath" /\ thread[w] \in {"dry_run", "panic"}
      /\ qemu[w].part \in 1 .. 4 /\ QemuTo(w, "fuzz", qemu[w].part)
  BY QemuMoves, Zenon DEF unlock_snapshot, Pair, Creates, StartType, Places
<1>2. Pair(w)' /\ Loaded(w)'
  BY <1>1 DEF unlock_snapshot, QemuTo, Pair, Loaded, Creates
<1>3. Snapshot'
  BY <1>1 DEF unlock_snapshot, QemuTo, Snapshot, Finished, Final
<1> QED
  BY <1>1, <1>2, <1>3, QemuSteps, Zenon DEF unlock_snapshot, StartType, Places, Ages

(* A process that waits finds ready.lock. *)
LEMMA WaitStep ==
  ASSUME NEW w \in Workers PROVE StartInv /\ wait_for_snapshot(w) => StartInv'
<1> SUFFICES ASSUME StartInv, wait_for_snapshot(w) PROVE StartInv'
  OBVIOUS
<1> USE First DEF StartInv
<1>1. /\ ~Creates(w) /\ thread[w] \in {"dry_run", "panic"} /\ QemuTo(w, "load", 1)
  BY QemuMoves, Zenon DEF wait_for_snapshot, Pair, StartType, Places
<1>2. Pair(w)' /\ Loaded(w)'
  BY <1>1 DEF wait_for_snapshot, QemuTo, Pair, Loaded, Creates
<1>3. Snapshot'
  BY <1>1 DEF wait_for_snapshot, QemuTo, Snapshot, Finished, Final, Creates
<1>4. /\ UNCHANGED <<path, spawned, thread, dir, snap, ready, got>>
      /\ 1 \in 1 .. 4 /\ "load" \in Places
  BY DEF wait_for_snapshot, Places
<1> QED
  BY <1>1, <1>2, <1>3, <1>4, QemuSteps, Zenon DEF StartType

(* It reads the files of a finished snapshot. *)
LEMMA LoadStep ==
  ASSUME NEW w \in Workers
  PROVE  StartInv /\ fast_reload_create_from_file_snapshot(w) => StartInv'
<1> SUFFICES ASSUME StartInv, fast_reload_create_from_file_snapshot(w) PROVE StartInv'
  OBVIOUS
<1> USE First, PartFacts DEF StartInv
<1> DEFINE k == qemu[w].part
<1>1. /\ ~Creates(w) /\ thread[w] \in {"dry_run", "panic"} /\ qemu[w].at = "load"
      /\ k \in 1 .. 4 /\ ready # "none"
      /\ \A i \in 1 .. 4 : i < k => got[w][Parts[i]] = Final
  BY DEF fast_reload_create_from_file_snapshot, Pair, Loaded, StartType
<1>2. Finished
  <2>1. Prepared
    BY <1>1, Begun
  <2> QED
    BY <1>1, <2>1 DEF Snapshot, Prepared, StartType
<1>3. snap[Parts[k]] = Final /\ Final # "none" /\ Final \in Ages
  BY <1>1, <1>2 DEF Finished, Final, Ages
<1>4. got' = [got EXCEPT ![w][Parts[k]] = Final]
      /\ qemu' = [qemu EXCEPT ![w] = NextFile(qemu[w], "fuzz")]
  BY <1>3 DEF fast_reload_create_from_file_snapshot
<1>5. /\ got' \in [Workers -> [PartNames -> Ages]]
      /\ \A v \in Workers : v # w => got'[v] = got[v]
      /\ got'[w][Parts[k]] = Final
      /\ \A i \in 1 .. 4 : i # k => got'[w][Parts[i]] = got[w][Parts[i]]
  BY <1>1, <1>3, <1>4 DEF StartType
<1>6. IF k < 4 THEN QemuTo(w, "load", k + 1) ELSE QemuTo(w, "fuzz", 4)
  BY <1>1, <1>4, PartMoves, Zenon DEF Places
<1>7. UNCHANGED <<path, spawned, thread, dir, snap, ready>> /\ Final' = Final /\ Creates(w)' = Creates(w)
  BY DEF fast_reload_create_from_file_snapshot, Final, Creates
<1>8. Snapshot'
  BY <1>1, <1>6, <1>7 DEF QemuTo, Snapshot, Finished, Creates, StartType
<1>9. CASE k < 4
  <2>1. QemuTo(w, "load", k + 1) /\ k + 1 \in 1 .. 4 /\ "load" \in Places
    BY <1>1, <1>6, <1>9 DEF Places
  <2>2. \A i \in 1 .. 4 : i < k + 1 => got'[w][Parts[i]] = Final
    BY <1>1, <1>5
  <2>3. Pair(w)' /\ Loaded(w)'
    BY <1>1, <1>7, <2>1, <2>2 DEF QemuTo, Pair, Loaded
  <2> QED
    BY <1>5, <1>7, <1>8, <2>1, <2>3, QemuSteps, Zenon DEF StartType
<1>10. CASE ~(k < 4)
  <2>1. QemuTo(w, "fuzz", 4) /\ 4 \in 1 .. 4 /\ "fuzz" \in Places
    BY <1>1, <1>6, <1>10 DEF Places
  <2>2. \A f \in PartNames : got'[w][f] = Final
    BY <1>1, <1>5, <1>10
  <2>3. Pair(w)' /\ Loaded(w)'
    BY <1>1, <1>7, <2>1, <2>2 DEF QemuTo, Pair, Loaded
  <2> QED
    BY <1>5, <1>7, <1>8, <2>1, <2>3, QemuSteps, Zenon DEF StartType
<1> QED
  BY <1>9, <1>10

(* A process is killed. *)
LEMMA DeathStep == ASSUME NEW w \in Workers PROVE StartInv /\ QemuDeath(w) => StartInv'
<1> SUFFICES ASSUME StartInv, QemuDeath(w) PROVE StartInv'
  OBVIOUS
<1> USE First DEF StartInv
<1>1. QemuTo(w, "dead", qemu[w].part) /\ qemu[w].part \in 1 .. 4
  BY QemuMoves, Zenon DEF QemuDeath, Places, StartType
<1>2. Pair(w)' /\ Loaded(w)'
  BY <1>1 DEF QemuDeath, QemuTo, Pair, Loaded, Creates
<1>3. Snapshot'
  BY <1>1 DEF QemuDeath, QemuTo, Snapshot, Finished, Final
<1> QED
  BY <1>1, <1>2, <1>3, QemuSteps, Zenon DEF QemuDeath, StartType, Places

(* Every step of the session. *)
LEMMA StartNextStep == StartInv /\ StartNext => StartInv'
BY SpawnThreadStep, ClearStep, PrepareStep, SpawnQemuStep, ConnectStep, SetUpStep, DryRunStep,
   ListenStep, RealizeStep, CreateStep, UnlockStep, WaitStep, LoadStep
DEF StartNext, StartStep

(* A decoding step, or none, leaves the session alone. *)
LEMMA StartStands == StartInv /\ UNCHANGED startVars => StartInv'
BY DEF StartInv, startVars, StartType, Order, Directory, Snapshot, Finished, Final, Pair, Loaded,
       Creates, Prepared

-----------------------------------------------------------------------------
(* The page cache: CacheInv is inductive *)

Entry == [lookup : Tables, num_pages : Nat, at : {"idle", "lock", "grow", "dump", "put"},
          page : Pages \union {NoPage}]

(* A table is a function on some of the pages. *)
LEMMA TableType ==
  /\ \A f \in Tables : DOMAIN f \subseteq Pages /\ \A a \in DOMAIN f : f[a] \in Nat
  /\ \A S \in SUBSET Pages : [S -> Nat] \subseteq Tables
BY DEF Tables

(* Process p has changed its state to r, and nobody else has. *)
CacheTo(p, r) ==
  /\ cache' \in [Procs -> Entry] /\ cache'[p] = r
  /\ \A q \in Procs : q # p => cache'[q] = cache[q]

(* An update of one process's state, as a fact about each process. *)
LEMMA CacheMoves ==
  ASSUME CacheType, NEW p \in Procs, NEW r \in Entry, cache' = [cache EXCEPT ![p] = r]
  PROVE  CacheTo(p, r)
BY DEF CacheType, CacheTo, Entry

(* A new process has an empty table. *)
LEMMA NewCache == page_cache_new \in Entry /\ DOMAIN page_cache_new.lookup = {}
<1>1. [a \in {} |-> 0] \in [{} -> Nat] /\ {} \in SUBSET Pages
  OBVIOUS
<1>2. [a \in {} |-> 0] \in Tables
  BY <1>1, TableType, Zenon
<1> QED
  BY <1>2 DEF page_cache_new, Entry

(* At the beginning the files are empty, and so is every table. *)
LEMMA CacheBegins == PageCacheInit => CacheInv
<1> SUFFICES ASSUME PageCacheInit PROVE CacheInv
  OBVIOUS
<1>1. page_cache_new \in Entry /\ DOMAIN page_cache_new.lookup = {}
  BY NewCache
<1>2. CacheType
  BY <1>1 DEF PageCacheInit, CacheType, Entry
<1>3. Files /\ Locked
  BY DEF PageCacheInit, Files, Locked, page_cache_new
<1>4. \A p \in Procs : Table(cache[p]) /\ Appending(cache[p])
  BY <1>1 DEF PageCacheInit, Table, Appending, page_cache_new
<1> QED
  BY <1>2, <1>3, <1>4 DEF CacheInv

(* While the address file stands, the others' tables do. *)
LEMMA OthersStand ==
  ASSUME CacheInv, NEW p \in Procs, NEW r \in Entry, CacheTo(p, r), UNCHANGED <<addr, dump>>,
         Table(r), Appending(r), flock' \subseteq Procs, Locked'
  PROVE  CacheInv'
<1> USE DEF CacheInv
<1>1. CacheType' /\ Files'
  BY DEF CacheType, CacheTo, Files, Entry
<1>2. ASSUME NEW q \in Procs PROVE Table(cache[q])' /\ Appending(cache[q])'
  <2>1. CASE q = p
    BY <2>1 DEF CacheTo, Table, Appending
  <2>2. CASE q # p
    BY <2>2 DEF CacheTo, Table, Appending
  <2> QED
    BY <2>1, <2>2
<1> QED
  BY <1>1, <1>2

(* A miss: the process is going to take the lock. *)
LEMMA FetchStarts ==
  ASSUME NEW p \in Procs, NEW page \in Pages, NEW test_mode \in BOOLEAN
  PROVE  CacheInv /\ page_cache_fetch(p, page, test_mode) => CacheInv'
<1> SUFFICES ASSUME CacheInv, page_cache_fetch(p, page, test_mode) PROVE CacheInv'
  OBVIOUS
<1> USE DEF CacheInv
<1> DEFINE r == [cache[p] EXCEPT !.at = "lock", !.page = page]
<1>1. cache[p] \in Entry /\ cache[p].at = "idle"
  BY DEF CacheType, Entry, page_cache_fetch
<1>2. r \in Entry /\ r.lookup = cache[p].lookup /\ r.num_pages = cache[p].num_pages
      /\ r.at = "lock" /\ r.page = page
  BY <1>1, Zenon DEF Entry
<1>3. cache' = [cache EXCEPT ![p] = r]
  BY <1>1, Zenon DEF page_cache_fetch, CacheType
<1> HIDE DEF r
<1>4. CacheTo(p, r)
  BY <1>2, <1>3, CacheMoves, Zenon
<1>5. Table(r) /\ Appending(r)
  BY <1>1, <1>2 DEF Table, Appending
<1>6. Locked' /\ flock' \subseteq Procs
  BY <1>1, <1>2, <1>4 DEF Locked, CacheTo, page_cache_fetch, CacheType
<1> QED
  BY <1>2, <1>4, <1>5, <1>6, OthersStand, Zenon DEF page_cache_fetch

(* What reading the rest of the address file gives: a right and complete      *)
(* table.  A fresh address has one slot, since the file lists it once.        *)
LEMMA Reloads ==
  ASSUME CacheInv, NEW p \in Procs, cache[p].at = "lock"
  PROVE  LET c == reload_addresses(cache[p]) IN
         /\ c \in Entry /\ Table(c)
         /\ c.at = "lock" /\ c.page = cache[p].page /\ c.num_pages = Len(addr)
<1> DEFINE o == cache[p]
           n == o.num_pages
           fresh == {addr[i] : i \in n + 1 .. Len(addr)} \ DOMAIN o.lookup
           Slot(a, i) == /\ addr[i + 1] = a
                         /\ \A j \in n .. i - 1 : addr[j + 1] # a
           slot(a) == CHOOSE i \in n .. Len(addr) - 1 : Slot(a, i)
           dom == DOMAIN o.lookup \union fresh
           table == [a \in dom |-> IF a \in fresh THEN slot(a) ELSE o.lookup[a]]
           c == [o EXCEPT !.lookup = table, !.num_pages = Len(addr)]
<1>1. /\ o \in Entry /\ o.lookup \in Tables /\ n \in Nat /\ n <= Len(addr) /\ addr \in Seq(Pages)
      /\ Len(addr) \in Nat
  BY DEF CacheInv, CacheType, Entry, Appending
<1>2. fresh \subseteq Pages /\ DOMAIN o.lookup \subseteq Pages
      /\ \A a \in DOMAIN o.lookup : o.lookup[a] \in Nat
  BY <1>1, TableType
<1>3. ASSUME NEW a \in fresh
      PROVE  slot(a) \in Nat /\ slot(a) < Len(addr) /\ addr[slot(a) + 1] = a
  <2>1. PICK i \in n + 1 .. Len(addr) : addr[i] = a
    BY <1>3
  <2>2. i - 1 \in n .. Len(addr) - 1 /\ Slot(a, i - 1)
    BY <1>1, <2>1 DEF CacheInv, Files
  <2>3. slot(a) \in n .. Len(addr) - 1 /\ Slot(a, slot(a))
    BY <2>2, Zenon
  <2> QED
    BY <1>1, <2>3
<1>4. reload_addresses(o) = c
  BY Zenon, Zenon DEF reload_addresses
<1> HIDE DEF slot
<1>5. table \in [dom -> Nat] /\ dom \in SUBSET Pages
  BY <1>2, <1>3
<1>6. table \in Tables /\ DOMAIN table = dom
  BY <1>5, TableType, Zenon
<1>7. \A a \in dom : table[a] < Len(addr) /\ addr[table[a] + 1] = a
  <2>1. ASSUME NEW a \in fresh PROVE table[a] = slot(a)
    BY <2>1
  <2>2. ASSUME NEW a \in DOMAIN o.lookup PROVE table[a] = o.lookup[a]
    BY <2>2
  <2>3. \A a \in DOMAIN o.lookup : o.lookup[a] < Len(addr) /\ addr[o.lookup[a] + 1] = a
    BY DEF CacheInv, Table
  <2> HIDE DEF table
  <2> QED
    BY <1>3, <2>1, <2>2, <2>3
<1>8. \A i \in 1 .. Len(addr) : addr[i] \in dom
  BY <1>1 DEF CacheInv, Table
<1> HIDE DEF table, dom
<1>9. /\ c \in Entry /\ c.lookup = table /\ c.num_pages = Len(addr)
      /\ c.at = o.at /\ c.page = o.page
  BY <1>1, <1>6, Zenon DEF Entry
<1>10. Table(c)
  BY <1>6, <1>7, <1>8, <1>9 DEF Table
<1> HIDE DEF c
<1> QED
  BY <1>4, <1>9, <1>10

(* The process takes the lock and reads the address file: it finds the page,  *)
(* or nobody has dumped it.                                                   *)
LEMMA UpdateStep ==
  ASSUME NEW p \in Procs PROVE CacheInv /\ update_page_cache(p) => CacheInv'
<1> SUFFICES ASSUME CacheInv, update_page_cache(p) PROVE CacheInv'
  OBVIOUS
<1> DEFINE c == reload_addresses(cache[p])
<1>1. cache[p].at = "lock" /\ flock = {} /\ UNCHANGED <<addr, dump>>
      /\ cache[p].page \in Pages /\ addr \in Seq(Pages)
  BY DEF update_page_cache, CacheInv, Appending, CacheType
<1>2. /\ c \in Entry /\ Table(c)
      /\ c.at = "lock" /\ c.page = cache[p].page /\ c.num_pages = Len(addr)
  BY <1>1, Reloads
<1>3. IF c.page \in DOMAIN c.lookup
      THEN cache' = [cache EXCEPT ![p] = Return(c)] /\ UNCHANGED flock
      ELSE cache' = [cache EXCEPT ![p] = [c EXCEPT !.at = "grow"]] /\ flock' = {p}
  BY DEF update_page_cache
<1> HIDE DEF c
<1>4. CASE c.page \in DOMAIN c.lookup
  <2> DEFINE r == Return(c)
  <2>1. /\ r \in Entry /\ r.lookup = c.lookup /\ r.num_pages = c.num_pages
        /\ r.at = "idle" /\ r.page = NoPage
    BY <1>2, Zenon DEF Return, Entry
  <2>2. cache' = [cache EXCEPT ![p] = r] /\ flock' = flock
    BY <1>3, <1>4
  <2> HIDE DEF r
  <2>3. CacheTo(p, r)
    BY <2>1, <2>2, CacheMoves, Zenon DEF CacheInv
  <2>4. Table(r) /\ Appending(r)
    BY <1>1, <1>2, <2>1 DEF Table, Appending
  <2>5. Locked' /\ flock' \subseteq Procs
    BY <1>1, <2>1, <2>2, <2>3 DEF Locked, CacheTo, CacheInv, CacheType
  <2> QED
    BY <1>1, <2>1, <2>3, <2>4, <2>5, OthersStand
<1>5. CASE c.page \notin DOMAIN c.lookup
  <2> DEFINE r == [c EXCEPT !.at = "grow"]
  <2>1. /\ r \in Entry /\ r.lookup = c.lookup /\ r.num_pages = c.num_pages
        /\ r.at = "grow" /\ r.page = c.page
    BY <1>2 DEF Entry
  <2>2. cache' = [cache EXCEPT ![p] = r] /\ flock' = {p}
    BY <1>3, <1>5
  <2> HIDE DEF r
  <2>3. CacheTo(p, r)
    BY <2>1, <2>2, CacheMoves, Zenon DEF CacheInv
  <2>4. Table(r) /\ Appending(r)
    BY <1>1, <1>2, <1>5, <2>1 DEF Table, Appending
  <2>5. Locked' /\ flock' \subseteq Procs
    BY <1>1, <2>1, <2>2, <2>3 DEF Locked, CacheTo, CacheInv, CacheType
  <2> QED
    BY <1>1, <2>1, <2>3, <2>4, <2>5, OthersStand
<1> QED
  BY <1>4, <1>5

(* The process that holds the lock changes the files: the others are not in   *)
(* the middle of anything, and what they know of the address file stays so.   *)
LEMMA HolderWrites ==
  ASSUME CacheInv, NEW p \in Procs, p \in flock, NEW r \in Entry, CacheTo(p, r),
         addr' \in Seq(Pages), dump' \in Seq(Pages \union {Zero}),
         Len(addr) <= Len(addr'), \A i \in 1 .. Len(addr) : addr'[i] = addr[i],
         Files', Table(r)', Appending(r)', flock' = IF r.at = "idle" THEN {} ELSE flock,
         r.at \in {"idle", "dump", "put"}
  PROVE  CacheInv'
<1> USE DEF CacheInv
<1>1. addr \in Seq(Pages) /\ Len(addr) \in Nat /\ Len(addr') \in Nat
  BY DEF CacheType
<1>2. CacheType'
  BY DEF CacheType, CacheTo, Entry
<1>3. \A q \in Procs : q # p => cache'[q] = cache[q] /\ cache[q].at \in {"idle", "lock"} /\ q \notin flock
  BY DEF Locked, CacheTo, CacheType, Entry
<1>4. Locked'
  BY <1>3 DEF Locked, CacheTo
<1>5. ASSUME NEW q \in Procs PROVE Table(cache[q])' /\ Appending(cache[q])'
  <2>1. CASE q = p
    BY <2>1 DEF CacheTo, Table, Appending
  <2>2. CASE q # p
    <3>1. cache[q] \in Entry /\ cache[q].lookup \in Tables /\ cache[q].num_pages \in Nat
          /\ \A a \in DOMAIN cache[q].lookup : cache[q].lookup[a] \in Nat
      BY TableType, Zenon DEF CacheType, Entry
    <3>2. cache[q].num_pages <= Len(addr)
      BY <1>3, <2>2 DEF Appending
    <3>3. Table(cache[q])'
      <4> DEFINE f == cache[q].lookup
      <4>1. ASSUME NEW a \in DOMAIN f PROVE f[a] < Len(addr') /\ addr'[f[a] + 1] = a
        <5>1. f[a] < Len(addr) /\ addr[f[a] + 1] = a /\ f[a] + 1 \in 1 .. Len(addr)
          BY <1>1, <3>1, <4>1 DEF Table
        <5> QED
          BY <1>1, <3>1, <5>1
      <4>2. \A i \in 1 .. Len(addr') : i <= cache[q].num_pages => addr'[i] \in DOMAIN f
        BY <1>1, <3>1, <3>2 DEF Table
      <4> QED
        BY <1>3, <2>2, <4>1, <4>2 DEF Table
    <3>4. Appending(cache[q])'
      BY <1>1, <1>3, <2>2, <3>1, <3>2 DEF Appending
    <3> QED
      BY <3>3, <3>4
  <2> QED
    BY <2>1, <2>2
<1> QED
  BY <1>2, <1>4, <1>5

(* The dump file has exactly n slots after ftruncate, and keeps those it had. *)
LEMMA TruncatedDump ==
  ASSUME CacheInv, NEW n \in Nat
  PROVE  /\ Truncated(n) \in Seq(Pages \union {Zero}) /\ Len(Truncated(n)) = n
         /\ \A i \in 1 .. n : i <= Len(dump) => Truncated(n)[i] = dump[i]
<1>1. dump \in Seq(Pages \union {Zero}) /\ Len(dump) \in Nat
  BY DEF CacheInv, CacheType
<1>2. \A i \in 1 .. n : (IF i <= Len(dump) THEN dump[i] ELSE Zero) \in Pages \union {Zero}
  BY <1>1
<1> QED
  BY <1>1, <1>2 DEF Truncated

(* Room for the page. *)
LEMMA GrowStep ==
  ASSUME NEW p \in Procs PROVE CacheInv /\ append_page_grow(p) => CacheInv'
<1> SUFFICES ASSUME CacheInv, append_page_grow(p) PROVE CacheInv'
  OBVIOUS
<1> DEFINE o == cache[p]
<1>1. /\ o \in Entry /\ o.at = "grow" /\ p \in flock /\ o.num_pages = Len(addr)
      /\ addr \in Seq(Pages) /\ Len(addr) \in Nat /\ o.page \in Pages
      /\ \A i \in 1 .. Len(addr) : addr[i] # o.page
  BY DEF append_page_grow, CacheInv, CacheType, Entry, Locked, Appending
<1>2. PICK r \in Entry : /\ r.lookup = o.lookup /\ r.num_pages = o.num_pages
                         /\ r.at = "dump" /\ r.page = o.page
                         /\ cache' = [cache EXCEPT ![p] = r]
  <2> DEFINE e == [o EXCEPT !.at = "dump"]
  <2>1. /\ e \in Entry /\ e.lookup = o.lookup /\ e.num_pages = o.num_pages
        /\ e.at = "dump" /\ e.page = o.page
    BY <1>1 DEF Entry
  <2>2. cache' = [cache EXCEPT ![p] = e]
    BY <1>1 DEF append_page_grow, CacheInv, CacheType
  <2> HIDE DEF e
  <2> QED
    BY <2>1, <2>2, Zenon
<1>3. dump' = Truncated(Len(addr) + 1) /\ UNCHANGED <<addr, flock>>
  BY <1>1 DEF append_page_grow
<1>4. /\ dump' \in Seq(Pages \union {Zero}) /\ Len(dump') = Len(addr) + 1
      /\ \A i \in 1 .. Len(addr) : dump'[i] = addr[i]
  <2>1. Len(addr) + 1 \in Nat
    BY <1>1
  <2>2. Len(addr) <= Len(dump) /\ \A i \in 1 .. Len(addr) : dump[i] = addr[i]
    BY DEF CacheInv, Files
  <2>3. /\ dump' \in Seq(Pages \union {Zero}) /\ Len(dump') = Len(addr) + 1
        /\ \A i \in 1 .. Len(addr) + 1 : i <= Len(dump) => dump'[i] = dump[i]
    BY <1>3, <2>1, TruncatedDump, Zenon
  <2>4. dump \in Seq(Pages \union {Zero})
    BY DEF CacheInv, CacheType
  <2> QED
    BY <1>1, <2>2, <2>3, <2>4
<1>5. CacheTo(p, r)
  BY <1>2, CacheMoves, Zenon DEF CacheInv
<1>6. Files'
  BY <1>1, <1>3, <1>4 DEF Files, CacheInv
<1>7. Table(r)' /\ Appending(r)'
  BY <1>1, <1>2, <1>3, <1>4 DEF Table, Appending, CacheInv
<1> QED
  BY <1>1, <1>2, <1>3, <1>4, <1>5, <1>6, <1>7, HolderWrites

(* The page goes there, or the room is taken back. *)
LEMMA DumpStep ==
  ASSUME NEW p \in Procs, NEW mapped \in BOOLEAN
  PROVE  CacheInv /\ append_page_dump(p, mapped) => CacheInv'
<1> SUFFICES ASSUME CacheInv, append_page_dump(p, mapped) PROVE CacheInv'
  OBVIOUS
<1> DEFINE o == cache[p]
<1>1. /\ o \in Entry /\ o.at = "dump" /\ p \in flock /\ o.num_pages = Len(addr) /\ addr' = addr
      /\ addr \in Seq(Pages) /\ Len(addr) \in Nat /\ o.page \in Pages
      /\ \A i \in 1 .. Len(addr) : addr[i] # o.page
      /\ Len(dump) = Len(addr) + 1 /\ dump \in Seq(Pages \union {Zero})
  BY DEF append_page_dump, CacheInv, CacheType, Entry, Locked, Appending
<1>2. CASE mapped
  <2>1. PICK r \in Entry : /\ r.lookup = o.lookup /\ r.num_pages = o.num_pages + 1
                           /\ r.at = "put" /\ r.page = o.page
                           /\ cache' = [cache EXCEPT ![p] = r]
    <3> DEFINE n == o.num_pages + 1
               e == [o EXCEPT !.at = "put", !.num_pages = n]
    <3>1. n \in Nat
      BY <1>1
    <3>2. cache' = [cache EXCEPT ![p] = e]
      BY <1>1, <1>2 DEF append_page_dump, CacheInv, CacheType
    <3> HIDE DEF n
    <3>3. e \in Entry /\ e.lookup = o.lookup /\ e.num_pages = n /\ e.at = "put" /\ e.page = o.page
      BY <1>1, <3>1, Zenon DEF Entry
    <3> HIDE DEF e
    <3> QED
      BY <3>2, <3>3, Zenon DEF n
  <2>2. flock' = flock /\ dump' = [dump EXCEPT ![Len(addr) + 1] = o.page]
    BY <1>1, <1>2 DEF append_page_dump
  <2>3. /\ dump' \in Seq(Pages \union {Zero}) /\ Len(dump') = Len(addr) + 1
        /\ dump'[Len(addr) + 1] = o.page
        /\ \A i \in 1 .. Len(addr) : dump'[i] = addr[i]
    BY <1>1, <2>2 DEF CacheInv, Files
  <2>4. CacheTo(p, r)
    BY <2>1, CacheMoves, Zenon DEF CacheInv
  <2>5. Files'
    BY <1>1, <2>3 DEF Files, CacheInv
  <2>6. Table(r)'
    BY <1>1, <2>1 DEF Table, CacheInv
  <2>7. Appending(r)'
    BY <1>1, <2>1, <2>3 DEF Appending
  <2> QED
    BY <1>1, <2>1, <2>2, <2>3, <2>4, <2>5, <2>6, <2>7, HolderWrites
<1>3. CASE ~mapped
  <2>1. PICK r \in Entry : /\ r.lookup = o.lookup /\ r.num_pages = o.num_pages
                           /\ r.at = "idle" /\ r.page = NoPage
                           /\ cache' = [cache EXCEPT ![p] = r]
    <3> DEFINE e == Return(o)
    <3>1. /\ e \in Entry /\ e.lookup = o.lookup /\ e.num_pages = o.num_pages
          /\ e.at = "idle" /\ e.page = NoPage
      BY <1>1, Zenon DEF Return, Entry
    <3>2. cache' = [cache EXCEPT ![p] = e]
      BY <1>3 DEF append_page_dump
    <3> HIDE DEF e
    <3> QED
      BY <3>1, <3>2, Zenon
  <2>2. flock' = {} /\ dump' = Truncated(Len(addr))
    BY <1>1, <1>3 DEF append_page_dump
  <2>3. /\ dump' \in Seq(Pages \union {Zero}) /\ Len(dump') = Len(addr)
        /\ \A i \in 1 .. Len(addr) : dump'[i] = addr[i]
    <3>1. Len(addr) <= Len(dump) /\ \A i \in 1 .. Len(addr) : dump[i] = addr[i]
      BY DEF CacheInv, Files
    <3>2. /\ dump' \in Seq(Pages \union {Zero}) /\ Len(dump') = Len(addr)
          /\ \A i \in 1 .. Len(addr) : i <= Len(dump) => dump'[i] = dump[i]
      BY <1>1, <2>2, TruncatedDump, Zenon
    <3> QED
      BY <1>1, <3>1, <3>2
  <2>4. CacheTo(p, r)
    BY <2>1, CacheMoves, Zenon DEF CacheInv
  <2>5. Files'
    BY <1>1, <2>3 DEF Files, CacheInv
  <2>6. Table(r)' /\ Appending(r)'
    BY <1>1, <2>1 DEF Table, Appending, CacheInv
  <2> QED
    BY <1>1, <2>1, <2>2, <2>3, <2>4, <2>5, <2>6, HolderWrites
<1> QED
  BY <1>2, <1>3

(* The page's address follows its dump. *)
LEMMA PutStep ==
  ASSUME NEW p \in Procs PROVE CacheInv /\ update_page_cache_put(p) => CacheInv'
<1> SUFFICES ASSUME CacheInv, update_page_cache_put(p) PROVE CacheInv'
  OBVIOUS
<1> DEFINE o == cache[p]
           n == Len(addr)
           dom == DOMAIN o.lookup \union {o.page}
           table == [a \in dom |-> IF a = o.page THEN o.num_pages - 1 ELSE o.lookup[a]]
<1>1. /\ o \in Entry /\ o.at = "put" /\ p \in flock /\ o.num_pages = n + 1
      /\ addr \in Seq(Pages) /\ n \in Nat /\ o.page \in Pages
      /\ \A i \in 1 .. n : addr[i] # o.page
      /\ Len(dump) = n + 1 /\ dump[n + 1] = o.page /\ dump \in Seq(Pages \union {Zero})
      /\ dump' = dump /\ addr' = Append(addr, o.page) /\ flock' = {}
  BY DEF update_page_cache_put, CacheInv, CacheType, Entry, Locked, Appending
<1>2. /\ addr' \in Seq(Pages) /\ Len(addr') = n + 1 /\ addr'[n + 1] = o.page
      /\ \A i \in 1 .. n : addr'[i] = addr[i]
  BY <1>1
<1>3. /\ DOMAIN o.lookup \subseteq Pages /\ \A a \in DOMAIN o.lookup : o.lookup[a] \in Nat
      /\ \A a \in DOMAIN o.lookup : o.lookup[a] < n /\ addr[o.lookup[a] + 1] = a
      /\ \A i \in 1 .. n : addr[i] \in DOMAIN o.lookup
  BY <1>1, TableType DEF Entry, CacheInv, Table
<1>4. table \in [dom -> Nat] /\ dom \in SUBSET Pages
  BY <1>1, <1>3
<1>5. table \in Tables /\ DOMAIN table = dom
  BY <1>4, TableType
<1>6. /\ table[o.page] = n
      /\ \A a \in DOMAIN o.lookup : a # o.page => table[a] = o.lookup[a]
  BY <1>1
<1>7. PICK r \in Entry : /\ r.lookup = table /\ r.num_pages = n + 1
                         /\ r.at = "idle" /\ r.page = NoPage
                         /\ cache' = [cache EXCEPT ![p] = r]
  <2> DEFINE e == Return([o EXCEPT !.lookup = table])
  <2>1. cache' = [cache EXCEPT ![p] = e]
    BY DEF update_page_cache_put
  <2> HIDE DEF table
  <2>2. e \in Entry /\ e.lookup = table /\ e.num_pages = o.num_pages /\ e.at = "idle" /\ e.page = NoPage
    BY <1>1, <1>5, Zenon DEF Return, Entry
  <2> HIDE DEF e
  <2> QED
    BY <1>1, <2>1, <2>2, Zenon
<1> HIDE DEF table
<1>8. CacheTo(p, r)
  BY <1>7, CacheMoves, Zenon DEF CacheInv
<1>9. Files'
  <2>1. \A i \in 1 .. n : dump[i] = addr[i]
    BY DEF CacheInv, Files
  <2>2. \A i, j \in 1 .. n : addr[i] = addr[j] => i = j
    BY DEF CacheInv, Files
  <2> QED
    BY <1>1, <1>2, <2>1, <2>2 DEF Files
<1>10. Table(r)'
  <2>1. ASSUME NEW a \in dom PROVE table[a] < n + 1 /\ addr'[table[a] + 1] = a
    <3>1. CASE a = o.page
      BY <1>1, <1>2, <1>6, <3>1
    <3>2. CASE a # o.page
      <4>1. a \in DOMAIN o.lookup /\ table[a] = o.lookup[a]
        BY <1>6, <2>1, <3>2
      <4>2. o.lookup[a] \in Nat /\ o.lookup[a] < n /\ addr[o.lookup[a] + 1] = a
        BY <1>3, <4>1
      <4>3. o.lookup[a] + 1 \in 1 .. n
        BY <1>1, <4>2
      <4> QED
        BY <1>1, <1>2, <4>1, <4>2, <4>3
    <3> QED
      BY <3>1, <3>2
  <2>2. ASSUME NEW i \in 1 .. n + 1 PROVE addr'[i] \in dom
    BY <1>1, <1>2, <1>3
  <2> QED
    BY <1>2, <1>5, <1>7, <2>1, <2>2 DEF Table
<1>11. Appending(r)'
  BY <1>1, <1>2, <1>7 DEF Appending
<1> QED
  BY <1>1, <1>2, <1>7, <1>8, <1>9, <1>10, <1>11, HolderWrites

(* A process dies: whatever it was appending is not in the address file. *)
LEMMA CacheDeathStep ==
  ASSUME NEW p \in Procs PROVE CacheInv /\ PageCacheDeath(p) => CacheInv'
<1> SUFFICES ASSUME CacheInv, PageCacheDeath(p) PROVE CacheInv'
  OBVIOUS
<1> DEFINE r == page_cache_new
<1>1. /\ r \in Entry /\ DOMAIN r.lookup = {} /\ r.num_pages = 0 /\ r.at = "idle"
  BY NewCache DEF page_cache_new
<1>2. /\ cache' = [cache EXCEPT ![p] = r] /\ flock' = flock \ {p} /\ UNCHANGED <<addr, dump>>
      /\ addr \in Seq(Pages)
  BY DEF PageCacheDeath, CacheInv, CacheType
<1> HIDE DEF r
<1>3. CacheTo(p, r)
  BY <1>1, <1>2, CacheMoves, Zenon DEF CacheInv
<1>4. Table(r) /\ Appending(r)
  BY <1>1, <1>2 DEF Table, Appending
<1>5. Locked' /\ flock' \subseteq Procs
  BY <1>1, <1>2, <1>3 DEF Locked, CacheTo, CacheInv, CacheType
<1> QED
  BY <1>1, <1>2, <1>3, <1>4, <1>5, OthersStand

(* Every step of the cache. *)
LEMMA CacheNextStep ==
  ASSUME NEW p \in Procs PROVE CacheInv /\ PageCacheNext(p) => CacheInv'
BY FetchStarts, UpdateStep, GrowStep, DumpStep, PutStep, Zenon DEF PageCacheNext, FetchStep

(* A step of the session, or none, leaves the cache alone. *)
LEMMA CacheStands == CacheInv /\ UNCHANGED pageCacheVars => CacheInv'
BY DEF CacheInv, pageCacheVars, CacheType, Files, Locked, Table, Appending

-----------------------------------------------------------------------------
(* The theorems *)

(* The two invariants hold in every reachable state. *)
LEMMA Invariance == Spec => [](StartInv /\ CacheInv)
<1>1. Init => StartInv /\ CacheInv
  BY StartBegins, CacheBegins DEF Init
<1>2. StartInv /\ CacheInv /\ [Next]_vars => StartInv' /\ CacheInv'
  <2> SUFFICES ASSUME StartInv, CacheInv, [Next]_vars PROVE StartInv' /\ CacheInv'
    OBVIOUS
  <2>1. CASE StartNext /\ UNCHANGED pageCacheVars
    BY <2>1, StartNextStep, CacheStands
  <2>2. ASSUME NEW w \in Workers, Decode(w) PROVE StartInv' /\ CacheInv'
    BY <2>2, ProcsAssumption, StartStands, CacheNextStep DEF Decode
  <2>3. ASSUME NEW w \in Workers, Death(w) PROVE StartInv' /\ CacheInv'
    BY <2>3, ProcsAssumption, DeathStep, CacheDeathStep DEF Death
  <2>4. CASE UNCHANGED vars
    BY <2>4, StartStands, CacheStands DEF vars
  <2> QED
    BY <2>1, <2>2, <2>3, <2>4 DEF Next
<1> QED
  BY <1>1, <1>2, PTL DEF Spec

(* Type correctness: threads, processes, directory, snapshot and page cache. *)
THEOREM TypeCorrect == Spec => [](StartType /\ PageCacheTypeOK)
<1>1. StartInv /\ CacheInv => StartType /\ PageCacheTypeOK
  BY DEF StartInv, CacheInv, CacheType, PageCacheTypeOK, Cache, Tables
<1> QED
  BY <1>1, Invariance, PTL, Zenon

(* However the threads and processes of a session of any size run, and        *)
(* however many processes are killed: a worker that fuzzes has loaded every   *)
(* file of the snapshot complete and from this session (or from the path the  *)
(* configuration names), no process finds its working directory incomplete    *)
(* and no thread a link of an earlier session in its way.                     *)
THEOREM SoundSession == Spec => []SessionIsSound
<1>1. StartInv => SessionIsSound
  BY DEF StartInv, SessionIsSound, Loaded, Pair, Final, Killed
<1> QED
  BY <1>1, Invariance, PTL

(* Whatever the processes look up, append or take back, and whoever is killed *)
(* at which step: every table points into the dump, to the page it names, and *)
(* the address file lists every page once and only after its dump.            *)
THEOREM CoherentCache == Spec => []CacheIsCoherent
<1>1. CacheInv => CacheIsCoherent
  <2> SUFFICES ASSUME CacheInv PROVE CacheIsCoherent
    OBVIOUS
  <2>1. /\ addr \in Seq(Pages) /\ dump \in Seq(Pages \union {Zero})
        /\ Len(addr) \in Nat /\ Len(dump) \in Nat /\ Len(addr) <= Len(dump)
        /\ \A i \in 1 .. Len(addr) : dump[i] = addr[i]
    BY DEF CacheInv, CacheType, Files
  <2>2. ASSUME NEW p \in Procs, NEW a \in DOMAIN cache[p].lookup
        PROVE  cache[p].lookup[a] < Len(dump) /\ dump[cache[p].lookup[a] + 1] = a
    <3>1. cache[p].lookup[a] \in Nat
      BY <2>2, TableType DEF CacheInv, CacheType
    <3>2. cache[p].lookup[a] < Len(addr) /\ addr[cache[p].lookup[a] + 1] = a
      BY <2>2 DEF CacheInv, Table
    <3> QED
      BY <2>1, <3>1, <3>2
  <2>3. IsInjective(addr)
    BY <2>1 DEF CacheInv, Files, IsInjective
  <2>4. IsPrefix(addr, dump)
    BY <2>1 DEF IsPrefix
  <2> QED
    BY <2>2, <2>3, <2>4 DEF CacheIsCoherent
<1> QED
  BY <1>1, Invariance, PTL
=============================================================================
