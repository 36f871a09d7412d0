----------------------------- MODULE FastReload -----------------------------
(***************************************************************************)
(* Fast snapshots of QEMU-PT (pt/fast_vm_reload.c) over KVM's dirty-page   *)
(* log (VmxFdl) and the disk cache (BlockCow).  A snapshot copies guest    *)
(* memory once; a restore copies back only the pages that some log says    *)
(* were changed:                                                           *)
(*   - KVM's log, for what the guest and KVM write, filtered by QEMU's own *)
(*     dirty bitmap (DIRTY_MEMORY_MIGRATION), and                          *)
(*   - the "user" log, for what QEMU's device models write.                *)
(* The pages shared with the fuzzer (the payload) are kept out.            *)
(*                                                                         *)
(* Pages are numbered in QEMU's ram_addr space: pc.ram first, then the     *)
(* display's memory.  QEMU's writes are given in units of half a page.     *)
(*                                                                         *)
(* The handlers run on the only vCPU thread, so the guest is stopped; the  *)
(* devices are not, except where a handler holds QEMU's iothread lock.  A  *)
(* restore does.  Taking a snapshot does only in its last steps, and is    *)
(* split into an action per stretch that devices may interleave with.      *)
(***************************************************************************)
EXTENDS VmxFdl, BlockCow, FiniteSets

CONSTANTS RamPages, VramPages,   \* size of pc.ram and of vga.vram, in pages
          Zero,                  \* content of fresh memory and of the image
          FdlSize,               \* bound of `index' in the kernel's log
          USER_FDL_SLOTS,        \* size of the user log
          Workloads              \* what guests do, see below

(* The user log has more slots than the guest has pages of memory (0x400000,  *)
(* that is 16 GiB).                                                           *)
ASSUME ReloadAssumption ==
  /\ RamPages \in Nat /\ VramPages \in Nat /\ VramPages <= RamPages
  /\ Zero \in Values /\ FdlSize \in Nat
  /\ USER_FDL_SLOTS \in Nat /\ RamPages < USER_FDL_SLOTS

VARIABLES workload,   \* what the guest does
          q,          \* guest memory and QEMU's tracking of it
          shadow,     \* shadow_memory: the snapshot
          phase,      \* how far QEMU is in taking the snapshot, see Phases
          kvm,        \* the kernel's side, see VmxFdl
          blacklist,  \* black_list_pages
          cow,        \* the disk cache, see BlockCow
          disk,       \* what the guest's disk should contain
          fresh,      \* nothing has happened since the last restore
          refreshed   \* the display was refreshed since the last restore

vars == <<workload, q, shadow, phase, kvm, blacklist, cow, disk, fresh, refreshed>>

PAGE == 2   \* units of a page

(* "off": the guest has not run; "boot": no snapshot yet; then the snapshot   *)
(* is "copied", the user log "enabled", dirty "logging" started; and "fuzz".  *)
Phases == {"off", "boot", "copied", "enabled", "logging", "fuzz"}
GuestRuns == phase \in {"off", "boot", "fuzz"}
UserLogOn == phase \in {"enabled", "logging", "fuzz"}
BitmapOn == phase \in {"logging", "fuzz"}

Ram == 0 .. RamPages - 1
Vram == RamPages .. RamPages + VramPages - 1
Pages == Ram \union Vram
Chunks == {o \in Offsets : o % CHUNK_SIZE = 0}
Image == [o \in Offsets |-> Zero]

(* A workload: the pages the guest writes, where it may place the payload, the *)
(* sizes of the writes it makes devices do, in units of half a page, and       *)
(* whether it writes to the disk.                                              *)
ASSUME WorkloadAssumption ==
  \A w \in Workloads : /\ w.pages \subseteq Pages /\ w.payload \subseteq Ram
                       /\ w.sizes \subseteq Nat \ {0} /\ w.disk \in BOOLEAN

Touched(at, len) == {u \div PAGE : u \in at .. at + len - 1}

(* What a device does asynchronously: it delivers data to guest memory, or it *)
(* carries out a write to the disk.                                           *)
None == [op |-> "none", at |-> 0, len |-> 0, v |-> Zero]
Dma == {req \in [op : {"dma"}, at : 0 .. PAGE * (RamPages + VramPages) - 1,
                 len : workload.sizes, v : Values] :
          \/ Touched(req.at, req.len) \subseteq Ram
          \/ Touched(req.at, req.len) \subseteq Vram}
DiskWrite == {req \in [op : {"write"}, at : IF workload.disk THEN Offsets ELSE {},
                       len : 1 .. CHUNK_SIZE, v : Values] :
                req.at .. req.at + req.len - 1 \subseteq Offsets}
Request == {None} \union Dma \union DiskWrite

(* QEMU's memory: content, migration bitmap, the user log (its pages and its  *)
(* length), and three facts about the history: the pages written in a way     *)
(* that neither log can see, whether the user log got entries that no bitmap  *)
(* keeps from repeating, and whether an assertion has failed.                 *)
QemuMemory ==
  [mem : [Pages -> Values], migration : SUBSET Pages,
   user : SUBSET Ram, pos : Nat, unlogged : SUBSET Pages,
   stray : BOOLEAN, aborted : BOOLEAN]

(* The ideal disk now and at the snapshot; odd: chunks written by a request   *)
(* that is not exactly one aligned chunk.                                     *)
Disk == [now : [Chunks -> Values], odd : SUBSET Chunks,
         then : [Chunks -> Values], odd_then : SUBSET Chunks]

(* Every component has its type. *)
TypeOK ==
  /\ workload \in Workloads
  /\ q \in QemuMemory
  /\ shadow \in [Pages -> Values]
  /\ phase \in Phases
  /\ kvm \in VmxFdlState(Pages)
  /\ blacklist \subseteq Ram
  /\ cow \in CowCache
  /\ disk \in Disk
  /\ fresh \in BOOLEAN /\ refreshed \in BOOLEAN

Blank == [p \in Pages |-> Zero]

Init ==
  /\ workload \in Workloads
  /\ q = [mem |-> Blank, migration |-> {}, user |-> {}, pos |-> 0,
          unlogged |-> {}, stray |-> FALSE, aborted |-> FALSE]
  /\ shadow = Blank
  /\ phase = "off"
  /\ kvm = vmx_fdl_setup(Vram)
  /\ blacklist = {}
  /\ cow = cow_cache_new(Zero)
  /\ disk = [now |-> [c \in Chunks |-> Zero], odd |-> {},
             then |-> [c \in Chunks |-> Zero], odd_then |-> {}]
  /\ fresh = FALSE /\ refreshed = FALSE

-----------------------------------------------------------------------------
(* Writes by QEMU's devices. *)

(* The pages the loop of user_fdl_set_dirty visits.  It is given an address   *)
(* relative to the memory region but uses it as a ram_addr: a page of the     *)
(* display's memory is mistaken for the page of pc.ram at the same offset.    *)
Listed(at, len) ==
  LET first == at \div PAGE
      base == IF first \in Ram THEN first ELSE first - RamPages
  IN IF len >= PAGE THEN {base + k : k \in {i \in 0 .. len : PAGE * i < len}} ELSE {}

(* What the write changes beyond what the user log is asked to record: any    *)
(* write shorter than a page, the last page of a run that is not aligned, and *)
(* the display's memory.                                                      *)
Missed(at, len) ==
  {p \in Touched(at, len) :
     len < PAGE \/ p \in Vram \/ (p - at \div PAGE) * PAGE >= len}

fast_reload_qemu_user_fdl_set_dirty(r, at, len) ==
  LET new == IF UserLogOn THEN Listed(at, len) \ r.migration ELSE {}
      pos == r.pos + Cardinality(new)
  IN [r EXCEPT !.user = @ \union new, !.pos = pos,
               !.aborted = @ \/ (new # {} /\ pos >= USER_FDL_SLOTS)]

(* A device copies data to guest memory, then invalidate_and_set_dirty (or    *)
(* memory_region_set_dirty) tells the user log and, after it, the bitmap.     *)
invalidate_and_set_dirty(r, at, len, v) ==
  LET pages == Touched(at, len)
      w == fast_reload_qemu_user_fdl_set_dirty(r, at, len)
  IN [w EXCEPT
        !.mem = [p \in Pages |-> IF p \in pages THEN v ELSE @[p]],
        !.migration = IF BitmapOn THEN @ \union pages ELSE @,
        !.unlogged = @ \union (IF phase = "copied" THEN pages
                              ELSE IF UserLogOn THEN Missed(at, len) ELSE {}),
        !.stray = @ \/ (len >= PAGE /\ (phase = "enabled" \/ pages \subseteq Vram))]

-----------------------------------------------------------------------------
(* Disk requests, against the cache and against the ideal disk. *)

CowDone(c, req) ==
  IF req.op = "write" THEN cow_cache_write(c, req.at, req.len, req.v) ELSE c

DiskDone(d, req) ==
  IF req.op # "write" THEN d
  ELSE IF req.at \in Chunks /\ req.len = CHUNK_SIZE
  THEN [d EXCEPT !.now[req.at] = req.v, !.odd = @ \ {req.at}]
  ELSE [d EXCEPT !.odd = @ \union {c \in Chunks : c < req.at + req.len
                                                /\ req.at < c + CHUNK_SIZE}]

(* Memory after a request: a device has delivered its data, or the primary    *)
(* buffer of the disk has run full and the assertion after it fails.          *)
MemoryDone(r, req) ==
  IF req.op = "dma"
  THEN invalidate_and_set_dirty(r, req.at, req.len, req.v)
  ELSE [r EXCEPT !.aborted = @ \/ CowDone(cow, req).offset_primary >= COW_CACHE_SIZE]

-----------------------------------------------------------------------------
(* Taking and restoring snapshots. *)

(* The steps of fast_reload_restore that concern guest memory, in order: the  *)
(* kernel's bitmap is merged into QEMU's, the payload's pages are removed     *)
(* from it, pages of the kernel's log that are still set are copied back,     *)
(* then the pages of the user log.                                            *)
memory_global_dirty_log_sync(r, k) == r.migration \union k.dirty

find_dirty_pages_fdl(k, bitmap) == k.log \intersect bitmap

RestoreMemory_PayloadToo(r, k, image) ==
  LET bitmap == memory_global_dirty_log_sync(r, k)
      copied == find_dirty_pages_fdl(k, bitmap) \union r.user
  IN [r EXCEPT !.mem = [p \in Pages |-> IF p \in copied THEN image[p] ELSE @[p]],
               !.migration = bitmap \ copied,
               !.user = {}, !.pos = 0,
               !.unlogged = @ \ copied, !.stray = @ /\ r.aborted]

RestoreMemory(r, k, image) ==
  LET bitmap == memory_global_dirty_log_sync(r, k) \ blacklist
      copied == find_dirty_pages_fdl(k, bitmap) \union r.user
  IN [r EXCEPT !.mem = [p \in Pages |-> IF p \in copied THEN image[p] ELSE @[p]],
               !.migration = bitmap \ copied,
               !.user = {}, !.pos = 0,
               !.unlogged = @ \ copied, !.stray = @ /\ r.aborted]

RestoreKvm(k) == KVM_VMX_FDL_GET_INDEX(kvm_get_dirty_log_protect(k, Pages))

RestoreCow(c) == [cow_cache_reset(c) EXCEPT !.full = FALSE]

fdl_dirty_tracking_init(k) == KVM_VMX_FDL_FLUSH(vmx_fdl_realloc_memory(k, FdlSize))

(* memory_global_dirty_log_start: from now on every slot has a dirty bitmap.  *)
memory_global_dirty_log_start(k) == [k EXCEPT !.logging = Pages]

(* fast_reload_create_in_memory, and fast_reload_create_to_file: requests in  *)
(* flight are drained and memory is copied ...                                *)
alloc_shadow_memory(last) ==
  LET r == MemoryDone(q, last)
  IN /\ phase = "boot"
     /\ phase' = "copied"
     /\ shadow' = r.mem
     /\ q' = r
     /\ cow' = CowDone(cow, last)
     /\ disk' = DiskDone(disk, last)
     /\ UNCHANGED <<workload, kvm, blacklist, fresh, refreshed>>

(* ... the two logs are readied and the disk is switched over ...             *)
fast_reload_qemu_user_fdl_enable ==
  /\ phase = "copied"
  /\ phase' = "enabled"
  /\ kvm' = fdl_dirty_tracking_init(kvm)
  /\ cow' = switch_to_fuzz_mode(cow)
  /\ disk' = [disk EXCEPT !.then = disk.now, !.odd_then = disk.odd]
  /\ UNCHANGED <<workload, q, shadow, blacklist, fresh, refreshed>>

(* ... QEMU's bitmap is cleared and dirty logging started (iothread lock) ... *)
reset_dirty_tracking ==
  /\ phase = "enabled"
  /\ phase' = "logging"
  /\ q' = [q EXCEPT !.migration = {}]
  /\ kvm' = memory_global_dirty_log_start(kvm)
  /\ UNCHANGED <<workload, shadow, blacklist, cow, disk, fresh, refreshed>>

(* ... and a restore ends it, taking the kernel's stale bits away.  Later     *)
(* restores end an execution.                                                 *)
(* Stopping the VM completes the requests in flight before anything else;     *)
(* `last' is the last of them.                                                *)
fast_reload_restore_DrainLate(last) ==
  /\ phase \in {"logging", "fuzz"}
  /\ phase' = "fuzz"
  /\ q' = RestoreMemory(q, kvm, shadow)
  /\ kvm' = RestoreKvm(kvm)
  /\ cow' = CowDone(RestoreCow(cow), last)
  /\ disk' = [disk EXCEPT !.now = disk.then, !.odd = disk.odd_then]
  /\ fresh' = TRUE /\ refreshed' = FALSE
  /\ UNCHANGED <<workload, shadow, blacklist>>

fast_reload_restore(last) ==
  /\ phase \in {"logging", "fuzz"}
  /\ phase' = "fuzz"
  /\ q' = RestoreMemory(MemoryDone(q, last), kvm, shadow)
  /\ kvm' = RestoreKvm(kvm)
  /\ cow' = RestoreCow(CowDone(cow, last))
  /\ disk' = [disk EXCEPT !.now = disk.then, !.odd = disk.odd_then]
  /\ fresh' = TRUE /\ refreshed' = FALSE
  /\ UNCHANGED <<workload, shadow, blacklist>>

(* A process that joins a snapshot another one has written, before its guest  *)
(* has run: memory and the primary buffer come from the files (m; held and v, *)
(* MaxHeld chunks at most), and load_global_state maps the payload's pages.   *)
(* No restore follows.                                                        *)
MaxHeld == 1

fast_reload_create_from_file ==
  /\ phase = "off"
  /\ phase' = "fuzz"
  /\ \E m \in [Pages -> Values], B \in SUBSET workload.payload,
       held \in SUBSET (IF workload.disk THEN Chunks ELSE {}), v \in Values :
       /\ shadow' = m
       /\ q' = [q EXCEPT !.mem = m, !.migration = {}]
       /\ blacklist' = B
       /\ Cardinality(held) <= MaxHeld
       /\ cow' = read_primary_buffer(cow, held, v)
       /\ disk' = LET now == [c \in Chunks |-> IF c \in held THEN v ELSE Zero]
                  IN [now |-> now, odd |-> {}, then |-> now, odd_then |-> {}]
  /\ kvm' = memory_global_dirty_log_start(fdl_dirty_tracking_init(kvm))
  /\ UNCHANGED <<workload, fresh, refreshed>>

-----------------------------------------------------------------------------
(* The guest, the fuzzer and the devices. *)

(* The guest, or KVM on its behalf, writes a page. *)
GuestWrite(p, v) ==
  /\ GuestRuns
  /\ phase' = IF phase = "off" THEN "boot" ELSE phase
  /\ q' = [q EXCEPT !.mem[p] = v,
                    !.unlogged = IF phase = "fuzz" /\ ~HasRoom(kvm) THEN @ \union {p}
                                                                   ELSE @]
  /\ kvm' = mark_page_dirty(kvm, p)
  /\ fresh' = FALSE
  /\ UNCHANGED <<workload, shadow, blacklist, cow, disk, refreshed>>

(* The fuzzer stores a payload in the pages it shares with the guest. *)
FuzzerWrite(p, v) ==
  /\ p \in blacklist
  /\ q' = [q EXCEPT !.mem[p] = v]
  /\ UNCHANGED <<workload, shadow, phase, kvm, blacklist, cow, disk, fresh, refreshed>>

(* remap_payload_buffer, for the hypercall that submits the payload's address: *)
(* the page becomes a view of the fuzzer's buffer.                             *)
fast_reload_blacklist_page(p, v) ==
  /\ phase = "boot"
  /\ p \notin blacklist
  /\ blacklist' = blacklist \union {p}
  /\ q' = [q EXCEPT !.mem[p] = v]
  /\ UNCHANGED <<workload, shadow, phase, kvm, cow, disk, fresh, refreshed>>

(* A device delivers data, at any time once the machine runs, or carries out   *)
(* a disk write of the running guest (cow_cache_write_entry).                  *)
Device(req) ==
  /\ phase # "off"
  /\ req.op = "write" => GuestRuns
  /\ q' = MemoryDone(q, req)
  /\ cow' = CowDone(cow, req)
  /\ disk' = DiskDone(disk, req)
  /\ fresh' = FALSE
  /\ UNCHANGED <<workload, shadow, phase, kvm, blacklist, refreshed>>

(* The display asks KVM for the dirty pages of its memory. *)
DisplayRefresh ==
  /\ kvm.dirty \intersect Vram # {}
  /\ kvm' = kvm_get_dirty_log_protect(kvm, Vram)
  /\ q' = [q EXCEPT !.migration =
                       IF BitmapOn THEN @ \union (kvm.dirty \intersect Vram) ELSE @]
  /\ refreshed' = TRUE
  /\ UNCHANGED <<workload, shadow, phase, blacklist, cow, disk, fresh>>

Next ==
  /\ ~q.aborted
  /\ \/ \E p \in workload.pages, v \in Values : GuestWrite(p, v) \/ FuzzerWrite(p, v)
     \/ \E p \in workload.payload, v \in Values : fast_reload_blacklist_page(p, v)
     \/ \E req \in Dma \union DiskWrite : Device(req)
     \/ DisplayRefresh
     \/ \E last \in Request : alloc_shadow_memory(last)
     \/ fast_reload_qemu_user_fdl_enable
     \/ reset_dirty_tracking
     \/ fast_reload_create_from_file
     \/ \E last \in Request : fast_reload_restore(last)

Spec == Init /\ [][Next]_vars

-----------------------------------------------------------------------------
(* After a restore guest memory is that of the snapshot, except for the       *)
(* payload's pages and for pages changed by a write that the logs cannot see: *)
(* the ways in which writes reach the two logs, their filtering by two        *)
(* bitmaps, and the clearing of all four leave no other page behind.          *)
RestoredMemory ==
  fresh => \A p \in Pages \ (blacklist \union q.unlogged) : q.mem[p] = shadow[p]

(* A restore does not take back what the fuzzer has stored in the payload's   *)
(* pages, unless a device wrote to them.                                      *)
PayloadSurvives ==
  [][fast_reload_restore(None)
       => \A p \in blacklist \ q.user : q'.mem[p] = q.mem[p]]_vars

(* Reading a chunk of the disk gives what was last written to it or, since a  *)
(* restore, what it held at the snapshot; as long as the secondary buffer has *)
(* not run full, and for chunks only written whole.                           *)
DiskIsConsistent ==
  ~cow.full => \A c \in Chunks \ disk.odd : cow_cache_read(cow, Image, c) = disk.now[c]

(* QEMU maps one entry of the kernel's log per page, and asserts that the     *)
(* user log has room: neither is exceeded as long as the display is not       *)
(* refreshed, resp. no device writes whole pages of its memory.               *)
LogsFit ==
  /\ ~refreshed => kvm.index <= RamPages + VramPages
  /\ q.aborted => q.stray \/ cow.offset_primary >= COW_CACHE_SIZE
=============================================================================
