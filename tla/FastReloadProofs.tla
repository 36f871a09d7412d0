-------------------------- MODULE FastReloadProofs --------------------------
(***************************************************************************)
(* Proofs about FastReload, for any size of memory, disk and logs.         *)
(***************************************************************************)
EXTENDS FastReload, FiniteSetTheorems, TLAPS

HasSnapshot == phase \in {"copied", "enabled", "logging", "fuzz"}

(* How far the logs have been set up, by phase.  r is QEMU's memory: q, or    *)
(* what q becomes in the middle of a step.                                    *)
Setup(r) ==
  /\ phase = "off" => kvm.dirty = {}
  /\ phase \in {"off", "boot", "copied"} => r.user = {} /\ r.pos = 0 /\ ~kvm.buf
  /\ ~BitmapOn => r.migration = {} /\ kvm.logging = Vram
  /\ BitmapOn => kvm.logging = Pages
  /\ phase # "fuzz" => ~fresh /\ kvm.log = {} /\ kvm.index = 0 /\ kvm.dirty \subseteq Vram

(* A page that differs from the snapshot is listed, and its bit is set where  *)
(* the list is filtered; a page whose bit keeps it from being listed again is *)
(* listed already.                                                            *)
Listing(r) ==
  HasSnapshot =>
    \A p \in Pages \ (blacklist \union r.unlogged) :
      /\ r.mem[p] # shadow[p] =>
           p \in r.user \/ (p \in kvm.log /\ p \in r.migration \union kvm.dirty)
      /\ p \in Ram /\ p \in r.migration => p \in r.user \union kvm.log
      /\ phase = "fuzz" /\ p \in kvm.dirty => p \in kvm.log

(* The logs hold no page twice. *)
NoRepeats(r) ==
  /\ ~refreshed => kvm.log \subseteq kvm.dirty /\ kvm.index = Cardinality(kvm.log)
  /\ ~r.stray => r.pos = Cardinality(r.user) /\ r.user \subseteq r.migration

(* The tables of the disk cache send no two offsets to one slot, and only to  *)
(* slots that have been handed out.                                           *)
OneSlotEach(lookup, n) ==
  /\ \A o \in Offsets : lookup[o] # Absent => lookup[o] < n
  /\ \A o1, o2 \in Offsets : o1 # o2 /\ lookup[o1] # Absent => lookup[o1] # lookup[o2]

Cached(c) ==
  /\ c \in CowCache
  /\ OneSlotEach(c.lookup_primary, c.offset_primary)
  /\ OneSlotEach(c.lookup_secondary, c.offset_secondary)

(* What the primary buffer and the image hold *)
PrimaryRead(c, o) ==
  IF c.lookup_primary[o] # Absent THEN c.data_primary[c.lookup_primary[o]] ELSE Zero

(* The cache c holds the disk d: with its secondary buffer, which is unused    *)
(* until the snapshot, the disk as it is now, and without it the disk of the   *)
(* snapshot.                                                                   *)
HoldsDisk(c, d) ==
  /\ Cached(c) /\ d \in Disk
  /\ ~c.enabled_fuzz =>
       c.lookup_secondary = NoEntries /\ ~c.full
  /\ c.enabled_fuzz =>
       \A x \in Chunks \ d.odd_then : PrimaryRead(c, x) = d.then[x]
  /\ ~c.full => \A x \in Chunks \ d.odd : cow_cache_read(c, Image, x) = d.now[x]

CacheSetup ==
  /\ cow.enabled_fuzz = UserLogOn
  /\ ~cow.enabled_fuzz /\ ~q.aborted => cow.offset_primary < COW_CACHE_SIZE

(* The second part of LogsFit *)
AbortsExplained == q.aborted => q.stray \/ cow.offset_primary >= COW_CACHE_SIZE

MemoryInv == Setup(q) /\ Listing(q) /\ RestoredMemory /\ NoRepeats(q)
DiskInv   == HoldsDisk(cow, disk) /\ CacheSetup
IInv      == TypeOK /\ MemoryInv /\ DiskInv /\ AbortsExplained

-----------------------------------------------------------------------------
(* Sets with two members are larger than MaxHeld. *)
LEMMA AtMostOne ==
  ASSUME NEW S, IsFiniteSet(S), Cardinality(S) <= 1, NEW x \in S, NEW y \in S
  PROVE  x = y
<1> SUFFICES ASSUME x # y PROVE FALSE  OBVIOUS
<1>1. IsFiniteSet({x}) /\ Cardinality({x}) = 1  BY FS_Singleton
<1>2. Cardinality({x} \union {y}) = IF y \in {x} THEN Cardinality({x}) ELSE Cardinality({x}) + 1
  BY <1>1, FS_AddElement, Zenon
<1>3. {x} \union {y} \in SUBSET S  OBVIOUS
<1>4. Cardinality({x} \union {y}) <= Cardinality(S)  BY <1>3, FS_Subset, Zenon
<1>5. Cardinality(S) \in Nat  BY FS_CardinalityType, Zenon
<1> QED  BY <1>1, <1>2, <1>4, <1>5

-----------------------------------------------------------------------------
(* Requests of devices. *)

(* What a device writes is inside one of the two memory regions; the pages    *)
(* user_fdl_set_dirty lists are pages of pc.ram, and they are the pages of    *)
(* the write that are not missed.                                             *)
LEMMA DmaPages ==
  ASSUME TypeOK, NEW req \in Dma
  PROVE  /\ req.at \in Nat /\ req.len \in Nat \ {0} /\ req.v \in Values /\ req.op = "dma"
         /\ Touched(req.at, req.len) \subseteq Pages
         /\ Listed(req.at, req.len) \subseteq Ram
         /\ Touched(req.at, req.len) \ Missed(req.at, req.len)
              \subseteq Listed(req.at, req.len) \intersect Ram
         /\ req.len >= PAGE /\ ~(Touched(req.at, req.len) \subseteq Vram)
              => Listed(req.at, req.len) \subseteq Touched(req.at, req.len)
         /\ req.len < PAGE => Listed(req.at, req.len) = {}
<1> DEFINE T == Touched(req.at, req.len)
           first == req.at \div PAGE
<1>1. req.at \in Nat /\ req.len \in Nat \ {0} /\ req.v \in Values /\ req.op = "dma"
  BY ReloadAssumption, WorkloadAssumption DEF TypeOK, Dma, PAGE
<1>2. T \subseteq Ram \/ T \subseteq Vram
  BY DEF Dma
<1>3. \A k \in Nat : PAGE * k < req.len => first + k \in T
  <2> SUFFICES ASSUME NEW k \in Nat, PAGE * k < req.len PROVE first + k \in T  OBVIOUS
  <2>1. req.at + PAGE * k \in req.at .. req.at + req.len - 1  BY <1>1 DEF PAGE
  <2>2. (req.at + PAGE * k) \div PAGE = first + k  BY <1>1 DEF PAGE
  <2>3. QED  BY <2>1, <2>2 DEF Touched
<1>4. first \in T
  BY <1>1, <1>3 DEF PAGE
<1>5. Listed(req.at, req.len) \subseteq Ram
  BY <1>1, <1>2, <1>3, <1>4, ReloadAssumption DEF Listed, Ram, Vram, PAGE
<1>6. ASSUME NEW p \in T \ Missed(req.at, req.len)
      PROVE  p \in Listed(req.at, req.len) \intersect Ram
  <2>1. req.len >= PAGE /\ p \notin Vram /\ (p - first) * PAGE < req.len
    BY <1>1 DEF Missed, PAGE, Touched
  <2>2. p \in Ram /\ first \in Ram  BY <1>2, <1>4, <2>1
  <2>3. p >= first  BY <1>1 DEF Touched, PAGE
  <2>4. p - first \in {i \in 0 .. req.len : PAGE * i < req.len}
    BY <1>1, <2>1, <2>2, <2>3, ReloadAssumption DEF PAGE, Ram
  <2>5. p = first + (p - first)  BY <2>2, ReloadAssumption DEF Ram
  <2>6. QED  BY <2>1, <2>2, <2>4, <2>5 DEF Listed
<1>7. req.len >= PAGE /\ ~(T \subseteq Vram) => Listed(req.at, req.len) \subseteq T
  BY <1>1, <1>2, <1>3, <1>4 DEF Listed, PAGE
<1>8. req.len < PAGE => Listed(req.at, req.len) = {}
  BY <1>1 DEF Listed, PAGE
<1> QED  BY <1>1, <1>2, <1>5, <1>6, <1>7, <1>8 DEF Pages

(* What a device's write does to QEMU's memory, field by field. *)
LEMMA DmaEffect ==
  ASSUME TypeOK, NEW req \in Dma,
         NEW new, new = IF UserLogOn THEN Listed(req.at, req.len) \ q.migration ELSE {}
  PROVE  LET r == MemoryDone(q, req)
             T == Touched(req.at, req.len)
         IN /\ r \in QemuMemory
            /\ r.mem = [p \in Pages |-> IF p \in T THEN req.v ELSE q.mem[p]]
            /\ r.migration = (IF BitmapOn THEN q.migration \union T ELSE q.migration)
            /\ r.user = q.user \union new
            /\ IsFiniteSet(new) /\ r.pos = q.pos + Cardinality(new)
            /\ r.unlogged = q.unlogged \union (IF phase = "copied" THEN T
                                 ELSE IF UserLogOn THEN Missed(req.at, req.len) ELSE {})
            /\ r.stray = (q.stray \/ (req.len >= PAGE /\ (phase = "enabled" \/ T \subseteq Vram)))
            /\ r.aborted = (q.aborted \/ (new # {} /\ r.pos >= USER_FDL_SLOTS))
<1> DEFINE T == Touched(req.at, req.len)
           w == fast_reload_qemu_user_fdl_set_dirty(q, req.at, req.len)
           r == MemoryDone(q, req)
<1>1. q \in QemuMemory /\ req.op = "dma" /\ req.v \in Values /\ T \subseteq Pages
      /\ req.len \in Nat /\ Listed(req.at, req.len) \subseteq Ram
  BY DmaPages DEF TypeOK
<1>2. IsFiniteSet(Ram) /\ new \subseteq Ram
  BY <1>1, FS_Interval, ReloadAssumption DEF Ram
<1>3. IsFiniteSet(new) /\ Cardinality(new) \in Nat
  BY <1>2, FS_Subset, FS_CardinalityType
<1> DEFINE full == q.aborted \/ (new # {} /\ q.pos + Cardinality(new) >= USER_FDL_SLOTS)
           stray == q.stray \/ (req.len >= PAGE /\ (phase = "enabled" \/ T \subseteq Vram))
           missed == q.unlogged \union (IF phase = "copied" THEN T
                              ELSE IF UserLogOn THEN Missed(req.at, req.len) ELSE {})
           bits == IF BitmapOn THEN q.migration \union T ELSE q.migration
           mem == [p \in Pages |-> IF p \in T THEN req.v ELSE q.mem[p]]
<1>4. w = [q EXCEPT !.user = @ \union new, !.pos = q.pos + Cardinality(new), !.aborted = full]
  BY DEF fast_reload_qemu_user_fdl_set_dirty
<1>5. Missed(req.at, req.len) \subseteq Pages
  BY <1>1 DEF Missed
<1>6. full \in BOOLEAN /\ stray \in BOOLEAN
  BY <1>1 DEF QemuMemory
<1>7. missed \subseteq Pages /\ bits \subseteq Pages /\ mem \in [Pages -> Values]
  BY <1>1, <1>5 DEF QemuMemory
<1>8. r = [w EXCEPT
        !.mem = [p \in Pages |-> IF p \in T THEN req.v ELSE @[p]],
        !.migration = IF BitmapOn THEN @ \union T ELSE @,
        !.unlogged = @ \union (IF phase = "copied" THEN T
                              ELSE IF UserLogOn THEN Missed(req.at, req.len) ELSE {}),
        !.stray = @ \/ (req.len >= PAGE /\ (phase = "enabled" \/ T \subseteq Vram))]
  BY <1>1 DEF MemoryDone, invalidate_and_set_dirty
<1>9. w.mem = q.mem /\ w.migration = q.migration /\ w.unlogged = q.unlogged /\ w.stray = q.stray
  BY <1>1, <1>4 DEF QemuMemory
<1>10. r = [w EXCEPT !.mem = mem, !.migration = bits, !.unlogged = missed, !.stray = stray]
  BY <1>8, <1>9
<1>11. q.user \union new \in SUBSET Ram /\ q.pos + Cardinality(new) \in Nat
  BY <1>1, <1>2, <1>3 DEF QemuMemory
<1> HIDE DEF full, stray, missed, bits, mem, w, r
<1>12. w \in QemuMemory
  BY <1>1, <1>4, <1>6, <1>11, Zenon DEF QemuMemory
<1>13. r \in QemuMemory
  BY <1>12, <1>6, <1>7, <1>10, Zenon DEF QemuMemory
<1>14. /\ r.mem = mem /\ r.migration = bits /\ r.unlogged = missed /\ r.stray = stray
       /\ r.user = q.user \union new /\ r.pos = q.pos + Cardinality(new) /\ r.aborted = full
  BY <1>1, <1>4, <1>10, <1>12 DEF QemuMemory
<1> QED
  BY <1>3, <1>13, <1>14 DEF full, stray, missed, bits, mem, r

(* Any other request leaves memory alone. *)
LEMMA NoDmaEffect ==
  ASSUME TypeOK, NEW req \in Request, req \notin Dma
  PROVE  /\ MemoryDone(q, req) \in QemuMemory
         /\ MemoryDone(q, req) =
              [q EXCEPT !.aborted = @ \/ CowDone(cow, req).offset_primary >= COW_CACHE_SIZE]
<1>1. req.op # "dma"
  BY DEF Request, None, DiskWrite
<1>2. MemoryDone(q, req) =
              [q EXCEPT !.aborted = @ \/ CowDone(cow, req).offset_primary >= COW_CACHE_SIZE]
  BY <1>1 DEF MemoryDone
<1>3. (q.aborted \/ CowDone(cow, req).offset_primary >= COW_CACHE_SIZE) \in BOOLEAN
  OBVIOUS
<1> QED  BY <1>2, Zenon DEF TypeOK, QemuMemory

-----------------------------------------------------------------------------
(* The disk cache. *)

(* A table l with data d, handing out `top' slots of n, is another one after  *)
(* a chunk with content v has been stored at o.                               *)
Stored(n, o, v, lookup, data, l, d, top) ==
  /\ l \in Lookup(n) /\ d \in [0 .. n - 1 -> Values] /\ top \in 0 .. n
  /\ OneSlotEach(l, top)
  /\ l[o] # Absent /\ d[l[o]] = v
  /\ \A x \in Offsets \ {o} :
       l[x] = lookup[x] /\ (l[x] # Absent => d[l[x]] = data[lookup[x]])

SlotOf(lookup, off, o) == IF lookup[o] = Absent THEN off ELSE lookup[o]

(* Storing a chunk in a buffer with room, whichever of the two it is. *)
LEMMA TableWrite ==
  ASSUME NEW n \in Nat, NEW lookup \in Lookup(n), NEW data \in [0 .. n - 1 -> Values],
         NEW off \in 0 .. n, off < n, OneSlotEach(lookup, off),
         NEW o \in Offsets, NEW v \in Values
  PROVE  Stored(n, o, v, lookup, data,
                [lookup EXCEPT ![o] = SlotOf(lookup, off, o)],
                [data EXCEPT ![SlotOf(lookup, off, o)] = v],
                IF lookup[o] = Absent THEN off + 1 ELSE off)
<1> DEFINE slot == SlotOf(lookup, off, o)
           l == [lookup EXCEPT ![o] = slot]
           d == [data EXCEPT ![slot] = v]
           top == IF lookup[o] = Absent THEN off + 1 ELSE off
<1>1. slot \in 0 .. n - 1
  BY DEF Lookup, Absent, OneSlotEach, SlotOf
<1>2. l \in Lookup(n) /\ d \in [0 .. n - 1 -> Values] /\ top \in 0 .. n
  BY <1>1 DEF Lookup
<1>3. l[o] = slot /\ slot # Absent /\ d[slot] = v
  BY <1>1 DEF Lookup, Absent
<1>4. \A x \in Offsets \ {o} : l[x] = lookup[x] /\ l[x] # slot
  BY <1>1 DEF Lookup, Absent, OneSlotEach, SlotOf
<1>5. \A x \in Offsets : l[x] # Absent => l[x] < top
  BY <1>1, <1>3, <1>4 DEF Lookup, Absent, OneSlotEach, SlotOf
<1>6. \A x, y \in Offsets : x # y /\ l[x] # Absent => l[x] # l[y]
  BY <1>3, <1>4 DEF OneSlotEach
<1>7. \A x \in Offsets \ {o} : l[x] # Absent => d[l[x]] = data[lookup[x]]
  BY <1>1, <1>4 DEF Lookup, Absent
<1> QED  BY <1>2, <1>3, <1>4, <1>5, <1>6, <1>7 DEF OneSlotEach, Stored

(* Before the snapshot a write of a chunk goes to the primary buffer. *)
LEMMA PrimaryWrite ==
  ASSUME NEW c, Cached(c), c.offset_primary < COW_CACHE_SIZE,
         NEW o \in Offsets, NEW v \in Values,
         NEW d, d = write_to_primary_buffer(c, o, v)
  PROVE  /\ Cached(d)
         /\ d.lookup_secondary = c.lookup_secondary /\ d.enabled_fuzz = c.enabled_fuzz
         /\ d.full = c.full
         /\ PrimaryRead(d, o) = v
         /\ \A x \in Offsets \ {o} : PrimaryRead(d, x) = PrimaryRead(c, x)
<1> DEFINE slot == SlotOf(c.lookup_primary, c.offset_primary, o)
           lookup == [c.lookup_primary EXCEPT ![o] = slot]
           data == [c.data_primary EXCEPT ![slot] = v]
           top == IF c.lookup_primary[o] = Absent THEN c.offset_primary + 1 ELSE c.offset_primary
<1>1. c \in CowCache  BY DEF Cached
<1>2. /\ COW_CACHE_SIZE \in Nat /\ c.lookup_primary \in Lookup(COW_CACHE_SIZE)
      /\ c.data_primary \in [0 .. COW_CACHE_SIZE - 1 -> Values]
      /\ c.offset_primary \in 0 .. COW_CACHE_SIZE
      /\ OneSlotEach(c.lookup_primary, c.offset_primary)
  BY <1>1, CowSizeAssumption DEF CowCache, Cached
<1>3. d = [c EXCEPT !.lookup_primary = lookup, !.data_primary = data, !.offset_primary = top]
  BY DEF write_to_primary_buffer, SlotOf
<1>4. Stored(COW_CACHE_SIZE, o, v, c.lookup_primary, c.data_primary, lookup, data, top)
  BY <1>2, TableWrite, Zenon
<1> HIDE DEF lookup, data, top
<1>5. d \in CowCache  BY <1>1, <1>3, <1>4, Zenon DEF CowCache, Stored
<1>6. /\ d.lookup_primary = lookup /\ d.data_primary = data /\ d.offset_primary = top
      /\ d.lookup_secondary = c.lookup_secondary /\ d.offset_secondary = c.offset_secondary
      /\ d.enabled_fuzz = c.enabled_fuzz /\ d.full = c.full
  BY <1>1, <1>3 DEF CowCache
<1> QED  BY <1>4, <1>5, <1>6 DEF Cached, PrimaryRead, Stored

(* Afterwards it goes to the secondary buffer, or sets full. *)
StoredInFuzzMode(c, d, o, v) ==
  /\ Cached(d)
  /\ d.lookup_primary = c.lookup_primary /\ d.data_primary = c.data_primary
  /\ d.offset_primary = c.offset_primary /\ d.enabled_fuzz = c.enabled_fuzz
  /\ \/ d = [c EXCEPT !.full = TRUE] /\ d.full
     \/ /\ d.full = c.full
        /\ d.lookup_secondary[o] # Absent
        /\ d.data_secondary[d.lookup_secondary[o]] = v
        /\ \A x \in Offsets \ {o} :
             /\ d.lookup_secondary[x] = c.lookup_secondary[x]
             /\ d.lookup_secondary[x] # Absent =>
                  d.data_secondary[d.lookup_secondary[x]]
                    = c.data_secondary[c.lookup_secondary[x]]

(* A write in fuzzing mode stores the value and nothing else. *)
LEMMA SecondaryWrite ==
  ASSUME NEW c, Cached(c), NEW o \in Offsets, NEW v \in Values
  PROVE  StoredInFuzzMode(c, write_to_secondary_buffer(c, o, v), o, v)
<1> DEFINE d == write_to_secondary_buffer(c, o, v)
           slot == SlotOf(c.lookup_secondary, c.offset_secondary, o)
           lookup == [c.lookup_secondary EXCEPT ![o] = slot]
           data == [c.data_secondary EXCEPT ![slot] = v]
           top == IF c.lookup_secondary[o] = Absent THEN c.offset_secondary + 1
                                                    ELSE c.offset_secondary
<1> SUFFICES StoredInFuzzMode(c, d, o, v)  OBVIOUS
<1>1. c \in CowCache  BY DEF Cached
<1>2. /\ COW_CACHE_SECONDARY_SIZE \in Nat
      /\ c.lookup_secondary \in Lookup(COW_CACHE_SECONDARY_SIZE)
      /\ c.data_secondary \in [0 .. COW_CACHE_SECONDARY_SIZE - 1 -> Values]
      /\ c.offset_secondary \in 0 .. COW_CACHE_SECONDARY_SIZE
      /\ OneSlotEach(c.lookup_secondary, c.offset_secondary)
  BY <1>1, CowSizeAssumption DEF CowCache, Cached
<1>3. CASE c.offset_secondary >= COW_CACHE_SECONDARY_SIZE
  <2>1. d = [c EXCEPT !.full = TRUE]  BY <1>3 DEF write_to_secondary_buffer
  <2> HIDE DEF d
  <2> QED  BY <1>1, <2>1, Zenon DEF Cached, CowCache, StoredInFuzzMode
<1>4. CASE c.offset_secondary < COW_CACHE_SECONDARY_SIZE
  <2>1. d = [c EXCEPT !.lookup_secondary = lookup, !.data_secondary = data,
                      !.offset_secondary = top]
    BY <1>2, <1>4, CowSizeAssumption DEF write_to_secondary_buffer, SlotOf
  <2>2. Stored(COW_CACHE_SECONDARY_SIZE, o, v, c.lookup_secondary, c.data_secondary,
               lookup, data, top)
    BY <1>2, <1>4, TableWrite, Zenon
  <2> HIDE DEF lookup, data, top, d
  <2>3. d \in CowCache  BY <1>1, <2>1, <2>2, Zenon DEF CowCache, Stored
  <2>4. /\ d.lookup_secondary = lookup /\ d.data_secondary = data /\ d.offset_secondary = top
        /\ d.lookup_primary = c.lookup_primary /\ d.offset_primary = c.offset_primary
        /\ d.data_primary = c.data_primary
        /\ d.enabled_fuzz = c.enabled_fuzz /\ d.full = c.full
    BY <1>1, <2>1 DEF CowCache
  <2> QED  BY <2>2, <2>3, <2>4 DEF Cached, Stored, StoredInFuzzMode
<1> QED  BY <1>2, <1>3, <1>4, CowSizeAssumption

(* Carrying out a request keeps the cache and the disk in step. *)
LEMMA RequestDone ==
  ASSUME TypeOK, NEW req \in Request, NEW c, NEW d, HoldsDisk(c, d),
         ~c.enabled_fuzz => c.offset_primary < COW_CACHE_SIZE
  PROVE  /\ HoldsDisk(CowDone(c, req), DiskDone(d, req))
         /\ CowDone(c, req).enabled_fuzz = c.enabled_fuzz
         /\ c.enabled_fuzz => CowDone(c, req).offset_primary = c.offset_primary
         /\ DiskDone(d, req).then = d.then /\ DiskDone(d, req).odd_then = d.odd_then
<1> DEFINE e == CowDone(c, req)
           g == DiskDone(d, req)
<1>1. c \in CowCache /\ d \in Disk  BY DEF HoldsDisk, Cached
<1>2. CASE req.op # "write"
  BY <1>1, <1>2 DEF CowDone, DiskDone
<1>3. CASE req.op = "write"
  <2>1. req \in DiskWrite  BY <1>3 DEF Request, None, Dma
  <2>2. req.at \in Offsets /\ req.at \in Nat /\ req.len \in 1 .. 2 /\ req.v \in Values
    BY <2>1, CowSizeAssumption, Zenon DEF DiskWrite, CHUNK_SIZE
  <2>3. e = cow_cache_write(c, req.at, req.len, req.v)  BY <1>3 DEF CowDone
  <2>4. g = IF req.at \in Chunks /\ req.len = CHUNK_SIZE
            THEN [d EXCEPT !.now[req.at] = req.v, !.odd = @ \ {req.at}]
            ELSE [d EXCEPT !.odd = @ \union {x \in Chunks : x < req.at + req.len
                                                /\ req.at < x + CHUNK_SIZE}]
    BY <1>3 DEF DiskDone
  <2>5. g \in Disk /\ g.then = d.then /\ g.odd_then = d.odd_then
    <3>1. d.now \in [Chunks -> Values] /\ d.odd \subseteq Chunks  BY <1>1 DEF Disk
    <3>2. CASE req.at \in Chunks /\ req.len = CHUNK_SIZE
      <4>1. [d.now EXCEPT ![req.at] = req.v] \in [Chunks -> Values]  BY <2>2, <3>1, <3>2
      <4>2. g = [d EXCEPT !.now = [d.now EXCEPT ![req.at] = req.v], !.odd = @ \ {req.at}]
        BY <2>4, <3>2
      <4> QED  BY <1>1, <3>1, <4>1, <4>2, Zenon DEF Disk
    <3>3. CASE ~(req.at \in Chunks /\ req.len = CHUNK_SIZE)
      BY <1>1, <2>4, <3>3 DEF Disk
    <3> QED  BY <3>2, <3>3
  <2>6. \A x \in Chunks \ g.odd : x # req.at => x \notin d.odd /\ g.now[x] = d.now[x]
    BY <1>1, <2>2, <2>4 DEF Disk, Chunks
  <2>7. req.at \in Chunks \ g.odd => req.len = CHUNK_SIZE /\ g.now[req.at] = req.v
    BY <1>1, <2>2, <2>4 DEF Disk, Chunks, CHUNK_SIZE
  <2>8. CASE req.len # CHUNK_SIZE
    <3>1. e = c  BY <2>2, <2>3, <2>8 DEF cow_cache_write, CHUNK_SIZE
    <3> QED  BY <2>5, <2>6, <2>7, <2>8, <3>1 DEF HoldsDisk
  <2>9. CASE req.len = CHUNK_SIZE /\ ~c.enabled_fuzz
    <3>1. e = write_to_primary_buffer(c, req.at, req.v)
      BY <2>3, <2>9 DEF cow_cache_write, CHUNK_SIZE
    <3>2. /\ Cached(e)
          /\ e.lookup_secondary = c.lookup_secondary /\ e.enabled_fuzz = c.enabled_fuzz
          /\ e.full = c.full
          /\ PrimaryRead(e, req.at) = req.v
          /\ \A x \in Offsets \ {req.at} : PrimaryRead(e, x) = PrimaryRead(c, x)
      <4> HIDE DEF e
      <4> QED  BY <2>2, <2>9, <3>1, PrimaryWrite DEF HoldsDisk
    <3>3. \A x \in Chunks : /\ cow_cache_read(c, Image, x) = PrimaryRead(c, x)
                            /\ cow_cache_read(e, Image, x) = PrimaryRead(e, x)
      BY <2>9, <3>2 DEF cow_cache_read, PrimaryRead, Image, Chunks
    <3> QED
      BY <2>5, <2>6, <2>7, <2>9, <3>2, <3>3 DEF HoldsDisk, Chunks
  <2>10. CASE req.len = CHUNK_SIZE /\ c.enabled_fuzz
    <3>1. e = write_to_secondary_buffer(c, req.at, req.v)
      BY <2>3, <2>10 DEF cow_cache_write, CHUNK_SIZE
    <3>2. StoredInFuzzMode(c, e, req.at, req.v)
      BY <2>2, <3>1, SecondaryWrite DEF HoldsDisk
    <3>3. \A x \in Chunks : PrimaryRead(e, x) = PrimaryRead(c, x)
      BY <3>2 DEF PrimaryRead, StoredInFuzzMode
    <3>4. ASSUME ~e.full, NEW x \in Chunks \ g.odd
          PROVE  cow_cache_read(e, Image, x) = g.now[x]
      <4>1. x \in Offsets  BY DEF Chunks
      <4>2. CASE x = req.at
        BY <2>7, <2>10, <3>2, <3>4, <4>1, <4>2 DEF cow_cache_read, StoredInFuzzMode
      <4>3. CASE x # req.at
        <5>1. cow_cache_read(e, Image, x) = cow_cache_read(c, Image, x)
          BY <2>10, <3>2, <3>4, <4>1, <4>3 DEF cow_cache_read, StoredInFuzzMode
        <5>2. ~c.full  BY <3>2, <3>4 DEF StoredInFuzzMode
        <5> QED  BY <2>6, <4>3, <5>1, <5>2 DEF HoldsDisk
      <4> QED  BY <4>2, <4>3
    <3> QED
      BY <2>5, <2>10, <3>2, <3>3, <3>4 DEF HoldsDisk, StoredInFuzzMode
  <2> QED  BY <2>8, <2>9, <2>10
<1> QED  BY <1>2, <1>3

-----------------------------------------------------------------------------
(* The kernel's log. *)

(* Memory and video memory are finite, disjoint intervals of pages. *)
LEMMA PagesAreFinite ==
  /\ Pages = 0 .. RamPages + VramPages - 1
  /\ IsFiniteSet(Pages) /\ Cardinality(Pages) = RamPages + VramPages
  /\ IsFiniteSet(Ram) /\ Cardinality(Ram) = RamPages
  /\ \A S \in SUBSET Pages : IsFiniteSet(S) /\ Cardinality(S) <= RamPages + VramPages
  /\ \A S \in SUBSET Ram : IsFiniteSet(S) /\ Cardinality(S) <= RamPages
<1>1. Pages = 0 .. RamPages + VramPages - 1
  BY ReloadAssumption DEF Pages, Ram, Vram
<1>2. IsFiniteSet(Pages) /\ Cardinality(Pages) = RamPages + VramPages
  BY <1>1, FS_Interval, ReloadAssumption
<1>3. IsFiniteSet(Ram) /\ Cardinality(Ram) = RamPages
  BY FS_Interval, ReloadAssumption DEF Ram
<1>4. ASSUME NEW S \in SUBSET Pages
      PROVE  IsFiniteSet(S) /\ Cardinality(S) <= RamPages + VramPages
  BY <1>2, FS_Subset
<1>5. ASSUME NEW S \in SUBSET Ram PROVE IsFiniteSet(S) /\ Cardinality(S) <= RamPages
  BY <1>3, FS_Subset
<1> QED  BY <1>1, <1>2, <1>3, <1>4, <1>5

(* What marking a page dirty does, field by field. *)
LEMMA MarkDirty ==
  ASSUME NEW k \in VmxFdlState(Pages), NEW p \in Pages
  PROVE  LET m == mark_page_dirty(k, p)
         IN /\ m \in VmxFdlState(Pages)
            /\ m.buf = k.buf /\ m.logging = k.logging
            /\ m.dirty = IF p \in k.logging THEN k.dirty \union {p} ELSE k.dirty
            /\ IF p \in k.logging \ k.dirty /\ HasRoom(k)
               THEN m.log = k.log \union {p} /\ m.index = k.index + 1
               ELSE m.log = k.log /\ m.index = k.index
<1> DEFINE a == vmx_fdl_set_addr_kvm(k, p)
           m == mark_page_dirty(k, p)
<1>1. a = IF p \in k.logging \ k.dirty /\ HasRoom(k)
          THEN [k EXCEPT !.index = @ + 1, !.log = @ \union {p}] ELSE k
  BY DEF vmx_fdl_set_addr_kvm, vmx_fdl_set_addr
<1>2. m = IF p \in a.logging THEN [a EXCEPT !.dirty = @ \union {p}] ELSE a
  BY DEF mark_page_dirty, mark_page_dirty_in_slot
<1> HIDE DEF a, m
<1>3. /\ a \in VmxFdlState(Pages) /\ a.buf = k.buf /\ a.logging = k.logging
      /\ a.dirty = k.dirty
      /\ IF p \in k.logging \ k.dirty /\ HasRoom(k)
         THEN a.log = k.log \union {p} /\ a.index = k.index + 1
         ELSE a.log = k.log /\ a.index = k.index
  <2>1. CASE p \in k.logging \ k.dirty /\ HasRoom(k)
    <3>1. a = [k EXCEPT !.index = @ + 1, !.log = @ \union {p}]  BY <1>1, <2>1
    <3>2. k.log \union {p} \subseteq Pages /\ k.index + 1 \in Nat  BY DEF VmxFdlState
    <3>3. a \in VmxFdlState(Pages)  BY <3>1, <3>2, Zenon DEF VmxFdlState
    <3>4. /\ a.buf = k.buf /\ a.logging = k.logging /\ a.dirty = k.dirty
          /\ a.log = k.log \union {p} /\ a.index = k.index + 1
      BY <3>1 DEF VmxFdlState
    <3> QED  BY <2>1, <3>3, <3>4
  <2>2. CASE ~(p \in k.logging \ k.dirty /\ HasRoom(k))
    BY <1>1, <2>2
  <2> QED  BY <2>1, <2>2
<1>4. /\ m \in VmxFdlState(Pages) /\ m.buf = a.buf /\ m.logging = a.logging
      /\ m.dirty = (IF p \in a.logging THEN a.dirty \union {p} ELSE a.dirty)
      /\ m.log = a.log /\ m.index = a.index
  BY <1>2, <1>3 DEF VmxFdlState
<1> QED  BY <1>3, <1>4 DEF m

-----------------------------------------------------------------------------
(* The steps. *)

(* The guest writes a page. *)
LEMMA GuestWriteStep ==
  ASSUME IInv, ~q.aborted, NEW p \in Pages, NEW v \in Values, GuestWrite(p, v)
  PROVE  IInv'
<1> USE DEF GuestRuns, BitmapOn, UserLogOn, HasSnapshot
<1>1. /\ q \in QemuMemory /\ kvm \in VmxFdlState(Pages) /\ kvm' = mark_page_dirty(kvm, p)
      /\ UNCHANGED <<workload, shadow, blacklist, cow, disk, refreshed>> /\ fresh' = FALSE
      /\ phase \in {"off", "boot", "fuzz"}
      /\ phase' = IF phase = "off" THEN "boot" ELSE phase
  BY DEF IInv, TypeOK, GuestWrite
<1>2. /\ kvm' \in VmxFdlState(Pages)
      /\ kvm'.buf = kvm.buf /\ kvm'.logging = kvm.logging
      /\ kvm'.dirty = (IF p \in kvm.logging THEN kvm.dirty \union {p} ELSE kvm.dirty)
      /\ IF p \in kvm.logging \ kvm.dirty /\ HasRoom(kvm)
         THEN kvm'.log = kvm.log \union {p} /\ kvm'.index = kvm.index + 1
         ELSE kvm'.log = kvm.log /\ kvm'.index = kvm.index
  BY <1>1, MarkDirty
<1>3. /\ q' \in QemuMemory
      /\ q'.mem = [q.mem EXCEPT ![p] = v]
      /\ q'.migration = q.migration /\ q'.user = q.user /\ q'.pos = q.pos
      /\ q'.stray = q.stray /\ q'.aborted = q.aborted
      /\ q'.unlogged = IF phase = "fuzz" /\ ~HasRoom(kvm) THEN q.unlogged \union {p} ELSE q.unlogged
  <2>1. q.mem \in [Pages -> Values]  BY <1>1 DEF QemuMemory
  <2>2. q' = [q EXCEPT !.mem = [q.mem EXCEPT ![p] = v],
                    !.unlogged = IF phase = "fuzz" /\ ~HasRoom(kvm) THEN q.unlogged \union {p}
                                                                   ELSE q.unlogged]
    BY DEF GuestWrite
  <2> QED  BY <1>1, <2>1, <2>2, Zenon DEF QemuMemory
<1>4. TypeOK'
  BY <1>1, <1>2, <1>3, Zenon DEF IInv, TypeOK, Phases
<1>5. Setup(q)'
  <2>1. Setup(q)  BY DEF IInv, MemoryInv
  <2>2. kvm.buf \in BOOLEAN  BY <1>1 DEF VmxFdlState
  <2> QED  BY <1>1, <1>2, <1>3, <2>1, <2>2 DEF Setup, HasRoom
<1>6. Listing(q)'
  <2> SUFFICES ASSUME HasSnapshot', NEW x \in Pages \ (blacklist \union q'.unlogged)
               PROVE  /\ q'.mem[x] # shadow[x] =>
                           x \in q'.user \/ (x \in kvm'.log /\ x \in q'.migration \union kvm'.dirty)
                      /\ x \in Ram /\ x \in q'.migration => x \in q'.user \union kvm'.log
                      /\ phase' = "fuzz" /\ x \in kvm'.dirty => x \in kvm'.log
    BY <1>1 DEF Listing
  <2>1. phase = "fuzz" /\ kvm.logging = Pages
    BY <1>1 DEF IInv, MemoryInv, Setup
  <2>2. x \in Pages \ (blacklist \union q.unlogged)  BY <1>3
  <2>3. /\ q.mem[x] # shadow[x] =>
             x \in q.user \/ (x \in kvm.log /\ x \in q.migration \union kvm.dirty)
        /\ x \in Ram /\ x \in q.migration => x \in q.user \union kvm.log
        /\ x \in kvm.dirty => x \in kvm.log
    BY <2>1, <2>2 DEF IInv, MemoryInv, Listing
  <2>4. CASE x # p
    <3>1. q'.mem[x] = q.mem[x]  BY <1>1, <1>3, <2>4 DEF QemuMemory
    <3> QED  BY <1>2, <1>3, <2>1, <2>3, <2>4, <3>1
  <2>5. CASE x = p
    <3>1. HasRoom(kvm)  BY <1>3, <2>1, <2>5
    <3>2. x \in kvm'.log /\ x \in kvm'.dirty  BY <1>2, <2>1, <2>3, <2>5, <3>1
    <3> QED  BY <3>2
  <2> QED  BY <2>4, <2>5
<1>7. RestoredMemory'
  BY <1>1 DEF RestoredMemory
<1>8. NoRepeats(q)'
  <2>1. NoRepeats(q)  BY DEF IInv, MemoryInv
  <2>2. ASSUME ~refreshed PROVE kvm'.log \subseteq kvm'.dirty /\ kvm'.index = Cardinality(kvm'.log)
    <3>1. kvm.log \subseteq kvm.dirty /\ kvm.index = Cardinality(kvm.log)
      BY <2>1, <2>2 DEF NoRepeats
    <3>2. kvm.log \subseteq Pages /\ IsFiniteSet(kvm.log)
      BY <1>1, PagesAreFinite DEF VmxFdlState
    <3>3. p \notin kvm.log => Cardinality(kvm.log \union {p}) = Cardinality(kvm.log) + 1
      BY <3>2, FS_AddElement, Zenon
    <3> QED  BY <1>2, <3>1, <3>3
  <2> QED  BY <1>1, <1>3, <2>1, <2>2 DEF NoRepeats
<1>9. DiskInv'
  BY <1>1, <1>3 DEF IInv, DiskInv, CacheSetup, HoldsDisk, Chunks, Disk, Cached
<1>10. AbortsExplained'
  BY <1>1, <1>3 DEF AbortsExplained
<1> QED  BY <1>4, <1>5, <1>6, <1>7, <1>8, <1>9, <1>10 DEF IInv, MemoryInv

(* The fuzzer stores a payload, or the guest has the page it names become a   *)
(* view of the fuzzer's buffer.                                               *)
LEMMA PayloadStep ==
  ASSUME IInv, NEW p \in Pages, NEW v \in Values,
         \/ FuzzerWrite(p, v)
         \/ p \in Ram /\ fast_reload_blacklist_page(p, v)
  PROVE  IInv'
<1> USE DEF BitmapOn, UserLogOn, HasSnapshot
<1>1. /\ q \in QemuMemory
      /\ UNCHANGED <<workload, shadow, phase, kvm, cow, disk, fresh, refreshed>>
      /\ q' = [q EXCEPT !.mem[p] = v]
      /\ blacklist' \subseteq Ram /\ p \in blacklist' /\ blacklist \subseteq blacklist'
  BY DEF IInv, TypeOK, FuzzerWrite, fast_reload_blacklist_page
<1>2. /\ q' \in QemuMemory
      /\ q'.mem = [q.mem EXCEPT ![p] = v]
      /\ q'.migration = q.migration /\ q'.user = q.user /\ q'.pos = q.pos
      /\ q'.stray = q.stray /\ q'.aborted = q.aborted /\ q'.unlogged = q.unlogged
  <2>1. q.mem \in [Pages -> Values]  BY <1>1 DEF QemuMemory
  <2>2. q' = [q EXCEPT !.mem = [q.mem EXCEPT ![p] = v]]  BY <1>1
  <2> QED  BY <1>1, <2>1, <2>2 DEF QemuMemory
<1>3. \A x \in Pages \ blacklist' : q'.mem[x] = q.mem[x]
  BY <1>1, <1>2 DEF QemuMemory
<1>4. TypeOK'  BY <1>1, <1>2 DEF IInv, TypeOK
<1>5. Setup(q)'   BY <1>1, <1>2 DEF IInv, MemoryInv, Setup
<1>6. Listing(q)'  BY <1>1, <1>2, <1>3 DEF IInv, MemoryInv, Listing
<1>7. RestoredMemory'  BY <1>1, <1>2, <1>3 DEF IInv, MemoryInv, RestoredMemory
<1>8. NoRepeats(q)'  BY <1>1, <1>2 DEF IInv, MemoryInv, NoRepeats
<1>9. DiskInv'
  BY <1>1, <1>2 DEF IInv, DiskInv, CacheSetup, HoldsDisk, Chunks, Disk, Cached
<1>10. AbortsExplained'  BY <1>1, <1>2 DEF IInv, AbortsExplained
<1> QED  BY <1>4, <1>5, <1>6, <1>7, <1>8, <1>9, <1>10 DEF IInv, MemoryInv

(* The display's bits move from KVM's bitmap to QEMU's. *)
LEMMA DisplayStep ==
  ASSUME IInv, DisplayRefresh
  PROVE  IInv'
<1> USE DEF BitmapOn, UserLogOn, HasSnapshot
<1>1. /\ q \in QemuMemory /\ kvm \in VmxFdlState(Pages)
      /\ UNCHANGED <<workload, shadow, phase, blacklist, cow, disk, fresh>> /\ refreshed' = TRUE
  BY DEF IInv, TypeOK, DisplayRefresh
<1>2. /\ kvm' \in VmxFdlState(Pages)
      /\ kvm'.dirty = kvm.dirty \ Vram
      /\ kvm'.buf = kvm.buf /\ kvm'.logging = kvm.logging
      /\ kvm'.log = kvm.log /\ kvm'.index = kvm.index
  BY <1>1 DEF DisplayRefresh, kvm_get_dirty_log_protect, VmxFdlState
<1>3. /\ q' \in QemuMemory
      /\ q'.migration = (IF BitmapOn THEN q.migration \union (kvm.dirty \intersect Vram)
                                     ELSE q.migration)
      /\ q'.mem = q.mem /\ q'.user = q.user /\ q'.pos = q.pos
      /\ q'.stray = q.stray /\ q'.aborted = q.aborted /\ q'.unlogged = q.unlogged
  BY <1>1 DEF DisplayRefresh, QemuMemory, VmxFdlState
<1>4. TypeOK'  BY <1>1, <1>2, <1>3 DEF IInv, TypeOK
<1>5. Setup(q)'   BY <1>1, <1>2, <1>3 DEF IInv, MemoryInv, Setup
<1>6. Listing(q)'
  <2>1. \A x \in Ram : x \notin Vram  BY ReloadAssumption DEF Ram, Vram
  <2>2. kvm.log # {} => BitmapOn  BY DEF IInv, MemoryInv, Setup
  <2> QED  BY <1>1, <1>2, <1>3, <2>1, <2>2 DEF IInv, MemoryInv, Listing
<1>7. RestoredMemory'  BY <1>1, <1>3 DEF IInv, MemoryInv, RestoredMemory
<1>8. NoRepeats(q)'  BY <1>1, <1>3 DEF IInv, MemoryInv, NoRepeats
<1>9. DiskInv'
  BY <1>1, <1>3 DEF IInv, DiskInv, CacheSetup, HoldsDisk, Chunks, Disk, Cached
<1>10. AbortsExplained'  BY <1>1, <1>3 DEF IInv, AbortsExplained
<1> QED  BY <1>4, <1>5, <1>6, <1>7, <1>8, <1>9, <1>10 DEF IInv, MemoryInv

(* The pages of a request are noted where they have to be, in every phase     *)
(* that devices may interleave with.                                          *)
LEMMA RequestNoted ==
  ASSUME IInv, ~q.aborted, phase # "off", NEW req \in Request,
         NEW r, r = MemoryDone(q, req)
  PROVE  /\ r \in QemuMemory
         /\ Setup(r) /\ Listing(r) /\ NoRepeats(r)
         /\ r.aborted => r.stray \/ CowDone(cow, req).offset_primary >= COW_CACHE_SIZE
         /\ phase = "boot" => r.unlogged = q.unlogged
         /\ req.op # "dma" /\ ~r.aborted => ~(CowDone(cow, req).offset_primary >= COW_CACHE_SIZE)
<1> USE DEF BitmapOn, UserLogOn, HasSnapshot
<1>1. TypeOK /\ q \in QemuMemory /\ Setup(q) /\ Listing(q) /\ NoRepeats(q) /\ phase \in Phases
  BY DEF IInv, TypeOK, MemoryInv
<1>2. CASE req \in Dma
  <2> DEFINE T == Touched(req.at, req.len)
             new == IF UserLogOn THEN Listed(req.at, req.len) \ q.migration ELSE {}
  <2>1. /\ r \in QemuMemory
        /\ r.mem = [p \in Pages |-> IF p \in T THEN req.v ELSE q.mem[p]]
        /\ r.migration = (IF BitmapOn THEN q.migration \union T ELSE q.migration)
        /\ r.user = q.user \union new
        /\ IsFiniteSet(new) /\ r.pos = q.pos + Cardinality(new)
        /\ r.unlogged = q.unlogged \union (IF phase = "copied" THEN T
                             ELSE IF UserLogOn THEN Missed(req.at, req.len) ELSE {})
        /\ r.stray = (q.stray \/ (req.len >= PAGE /\ (phase = "enabled" \/ T \subseteq Vram)))
        /\ r.aborted = (q.aborted \/ (new # {} /\ r.pos >= USER_FDL_SLOTS))
    BY <1>1, <1>2, DmaEffect, Zenon
  <2>2. /\ T \subseteq Pages
        /\ Listed(req.at, req.len) \subseteq Ram
        /\ T \ Missed(req.at, req.len) \subseteq Listed(req.at, req.len) \intersect Ram
        /\ req.len \in Nat
        /\ req.len >= PAGE /\ ~(T \subseteq Vram) => Listed(req.at, req.len) \subseteq T
        /\ req.len < PAGE => Listed(req.at, req.len) = {}
    BY <1>1, <1>2, DmaPages
  <2> HIDE DEF T
  <2>3. Setup(r)
    BY <1>1, <2>1, FS_EmptySet DEF Setup, QemuMemory
  <2>4. Listing(r)
    <3> SUFFICES ASSUME HasSnapshot, NEW x \in Pages \ (blacklist \union r.unlogged)
                 PROVE  /\ r.mem[x] # shadow[x] =>
                             x \in r.user \/ (x \in kvm.log /\ x \in r.migration \union kvm.dirty)
                        /\ x \in Ram /\ x \in r.migration => x \in r.user \union kvm.log
                        /\ phase = "fuzz" /\ x \in kvm.dirty => x \in kvm.log
      BY DEF Listing
    <3>1. x \in Pages \ (blacklist \union q.unlogged)  BY <2>1
    <3>2. /\ q.mem[x] # shadow[x] =>
               x \in q.user \/ (x \in kvm.log /\ x \in q.migration \union kvm.dirty)
          /\ x \in Ram /\ x \in q.migration => x \in q.user \union kvm.log
          /\ phase = "fuzz" /\ x \in kvm.dirty => x \in kvm.log
      BY <1>1, <3>1 DEF Listing
    <3>3. CASE x \notin T
      BY <2>1, <3>2, <3>3
    <3>4. CASE x \in T
      <4>1. phase # "copied" /\ x \notin Missed(req.at, req.len)  BY <2>1, <3>4
      <4>2. x \in Listed(req.at, req.len) /\ x \in Ram  BY <2>2, <3>4, <4>1
      <4>3. CASE x \notin q.migration
        BY <2>1, <3>2, <4>1, <4>2, <4>3
      <4>4. CASE x \in q.migration
        BY <2>1, <3>2, <4>2, <4>4
      <4> QED  BY <4>3, <4>4
    <3> QED  BY <3>3, <3>4
  <2>5. ASSUME ~r.stray PROVE r.pos = Cardinality(r.user) /\ r.user \subseteq r.migration
    <3>1. ~q.stray /\ q.pos = Cardinality(q.user) /\ q.user \subseteq q.migration
      BY <1>1, <2>1, <2>5, Zenon DEF NoRepeats
    <3>2. new \intersect q.user = {}  BY <3>1
    <3>3. IsFiniteSet(q.user) /\ q.user \subseteq Ram
      BY <1>1, PagesAreFinite DEF QemuMemory
    <3>4. Cardinality(q.user \union new) = Cardinality(q.user) + Cardinality(new)
      <4> HIDE DEF new
      <4>1. q.user \intersect new = {}  BY <3>2
      <4>2. Cardinality(q.user) \in Nat /\ Cardinality(new) \in Nat
        BY <2>1, <3>3, FS_CardinalityType
      <4>3. Cardinality(q.user \union new)
              = Cardinality(q.user) + Cardinality(new) - Cardinality(q.user \intersect new)
        BY <2>1, <3>3, FS_Union
      <4>4. Cardinality(q.user \intersect new) = 0  BY <4>1, FS_EmptySet
      <4> QED  BY <4>2, <4>3, <4>4
    <3>5. new # {} => req.len >= PAGE /\ BitmapOn /\ new \subseteq T
      <4>1. ~(req.len >= PAGE /\ (phase = "enabled" \/ T \subseteq Vram))  BY <2>1, <2>5, Zenon
      <4> QED  BY <1>1, <2>2, <4>1 DEF Phases, PAGE
    <3> QED  BY <2>1, <3>1, <3>4, <3>5
  <2>6. NoRepeats(r)  BY <1>1, <2>5 DEF NoRepeats
  <2>7. r.aborted => r.stray
    <3>1. Cardinality(r.user) <= RamPages  BY <2>1, PagesAreFinite DEF QemuMemory
    <3>2. r.pos \in Nat /\ r.stray \in BOOLEAN  BY <2>1 DEF QemuMemory
    <3>3. r.aborted => r.pos >= USER_FDL_SLOTS  BY <2>1, Zenon
    <3> QED  BY <2>5, <3>1, <3>2, <3>3, ReloadAssumption
  <2> QED  BY <1>2, <2>1, <2>3, <2>4, <2>6, <2>7 DEF Dma
<1>3. CASE req \notin Dma
  <2>1. /\ r \in QemuMemory
        /\ r = [q EXCEPT !.aborted = @ \/ CowDone(cow, req).offset_primary >= COW_CACHE_SIZE]
    BY <1>1, <1>3, NoDmaEffect
  <2>2. /\ r.mem = q.mem /\ r.migration = q.migration /\ r.user = q.user /\ r.pos = q.pos
        /\ r.stray = q.stray /\ r.unlogged = q.unlogged
        /\ r.aborted = (q.aborted \/ CowDone(cow, req).offset_primary >= COW_CACHE_SIZE)
    BY <1>1, <2>1 DEF QemuMemory
  <2>3. Setup(r) /\ Listing(r) /\ NoRepeats(r)
    BY <1>1, <2>2 DEF Setup, Listing, NoRepeats
  <2> QED  BY <2>1, <2>2, <2>3, Zenon
<1> QED  BY <1>2, <1>3

(* After a request the cache again holds the disk's content. *)
LEMMA RequestCached ==
  ASSUME IInv, ~q.aborted, phase # "off", NEW req \in Request
  PROVE  /\ HoldsDisk(CowDone(cow, req), DiskDone(disk, req))
         /\ CowDone(cow, req) \in CowCache /\ DiskDone(disk, req) \in Disk
         /\ CowDone(cow, req).enabled_fuzz = cow.enabled_fuzz
         /\ ~cow.enabled_fuzz /\ ~MemoryDone(q, req).aborted =>
              CowDone(cow, req).offset_primary < COW_CACHE_SIZE
<1> DEFINE c == CowDone(cow, req)
           r == MemoryDone(q, req)
<1>1. TypeOK /\ HoldsDisk(cow, disk) /\ (~cow.enabled_fuzz => cow.offset_primary < COW_CACHE_SIZE)
  BY DEF IInv, DiskInv, CacheSetup
<1>2. HoldsDisk(c, DiskDone(disk, req)) /\ c.enabled_fuzz = cow.enabled_fuzz
  BY <1>1, RequestDone
<1>3. c \in CowCache /\ DiskDone(disk, req) \in Disk  BY <1>2 DEF HoldsDisk, Cached
<1>4. ASSUME ~cow.enabled_fuzz, ~r.aborted PROVE c.offset_primary < COW_CACHE_SIZE
  <2>1. CASE req.op = "dma"
    BY <1>1, <1>4, <2>1 DEF CowDone
  <2>2. CASE req.op # "dma"
    <3>1. ~(c.offset_primary >= COW_CACHE_SIZE)  BY <1>4, <2>2, RequestNoted
    <3>2. c.offset_primary \in Nat  BY <1>3, CowSizeAssumption DEF CowCache
    <3> QED  BY <3>1, <3>2, CowSizeAssumption
  <2> QED  BY <2>1, <2>2
<1> QED  BY <1>2, <1>3, <1>4

(* A device delivers data or carries out a disk write. *)
LEMMA DeviceStep ==
  ASSUME IInv, ~q.aborted, NEW req \in Request, Device(req)
  PROVE  IInv'
<1> USE DEF BitmapOn, UserLogOn, HasSnapshot
<1>1. /\ phase # "off" /\ q' = MemoryDone(q, req)
      /\ cow' = CowDone(cow, req) /\ disk' = DiskDone(disk, req) /\ fresh' = FALSE
      /\ UNCHANGED <<workload, shadow, phase, kvm, blacklist, refreshed>>
  BY DEF Device
<1>2. /\ q' \in QemuMemory /\ Setup(q') /\ Listing(q') /\ NoRepeats(q')
      /\ q'.aborted => q'.stray \/ cow'.offset_primary >= COW_CACHE_SIZE
  BY <1>1, RequestNoted
<1>3. /\ HoldsDisk(cow', disk') /\ cow' \in CowCache /\ disk' \in Disk
      /\ cow'.enabled_fuzz = cow.enabled_fuzz
      /\ ~cow.enabled_fuzz /\ ~q'.aborted => cow'.offset_primary < COW_CACHE_SIZE
  BY <1>1, RequestCached
<1>4. TypeOK'  BY <1>1, <1>2, <1>3, Zenon DEF IInv, TypeOK
<1>5. Setup(q)' /\ Listing(q)' /\ NoRepeats(q)'
  BY <1>1, <1>2 DEF Setup, Listing, NoRepeats
<1>6. RestoredMemory'  BY <1>1 DEF RestoredMemory
<1>7. HoldsDisk(cow, disk)'
  BY <1>3 DEF HoldsDisk, Chunks, Disk, Cached
<1>8. CacheSetup'  BY <1>1, <1>3 DEF IInv, DiskInv, CacheSetup
<1>9. AbortsExplained'  BY <1>2 DEF AbortsExplained
<1> QED  BY <1>4, <1>5, <1>6, <1>7, <1>8, <1>9 DEF IInv, MemoryInv, DiskInv

(* Memory is copied. *)
LEMMA CopyStep ==
  ASSUME IInv, ~q.aborted, NEW last \in Request, alloc_shadow_memory(last)
  PROVE  IInv'
<1> USE DEF BitmapOn, UserLogOn, HasSnapshot
<1>1. /\ phase = "boot" /\ phase' = "copied" /\ q' = MemoryDone(q, last)
      /\ shadow' = q'.mem
      /\ cow' = CowDone(cow, last) /\ disk' = DiskDone(disk, last)
      /\ UNCHANGED <<workload, kvm, blacklist, fresh, refreshed>>
  BY DEF alloc_shadow_memory
<1>2. /\ q' \in QemuMemory /\ Setup(q') /\ Listing(q') /\ NoRepeats(q')
      /\ q'.aborted => q'.stray \/ cow'.offset_primary >= COW_CACHE_SIZE
  BY <1>1, RequestNoted
<1>3. /\ HoldsDisk(cow', disk') /\ cow' \in CowCache /\ disk' \in Disk
      /\ cow'.enabled_fuzz = cow.enabled_fuzz
      /\ ~cow.enabled_fuzz /\ ~q'.aborted => cow'.offset_primary < COW_CACHE_SIZE
  BY <1>1, RequestCached
<1>4. TypeOK'  BY <1>1, <1>2, <1>3 DEF IInv, TypeOK, Phases, QemuMemory
<1>5. Setup(q)' /\ NoRepeats(q)'
  BY <1>1, <1>2 DEF Setup, NoRepeats
<1>6. Listing(q)'  BY <1>1, <1>5 DEF Listing, Setup
<1>7. RestoredMemory'  BY <1>1, <1>2 DEF RestoredMemory, Setup
<1>8. HoldsDisk(cow, disk)'
  BY <1>3 DEF HoldsDisk, Chunks, Disk, Cached
<1>9. CacheSetup'  BY <1>1, <1>3 DEF IInv, DiskInv, CacheSetup
<1>10. AbortsExplained'  BY <1>2 DEF AbortsExplained
<1> QED  BY <1>4, <1>5, <1>6, <1>7, <1>8, <1>9, <1>10 DEF IInv, MemoryInv, DiskInv

(* The logs are readied, and the disk is switched over. *)
LEMMA EnableStep ==
  ASSUME IInv, fast_reload_qemu_user_fdl_enable
  PROVE  IInv'
<1> USE DEF BitmapOn, UserLogOn, HasSnapshot
<1>1. /\ phase = "copied" /\ phase' = "enabled" /\ kvm' = fdl_dirty_tracking_init(kvm)
      /\ cow' = [cow EXCEPT !.enabled_fuzz = TRUE]
      /\ disk' = [disk EXCEPT !.then = disk.now, !.odd_then = disk.odd]
      /\ UNCHANGED <<workload, q, shadow, blacklist, fresh, refreshed>>
  BY DEF fast_reload_qemu_user_fdl_enable, switch_to_fuzz_mode
<1>2. kvm \in VmxFdlState(Pages) /\ cow \in CowCache /\ disk \in Disk /\ ~kvm.buf
  BY <1>1 DEF IInv, TypeOK, MemoryInv, Setup
<1>3. /\ kvm' \in VmxFdlState(Pages) /\ kvm'.log = {} /\ kvm'.index = 0
      /\ kvm'.dirty = kvm.dirty /\ kvm'.logging = kvm.logging
  <2>1. kvm' = [kvm EXCEPT !.buf = TRUE, !.buf_size = FdlSize, !.index = 0, !.log = {}]
    BY <1>1, <1>2, Zenon DEF fdl_dirty_tracking_init, KVM_VMX_FDL_FLUSH, vmx_fdl_realloc_memory,
                      VmxFdlState
  <2> QED  BY <1>2, <2>1, ReloadAssumption, Zenon DEF VmxFdlState
<1>4. /\ disk' \in Disk /\ disk'.now = disk.now /\ disk'.odd = disk.odd
      /\ disk'.then = disk.now /\ disk'.odd_then = disk.odd
  BY <1>1, <1>2, Zenon DEF Disk
<1>5. /\ cow' \in CowCache /\ cow'.enabled_fuzz = TRUE /\ cow'.full = cow.full
      /\ cow'.lookup_primary = cow.lookup_primary /\ cow'.data_primary = cow.data_primary
      /\ cow'.offset_primary = cow.offset_primary
      /\ cow'.lookup_secondary = cow.lookup_secondary
      /\ cow'.offset_secondary = cow.offset_secondary
  BY <1>1, <1>2, Zenon DEF CowCache
<1>6. TypeOK'  BY <1>1, <1>3, <1>4, <1>5 DEF IInv, TypeOK, Phases
<1>7. Setup(q)' /\ RestoredMemory'
  BY <1>1, <1>3 DEF IInv, MemoryInv, Setup, RestoredMemory
<1>8. NoRepeats(q)'
  BY <1>1, <1>3, FS_EmptySet DEF IInv, MemoryInv, NoRepeats
<1>9. Listing(q)'
  BY <1>1, <1>3 DEF IInv, MemoryInv, Setup, Listing
<1>10. HoldsDisk(cow, disk)'
  <2>1. /\ HoldsDisk(cow, disk) /\ ~cow.enabled_fuzz /\ ~cow.full
        /\ cow.lookup_secondary = NoEntries
    BY <1>1, Zenon DEF IInv, DiskInv, CacheSetup, HoldsDisk
  <2>2. \A x \in Chunks : /\ cow_cache_read(cow, Image, x) = PrimaryRead(cow, x)
                          /\ cow_cache_read(cow', Image, x) = PrimaryRead(cow, x)
                          /\ PrimaryRead(cow', x) = PrimaryRead(cow, x)
    BY <1>5, <2>1 DEF cow_cache_read, PrimaryRead, Image, Chunks, NoEntries, Absent
  <2>3. Cached(cow')
    BY <1>5, <2>1 DEF HoldsDisk, Cached
  <2> QED  BY <1>4, <1>5, <2>1, <2>2, <2>3 DEF HoldsDisk, Chunks, Disk, Cached
<1>11. CacheSetup' /\ AbortsExplained'
  BY <1>1, <1>5, Zenon DEF IInv, CacheSetup, AbortsExplained
<1> QED  BY <1>6, <1>7, <1>8, <1>9, <1>10, <1>11 DEF IInv, MemoryInv, DiskInv

(* QEMU's bitmap is cleared and every slot gets a bitmap in the kernel. *)
LEMMA ResetStep ==
  ASSUME IInv, reset_dirty_tracking
  PROVE  IInv'
<1> USE DEF BitmapOn, UserLogOn, HasSnapshot
<1>1. /\ phase = "enabled" /\ phase' = "logging"
      /\ q' = [q EXCEPT !.migration = {}] /\ kvm' = [kvm EXCEPT !.logging = Pages]
      /\ UNCHANGED <<workload, shadow, blacklist, cow, disk, fresh, refreshed>>
  BY DEF reset_dirty_tracking, memory_global_dirty_log_start
<1>2. kvm \in VmxFdlState(Pages) /\ q \in QemuMemory
  BY DEF IInv, TypeOK
<1>3. /\ kvm' \in VmxFdlState(Pages) /\ kvm'.log = kvm.log /\ kvm'.index = kvm.index
      /\ kvm'.dirty = kvm.dirty /\ kvm'.logging = Pages /\ kvm'.buf = kvm.buf
  BY <1>1, <1>2 DEF VmxFdlState
<1>4. q' = q
  <2>1. q.migration = {}  BY <1>1 DEF IInv, MemoryInv, Setup
  <2> QED  BY <1>1, <1>2, <2>1 DEF QemuMemory
<1>5. TypeOK'  BY <1>1, <1>3, <1>4 DEF IInv, TypeOK, Phases
<1>6. Setup(q)' /\ RestoredMemory'
  BY <1>1, <1>3, <1>4 DEF IInv, MemoryInv, Setup, RestoredMemory
<1>7. Listing(q)' /\ NoRepeats(q)'
  BY <1>1, <1>3, <1>4 DEF IInv, MemoryInv, Listing, NoRepeats, Setup
<1>8. DiskInv'
  BY <1>1, <1>4 DEF IInv, DiskInv, CacheSetup, HoldsDisk, Chunks, Disk, Cached
<1>9. AbortsExplained'  BY <1>1, <1>4 DEF IInv, AbortsExplained
<1> QED  BY <1>5, <1>6, <1>7, <1>8, <1>9 DEF IInv, MemoryInv

(* A restore, for the memory: what the lists name is copied back. *)
LEMMA RestoreMemoryStep ==
  ASSUME IInv, ~q.aborted, NEW last \in Request, fast_reload_restore(last)
  PROVE  MemoryInv' /\ q' \in QemuMemory /\ kvm' \in VmxFdlState(Pages)
         /\ q'.aborted = MemoryDone(q, last).aborted
         /\ (q'.aborted => q'.stray \/ CowDone(cow, last).offset_primary >= COW_CACHE_SIZE)
<1> USE DEF BitmapOn, UserLogOn, HasSnapshot
<1> DEFINE r == MemoryDone(q, last)
           bitmap == (r.migration \union kvm.dirty) \ blacklist
           copied == (kvm.log \intersect bitmap) \union r.user
           stray == r.stray /\ r.aborted
           mem == [p \in Pages |-> IF p \in copied THEN shadow[p] ELSE r.mem[p]]
<1>1. /\ phase \in {"logging", "fuzz"} /\ phase' = "fuzz" /\ kvm' = RestoreKvm(kvm)
      /\ fresh' = TRUE /\ refreshed' = FALSE
      /\ UNCHANGED <<workload, shadow, blacklist>>
  BY DEF fast_reload_restore
<1>2. q' = [r EXCEPT !.mem = mem, !.migration = bitmap \ copied, !.user = {}, !.pos = 0,
                     !.unlogged = r.unlogged \ copied, !.stray = stray]
  BY DEF fast_reload_restore, RestoreMemory, memory_global_dirty_log_sync, find_dirty_pages_fdl
<1>3. /\ r \in QemuMemory /\ Setup(r) /\ Listing(r) /\ NoRepeats(r)
      /\ r.aborted => r.stray \/ CowDone(cow, last).offset_primary >= COW_CACHE_SIZE
  BY <1>1, RequestNoted
<1>4. kvm \in VmxFdlState(Pages) /\ shadow \in [Pages -> Values]  BY DEF IInv, TypeOK
<1>5. /\ kvm' \in VmxFdlState(Pages) /\ kvm'.log = {} /\ kvm'.index = 0 /\ kvm'.dirty = {}
      /\ kvm'.logging = kvm.logging
  <2>1. kvm' = [kvm EXCEPT !.dirty = kvm.dirty \ Pages, !.index = 0, !.log = {}]
    BY <1>1 DEF RestoreKvm, KVM_VMX_FDL_GET_INDEX, KVM_VMX_FDL_FLUSH, kvm_get_dirty_log_protect
  <2> QED  BY <1>4, <2>1, Zenon DEF VmxFdlState
<1>6. stray \in BOOLEAN /\ mem \in [Pages -> Values] /\ bitmap \subseteq Pages
      /\ copied \subseteq Pages
  BY <1>3, <1>4 DEF QemuMemory, VmxFdlState, Pages
<1> HIDE DEF r, bitmap, copied, stray, mem
<1>7. /\ q' \in QemuMemory
      /\ q'.mem = mem /\ q'.migration = bitmap \ copied /\ q'.user = {} /\ q'.pos = 0
      /\ q'.unlogged = r.unlogged \ copied /\ q'.stray = stray /\ q'.aborted = r.aborted
  BY <1>2, <1>3, <1>6, Zenon DEF QemuMemory
<1>8. Setup(q)'  BY <1>1, <1>3, <1>5, Zenon DEF Setup
<1>9. ASSUME NEW p \in Pages \ (blacklist \union q'.unlogged)
      PROVE  q'.mem[p] = shadow[p] /\ (p \in Ram => p \notin q'.migration)
  <2>1. CASE p \in copied
    BY <1>7, <2>1 DEF mem
  <2>2. CASE p \notin copied
    <3>1. p \in Pages \ (blacklist \union r.unlogged)  BY <1>7, <2>2
    <3>2. /\ r.mem[p] # shadow[p] =>
               p \in r.user \/ (p \in kvm.log /\ p \in r.migration \union kvm.dirty)
          /\ p \in Ram /\ p \in r.migration => p \in r.user \union kvm.log
          /\ phase = "fuzz" /\ p \in kvm.dirty => p \in kvm.log
      BY <1>1, <1>3, <3>1 DEF Listing
    <3>3. q'.mem[p] = r.mem[p]  BY <1>7, <2>2 DEF mem
    <3>4. r.mem[p] = shadow[p]  BY <2>2, <3>1, <3>2 DEF copied, bitmap
    <3>5. p \in Ram => p \notin bitmap
      <4>1. p \in Ram => p \notin Vram  BY ReloadAssumption DEF Ram, Vram
      <4>2. phase = "logging" => kvm.dirty \subseteq Vram  BY <1>3 DEF Setup
      <4> QED  BY <1>1, <2>2, <3>1, <3>2, <4>1, <4>2 DEF copied, bitmap
    <3> QED  BY <1>7, <3>3, <3>4, <3>5
  <2> QED  BY <2>1, <2>2
<1>10. Listing(q)'
  BY <1>1, <1>5, <1>9 DEF Listing
<1>11. RestoredMemory'
  BY <1>1, <1>9 DEF RestoredMemory
<1>12. NoRepeats(q)'
  BY <1>5, <1>7, FS_EmptySet DEF NoRepeats
<1>13. q'.aborted => q'.stray \/ CowDone(cow, last).offset_primary >= COW_CACHE_SIZE
  BY <1>3, <1>7, Zenon DEF stray
<1> QED  BY <1>5, <1>7, <1>8, <1>10, <1>11, <1>12, <1>13 DEF MemoryInv, r

(* A restore: the secondary buffer is emptied, too. *)
LEMMA RestoreStep ==
  ASSUME IInv, ~q.aborted, NEW last \in Request, fast_reload_restore(last)
  PROVE  IInv'
<1> USE DEF BitmapOn, UserLogOn
<1> DEFINE c == CowDone(cow, last)
<1>1. /\ phase \in {"logging", "fuzz"} /\ phase' = "fuzz" /\ cow' = RestoreCow(c)
      /\ disk' = [disk EXCEPT !.now = disk.then, !.odd = disk.odd_then]
      /\ fresh' = TRUE /\ refreshed' = FALSE
      /\ UNCHANGED <<workload, shadow, blacklist>>
  BY DEF fast_reload_restore
<1>2. /\ HoldsDisk(c, DiskDone(disk, last)) /\ c \in CowCache /\ c.enabled_fuzz = TRUE
      /\ cow.enabled_fuzz = TRUE
  BY <1>1, RequestCached, Zenon DEF IInv, DiskInv, CacheSetup
<1>3. /\ DiskDone(disk, last).then = disk.then /\ DiskDone(disk, last).odd_then = disk.odd_then
      /\ c.offset_primary = cow.offset_primary
  BY <1>2, RequestDone DEF IInv, DiskInv
<1> HIDE DEF c
<1>4. /\ cow' \in CowCache /\ cow'.enabled_fuzz = TRUE /\ cow'.full = FALSE
      /\ cow'.lookup_primary = c.lookup_primary /\ cow'.data_primary = c.data_primary
      /\ cow'.offset_primary = c.offset_primary
      /\ cow'.lookup_secondary = NoEntries /\ cow'.offset_secondary = 0
  <2>1. NoEntries \in Lookup(COW_CACHE_SECONDARY_SIZE)  BY DEF NoEntries, Lookup
  <2>2. cow' = [c EXCEPT !.offset_secondary = 0, !.lookup_secondary = NoEntries, !.full = FALSE]
    BY <1>1, <1>2, Zenon DEF RestoreCow, cow_cache_reset
  <2>3. 0 \in 0 .. COW_CACHE_SECONDARY_SIZE  BY CowSizeAssumption
  <2>4. cow' \in CowCache  BY <1>2, <2>1, <2>2, <2>3, Zenon DEF CowCache
  <2> QED  BY <1>2, <2>2, <2>4 DEF CowCache
<1>5. /\ disk' \in Disk /\ disk'.now = disk.then /\ disk'.odd = disk.odd_then
      /\ disk'.then = disk.then /\ disk'.odd_then = disk.odd_then
  BY <1>1, Zenon DEF IInv, TypeOK, Disk
<1>6. HoldsDisk(cow, disk)'
  <2>1. \A x \in Chunks : /\ cow_cache_read(cow', Image, x) = PrimaryRead(c, x)
                          /\ PrimaryRead(cow', x) = PrimaryRead(c, x)
    BY <1>4 DEF cow_cache_read, PrimaryRead, Image, Chunks, NoEntries, Absent
  <2>2. Cached(cow')
    BY <1>2, <1>4 DEF HoldsDisk, Cached, OneSlotEach, NoEntries
  <2> QED  BY <1>2, <1>3, <1>4, <1>5, <2>1, <2>2 DEF HoldsDisk, Chunks, Disk, Cached
<1>7. /\ MemoryInv' /\ q' \in QemuMemory /\ kvm' \in VmxFdlState(Pages)
      /\ (q'.aborted => q'.stray \/ c.offset_primary >= COW_CACHE_SIZE)
  BY RestoreMemoryStep DEF c
<1>8. TypeOK'  BY <1>1, <1>4, <1>5, <1>7, Zenon DEF IInv, TypeOK, Phases
<1>9. CacheSetup' /\ AbortsExplained'
  BY <1>1, <1>4, <1>7, Zenon DEF CacheSetup, AbortsExplained
<1> QED  BY <1>6, <1>7, <1>8, <1>9 DEF IInv, DiskInv

(* A process joins a snapshot. *)
LEMMA JoinStep ==
  ASSUME IInv, ~q.aborted, fast_reload_create_from_file
  PROVE  IInv'
<1> USE DEF BitmapOn, UserLogOn, HasSnapshot
<1>1. PICK m \in [Pages -> Values], B \in SUBSET workload.payload,
           held \in SUBSET (IF workload.disk THEN Chunks ELSE {}), v \in Values :
        /\ shadow' = m
        /\ q' = [q EXCEPT !.mem = m, !.migration = {}]
        /\ blacklist' = B
        /\ Cardinality(held) <= MaxHeld
        /\ cow' = read_primary_buffer(cow, held, v)
        /\ disk' = LET now == [c \in Chunks |-> IF c \in held THEN v ELSE Zero]
                   IN [now |-> now, odd |-> {}, then |-> now, odd_then |-> {}]
  BY Zenon DEF fast_reload_create_from_file
<1>2. /\ phase = "off" /\ phase' = "fuzz"
      /\ kvm' = memory_global_dirty_log_start(fdl_dirty_tracking_init(kvm))
      /\ UNCHANGED <<workload, fresh, refreshed>>
  BY DEF fast_reload_create_from_file
<1>3. q \in QemuMemory /\ kvm \in VmxFdlState(Pages) /\ cow \in CowCache
  BY DEF IInv, TypeOK
<1>4. /\ kvm' \in VmxFdlState(Pages) /\ kvm'.log = {} /\ kvm'.index = 0
      /\ kvm'.dirty = {} /\ kvm'.logging = Pages
  <2>1. ~kvm.buf /\ kvm.dirty = {}  BY <1>2 DEF IInv, MemoryInv, Setup
  <2>2. kvm' = [kvm EXCEPT !.buf = TRUE, !.buf_size = FdlSize, !.index = 0, !.log = {},
                           !.logging = Pages]
    BY <1>2, <1>3, <2>1, Zenon DEF fdl_dirty_tracking_init, KVM_VMX_FDL_FLUSH, vmx_fdl_realloc_memory,
                      memory_global_dirty_log_start, VmxFdlState
  <2> QED  BY <1>3, <2>1, <2>2, ReloadAssumption, Zenon DEF VmxFdlState
<1>5. /\ q' \in QemuMemory /\ q'.mem = m /\ q'.migration = {} /\ q'.user = q.user /\ q'.pos = q.pos
      /\ q'.stray = q.stray /\ q'.aborted = q.aborted
  BY <1>1, <1>3, Zenon DEF QemuMemory
<1>6. Setup(q)' /\ Listing(q)' /\ NoRepeats(q)' /\ RestoredMemory'
  <2>1. ~fresh /\ q.user = {} /\ q.pos = 0  BY <1>2 DEF IInv, MemoryInv, Setup
  <2>2. Setup(q)' /\ Listing(q)'  BY <1>1, <1>2, <1>4, <1>5 DEF Setup, Listing
  <2> QED  BY <1>2, <1>4, <1>5, <2>1, <2>2, FS_EmptySet DEF NoRepeats, RestoredMemory
<1> DEFINE lookup == [o \in Offsets |-> IF o \in held THEN 0 ELSE Absent]
           now == [c \in Chunks |-> IF c \in held THEN v ELSE Zero]
<1>7. held \subseteq Chunks /\ held \subseteq Offsets /\ \A x, y \in held : x = y
  <2>1. held \subseteq Chunks /\ held \subseteq Offsets  BY DEF Chunks
  <2>2. IsFiniteSet(held)  BY <2>1, FS_Subset, CowSizeAssumption, Zenon
  <2>3. Cardinality(held) <= 1  BY <1>1 DEF MaxHeld
  <2> QED  BY <2>1, <2>2, <2>3, AtMostOne
<1>8. /\ cow' \in CowCache /\ cow'.enabled_fuzz = TRUE /\ cow'.full = cow.full
      /\ cow'.lookup_primary = lookup /\ cow'.data_primary = [cow.data_primary EXCEPT ![0] = v]
      /\ cow'.offset_primary = (IF held = {} THEN 0 ELSE 1)
      /\ cow'.lookup_secondary = cow.lookup_secondary
      /\ cow'.offset_secondary = cow.offset_secondary
  <2>1. lookup \in Lookup(COW_CACHE_SIZE)  BY CowSizeAssumption DEF Lookup
  <2>2. cow' = [cow EXCEPT !.lookup_primary = lookup,
                           !.data_primary = [cow.data_primary EXCEPT ![0] = v],
                           !.offset_primary = IF held = {} THEN 0 ELSE 1,
                           !.enabled_fuzz = TRUE]
    BY <1>1, <1>3 DEF read_primary_buffer, switch_to_fuzz_mode, CowCache
  <2>3. (IF held = {} THEN 0 ELSE 1) \in 0 .. COW_CACHE_SIZE  BY CowSizeAssumption
  <2>4. [cow.data_primary EXCEPT ![0] = v] \in [0 .. COW_CACHE_SIZE - 1 -> Values]
    BY <1>3, Zenon DEF CowCache
  <2> HIDE DEF lookup
  <2>5. cow' \in CowCache  BY <1>3, <2>1, <2>2, <2>3, <2>4, Zenon DEF CowCache
  <2> QED  BY <1>3, <2>2, <2>5, Zenon DEF CowCache
<1>9. HoldsDisk(cow, disk)'
  <2>1. /\ HoldsDisk(cow, disk) /\ ~cow.enabled_fuzz /\ ~cow.full
        /\ cow.lookup_secondary = NoEntries
    BY <1>2, Zenon DEF IInv, DiskInv, CacheSetup, HoldsDisk
  <2>2. now \in [Chunks -> Values]  BY ReloadAssumption
  <2>3. disk' = [now |-> now, odd |-> {}, then |-> now, odd_then |-> {}]  BY <1>1
  <2>4. disk' \in Disk /\ disk'.now = now /\ disk'.then = now
    BY <2>2, <2>3 DEF Disk
  <2>5. cow'.data_primary[0] = v
    BY <1>3, <1>8, CowSizeAssumption DEF CowCache
  <2>6. \A x \in Chunks : PrimaryRead(cow', x) = now[x]
    BY <1>8, <2>5 DEF PrimaryRead, Chunks, Absent
  <2>7. \A x \in Chunks : cow_cache_read(cow', Image, x) = PrimaryRead(cow', x)
    BY <1>8, <2>1 DEF cow_cache_read, PrimaryRead, Image, Chunks, NoEntries, Absent
  <2>8. OneSlotEach(cow'.lookup_primary, cow'.offset_primary)
    BY <1>7, <1>8 DEF OneSlotEach, Absent
  <2>9. Cached(cow')
    BY <1>8, <2>1, <2>8 DEF HoldsDisk, Cached
  <2> QED  BY <1>8, <2>1, <2>4, <2>6, <2>7, <2>9, Zenon DEF HoldsDisk, Chunks, Disk, Cached
<1>10. TypeOK'
  <2>1. blacklist' \subseteq Ram  BY <1>1, WorkloadAssumption DEF IInv, TypeOK
  <2>2. disk' \in Disk  BY <1>9 DEF HoldsDisk, Disk, Chunks
  <2> QED  BY <1>1, <1>2, <1>4, <1>5, <1>8, <2>1, <2>2 DEF IInv, TypeOK, Phases
<1>11. CacheSetup' /\ AbortsExplained'
  BY <1>2, <1>5, <1>8, Zenon DEF CacheSetup, AbortsExplained
<1> QED  BY <1>6, <1>9, <1>10, <1>11 DEF IInv, MemoryInv, DiskInv

-----------------------------------------------------------------------------
(* The machine has not been started: everything is blank. *)
LEMMA InitInv == Init => IInv
<1> SUFFICES ASSUME Init PROVE IInv  OBVIOUS
<1> USE DEF Init, BitmapOn, UserLogOn, HasSnapshot
<1>1. q \in QemuMemory /\ shadow \in [Pages -> Values]
  BY ReloadAssumption DEF QemuMemory, Blank
<1>2. kvm \in VmxFdlState(Pages)  BY DEF vmx_fdl_setup, VmxFdlState, Pages
<1>3. disk \in Disk  BY ReloadAssumption DEF Disk
<1>4. cow \in CowCache
  BY ReloadAssumption, CowSizeAssumption DEF cow_cache_new, CowCache, Lookup, NoEntries
<1>5. TypeOK  BY <1>1, <1>2, <1>3, <1>4, Zenon DEF TypeOK, Phases
<1>6. MemoryInv
  BY FS_EmptySet DEF MemoryInv, Setup, Listing, NoRepeats, RestoredMemory, vmx_fdl_setup
<1>7. Cached(cow)
  BY <1>4 DEF Cached, cow_cache_new, OneSlotEach, NoEntries
<1>8. HoldsDisk(cow, disk)
  BY <1>3, <1>7 DEF HoldsDisk, cow_cache_new, cow_cache_read, NoEntries, Image, Chunks
<1>9. CacheSetup
  <2>1. cow.enabled_fuzz = FALSE /\ cow.offset_primary = 0 /\ 0 < COW_CACHE_SIZE
    BY CowSizeAssumption DEF cow_cache_new
  <2>2. UserLogOn = FALSE  OBVIOUS
  <2> QED  BY <2>1, <2>2, Zenon DEF CacheSetup
<1>10. AbortsExplained  BY DEF AbortsExplained
<1> QED  BY <1>5, <1>6, <1>8, <1>9, <1>10 DEF IInv, DiskInv

(* Every step of the guest, the fuzzer, the devices and the handlers keeps it. *)
LEMMA NextInv == IInv /\ [Next]_vars => IInv'
<1> SUFFICES ASSUME IInv, [Next]_vars PROVE IInv'  OBVIOUS
<1>1. workload \in Workloads /\ workload.pages \subseteq Pages /\ workload.payload \subseteq Ram
      /\ Ram \subseteq Pages
  BY WorkloadAssumption DEF IInv, TypeOK, Pages
<1>2. CASE UNCHANGED vars
  BY <1>2 DEF vars, IInv, TypeOK, MemoryInv, Setup, Listing, NoRepeats, RestoredMemory,
     DiskInv, CacheSetup, HoldsDisk, Cached, AbortsExplained, BitmapOn, UserLogOn, HasSnapshot
<1>3. CASE ~q.aborted /\ \E p \in workload.pages, v \in Values : GuestWrite(p, v) \/ FuzzerWrite(p, v)
  BY <1>1, <1>3, GuestWriteStep, PayloadStep
<1>4. CASE ~q.aborted /\ \E p \in workload.payload, v \in Values : fast_reload_blacklist_page(p, v)
  BY <1>1, <1>4, PayloadStep
<1>5. CASE ~q.aborted /\ \E req \in Dma \union DiskWrite : Device(req)
  BY <1>5, DeviceStep DEF Request
<1>6. CASE ~q.aborted /\ DisplayRefresh
  BY <1>6, DisplayStep
<1>7. CASE ~q.aborted /\ \E last \in Request : alloc_shadow_memory(last)
  BY <1>7, CopyStep
<1>8. CASE ~q.aborted /\ fast_reload_qemu_user_fdl_enable
  BY <1>8, EnableStep
<1>9. CASE ~q.aborted /\ reset_dirty_tracking
  BY <1>9, ResetStep
<1>10. CASE ~q.aborted /\ fast_reload_create_from_file
  BY <1>10, JoinStep
<1>11. CASE ~q.aborted /\ \E last \in Request : fast_reload_restore(last)
  BY <1>11, RestoreStep
<1> QED
  BY <1>2, <1>3, <1>4, <1>5, <1>6, <1>7, <1>8, <1>9, <1>10, <1>11, Zenon DEF Next

(* So the invariant always holds. *)
LEMMA Invariance == Spec => []IInv
BY InitInv, NextInv, PTL DEF Spec

(* Every component has its type: in particular the index of the primary      *)
(* buffer never exceeds its slots, and the tables only name slots there are. *)
THEOREM TypeCorrect == Spec => []TypeOK
<1>1. IInv => TypeOK  BY DEF IInv
<1> QED  BY <1>1, Invariance, PTL

(* For any size of memory and any bound of the kernel's log, after a restore *)
(* guest memory is that of the snapshot, up to the payload's pages and the   *)
(* pages written in a way the logs cannot see.                               *)
THEOREM Restored == Spec => []RestoredMemory
<1>1. IInv => RestoredMemory  BY DEF IInv, MemoryInv
<1> QED  BY <1>1, Invariance, PTL

(* Neither log outgrows its array, up to the refreshes of the display and the *)
(* whole-page writes to its memory: the logs hold no page twice.              *)
THEOREM NoOverrun == Spec => []LogsFit
<1>1. IInv => LogsFit
  <2> SUFFICES ASSUME IInv PROVE LogsFit  OBVIOUS
  <2>1. kvm.log \subseteq Pages  BY DEF IInv, TypeOK, VmxFdlState
  <2>2. Cardinality(kvm.log) <= RamPages + VramPages  BY <2>1, PagesAreFinite
  <2> QED  BY <2>2 DEF IInv, MemoryInv, NoRepeats, AbortsExplained, LogsFit
<1> QED  BY <1>1, Invariance, PTL

(* A chunk of the disk reads as it was last written or, since a restore, as  *)
(* it was at the snapshot.                                                   *)
THEOREM DiskReads == Spec => []DiskIsConsistent
<1>1. IInv => DiskIsConsistent  BY DEF IInv, DiskInv, HoldsDisk, DiskIsConsistent
<1> QED  BY <1>1, Invariance, PTL

(* A restore leaves the payload's pages as they are, unless a device wrote to *)
(* them.                                                                      *)
THEOREM PayloadKept == Spec => PayloadSurvives
<1>1. ASSUME IInv, fast_reload_restore(None)
      PROVE  \A p \in blacklist \ q.user : q'.mem[p] = q.mem[p]
  <2>1. q \in QemuMemory /\ TypeOK /\ blacklist \subseteq Pages
    BY <1>1 DEF IInv, TypeOK, Pages
  <2>2. None \in Request /\ None \notin Dma  BY DEF Request, None, Dma
  <2>3. /\ MemoryDone(q, None) \in QemuMemory
        /\ MemoryDone(q, None).mem = q.mem /\ MemoryDone(q, None).user = q.user
    BY <2>1, <2>2, NoDmaEffect DEF QemuMemory
  <2>4. \A p \in Pages : p \notin q.user /\ p \in blacklist => q'.mem[p] = q.mem[p]
    BY <1>1, <2>3 DEF fast_reload_restore, RestoreMemory, find_dirty_pages_fdl, QemuMemory
  <2> QED  BY <2>1, <2>4
<1>2. IInv /\ [Next]_vars =>
        [fast_reload_restore(None) => \A p \in blacklist \ q.user : q'.mem[p] = q.mem[p]]_vars
  BY <1>1
<1> QED  BY <1>2, Invariance, PTL DEF Spec, PayloadSurvives
=============================================================================
