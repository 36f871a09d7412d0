------------------------------ MODULE BlockCow ------------------------------
(***************************************************************************)
(* The copy-on-write cache in front of a disk image (pt/block_cow.c).      *)
(* Until the snapshot, writes go to the primary buffer; afterwards they go *)
(* to the secondary buffer, which a restore empties.  The image itself is  *)
(* never written.                                                          *)
(*                                                                         *)
(* Offsets and sizes count units of half a chunk, so that requests that    *)
(* are not chunk-sized or not chunk-aligned exist.  A lookup table maps    *)
(* the offset of a request to a slot of its data buffer, whatever the      *)
(* alignment: the tables never notice that two keys overlap.               *)
(***************************************************************************)
EXTENDS Integers, FiniteSets

CONSTANTS Offsets,                    \* offsets of the disk, in units
          Values,                     \* contents of a chunk
          COW_CACHE_SIZE,             \* slots of the primary buffer
          COW_CACHE_SECONDARY_SIZE    \* slots of the secondary buffer

ASSUME CowSizeAssumption ==
  /\ COW_CACHE_SIZE \in Nat \ {0} /\ COW_CACHE_SECONDARY_SIZE \in Nat
  /\ Offsets \subseteq Nat /\ IsFiniteSet(Offsets)

CHUNK_SIZE == 2

(* A cache as a record; a table maps the offsets it does not hold to -1. *)
Absent == -1
Lookup(n) == [Offsets -> {Absent} \union 0 .. n - 1]

CowCache ==
  [lookup_primary : Lookup(COW_CACHE_SIZE),
   data_primary : [0 .. COW_CACHE_SIZE - 1 -> Values],
   offset_primary : 0 .. COW_CACHE_SIZE,
   lookup_secondary : Lookup(COW_CACHE_SECONDARY_SIZE),
   data_secondary : [0 .. COW_CACHE_SECONDARY_SIZE - 1 -> Values],
   offset_secondary : 0 .. COW_CACHE_SECONDARY_SIZE,
   enabled_fuzz : BOOLEAN, full : BOOLEAN]

NoEntries == [o \in Offsets |-> Absent]

(* zero is the content of freshly mapped memory. *)
cow_cache_new(zero) ==
  [lookup_primary |-> NoEntries,
   data_primary |-> [i \in 0 .. COW_CACHE_SIZE - 1 |-> zero],
   offset_primary |-> 0,
   lookup_secondary |-> NoEntries,
   data_secondary |-> [i \in 0 .. COW_CACHE_SECONDARY_SIZE - 1 |-> zero],
   offset_secondary |-> 0,
   enabled_fuzz |-> FALSE, full |-> FALSE]

switch_to_fuzz_mode(c) == [c EXCEPT !.enabled_fuzz = TRUE]

(* The files of a snapshot hold one chunk, with content v, or none. *)
read_primary_buffer(c, held, v) ==
  switch_to_fuzz_mode(
    [c EXCEPT !.lookup_primary = [o \in Offsets |-> IF o \in held THEN 0 ELSE Absent],
              !.data_primary[0] = v,
              !.offset_primary = IF held = {} THEN 0 ELSE 1])

cow_cache_reset(c) ==
  IF c.enabled_fuzz
  THEN [c EXCEPT !.offset_secondary = 0, !.lookup_secondary = NoEntries]
  ELSE c

(* What an aligned read of one chunk returns; image is the disk's own content. *)
cow_cache_read(c, image, o) ==
  IF c.enabled_fuzz /\ c.lookup_secondary[o] # Absent
  THEN c.data_secondary[c.lookup_secondary[o]]
  ELSE IF c.lookup_primary[o] # Absent
  THEN c.data_primary[c.lookup_primary[o]]
  ELSE image[o]

(* The caller asserts afterwards that the buffer has not become full. *)
write_to_primary_buffer(c, o, v) ==
  LET slot == IF c.lookup_primary[o] = Absent THEN c.offset_primary
                                              ELSE c.lookup_primary[o]
  IN [c EXCEPT !.lookup_primary[o] = slot,
               !.data_primary[slot] = v,
               !.offset_primary = IF c.lookup_primary[o] = Absent THEN @ + 1 ELSE @]

(* A full buffer drops every write, also one to a chunk it already holds, and *)
(* raises cow_cache_full, which ends the execution.                           *)
write_to_secondary_buffer(c, o, v) ==
  LET slot == IF c.lookup_secondary[o] = Absent THEN c.offset_secondary
                                                ELSE c.lookup_secondary[o]
  IN IF c.offset_secondary >= COW_CACHE_SECONDARY_SIZE
     THEN [c EXCEPT !.full = TRUE]
     ELSE [c EXCEPT !.lookup_secondary[o] = slot,
                    !.data_secondary[slot] = v,
                    !.offset_secondary = IF c.lookup_secondary[o] = Absent THEN @ + 1 ELSE @]

(* The state after a request of `size' units at o, of one chunk at most: a    *)
(* request that is not a multiple of the chunk size is dropped and completed. *)
cow_cache_write(c, o, size, v) ==
  IF size % CHUNK_SIZE # 0 THEN c
  ELSE IF c.enabled_fuzz THEN write_to_secondary_buffer(c, o, v)
  ELSE write_to_primary_buffer(c, o, v)
=============================================================================
