---------------------------- MODULE IrqChipProofs ----------------------------
(***************************************************************************)
(* Proofs about IrqChip, for any vCPUs, vectors, pins and devices: no      *)
(* interrupt and no EOI is lost between the threads.                       *)
(***************************************************************************)
EXTENDS IrqChip, FiniteSetTheorems, WellFoundedInduction, TLAPS

-----------------------------------------------------------------------------
(* The inductive invariant *)

Entry == [mask : BOOLEAN, remote_irr : BOOLEAN, dest : Dests]

(* The types, with naturals for the counters. *)
Types ==
  /\ irr \in [Vcpus -> SUBSET Vectors] /\ isr \in [Vcpus -> SUBSET Vectors]
  /\ irr_pending \in [Vcpus -> BOOLEAN] /\ req_event \in [Vcpus -> BOOLEAN]
  /\ isr_count \in [Vcpus -> Nat] /\ highest_isr_cache \in [Vcpus -> Vectors \cup {-1}]
  /\ delivering \subseteq Vcpus \X Vectors
  /\ redirtbl \in [Pins -> Entry]
  /\ ioapic_irr \subseteq Pins /\ irr_delivered \subseteq Pins
  /\ irq_states \in [Pins -> SUBSET Sources] /\ irq_eoi \in [Pins -> 0..(StormMax - 1)]
  /\ dest_map \subseteq Vcpus /\ pending_eoi \in Nat /\ eoi_inject \in BOOLEAN
  /\ scan_req \subseteq Vcpus /\ handled \in [Vcpus -> SUBSET Vectors] /\ writer \subseteq Vcpus
  /\ step \in [Vcpus -> Steps] /\ cur \in [Vcpus -> Vectors \cup {-1}]
  /\ dev \subseteq NotifiedPins /\ inject \subseteq NotifiedPins /\ resample \subseteq NotifiedPins
  /\ writes \in 0..MaxWrites /\ stalled \in BOOLEAN

(* A thread is between the two writes of a delivery to v. *)
Delivering(v) == \E x \in Vectors : <<v, x>> \in delivering

(* The vector y may interrupt what is in service on v. *)
Deliverable(v, y) == /\ y \in irr[v] /\ PriorityClass(y) > 0
                     /\ \A z \in isr[v] : PriorityClass(z) < PriorityClass(y)

(* The thread of v is at the place its vector says. *)
Thread(v) ==
  /\ step[v] \in {"clear", "deassert", "signal", "tail"} <=> cur[v] # -1
  /\ step[v] \in {"deassert", "signal", "tail"} =>
       req_event[v] /\ \E p \in Pins : cur[v] = VectorOf[p]
  /\ step[v] \in {"deassert", "signal"} => \E p \in NotifiedPins : cur[v] = VectorOf[p]

(* The caches agree with the registers. *)
Caches(v) ==
  /\ isr_count[v] = Cardinality(isr[v])
  /\ highest_isr_cache[v] # -1 => /\ highest_isr_cache[v] \in isr[v]
                                  /\ \A y \in isr[v] : y <= highest_isr_cache[v]
  /\ irr[v] # {} => irr_pending[v] \/ step[v] = "clear" \/ Delivering(v)

(* A vector that may be injected has someone who will look for it.  While v   *)
(* moves a vector into service, that goes for the vectors above it.           *)
Awake(v) ==
  /\ step[v] = "clear" => Deliverable(v, cur[v])
  /\ \A y \in irr[v] : Deliverable(v, y) =>
       \/ req_event[v] \/ Delivering(v)
       \/ step[v] = "clear" /\ y <= cur[v]

(* The vectors whose EOI the IOAPIC has to see. *)
Watched == LevelPins \cup NotifiedPins \cup {RTC}

(* What v knows of them: a destination of an entry, and a vector requested,   *)
(* is known once the scan request is served; a vector in service is known     *)
(* whenever the guest runs, unless the writer of an entry has stalled.        *)
Known(v) ==
  /\ handled[v] \subseteq {VectorOf[p] : p \in Pins}
  /\ \A p \in Watched : v \in redirtbl[p].dest =>
       VectorOf[p] \in handled[v] \/ v \in scan_req \/ writer # {}
  /\ \A p \in LevelPins : VectorOf[p] \in irr[v] =>
       VectorOf[p] \in handled[v] \/ v \in scan_req \/ writer # {}
  /\ \A p \in LevelPins : VectorOf[p] \in isr[v] =>
       \/ VectorOf[p] \in handled[v] \/ stalled
       \/ step[v] \in {"host", "clear"} /\ (v \in scan_req \/ writer # {})
  /\ VectorOf[RTC] \in irr[v] => VectorOf[RTC] \in handled[v] \/ v \in scan_req
  /\ VectorOf[RTC] \in isr[v] \/ (step[v] = "clear" /\ cur[v] = VectorOf[RTC]) =>
       VectorOf[RTC] \in handled[v]

(* The request of a level pin is its line's level. *)
Lines == \A p \in LevelPins : /\ p \in ioapic_irr <=> irq_states[p] # {}
                              /\ p \notin irr_delivered

(* A raised and unmasked level pin awaits an EOI or the delayed work. *)
Serviced == \A p \in LevelPins : irq_states[p] # {} /\ ~redirtbl[p].mask =>
              \/ redirtbl[p].remote_irr \/ eoi_inject
              \/ \E v \in Vcpus : InEoi(v, VectorOf[p])

Devices == \A p \in dev : \/ RESAMPLE \in irq_states[p] \/ p \in inject \cup resample
                          \/ \E v \in Vcpus : step[v] = "signal" /\ cur[v] = VectorOf[p]

IInv == /\ Types
        /\ \A v \in Vcpus : Thread(v) /\ Caches(v) /\ Awake(v) /\ Known(v)
        /\ Lines /\ Serviced /\ Devices /\ RtcTracksItsEois /\ RemoteIrrIsAwaited

-----------------------------------------------------------------------------
(* Vectors and priorities *)

(* A nonempty set of vectors has a highest one. *)
LEMMA Highest ==
  ASSUME NEW S \in SUBSET Vectors, S # {}
  PROVE  find_highest_vector(S) \in S /\ \A y \in S : y <= find_highest_vector(S)
<1> DEFINE R == OpToRel(<, Nat)
           T == {255 - x : x \in S}
<1>1. S \subseteq 0..255
  BY ApicAssumption
<1>2. T \in SUBSET Nat /\ T # {}
  <2>1. \A x \in S : 255 - x \in Nat
    BY <1>1
  <2> QED
    BY <2>1
<1>3. IsWellFoundedOn(R, Nat)
  BY NatLessThanWellFounded, Zenon
<1>10. \A x, y \in Nat : x < y => <<x, y>> \in R
  BY DEF OpToRel
<1> HIDE DEF R, T
<1>4. PICK t \in T : \A r \in T : ~(<<r, t>> \in R)
  BY <1>2, <1>3, WFMin, Zenon
<1>5. \A r \in T : t <= r
  <2>1. ASSUME NEW r \in T PROVE t <= r
    <3>1. r \in Nat /\ t \in Nat /\ ~(r < t)
      BY <1>2, <1>4, <1>10, <2>1, Zenon
    <3> QED
      BY <3>1
  <2> QED
    BY <2>1
<1>6. PICK x \in S : t = 255 - x
  BY DEF T
<1>7. \A y \in S : x >= y
  <2>1. ASSUME NEW y \in S PROVE x >= y
    <3>1. 255 - y \in T
      BY <2>1 DEF T
    <3>2. t <= 255 - y /\ x \in 0..255 /\ y \in 0..255
      BY <1>1, <1>5, <2>1, <3>1
    <3> QED
      BY <1>6, <3>2
  <2> QED
    BY <2>1
<1>8. Max(S) \in S /\ \A y \in S : Max(S) >= y
  BY <1>7, Zenon, Zenon DEF Max
<1>9. \A y \in S : y <= Max(S)
  BY <1>1, <1>8
<1> QED
  BY <1>8, <1>9 DEF find_highest_vector

(* There are finitely many vectors. *)
LEMMA FiniteVectors == IsFiniteSet(Vectors)
<1>1. 0 \in Int /\ 255 \in Int
  OBVIOUS
<1>2. IsFiniteSet(0..255)
  BY <1>1, FS_Interval, Zenon, Zenon
<1> QED
  BY <1>2, FS_Subset, ApicAssumption, Zenon

(* A higher vector has no lower class, and a class is a natural number. *)
LEMMA Classes ==
  /\ \A x \in Vectors : x \in Nat /\ PriorityClass(x) \in Nat
  /\ \A x, y \in Vectors : x <= y => PriorityClass(x) <= PriorityClass(y)
<1>1. \A x \in 0..255 : x \div 16 \in Nat /\ 16 * (x \div 16) <= x /\ x < 16 * (x \div 16) + 16
  OBVIOUS
<1>2. \A x, y \in 0..255 : x <= y => x \div 16 <= y \div 16
  BY <1>1
<1> QED
  BY <1>1, <1>2, ApicAssumption DEF PriorityClass

(* The cache in front of ISR gives its highest vector. *)
LEMMA HighestIsr ==
  ASSUME Types, NEW v \in Vcpus, Caches(v)
  PROVE  apic_find_highest_isr(v) = find_highest_vector(isr[v])
<1>1. isr[v] \in SUBSET Vectors /\ IsFiniteSet(isr[v]) /\ isr_count[v] \in Nat
  BY FiniteVectors, FS_Subset DEF Types
<1>2. isr_count[v] = 0 <=> isr[v] = {}
  BY <1>1, FS_EmptySet DEF Caches
<1>3. CASE isr[v] = {}
  BY <1>2, <1>3 DEF apic_find_highest_isr, find_highest_vector, Caches
<1>4. CASE isr[v] # {} /\ highest_isr_cache[v] # -1
  <2>1. find_highest_vector(isr[v]) \in isr[v] /\ \A y \in isr[v] : y <= find_highest_vector(isr[v])
    BY <1>1, <1>4, Highest
  <2>2. highest_isr_cache[v] \in isr[v] /\ \A y \in isr[v] : y <= highest_isr_cache[v]
    BY <1>4 DEF Caches
  <2>3. isr[v] \subseteq Nat
    BY <1>1, Classes
  <2>4. highest_isr_cache[v] = find_highest_vector(isr[v])
    BY <2>1, <2>2, <2>3
  <2> QED
    BY <1>2, <1>4, <2>4 DEF apic_find_highest_isr
<1>5. CASE isr[v] # {} /\ highest_isr_cache[v] = -1
  BY <1>2, <1>5 DEF apic_find_highest_isr
<1> QED
  BY <1>3, <1>4, <1>5

(* What the APIC offers: the highest vector requested, if it may interrupt;   *)
(* and nothing only when no vector may, as far as the hint goes.              *)
LEMMA Offers ==
  ASSUME Types, NEW v \in Vcpus, Caches(v)
  PROVE  LET h == kvm_apic_has_interrupt(v) IN
         /\ h # -1 => irr_pending[v] /\ Deliverable(v, h) /\ \A y \in irr[v] : y <= h
         /\ h = -1 /\ irr_pending[v] => \A y \in irr[v] : ~Deliverable(v, y)
<1> DEFINE h == kvm_apic_has_interrupt(v)
           i == find_highest_vector(irr[v])
           s == find_highest_vector(isr[v])
<1>1. irr[v] \in SUBSET Vectors /\ isr[v] \in SUBSET Vectors /\ irr_pending[v] \in BOOLEAN
  BY DEF Types
<1>2. apic_update_ppr(v) = IF s = -1 THEN 0 ELSE PriorityClass(s)
  BY HighestIsr DEF apic_update_ppr
<1>3. isr[v] = {} <=> s = -1
  BY <1>1, Highest, Classes DEF find_highest_vector
<1>4. apic_update_ppr(v) \in Nat /\ \A z \in isr[v] : PriorityClass(z) <= apic_update_ppr(v)
  BY <1>1, <1>2, <1>3, Highest, Classes
<1>5. isr[v] # {} => \E z \in isr[v] : apic_update_ppr(v) = PriorityClass(z)
  BY <1>1, <1>2, <1>3, Highest
<1>6. CASE ~irr_pending[v]
  BY <1>6 DEF kvm_apic_has_interrupt, apic_find_highest_irr
<1>7. CASE irr_pending[v] /\ irr[v] = {}
  BY <1>7 DEF kvm_apic_has_interrupt, apic_find_highest_irr, find_highest_vector
<1>8. CASE irr_pending[v] /\ irr[v] # {}
  <2>1. i \in irr[v] /\ i \in Vectors /\ \A y \in irr[v] : y <= i
    BY <1>1, <1>8, Highest
  <2>2. i # -1 /\ h = IF PriorityClass(i) <= apic_update_ppr(v) THEN -1 ELSE i
    BY <1>8, <2>1, Classes DEF kvm_apic_has_interrupt, apic_find_highest_irr
  <2>3. h # -1 => h = i /\ PriorityClass(i) > apic_update_ppr(v)
    BY <1>4, <2>1, <2>2, Classes
  <2>4. h # -1 => Deliverable(v, h)
    BY <1>1, <1>4, <2>1, <2>3, Classes DEF Deliverable
  <2>5. ASSUME h = -1, NEW y \in irr[v], Deliverable(v, y) PROVE FALSE
    <3>1. PriorityClass(i) <= apic_update_ppr(v) /\ PriorityClass(y) <= PriorityClass(i)
      BY <1>1, <2>1, <2>2, <2>5, Classes
    <3>2. PriorityClass(y) <= apic_update_ppr(v) /\ PriorityClass(y) \in Nat
      BY <1>1, <1>4, <2>1, <2>5, <3>1, Classes
    <3>3. isr[v] # {}
      BY <1>2, <1>3, <2>5, <3>2 DEF Deliverable
    <3> QED
      BY <1>1, <1>5, <2>5, <3>2, <3>3, Classes DEF Deliverable
  <2> QED
    BY <1>8, <2>1, <2>3, <2>4, <2>5
<1> QED
  BY <1>1, <1>6, <1>7, <1>8

-----------------------------------------------------------------------------
(* What a delivery does *)

(* The pins of a set that ioapic_service delivers. *)
Fires(table, pins) == {p \in pins : ~table[p].mask /\ (p \in LevelPins => ~table[p].remote_irr)}

(* The redirection table afterwards. *)
TableTo(table, pins) ==
  /\ redirtbl' \in [Pins -> Entry]
  /\ \A p \in Pins :
       /\ redirtbl'[p].mask = table[p].mask /\ redirtbl'[p].dest = table[p].dest
       /\ redirtbl'[p].remote_irr <=> table[p].remote_irr \/ p \in Fires(table, pins) \cap LevelPins
  /\ irr_delivered' \subseteq Pins
  /\ \A p \in LevelPins : p \notin irr_delivered => p \notin irr_delivered'

(* The requests: new ones come from the pins, and each pin that fires has one. *)
Requested(table, pins) ==
  /\ irr' \in [Vcpus -> SUBSET Vectors]
  /\ \A v \in Vcpus : irr[v] \subseteq irr'[v]
  /\ \A v \in Vcpus : \A x \in irr'[v] \ irr[v] :
       \E p \in pins : x = VectorOf[p] /\ v \in table[p].dest
  /\ \A p \in Fires(table, pins) : \E v \in Vcpus : VectorOf[p] \in irr'[v]

(* Each of them is on its way to the APIC. *)
Sent ==
  /\ delivering' \subseteq Vcpus \X Vectors
  /\ \A v \in Vcpus : (Delivering(v) \/ irr'[v] # irr[v]) => Delivering(v)'
  /\ irr_pending' = irr_pending /\ req_event' = req_event

(* The RTC's bookkeeping, when the delivery is tracked. *)
Tracked(track) ==
  IF track THEN \E D \in SUBSET Vcpus : /\ dest_map' = dest_map \cup D
                                        /\ pending_eoi' = Cardinality(D)
                                        /\ \A v \in D : VectorOf[RTC] \in irr'[v]
  ELSE dest_map' = dest_map /\ pending_eoi' = pending_eoi

(* The messages of a set of pins to the vCPUs chosen for each. *)
Chosen(table, fired, to) ==
  /\ fired \subseteq Pins /\ to \in [fired -> SUBSET Vcpus]
  /\ \A p \in fired : to[p] \in kvm_apic_map_get_dest_lapic(p, table[p].dest)

(* A message goes to a nonempty part of the pin's destination. *)
LEMMA Messages ==
  ASSUME NEW table \in [Pins -> Entry], NEW fired, NEW to, Chosen(table, fired, to)
  PROVE  LET targets == kvm_irq_delivery_to_apic(to) IN
         /\ targets \subseteq Vcpus \X Vectors
         /\ \A v \in Vcpus, x \in Vectors : <<v, x>> \in targets =>
              \E p \in fired : x = VectorOf[p] /\ v \in table[p].dest
         /\ \A p \in fired : /\ VectorOf[p] \in Vectors
                             /\ \E v \in Vcpus : v \in to[p]
                             /\ \A v \in to[p] : v \in Vcpus /\ <<v, VectorOf[p]>> \in targets
<1> DEFINE targets == kvm_irq_delivery_to_apic(to)
<1>1. \A p \in fired : /\ p \in Pins /\ VectorOf[p] \in Vectors /\ to[p] \subseteq Vcpus
                       /\ table[p].dest \in Dests /\ table[p].dest # {}
                       /\ table[p].dest \subseteq Vcpus
  <2>1. ASSUME NEW p \in fired
        PROVE  /\ p \in Pins /\ VectorOf[p] \in Vectors /\ to[p] \subseteq Vcpus
               /\ table[p].dest \in Dests
    <3>1. p \in Pins /\ to[p] \in SUBSET Vcpus
      BY <2>1 DEF Chosen
    <3>2. table[p] \in Entry
      BY <3>1
    <3> QED
      BY <3>1, <3>2, PinsAssumption DEF Entry
  <2> QED
    BY <2>1, PinsAssumption, Zenon
<1>2. \A p \in fired : to[p] \subseteq table[p].dest /\ to[p] # {}
  BY <1>1 DEF Chosen, kvm_apic_map_get_dest_lapic
<1>3. DOMAIN to = fired
  BY DEF Chosen
<1>4. targets \subseteq Vcpus \X Vectors
  BY DEF kvm_irq_delivery_to_apic
<1>5. \A v \in Vcpus, x \in Vectors :
         <<v, x>> \in targets <=> \E p \in fired : v \in to[p] /\ x = VectorOf[p]
  BY <1>3 DEF kvm_irq_delivery_to_apic
<1> HIDE DEF targets
<1> QED
  BY <1>1, <1>2, <1>4, <1>5 DEF targets

(* ioapic_service, seen from the APICs and from the table. *)
LEMMA Service ==
  ASSUME Types, NEW table \in [Pins -> Entry], NEW pins \in SUBSET Pins, NEW ls \in BOOLEAN,
         ioapic_service(table, pins, ls)
  PROVE  /\ TableTo(table, pins) /\ Requested(table, pins) /\ Sent
         /\ Tracked(RTC \in Fires(table, pins) /\ ls)
<1> DEFINE fired == Fires(table, pins)
           track == RTC \in fired /\ ls
<1>1. PICK to \in [fired -> SUBSET Vcpus] :
        /\ \A p \in fired : to[p] \in kvm_apic_map_get_dest_lapic(p, table[p].dest)
        /\ redirtbl' = [p \in Pins |->
             [table[p] EXCEPT !.remote_irr = @ \/ p \in fired \cap LevelPins]]
        /\ irr_delivered' = (irr_delivered \ pins) \cup (fired \ LevelPins)
        /\ kvm_lapic_set_irr(kvm_irq_delivery_to_apic(to))
        /\ dest_map' = IF track THEN dest_map \cup to[RTC] ELSE dest_map
        /\ pending_eoi' = IF track THEN Cardinality(to[RTC]) ELSE pending_eoi
  BY Zenon, Zenon DEF ioapic_service, Fires
<1>2. fired \subseteq pins /\ fired \subseteq Pins
  BY DEF Fires
<1>3. Chosen(table, fired, to)
  BY <1>1, <1>2 DEF Chosen
<1> DEFINE targets == kvm_irq_delivery_to_apic(to)
<1> HIDE DEF fired
<1>4. /\ targets \subseteq Vcpus \X Vectors
      /\ \A v \in Vcpus, x \in Vectors : <<v, x>> \in targets =>
           \E p \in fired : x = VectorOf[p] /\ v \in table[p].dest
      /\ \A p \in fired : /\ VectorOf[p] \in Vectors
                          /\ \E v \in Vcpus : v \in to[p]
                          /\ \A v \in to[p] : v \in Vcpus /\ <<v, VectorOf[p]>> \in targets
  BY <1>3, Messages
<1>5. /\ irr' = [v \in Vcpus |-> irr[v] \cup {x \in Vectors : <<v, x>> \in targets}]
      /\ delivering' = delivering \cup targets /\ UNCHANGED <<irr_pending, req_event>>
  BY <1>1 DEF kvm_lapic_set_irr
<1> HIDE DEF targets
<1>6. TableTo(table, pins)
  <2>1. \A p \in Pins :
          /\ redirtbl'[p] \in Entry
          /\ redirtbl'[p].mask = table[p].mask /\ redirtbl'[p].dest = table[p].dest
          /\ redirtbl'[p].remote_irr <=> table[p].remote_irr \/ p \in fired \cap LevelPins
    <3> SUFFICES ASSUME NEW p \in Pins
                 PROVE  /\ redirtbl'[p] \in Entry
                        /\ redirtbl'[p].mask = table[p].mask /\ redirtbl'[p].dest = table[p].dest
                        /\ redirtbl'[p].remote_irr <=> table[p].remote_irr \/ p \in fired \cap LevelPins
      OBVIOUS
    <3> DEFINE b == table[p].remote_irr \/ p \in fired \cap LevelPins
    <3>1. b \in BOOLEAN
      OBVIOUS
    <3>2. redirtbl'[p] = [table[p] EXCEPT !.remote_irr = b]
      BY <1>1
    <3>3. table[p] \in Entry
      OBVIOUS
    <3>4. b <=> table[p].remote_irr \/ p \in fired \cap LevelPins
      OBVIOUS
    <3> HIDE DEF b
    <3>5. redirtbl'[p].remote_irr = b /\ redirtbl'[p] \in Entry
          /\ redirtbl'[p].mask = table[p].mask /\ redirtbl'[p].dest = table[p].dest
      BY <3>1, <3>2, <3>3 DEF Entry
    <3> QED
      BY <3>4, <3>5
  <2>2. redirtbl' \in [Pins -> Entry]
    BY <1>1, <2>1, Zenon
  <2> QED
    BY <1>1, <1>2, <2>1, <2>2, Zenon DEF TableTo, fired, Types
<1>7. Requested(table, pins)
  BY <1>2, <1>4, <1>5, Zenon DEF Requested, Types, fired
<1>8. Sent
  BY <1>4, <1>5 DEF Sent, Delivering, Types
<1>9. Tracked(track)
  BY <1>1, <1>4, <1>5, PinsAssumption DEF Tracked, Types
<1> QED
  BY <1>6, <1>7, <1>8, <1>9 DEF fired

-----------------------------------------------------------------------------
(* Preservation: the pieces several steps share *)

(* What a delivery leaves of the APIC of v, whose thread may move on, but not *)
(* to or from the middle of apic_clear_irr.                                   *)
LEMMA ApicKept ==
  ASSUME Types, NEW v \in Vcpus, Caches(v), Awake(v), irr' \in [Vcpus -> SUBSET Vectors],
         irr[v] \subseteq irr'[v], Sent,
         UNCHANGED <<isr[v], isr_count[v], highest_isr_cache[v]>>,
         step'[v] = "clear" <=> step[v] = "clear",
         step[v] = "clear" => cur'[v] = cur[v]
  PROVE  Caches(v)' /\ Awake(v)'
<1>1. Caches(v)'
  BY DEF Caches, Sent, Types
<1>2. \A y \in irr[v] : Deliverable(v, y)' <=> Deliverable(v, y)
  BY DEF Deliverable
<1>3. Awake(v)'
  <2>1. step'[v] = "clear" => Deliverable(v, cur[v])'
    BY <1>2 DEF Awake, Deliverable
  <2>2. ASSUME NEW y \in irr'[v], Deliverable(v, y)'
        PROVE  \/ req_event'[v] \/ Delivering(v)'
               \/ step'[v] = "clear" /\ y <= cur'[v]
    <3>1. CASE y \in irr[v]
      BY <1>2, <2>2, <3>1 DEF Awake, Sent
    <3>2. CASE y \notin irr[v]
      BY <2>2, <3>2 DEF Sent
    <3> QED
      BY <3>1, <3>2
  <2> QED
    BY <2>1, <2>2 DEF Awake
<1> QED
  BY <1>1, <1>3

(* Nothing happens to v. *)
LEMMA ApicIdle ==
  ASSUME NEW v \in Vcpus, Thread(v), Caches(v), Awake(v),
         UNCHANGED <<irr[v], irr_pending[v], isr[v], isr_count[v], highest_isr_cache[v],
                     req_event[v], step[v], cur[v]>>,
         Delivering(v) => Delivering(v)'
  PROVE  Thread(v)' /\ Caches(v)' /\ Awake(v)'
BY DEF Thread, Caches, Awake, Deliverable

(* A step that leaves IRR, ISR, the hint and the requests of v alone. *)
LEMMA ApicStands ==
  ASSUME Types, NEW v \in Vcpus, Caches(v), Awake(v),
         UNCHANGED <<irr, irr_pending, isr, isr_count, highest_isr_cache, req_event, delivering>>,
         step'[v] = "clear" <=> step[v] = "clear",
         step[v] = "clear" => cur'[v] = cur[v]
  PROVE  Caches(v)' /\ Awake(v)'
<1>1. Sent
  BY Zenon DEF Sent, Delivering, Types
<1>2. irr' \in [Vcpus -> SUBSET Vectors] /\ irr[v] \subseteq irr'[v]
  BY DEF Types
<1> QED
  BY <1>1, <1>2, ApicKept

(* What the messages of a delivery leave of what v knows.  The thread of v    *)
(* may go on, but the guest is entered, and a vector chosen, elsewhere.       *)
LEMMA KnownKept ==
  ASSUME Types, NEW v \in Vcpus, Known(v), NEW table \in [Pins -> Entry], NEW pins \in SUBSET Pins,
         TableTo(table, pins), Requested(table, pins),
         UNCHANGED <<isr[v], handled[v], scan_req, stalled>>,
         \/ /\ writer = {} /\ writer' = {}
            /\ \A p \in Pins : table[p].dest = redirtbl[p].dest
         \/ writer = {} /\ writer' # {} /\ RTC \notin pins,
         step[v] \in {"host", "clear"} => step'[v] = step[v] /\ cur'[v] = cur[v],
         step'[v] = "clear" => step[v] = "clear"
  PROVE  Known(v)'
<1>1. \A p, q \in Pins : VectorOf[p] = VectorOf[q] => p = q
  BY PinsAssumption
<1>2. LevelPins \subseteq Pins /\ RTC \in Pins /\ Watched \subseteq Pins /\ LevelPins \subseteq Watched
      /\ RTC \in Watched
  BY PinsAssumption DEF Watched
<1>3. handled'[v] \subseteq {VectorOf[p] : p \in Pins}
  BY DEF Known
<1>4. ASSUME NEW p \in Watched, v \in redirtbl'[p].dest
      PROVE  VectorOf[p] \in handled'[v] \/ v \in scan_req' \/ writer' # {}
  BY <1>2, <1>4 DEF Known, TableTo
<1>5. ASSUME NEW p \in Watched, VectorOf[p] \in irr'[v] \ irr[v]
      PROVE  p \in pins /\ v \in table[p].dest
  BY <1>1, <1>2, <1>5 DEF Requested
<1>6. ASSUME NEW p \in LevelPins, VectorOf[p] \in irr'[v]
      PROVE  VectorOf[p] \in handled'[v] \/ v \in scan_req' \/ writer' # {}
  BY <1>2, <1>5, <1>6 DEF Known
<1>7. ASSUME NEW p \in LevelPins, VectorOf[p] \in isr'[v]
      PROVE  \/ VectorOf[p] \in handled'[v] \/ stalled'
             \/ step'[v] \in {"host", "clear"} /\ (v \in scan_req' \/ writer' # {})
  BY <1>7 DEF Known
<1>8. ASSUME VectorOf[RTC] \in irr'[v] PROVE VectorOf[RTC] \in handled'[v] \/ v \in scan_req'
  BY <1>2, <1>5, <1>8 DEF Known
<1>9. ASSUME VectorOf[RTC] \in isr'[v] \/ (step'[v] = "clear" /\ cur'[v] = VectorOf[RTC])
      PROVE  VectorOf[RTC] \in handled'[v]
  BY <1>9 DEF Known
<1> QED
  BY <1>3, <1>4, <1>6, <1>7, <1>8, <1>9 DEF Known

(* A step that leaves the APICs, the table and the scans alone. *)
LEMMA KnownStands ==
  ASSUME NEW v \in Vcpus, Known(v),
         UNCHANGED <<irr[v], isr[v], handled[v], redirtbl, scan_req, writer>>,
         stalled => stalled',
         step[v] \in {"host", "clear"} => step'[v] = step[v] /\ cur'[v] = cur[v],
         step'[v] = "clear" => step[v] = "clear"
  PROVE  Known(v)'
BY DEF Known

-----------------------------------------------------------------------------
(* Preservation, step by step *)

(* The thread of v goes to s with the vector x. *)
Gone(v, s, x) ==
  /\ step' \in [Vcpus -> Steps] /\ cur' \in [Vcpus -> Vectors \cup {-1}]
  /\ step'[v] = s /\ cur'[v] = x
  /\ \A u \in Vcpus : u # v => step'[u] = step[u] /\ cur'[u] = cur[u]

(* Goto, as a fact about each thread. *)
LEMMA Goes ==
  ASSUME Types, NEW v \in Vcpus, NEW s \in Steps, NEW x \in Vectors \cup {-1}, Goto(v, s, x)
  PROVE  Gone(v, s, x)
BY DEF Types, Goto, Gone

(* A thread that goes to a place outside the delivery and the EOI has no      *)
(* vector; the others stay where they are.                                    *)
LEMMA ThreadGone ==
  ASSUME NEW v \in Vcpus, NEW s \in {"host", "guest", "write"}, Gone(v, s, -1),
         NEW u \in Vcpus, Thread(u), req_event' = req_event
  PROVE  Thread(u)'
<1>1. CASE u = v
  <2>1. step'[u] = s /\ cur'[u] = -1
    BY <1>1, Zenon DEF Gone
  <2> QED
    BY <2>1 DEF Thread
<1>2. CASE u # v
  <2>1. step'[u] = step[u] /\ cur'[u] = cur[u]
    BY <1>2, Zenon DEF Gone
  <2> QED
    BY <2>1, Zenon DEF Thread
<1> QED
  BY <1>1, <1>2, Zenon

(* A device that waits keeps what it waits for. *)
LEMMA DevicesStand ==
  ASSUME Devices, UNCHANGED <<irq_states, dev, inject, resample>>,
         \A u \in Vcpus : step[u] = "signal" => step'[u] = step[u] /\ cur'[u] = cur[u]
  PROVE  Devices'
BY Zenon DEF Devices

(* Nobody ends an EOI and no line changes. *)
LEMMA LinesStand ==
  ASSUME Lines, Serviced, Devices,
         UNCHANGED <<redirtbl, ioapic_irr, irr_delivered, irq_states, eoi_inject, dev, inject, resample>>,
         \A u \in Vcpus : step[u] \in {"deassert", "signal", "tail"} =>
           step'[u] = step[u] /\ cur'[u] = cur[u]
  PROVE  Lines' /\ Serviced' /\ Devices'
<1>1. Lines'
  BY Zenon DEF Lines
<1>2. \A u \in Vcpus : \A x : InEoi(u, x) => InEoi(u, x)'
  BY Zenon DEF InEoi
<1>3. Serviced'
  BY <1>2, Zenon DEF Serviced
<1>4. \A u \in Vcpus : step[u] = "signal" => step'[u] = step[u] /\ cur'[u] = cur[u]
  OBVIOUS
<1> QED
  BY <1>1, <1>3, <1>4, DevicesStand, Zenon

(* A vCPU scans the redirection table, under the lock. *)
LEMMA ScanStep == ASSUME IInv, NEW v \in Vcpus, ScanIoapic(v) PROVE IInv'
<1> USE DEF IInv
<1> DEFINE known == (IF v \in dest_map THEN {VectorOf[RTC]} ELSE {}) \cup
                    {VectorOf[p] : p \in {q \in LevelPins \cup NotifiedPins \cup {RTC} :
                                            \/ kvm_apic_match_dest(v, q)
                                            \/ kvm_apic_pending_eoi(v, VectorOf[q])}}
<1>1. /\ step[v] = "host" /\ v \in scan_req /\ LockFree /\ scan_req' = scan_req \ {v}
      /\ handled' = [handled EXCEPT ![v] = known]
      /\ UNCHANGED <<redirtbl, ioapic_irr, irr_delivered, irq_states, irq_eoi, eoi_inject, dest_map,
                     pending_eoi, writer, irr, irr_pending, req_event, delivering, isr, isr_count,
                     highest_isr_cache, step, cur, dev, inject, resample, writes, stalled>>
  BY Zenon DEF ScanIoapic, vcpu_scan_ioapic, eoiVars, lapicVars, irrVars, isrVars, threadVars, devVars
<1>2. /\ known \subseteq Vectors /\ known \subseteq {VectorOf[p] : p \in Pins}
      /\ \A p \in Watched : v \in redirtbl[p].dest \/ VectorOf[p] \in irr[v] \cup isr[v] =>
           VectorOf[p] \in known
  BY PinsAssumption DEF Watched, kvm_apic_match_dest, kvm_apic_pending_eoi
<1> HIDE DEF known
<1>3. Types'
  BY <1>1, <1>2 DEF Types
<1>4. ASSUME NEW u \in Vcpus PROVE Thread(u)' /\ Caches(u)' /\ Awake(u)'
  BY <1>1, ApicStands DEF Thread
<1>5. ASSUME NEW u \in Vcpus PROVE Known(u)'
  <2>1. CASE u = v
    <3>1. handled'[v] = known /\ LevelPins \subseteq Watched /\ RTC \in Watched
      BY <1>1 DEF Types, Watched
    <3> QED
      BY <1>1, <1>2, <2>1, <3>1 DEF Known
  <2>2. CASE u # v
    <3>1. handled'[u] = handled[u] /\ (u \in scan_req' <=> u \in scan_req)
      BY <1>1, <2>2 DEF Types
    <3> QED
      BY <1>1, <3>1 DEF Known
  <2> QED
    BY <2>1, <2>2
<1>6. Lines' /\ Serviced' /\ Devices'
  BY <1>1, LinesStand, Zenon
<1>7. RtcTracksItsEois' /\ RemoteIrrIsAwaited'
  BY <1>1, Zenon DEF RtcTracksItsEois, RemoteIrrIsAwaited, kvm_apic_pending_eoi, InEoi
<1> QED
  BY <1>3, <1>4, <1>5, <1>6, <1>7

(* It looks for a vector to inject. *)
LEMMA InjectStep == ASSUME IInv, NEW v \in Vcpus, InjectPendingEvent(v) PROVE IInv'
<1> USE DEF IInv
<1> DEFINE h == kvm_apic_has_interrupt(v)
<1>1. /\ step[v] = "host" /\ v \notin scan_req /\ req_event[v]
      /\ req_event' = [req_event EXCEPT ![v] = FALSE]
      /\ UNCHANGED <<redirtbl, ioapic_irr, irr_delivered, irq_states, irq_eoi, eoi_inject, dest_map,
                     pending_eoi, writer, irr, delivering, isr, isr_count, handled, scan_req,
                     highest_isr_cache, dev, inject, resample, writes, stalled>>
  BY DEF InjectPendingEvent, kvm_get_apic_interrupt, ioapicVars, isrVars, devVars
<1>2. /\ h # -1 => irr_pending[v] /\ Deliverable(v, h) /\ \A y \in irr[v] : y <= h
      /\ h = -1 /\ irr_pending[v] => \A y \in irr[v] : ~Deliverable(v, y)
  BY Offers
<1>3. CASE h = -1
  <2>1. UNCHANGED <<irr_pending, step, cur>>
    BY <1>3 DEF InjectPendingEvent, kvm_get_apic_interrupt, threadVars
  <2>2. Types'
    BY <1>1, <2>1 DEF Types
  <2>3. ASSUME NEW u \in Vcpus PROVE Thread(u)' /\ Caches(u)' /\ Awake(u)'
    <3>1. CASE u = v
      BY <1>1, <1>2, <1>3, <2>1, <3>1, Zenon DEF Thread, Caches, Awake, Delivering, Deliverable, Types
    <3>2. CASE u # v
      BY <1>1, <2>1, <3>2, Zenon DEF Thread, Caches, Awake, Delivering, Deliverable, Types
    <3> QED
      BY <3>1, <3>2
  <2>4. \A u \in Vcpus : Known(u)'
    BY <1>1, <2>1 DEF Known
  <2>5. Lines' /\ Serviced' /\ Devices' /\ RtcTracksItsEois' /\ RemoteIrrIsAwaited'
    BY <1>1, <2>1
    DEF Lines, Serviced, Devices, InEoi, RtcTracksItsEois, RemoteIrrIsAwaited, kvm_apic_pending_eoi
  <2> QED
    BY <2>2, <2>3, <2>4, <2>5
<1>4. CASE h # -1
  <2> HIDE DEF h
  <2>1. irr_pending' = [irr_pending EXCEPT ![v] = FALSE] /\ Goto(v, "clear", h)
    BY <1>4 DEF InjectPendingEvent, kvm_get_apic_interrupt, h
  <2>2. h \in irr[v] /\ h \in Vectors /\ irr[v] \subseteq Vectors
    BY <1>2, <1>4 DEF Deliverable, Types
  <2>3. Gone(v, "clear", h)
    BY <2>1, <2>2, Goes DEF Steps
  <2>4. Types'
    BY <1>1, <2>1, <2>3, Zenon DEF Types, Gone
  <2>5. ASSUME NEW u \in Vcpus PROVE Thread(u)' /\ Caches(u)' /\ Awake(u)'
    <3>1. CASE u = v
      BY <1>1, <1>2, <1>4, <2>1, <2>3, <3>1
      DEF Thread, Caches, Awake, Delivering, Deliverable, Types, Gone
    <3>2. CASE u # v
      <4>1. UNCHANGED <<irr[u], irr_pending[u], isr[u], isr_count[u], highest_isr_cache[u],
                        req_event[u], step[u], cur[u]>>
        BY <1>1, <2>1, <2>3, <3>2 DEF Types, Gone
      <4> QED
        BY <1>1, <4>1, ApicIdle, Zenon DEF Delivering
    <3> QED
      BY <3>1, <3>2
  <2>6. ASSUME NEW u \in Vcpus PROVE Known(u)'
    <3>1. CASE u = v
      BY <1>1, <2>2, <2>3, <3>1, Zenon DEF Known, Gone
    <3>2. CASE u # v
      BY <1>1, <2>3, <3>2, Zenon DEF Known, Gone
    <3> QED
      BY <3>1, <3>2
  <2>7. \A u \in Vcpus : step[u] \in {"deassert", "signal", "tail"} => step'[u] = step[u] /\ cur'[u] = cur[u]
    BY <1>1, <2>3, Zenon DEF Gone
  <2>8. Lines' /\ Serviced' /\ Devices'
    BY <1>1, <2>7, LinesStand, Zenon
  <2>9. RtcTracksItsEois' /\ RemoteIrrIsAwaited'
    BY <1>1, <2>7 DEF RtcTracksItsEois, RemoteIrrIsAwaited, kvm_apic_pending_eoi, InEoi
  <2> QED
    BY <2>4, <2>5, <2>6, <2>8, <2>9
<1> QED
  BY <1>3, <1>4

(* It moves the vector into service. *)
LEMMA ClearStep == ASSUME IInv, NEW v \in Vcpus, ClearIrr(v) PROVE IInv'
<1> USE DEF IInv
<1> DEFINE x == cur[v]
<1>1. /\ step[v] = "clear" /\ irr' = [irr EXCEPT ![v] = @ \ {x}]
      /\ irr_pending' = [irr_pending EXCEPT ![v] = @ \/ irr'[v] # {}]
      /\ isr' = [isr EXCEPT ![v] = @ \cup {x}] /\ Goto(v, "host", -1)
      /\ UNCHANGED <<redirtbl, ioapic_irr, irr_delivered, irq_states, irq_eoi, eoi_inject, dest_map,
                     pending_eoi, writer, delivering, req_event, handled, scan_req,
                     dev, inject, resample, writes, stalled>>
  BY Zenon DEF ClearIrr, apic_clear_irr, ioapicVars, devVars
<1>2. /\ x \in irr[v] /\ x \in Vectors /\ isr[v] \subseteq Vectors /\ x \notin isr[v]
      /\ \A z \in isr[v] : PriorityClass(z) < PriorityClass(x) /\ z <= x
  <2>1. Deliverable(v, x) /\ irr[v] \subseteq Vectors /\ isr[v] \subseteq Vectors
    BY <1>1, Zenon DEF Awake, Types
  <2>2. \A z \in isr[v] : z \in Nat /\ x \in Nat /\ PriorityClass(z) < PriorityClass(x) /\ ~(x <= z)
    BY <2>1, Classes DEF Deliverable
  <2> QED
    BY <2>1, <2>2 DEF Deliverable
<1>3. /\ isr_count' = [isr_count EXCEPT ![v] = @ + 1]
      /\ highest_isr_cache' = [highest_isr_cache EXCEPT ![v] = x]
  BY <1>2, Zenon DEF ClearIrr, apic_clear_irr
<1>4. Gone(v, "host", -1)
  BY <1>1, Goes DEF Steps
<1>5. /\ irr'[v] = irr[v] \ {x} /\ isr'[v] = isr[v] \cup {x}
      /\ isr_count'[v] = isr_count[v] + 1 /\ highest_isr_cache'[v] = x
      /\ irr_pending'[v] <=> irr_pending[v] \/ irr'[v] # {}
      /\ req_event'[v] = req_event[v]
  BY <1>1, <1>3, Zenon DEF Types
<1>6. Types'
  <2>1. (irr_pending[v] \/ irr'[v] # {}) \in BOOLEAN
    OBVIOUS
  <2>2. irr_pending' \in [Vcpus -> BOOLEAN]
    BY <1>1, <2>1 DEF Types
  <2>3. isr_count' \in [Vcpus -> Nat]
    BY <1>3 DEF Types
  <2> QED
    BY <1>1, <1>2, <1>3, <1>4, <2>2, <2>3 DEF Types, Gone
<1>7. ASSUME NEW u \in Vcpus PROVE Thread(u)' /\ Caches(u)' /\ Awake(u)'
  <2>1. CASE u = v
    <3>1. Thread(v)'
      BY <1>4, Zenon DEF Thread, Gone
    <3>2. Caches(v)'
      <4>1. isr_count[v] = Cardinality(isr[v]) /\ IsFiniteSet(isr[v])
        BY FiniteVectors, FS_Subset DEF Caches, Types
      <4>2. Cardinality(isr[v] \cup {x}) = Cardinality(isr[v]) + 1
        BY <1>2, <4>1, FS_AddElement, Zenon
      <4>3. x <= x
        BY <1>2, Classes
      <4> QED
        BY <1>2, <1>4, <1>5, <4>1, <4>2, <4>3, Zenon DEF Caches, Gone
    <3>3. ASSUME NEW y \in irr'[v], Deliverable(v, y)' PROVE req_event'[v] \/ Delivering(v)'
      <4>1. PriorityClass(x) < PriorityClass(y) /\ y \in irr[v] /\ Deliverable(v, y) /\ y \in Vectors
        BY <1>5, <3>3 DEF Deliverable, Types
      <4>2. ~(y <= x)
        BY <1>2, <4>1, Classes
      <4> QED
        BY <1>1, <1>5, <4>1, <4>2, Zenon DEF Awake, Delivering
    <3> QED
      BY <1>4, <2>1, <3>1, <3>2, <3>3, Zenon DEF Awake, Gone
  <2>2. CASE u # v
    <3>1. UNCHANGED <<irr[u], irr_pending[u], isr[u], isr_count[u], highest_isr_cache[u],
                      req_event[u], step[u], cur[u]>>
      BY <1>1, <1>3, <1>4, <2>2 DEF Types, Gone
    <3> QED
      BY <1>1, <3>1, ApicIdle, Zenon DEF Delivering
  <2> QED
    BY <2>1, <2>2
<1>8. ASSUME NEW u \in Vcpus PROVE Known(u)'
  <2>1. CASE u = v
    BY <1>1, <1>2, <1>4, <1>5, <2>1, PinsAssumption, Zenon DEF Known, Gone
  <2>2. CASE u # v
    <3>1. UNCHANGED <<irr[u], isr[u], step[u], cur[u]>>
      BY <1>1, <1>4, <2>2 DEF Types, Gone
    <3> QED
      BY <1>1, <3>1, Zenon DEF Known
  <2> QED
    BY <2>1, <2>2
<1>9. \A u \in Vcpus : irr'[u] \cup isr'[u] = irr[u] \cup isr[u]
  BY <1>1, <1>2, Zenon DEF Types
<1>10. \A u \in Vcpus : step[u] \in {"deassert", "signal", "tail"} => step'[u] = step[u] /\ cur'[u] = cur[u]
  BY <1>1, <1>4, Zenon DEF Gone
<1>11. Lines' /\ Serviced' /\ Devices'
  BY <1>1, <1>10, LinesStand, Zenon
<1>12. RtcTracksItsEois' /\ RemoteIrrIsAwaited'
  BY <1>1, <1>9, <1>10 DEF RtcTracksItsEois, RemoteIrrIsAwaited, kvm_apic_pending_eoi, InEoi, Types
<1> QED
  BY <1>6, <1>7, <1>8, <1>11, <1>12

(* The guest is entered: with no request to scan, and if a writer has not     *)
(* posted one, it has stalled.                                                *)
LEMMA EnterStep == ASSUME IInv, NEW v \in Vcpus, EnterGuest(v) PROVE IInv'
<1> USE DEF IInv
<1>1. /\ step[v] = "host" /\ v \notin scan_req /\ ~req_event[v] /\ Goto(v, "guest", -1)
      /\ stalled' = (stalled \/ writer # {})
      /\ UNCHANGED <<redirtbl, ioapic_irr, irr_delivered, irq_states, irq_eoi, eoi_inject, dest_map,
                     pending_eoi, writer, irr, irr_pending, req_event, delivering, isr, isr_count,
                     highest_isr_cache, handled, scan_req, dev, inject, resample, writes>>
  BY Zenon DEF EnterGuest, lapicVars, irrVars, isrVars, ioapicVars
<1>2. Gone(v, "guest", -1)
  BY <1>1, Goes, Zenon DEF Steps
<1>3. Types'
  <2>1. stalled' \in BOOLEAN
    BY <1>1
  <2> QED
    BY <1>1, <1>2, <2>1 DEF Types, Gone
<1>4. ASSUME NEW u \in Vcpus PROVE Thread(u)' /\ Caches(u)' /\ Awake(u)'
  <2>1. (step'[u] = "clear" <=> step[u] = "clear") /\ (step[u] = "clear" => cur'[u] = cur[u])
    BY <1>1, <1>2, Zenon DEF Gone
  <2> QED
    BY <1>1, <1>2, <2>1, ApicStands, Zenon DEF Thread, Gone
<1>5. ASSUME NEW u \in Vcpus PROVE Known(u)'
  <2>1. CASE u = v
    BY <1>1, <1>2, <2>1, Zenon DEF Known, Gone
  <2>2. CASE u # v
    BY <1>1, <1>2, <2>2, Zenon DEF Known, Gone
  <2> QED
    BY <2>1, <2>2
<1>6. \A u \in Vcpus : step[u] \in {"deassert", "signal", "tail"} => step'[u] = step[u] /\ cur'[u] = cur[u]
  BY <1>1, <1>2, Zenon DEF Gone
<1>7. Lines' /\ Serviced' /\ Devices'
  BY <1>1, <1>6, LinesStand, Zenon
<1>8. RtcTracksItsEois' /\ RemoteIrrIsAwaited'
  BY <1>1, <1>6 DEF RtcTracksItsEois, RemoteIrrIsAwaited, kvm_apic_pending_eoi, InEoi, Types
<1> QED
  BY <1>3, <1>4, <1>5, <1>7, <1>8

(* It is left. *)
LEMMA ExitStep == ASSUME IInv, NEW v \in Vcpus, ExitGuest(v) PROVE IInv'
<1> USE DEF IInv
<1>1. /\ step[v] = "guest" /\ Goto(v, "host", -1)
      /\ UNCHANGED <<redirtbl, ioapic_irr, irr_delivered, irq_states, irq_eoi, eoi_inject, dest_map,
                     pending_eoi, writer, irr, irr_pending, req_event, delivering, isr, isr_count,
                     highest_isr_cache, handled, scan_req, dev, inject, resample, writes, stalled>>
  BY DEF ExitGuest, lapicVars, irrVars, isrVars, ioapicVars, devVars
<1>2. Gone(v, "host", -1)
  BY <1>1, Goes DEF Steps
<1>3. Types'
  BY <1>1, <1>2, Zenon DEF Types, Gone
<1>4. ASSUME NEW u \in Vcpus PROVE Thread(u)' /\ Caches(u)' /\ Awake(u)' /\ Known(u)'
  <2>1. (step'[u] = "clear" <=> step[u] = "clear") /\ (step[u] = "clear" => cur'[u] = cur[u])
    BY <1>1, <1>2, Zenon DEF Gone
  <2>2. Known(u)'
    BY <1>1, <1>2, Zenon DEF Known, Gone
  <2>3. Caches(u)' /\ Awake(u)'
    BY <1>1, <2>1, ApicStands, Zenon
  <2>4. Thread(u)'
    BY <1>1, <1>2, ThreadGone, Zenon
  <2> QED
    BY <2>2, <2>3, <2>4, Zenon
<1>5. \A u \in Vcpus : step[u] \in {"deassert", "signal", "tail"} => step'[u] = step[u] /\ cur'[u] = cur[u]
  BY <1>1, <1>2, Zenon DEF Gone
<1>6. Lines' /\ Serviced' /\ Devices'
  BY <1>1, <1>5, LinesStand, Zenon
<1>7. RtcTracksItsEois' /\ RemoteIrrIsAwaited'
  BY <1>1, <1>5 DEF RtcTracksItsEois, RemoteIrrIsAwaited, kvm_apic_pending_eoi, InEoi, Types
<1> QED
  BY <1>3, <1>4, <1>6, <1>7

(* The scan request of a write is posted. *)
LEMMA PostStep == ASSUME IInv, NEW v \in Vcpus, PostScan(v) PROVE IInv'
<1> USE DEF IInv
<1>1. /\ step[v] = "write" /\ Goto(v, "host", -1) /\ writer' = {} /\ scan_req' = Vcpus
      /\ UNCHANGED <<redirtbl, ioapic_irr, irr_delivered, irq_states, irq_eoi, eoi_inject, dest_map,
                     pending_eoi, irr, irr_pending, req_event, delivering, isr, isr_count,
                     highest_isr_cache, handled, dev, inject, resample, writes, stalled>>
  BY DEF PostScan, kvm_make_scan_ioapic_request, lapicVars, irrVars, isrVars, eoiVars, devVars
<1>2. Gone(v, "host", -1)
  BY <1>1, Goes DEF Steps
<1>3. Types'
  BY <1>1, <1>2 DEF Types, Gone
<1>4. ASSUME NEW u \in Vcpus PROVE Thread(u)' /\ Caches(u)' /\ Awake(u)' /\ Known(u)'
  <2>1. (step'[u] = "clear" <=> step[u] = "clear") /\ (step[u] = "clear" => cur'[u] = cur[u])
    BY <1>1, <1>2, Zenon DEF Gone
  <2>2. Known(u)'
    BY <1>1, <1>2, Zenon DEF Known, Gone
  <2>3. Caches(u)' /\ Awake(u)'
    BY <1>1, <2>1, ApicStands, Zenon
  <2>4. Thread(u)'
    BY <1>1, <1>2, ThreadGone, Zenon
  <2> QED
    BY <2>2, <2>3, <2>4, Zenon
<1>5. \A u \in Vcpus : step[u] \in {"deassert", "signal", "tail"} => step'[u] = step[u] /\ cur'[u] = cur[u]
  BY <1>1, <1>2, Zenon DEF Gone
<1>6. Lines' /\ Serviced' /\ Devices'
  BY <1>1, <1>5, LinesStand, Zenon
<1>7. RtcTracksItsEois' /\ RemoteIrrIsAwaited'
  BY <1>1, <1>5 DEF RtcTracksItsEois, RemoteIrrIsAwaited, kvm_apic_pending_eoi, InEoi, Types
<1> QED
  BY <1>3, <1>4, <1>6, <1>7

(* After a delivery a set remote_irr is awaited: it was, or the pin has just  *)
(* been delivered.                                                            *)
LEMMA AwaitKept ==
  ASSUME IInv, NEW table \in [Pins -> Entry], NEW pins \in SUBSET Pins,
         TableTo(table, pins), Requested(table, pins), isr' = isr, stalled' = stalled,
         \A p \in LevelPins : table[p].remote_irr =>
           redirtbl[p].remote_irr /\ \A u \in Vcpus : InEoi(u, VectorOf[p]) => InEoi(u, VectorOf[p])'
  PROVE  RemoteIrrIsAwaited'
<1> SUFFICES ASSUME ~stalled, NEW p \in LevelPins, redirtbl'[p].remote_irr
             PROVE  \E u \in Vcpus : \/ VectorOf[p] \in irr'[u] \cup isr'[u]
                                     \/ InEoi(u, VectorOf[p])'
  BY Zenon DEF RemoteIrrIsAwaited, kvm_apic_pending_eoi
<1>1. p \in Pins
  BY PinsAssumption, Zenon
<1>2. CASE p \in Fires(table, pins)
  BY <1>2, Zenon DEF Requested
<1>3. CASE p \notin Fires(table, pins)
  <2>1. table[p].remote_irr
    BY <1>1, <1>3, Zenon DEF TableTo
  <2>2. PICK u \in Vcpus : VectorOf[p] \in irr[u] \cup isr[u] \/ InEoi(u, VectorOf[p])
    BY <2>1, Zenon DEF IInv, RemoteIrrIsAwaited, kvm_apic_pending_eoi
  <2> QED
    BY <2>1, <2>2, Zenon DEF Requested
<1> QED
  BY <1>2, <1>3, Zenon

(* The RTC's bookkeeping after a delivery, tracked only when nobody owes an   *)
(* EOI.                                                                       *)
LEMMA RtcKept ==
  ASSUME Types, RtcTracksItsEois, NEW t \in BOOLEAN, Tracked(t), t => pending_eoi = 0,
         \A v \in Vcpus : irr[v] \subseteq irr'[v], isr' = isr
  PROVE  RtcTracksItsEois' /\ dest_map' \subseteq Vcpus /\ pending_eoi' \in Nat
<1>1. IsFiniteSet(dest_map)
  BY ApicAssumption, FS_Subset DEF Types
<1>2. CASE t
  <2>1. PICK D \in SUBSET Vcpus : /\ dest_map' = dest_map \cup D /\ pending_eoi' = Cardinality(D)
                                  /\ \A v \in D : VectorOf[RTC] \in irr'[v]
    BY <1>2 DEF Tracked
  <2>2. dest_map = {}
    BY <1>1, <1>2, FS_EmptySet DEF RtcTracksItsEois
  <2>3. Cardinality(D) \in Nat
    BY <2>1, ApicAssumption, FS_Subset, FS_CardinalityType
  <2> QED
    BY <2>1, <2>2, <2>3, Zenon DEF RtcTracksItsEois, kvm_apic_pending_eoi
<1>3. CASE ~t
  BY <1>3 DEF Tracked, RtcTracksItsEois, kvm_apic_pending_eoi, Types
<1> QED
  BY <1>2, <1>3, Zenon

(* The guest rewrites an entry of the table. *)
LEMMA WriteStep == ASSUME IInv, NEW v \in Vcpus, WriteEntry(v) PROVE IInv'
<1> USE DEF IInv
<1>1. PICK w \in Writes : ioapic_write_indirect(v, w[1], w[2], w[3])
  BY DEF WriteEntry
<1> DEFINE p == w[1]
           mask == w[2]
           dest == w[3]
           table == [redirtbl EXCEPT ![p].mask = mask, ![p].dest = dest]
           pins == {p} \cap LevelPins \cap ioapic_irr
<1>2. p \in Pins /\ mask \in BOOLEAN /\ dest \in Dests
  BY IrqChipAssumption
<1>3. /\ step[v] = "guest" /\ Goto(v, "write", -1) /\ LockFree
      /\ ioapic_service(table, pins, FALSE) /\ writer' = {v} /\ writes < MaxWrites
      /\ writes' = writes + 1
      /\ UNCHANGED <<ioapic_irr, irq_states, irq_eoi, eoi_inject, scan_req, handled, isr, isr_count,
                     highest_isr_cache, dev, inject, resample, stalled>>
  BY <1>1, Zenon DEF WriteEntry, ioapic_write_indirect, eoiVars, scanVars, isrVars
<1>4. /\ table \in [Pins -> Entry]
      /\ \A q \in Pins : table[q].remote_irr = redirtbl[q].remote_irr
      /\ \A q \in Pins : q # p => table[q].mask = redirtbl[q].mask
  <2> HIDE DEF p, mask, dest
  <2> QED
    BY <1>2, Zenon DEF Types, Entry
<1>5. pins \in SUBSET Pins /\ RTC \notin pins /\ LevelPins \subseteq Pins
  BY PinsAssumption
<1>6. p \in LevelPins /\ p \in ioapic_irr => p \in pins
  OBVIOUS
<1> HIDE DEF table, pins, p, mask, dest
<1>7. /\ TableTo(table, pins) /\ Requested(table, pins) /\ Sent
      /\ Tracked(RTC \in Fires(table, pins) /\ FALSE)
  BY <1>3, <1>4, <1>5, Service, Zenon
<1>8. Gone(v, "write", -1)
  BY <1>3, Goes DEF Steps
<1>9. dest_map' = dest_map /\ pending_eoi' = pending_eoi
  BY <1>7 DEF Tracked
<1>10. Types'
  <2>1. writes' \in 0..MaxWrites
    BY <1>3, IrqChipAssumption DEF Types
  <2> QED
    BY <1>3, <1>7, <1>8, <1>9, <2>1, Zenon DEF Types, TableTo, Requested, Sent, Gone
<1>11. ASSUME NEW u \in Vcpus PROVE Thread(u)' /\ Caches(u)' /\ Awake(u)' /\ Known(u)'
  <2>1. /\ step'[u] = "clear" <=> step[u] = "clear"
        /\ step[u] = "clear" => cur'[u] = cur[u]
        /\ step[u] \in {"host", "clear"} => step'[u] = step[u] /\ cur'[u] = cur[u]
    BY <1>3, <1>8, Zenon DEF Gone
  <2>2. Caches(u)' /\ Awake(u)'
    BY <1>3, <1>7, <2>1, ApicKept, Zenon DEF Requested
  <2>3. Thread(u)'
    BY <1>7, <1>8, ThreadGone, Zenon DEF Sent
  <2>4. Known(u)'
    BY <1>3, <1>4, <1>5, <1>7, <2>1, KnownKept, Zenon DEF LockFree
  <2> QED
    BY <2>2, <2>3, <2>4
<1>12. \A u \in Vcpus : step[u] \in {"deassert", "signal", "tail"} => step'[u] = step[u] /\ cur'[u] = cur[u]
  BY <1>3, <1>8, Zenon DEF Gone
<1>13. Lines' /\ Devices'
  <2>1. Lines'
    BY <1>3, <1>7, Zenon DEF Lines, TableTo
  <2>2. \A u \in Vcpus : step[u] = "signal" => step'[u] = step[u] /\ cur'[u] = cur[u]
    BY <1>12
  <2> QED
    BY <1>3, <2>1, <2>2, DevicesStand, Zenon
<1>14. Serviced'
  <2> SUFFICES ASSUME NEW q \in LevelPins, irq_states'[q] # {}, ~redirtbl'[q].mask
               PROVE  \/ redirtbl'[q].remote_irr \/ eoi_inject'
                      \/ \E u \in Vcpus : InEoi(u, VectorOf[q])'
    BY Zenon DEF Serviced
  <2>1. CASE q = p
    BY <1>3, <1>5, <1>6, <1>7, <2>1, Zenon DEF Lines, TableTo, Fires
  <2>2. CASE q # p
    <3>1. irq_states[q] # {} /\ ~redirtbl[q].mask /\ (redirtbl[q].remote_irr => redirtbl'[q].remote_irr)
      BY <1>3, <1>4, <1>5, <1>7, <2>2, Zenon DEF TableTo
    <3>2. \A u \in Vcpus : InEoi(u, VectorOf[q]) => InEoi(u, VectorOf[q])'
      BY <1>12, Zenon DEF InEoi
    <3> QED
      BY <1>3, <3>1, <3>2, Zenon DEF Serviced
  <2> QED
    BY <2>1, <2>2, Zenon
<1>15. RemoteIrrIsAwaited'
  <2>1. \A q \in LevelPins : table[q].remote_irr =>
          redirtbl[q].remote_irr /\ \A u \in Vcpus : InEoi(u, VectorOf[q]) => InEoi(u, VectorOf[q])'
    BY <1>4, <1>5, <1>12, Zenon DEF InEoi
  <2> QED
    BY <1>3, <1>4, <1>5, <1>7, <2>1, AwaitKept, Zenon
<1>16. RtcTracksItsEois'
  BY <1>3, <1>7, <1>9, Zenon DEF RtcTracksItsEois, kvm_apic_pending_eoi, Requested, Types
<1> QED
  BY <1>10, <1>11, <1>13, <1>14, <1>15, <1>16

(* The level of pin p after a source has driven it. *)
Level(p, source, level) == IF level THEN irq_states[p] \cup {source} ELSE irq_states[p] \ {source}

(* What kvm_ioapic_set_irq does: it delivers some of {p}, in any case a level *)
(* pin that is raised, and tracks the RTC only when nobody owes an EOI.       *)
Driven(p, source, level, ls, pins) ==
  /\ pins \in SUBSET Pins
  /\ TableTo(redirtbl, pins) /\ Requested(redirtbl, pins) /\ Sent
  /\ Tracked(RTC \in Fires(redirtbl, pins) /\ ls)
  /\ RTC \in Fires(redirtbl, pins) /\ ls => pending_eoi = 0
  /\ p \in LevelPins /\ Level(p, source, level) # {} => p \in pins
  /\ irq_states' = [irq_states EXCEPT ![p] = Level(p, source, level)]
  /\ ioapic_irr' \subseteq Pins
  /\ \A q \in Pins : q # p => (q \in ioapic_irr' <=> q \in ioapic_irr)
  /\ p \in LevelPins => (p \in ioapic_irr' <=> Level(p, source, level) # {})

(* No pin at all is delivered. *)
LEMMA NoService ==
  ASSUME Types, UNCHANGED <<redirtbl, dest_map, pending_eoi, irr, irr_pending, req_event, delivering>>,
         irr_delivered' \subseteq irr_delivered
  PROVE  /\ TableTo(redirtbl, {}) /\ Requested(redirtbl, {}) /\ Sent /\ Tracked(FALSE)
         /\ Fires(redirtbl, {}) = {}
<1>1. Fires(redirtbl, {}) = {}
  BY DEF Fires
<1>2. TableTo(redirtbl, {})
  BY <1>1 DEF TableTo, Types
<1>3. Requested(redirtbl, {}) /\ Sent /\ Tracked(FALSE)
  BY <1>1, Zenon DEF Requested, Sent, Tracked, Types, Delivering
<1> QED
  BY <1>1, <1>2, <1>3, Zenon

(* kvm_ioapic_set_irq in all its branches. *)
LEMMA Drives ==
  ASSUME Types, NEW p \in Pins, NEW source \in Sources, NEW level \in BOOLEAN, NEW ls \in BOOLEAN,
         kvm_ioapic_set_irq(p, source, level, ls)
  PROVE  \E pins : Driven(p, source, level, ls, pins)
<1> DEFINE states == Level(p, source, level)
           up == states # {}
<1>1. irq_states' = [irq_states EXCEPT ![p] = states] /\ ioapic_set_irq(p, up, ls)
  BY DEF kvm_ioapic_set_irq, Level
<1>2. pending_eoi \in Nat
  BY DEF Types
<1>3. CASE ~up
  <2>1. ioapic_irr' = ioapic_irr \ {p} /\ UNCHANGED serviceVars
    BY <1>1, <1>3 DEF ioapic_set_irq
  <2>2. /\ TableTo(redirtbl, {}) /\ Requested(redirtbl, {}) /\ Sent /\ Tracked(FALSE)
        /\ Fires(redirtbl, {}) = {}
    BY <2>1, NoService, Zenon DEF serviceVars, irrVars
  <2>3. Driven(p, source, level, ls, {})
    BY <1>1, <1>3, <2>1, <2>2, Zenon DEF Driven, Types
  <2> QED
    BY <2>3
<1>4. CASE up /\ p = RTC /\ ls /\ pending_eoi > 0
  <2>1. UNCHANGED <<ioapic_irr, serviceVars>>
    BY <1>1, <1>4, Zenon DEF ioapic_set_irq
  <2>2. /\ TableTo(redirtbl, {}) /\ Requested(redirtbl, {}) /\ Sent /\ Tracked(FALSE)
        /\ Fires(redirtbl, {}) = {}
    BY <2>1, NoService, Zenon DEF serviceVars, irrVars
  <2>3. Driven(p, source, level, ls, {})
    BY <1>1, <1>4, <2>1, <2>2, PinsAssumption, Zenon DEF Driven, Types
  <2> QED
    BY <2>3
<1>5. CASE up /\ ~(p = RTC /\ ls /\ pending_eoi > 0)
  <2>1. ioapic_irr' = ioapic_irr \cup {p}
    BY <1>1, <1>5 DEF ioapic_set_irq
  <2>2. CASE p \notin LevelPins /\ p \in ioapic_irr
    <3>1. /\ irr_delivered' = irr_delivered \ {p}
          /\ UNCHANGED <<redirtbl, dest_map, pending_eoi, irrVars>>
      BY <1>1, <1>5, <2>2 DEF ioapic_set_irq
    <3>2. /\ TableTo(redirtbl, {}) /\ Requested(redirtbl, {}) /\ Sent /\ Tracked(FALSE)
          /\ Fires(redirtbl, {}) = {}
      BY <3>1, NoService, Zenon DEF irrVars
    <3>3. Driven(p, source, level, ls, {})
      BY <1>1, <2>1, <2>2, <3>2, Zenon DEF Driven, Types
    <3> QED
      BY <3>3
  <2>3. CASE ~(p \notin LevelPins /\ p \in ioapic_irr)
    <3>1. ioapic_service(redirtbl, {p}, ls)
      BY <1>1, <1>5, <2>3 DEF ioapic_set_irq
    <3>2. /\ TableTo(redirtbl, {p}) /\ Requested(redirtbl, {p}) /\ Sent
          /\ Tracked(RTC \in Fires(redirtbl, {p}) /\ ls)
      BY <3>1, Service, Zenon DEF Types
    <3>3. RTC \in Fires(redirtbl, {p}) /\ ls => pending_eoi = 0
      BY <1>2, <1>5 DEF Fires
    <3>4. Driven(p, source, level, ls, {p})
      BY <1>1, <1>5, <2>1, <3>2, <3>3 DEF Driven, Types
    <3> QED
      BY <3>4
  <2> QED
    BY <2>2, <2>3
<1> QED
  BY <1>3, <1>4, <1>5

(* All of the invariant but the devices. *)
Chip == /\ Types
        /\ \A v \in Vcpus : Thread(v) /\ Caches(v) /\ Awake(v) /\ Known(v)
        /\ Lines /\ Serviced /\ RtcTracksItsEois /\ RemoteIrrIsAwaited

(* A line is driven, by user space, by irqfd_inject or by the resampler. *)
LEMMA LineStep ==
  ASSUME IInv, NEW p \in Pins, NEW source \in Sources, NEW level \in BOOLEAN, NEW ls \in BOOLEAN,
         kvm_ioapic_set_irq(p, source, level, ls),
         step' \in [Vcpus -> Steps], cur' = cur,
         \A u \in Vcpus : step'[u] = step[u] \/ (step[u] = "deassert" /\ step'[u] = "signal"),
         dev' \subseteq NotifiedPins, inject' \subseteq NotifiedPins, resample' \subseteq NotifiedPins,
         writes' = writes, stalled' = stalled
  PROVE  Chip' /\ irq_states' = [irq_states EXCEPT ![p] = Level(p, source, level)]
<1> USE DEF IInv
<1>1. PICK pins : Driven(p, source, level, ls, pins)
  BY Drives
<1>2. /\ LockFree
      /\ UNCHANGED <<irq_eoi, eoi_inject, scan_req, handled, writer, isr, isr_count, highest_isr_cache>>
  BY DEF kvm_ioapic_set_irq, eoiVars, scanVars, isrVars
<1>3. /\ pins \in SUBSET Pins /\ TableTo(redirtbl, pins) /\ Requested(redirtbl, pins) /\ Sent
      /\ irq_states' = [irq_states EXCEPT ![p] = Level(p, source, level)]
  BY <1>1 DEF Driven
<1>4. RtcTracksItsEois' /\ dest_map' \subseteq Vcpus /\ pending_eoi' \in Nat
  <2> DEFINE t == RTC \in Fires(redirtbl, pins) /\ ls
  <2>1. t \in BOOLEAN /\ Tracked(t) /\ (t => pending_eoi = 0)
    BY <1>1 DEF Driven
  <2> HIDE DEF t
  <2> QED
    BY <1>2, <1>3, <2>1, RtcKept, Zenon DEF Requested
<1>5. Types'
  <2>1. Level(p, source, level) \in SUBSET Sources
    BY DEF Level, Types
  <2>2. irq_states' \in [Pins -> SUBSET Sources] /\ ioapic_irr' \subseteq Pins
    BY <1>1, <2>1 DEF Driven, Types
  <2> QED
    BY <1>2, <1>3, <1>4, <2>2, Zenon DEF Types, TableTo, Requested, Sent
<1>6. ASSUME NEW u \in Vcpus PROVE Thread(u)' /\ Caches(u)' /\ Awake(u)' /\ Known(u)'
  <2>1. Caches(u)' /\ Awake(u)'
    BY <1>2, <1>3, ApicKept, Zenon DEF Requested
  <2>2. Thread(u)'
    BY <1>3, Zenon DEF Thread, Sent
  <2>3. Known(u)'
    BY <1>2, <1>3, KnownKept DEF LockFree, Types
  <2> QED
    BY <2>1, <2>2, <2>3
<1>7. \A u \in Vcpus, x \in Vectors : InEoi(u, x)' <=> InEoi(u, x)
  BY Zenon DEF InEoi
<1>8. LevelPins \subseteq Pins /\ \A q \in Pins : VectorOf[q] \in Vectors
  BY PinsAssumption, Zenon
<1>9. Lines'
  BY <1>1, <1>3, <1>8 DEF Lines, Driven, TableTo, Types
<1>10. Serviced'
  <2> SUFFICES ASSUME NEW q \in LevelPins, irq_states'[q] # {}, ~redirtbl'[q].mask
               PROVE  \/ redirtbl'[q].remote_irr \/ eoi_inject'
                      \/ \E u \in Vcpus : InEoi(u, VectorOf[q])'
    BY Zenon DEF Serviced
  <2>1. CASE q = p
    <3>1. p \in pins
      BY <1>1, <2>1 DEF Driven, Types
    <3> QED
      BY <1>3, <1>8, <2>1, <3>1, Zenon DEF TableTo, Fires
  <2>2. CASE q # p
    <3>1. irq_states[q] # {} /\ ~redirtbl[q].mask
      BY <1>3, <1>8, <2>2, Zenon DEF TableTo, Types
    <3> QED
      BY <1>2, <1>3, <1>7, <1>8, <3>1, Zenon DEF Serviced, TableTo
  <2> QED
    BY <2>1, <2>2, Zenon
<1>11. RemoteIrrIsAwaited'
  <2>1. \A q \in LevelPins : redirtbl[q].remote_irr =>
          redirtbl[q].remote_irr /\ \A u \in Vcpus : InEoi(u, VectorOf[q]) => InEoi(u, VectorOf[q])'
    BY <1>7, <1>8, Zenon
  <2> QED
    BY <1>2, <1>3, <2>1, AwaitKept DEF Types
<1> QED
  BY <1>3, <1>4, <1>5, <1>6, <1>9, <1>10, <1>11 DEF Chip

(* A vector belongs to one pin. *)
LEMMA Owner == ASSUME NEW p \in Pins PROVE PinOf(VectorOf[p]) = p
BY PinsAssumption DEF PinOf

(* The invariant is that of the chip and that of the devices. *)
LEMMA Whole == IInv <=> Chip /\ Devices
BY DEF IInv, Chip

(* User space drives a line. *)
LEMMA UserspaceStep == ASSUME IInv, UserspaceIrq PROVE IInv'
<1>1. PICK p \in UserPins, level \in BOOLEAN : /\ kvm_ioapic_set_irq(p, USERSPACE, level, TRUE)
                                               /\ UNCHANGED <<threadVars, devVars>>
  BY Zenon DEF UserspaceIrq
<1>2. p \in Pins /\ USERSPACE \in Sources /\ RESAMPLE # USERSPACE
  BY IrqChipAssumption
<1>3. Chip' /\ irq_states' = [irq_states EXCEPT ![p] = Level(p, USERSPACE, level)]
  BY <1>1, <1>2, LineStep, Zenon DEF IInv, Types, threadVars, devVars
<1>4. \A q \in Pins : RESAMPLE \in irq_states[q] => RESAMPLE \in irq_states'[q]
  BY <1>2, <1>3, Zenon DEF Level, IInv, Types
<1>5. Devices'
  BY <1>1, <1>4, PinsAssumption, Zenon DEF Devices, IInv, threadVars, devVars, Types
<1> QED
  BY <1>3, <1>5 DEF IInv, Chip

(* irqfd_inject raises a device's line. *)
LEMMA IrqfdStep == ASSUME IInv, IrqfdInject PROVE IInv'
<1>1. PICK p \in inject : /\ inject' = inject \ {p}
                          /\ kvm_ioapic_set_irq(p, RESAMPLE, TRUE, FALSE)
                          /\ UNCHANGED <<dev, resample, threadVars, writes, stalled>>
  BY Zenon DEF IrqfdInject
<1>2. p \in Pins /\ RESAMPLE \in Sources /\ NotifiedPins \subseteq Pins
  BY IrqChipAssumption, PinsAssumption DEF IInv, Types
<1>3. Chip' /\ irq_states' = [irq_states EXCEPT ![p] = Level(p, RESAMPLE, TRUE)]
  BY <1>1, <1>2, LineStep, Zenon DEF IInv, Types, threadVars
<1>4. RESAMPLE \in irq_states'[p] /\ \A q \in Pins : q # p => irq_states'[q] = irq_states[q]
  BY <1>2, <1>3, Zenon DEF Level, IInv, Types
<1>5. Devices'
  BY <1>1, <1>2, <1>4, Zenon DEF Devices, IInv, threadVars, Types
<1> QED
  BY <1>3, <1>5 DEF IInv, Chip

(* The resampler lowers it, and still has to signal. *)
LEMMA DeassertStep == ASSUME IInv, NEW v \in Vcpus, ResamplerDeassert(v) PROVE IInv'
<1>1. PICK p \in NotifiedPins : cur[v] = VectorOf[p]
  BY Zenon DEF ResamplerDeassert, IInv, Thread
<1>2. p \in Pins /\ RESAMPLE \in Sources /\ PinOf(cur[v]) = p /\ NotifiedPins \subseteq Pins
  BY <1>1, IrqChipAssumption, PinsAssumption, Owner
<1>3. /\ step[v] = "deassert" /\ kvm_ioapic_set_irq(p, RESAMPLE, FALSE, FALSE)
      /\ Goto(v, "signal", cur[v]) /\ UNCHANGED <<dev, inject, resample, writes, stalled>>
  BY <1>2, Zenon DEF ResamplerDeassert, devVars
<1>4. Gone(v, "signal", cur[v])
  BY <1>3, Goes DEF Steps, IInv, Types
<1>5. /\ step' \in [Vcpus -> Steps] /\ cur' = cur
      /\ \A u \in Vcpus : step'[u] = step[u] \/ (step[u] = "deassert" /\ step'[u] = "signal")
  BY <1>3, <1>4, Zenon DEF Gone, IInv, Types, Goto
<1>6. Chip' /\ irq_states' = [irq_states EXCEPT ![p] = Level(p, RESAMPLE, FALSE)]
  BY <1>2, <1>3, <1>5, LineStep, Zenon DEF IInv, Types
<1>7. \A q \in Pins : q # p => irq_states'[q] = irq_states[q]
  BY <1>6, Zenon DEF IInv, Types
<1>8. ASSUME NEW q \in dev'
      PROVE  \/ RESAMPLE \in irq_states'[q] \/ q \in inject' \cup resample'
             \/ \E u \in Vcpus : step'[u] = "signal" /\ cur'[u] = VectorOf[q]
  <2>1. q \in dev /\ q \in Pins
    BY <1>2, <1>3, <1>8 DEF IInv, Types
  <2>2. CASE q = p
    BY <1>1, <1>4, <2>2, Zenon DEF Gone
  <2>3. CASE q # p
    <3>1. \/ RESAMPLE \in irq_states[q] \/ q \in inject \cup resample
          \/ \E u \in Vcpus : step[u] = "signal" /\ cur[u] = VectorOf[q]
      BY <2>1, Zenon DEF IInv, Devices
    <3>2. \A u \in Vcpus : step[u] = "signal" => step'[u] = "signal" /\ cur'[u] = cur[u]
      BY <1>5
    <3> QED
      BY <1>3, <1>7, <2>1, <2>3, <3>1, <3>2, Zenon
  <2> QED
    BY <2>2, <2>3, Zenon
<1> QED
  BY <1>6, <1>8, Zenon DEF IInv, Chip, Devices

(* The steps that touch neither table nor APICs. *)
LEMMA ChipStands ==
  ASSUME IInv, UNCHANGED <<lapicVars, ioapicVars, stalled>>, writes' = writes,
         step' \in [Vcpus -> Steps], cur' = cur,
         \A u \in Vcpus : step'[u] = step[u] \/ (step[u] = "signal" /\ step'[u] = "tail"),
         dev' \subseteq NotifiedPins, inject' \subseteq NotifiedPins, resample' \subseteq NotifiedPins
  PROVE  Chip'
<1> USE DEF IInv
<1>1. UNCHANGED <<redirtbl, ioapic_irr, irr_delivered, irq_states, irq_eoi, eoi_inject, dest_map,
                  pending_eoi, writer, irr, irr_pending, req_event, delivering, isr, isr_count,
                  highest_isr_cache, handled, scan_req>>
  BY DEF lapicVars, irrVars, isrVars, ioapicVars
<1>2. Types'
  BY <1>1, Zenon DEF Types
<1>3. \A u \in Vcpus : Thread(u)' /\ Caches(u)' /\ Awake(u)'
  BY <1>1, ApicStands, Zenon DEF Thread
<1>4. \A u \in Vcpus : Known(u)'
  BY <1>1, KnownStands, Zenon
<1>5. \A u \in Vcpus, x \in Vectors : InEoi(u, x)' <=> InEoi(u, x)
  BY Zenon DEF InEoi
<1>6. LevelPins \subseteq Pins /\ \A q \in Pins : VectorOf[q] \in Vectors
  BY PinsAssumption
<1>7. Lines' /\ Serviced'
  BY <1>1, <1>5, <1>6, Zenon DEF Lines, Serviced
<1>8. RtcTracksItsEois' /\ RemoteIrrIsAwaited'
  BY <1>1, <1>5, <1>6, Zenon DEF RtcTracksItsEois, RemoteIrrIsAwaited, kvm_apic_pending_eoi
<1> QED
  BY <1>2, <1>3, <1>4, <1>7, <1>8 DEF Chip

(* The resampler signals. *)
LEMMA SignalStep == ASSUME IInv, NEW v \in Vcpus, ResamplerSignal(v) PROVE IInv'
<1>1. PICK p \in NotifiedPins : cur[v] = VectorOf[p]
  BY Zenon DEF ResamplerSignal, IInv, Thread
<1>2. PinOf(cur[v]) = p /\ NotifiedPins \subseteq Pins
  BY <1>1, PinsAssumption, Owner
<1>3. /\ step[v] = "signal" /\ resample' = resample \cup {p} /\ Goto(v, "tail", cur[v])
      /\ UNCHANGED <<lapicVars, ioapicVars, dev, inject, writes, stalled>>
  BY <1>2, Zenon DEF ResamplerSignal
<1>4. Gone(v, "tail", cur[v])
  BY <1>3, Goes DEF Steps, IInv, Types
<1>5. /\ step' \in [Vcpus -> Steps] /\ cur' = cur
      /\ \A u \in Vcpus : step'[u] = step[u] \/ (step[u] = "signal" /\ step'[u] = "tail")
  BY <1>3, <1>4, Zenon DEF Gone, IInv, Types, Goto
<1>6. Chip'
  BY <1>3, <1>5, ChipStands, Zenon DEF IInv, Types
<1>7. ASSUME NEW q \in dev'
      PROVE  \/ RESAMPLE \in irq_states'[q] \/ q \in inject' \cup resample'
             \/ \E u \in Vcpus : step'[u] = "signal" /\ cur'[u] = VectorOf[q]
  <2>1. q \in dev /\ q \in Pins
    BY <1>2, <1>3, <1>7 DEF IInv, Types
  <2>2. CASE q = p
    BY <1>3, <2>2, Zenon
  <2>3. CASE q # p
    <3>1. VectorOf[q] # cur[v]
      BY <1>1, <1>2, <2>1, <2>3, PinsAssumption
    <3> QED
      BY <1>3, <1>4, <2>1, <3>1, Zenon DEF IInv, Devices, ioapicVars, Gone
  <2> QED
    BY <2>2, <2>3
<1> QED
  BY <1>6, <1>7, Zenon DEF IInv, Chip, Devices

(* A device asks for service, is asked again, or is served. *)
LEMMA DeviceSteps ==
  ASSUME IInv, DeviceRaises \/ DeviceResamples \/ GuestServes PROVE IInv'
<1>1. /\ UNCHANGED <<lapicVars, ioapicVars, threadVars, writes, stalled>>
      /\ dev' \subseteq NotifiedPins /\ inject' \subseteq NotifiedPins /\ resample' \subseteq NotifiedPins
      /\ inject \cup resample \subseteq inject' \cup resample' \cup (NotifiedPins \ dev')
      /\ dev' \ dev \subseteq inject'
  <2>1. CASE DeviceRaises
    BY <2>1 DEF DeviceRaises, IInv, Types
  <2>2. CASE DeviceResamples
    BY <2>2 DEF DeviceResamples, IInv, Types
  <2>3. CASE GuestServes
    BY <2>3, Zenon DEF GuestServes, IInv, Types
  <2> QED
    BY <2>1, <2>2, <2>3
<1>2. Chip'
  BY <1>1, ChipStands DEF IInv, Types, threadVars
<1>3. Devices'
  BY <1>1, Zenon DEF IInv, Devices, ioapicVars, threadVars
<1> QED
  BY <1>2, <1>3 DEF IInv, Chip

(* The second half of a delivery: hint and request. *)
LEMMA AcceptStep == ASSUME IInv, Accept PROVE IInv'
<1> USE DEF IInv
<1>1. PICK d \in delivering : /\ apic_accept_irq(d[1], d[2])
                              /\ UNCHANGED <<ioapicVars, threadVars, devVars>>
  BY DEF Accept
<1>2. PICK v \in Vcpus, x \in Vectors : d = <<v, x>>
  BY DEF Types
<1>3. /\ delivering' = delivering \ {<<v, x>>}
      /\ irr_pending' = [irr_pending EXCEPT ![v] = TRUE]
      /\ req_event' = [req_event EXCEPT ![v] = TRUE]
      /\ UNCHANGED <<redirtbl, ioapic_irr, irr_delivered, irq_states, irq_eoi, eoi_inject, dest_map,
                     pending_eoi, writer, irr, isr, isr_count, highest_isr_cache, handled, scan_req,
                     step, cur, dev, inject, resample, writes, stalled>>
  BY <1>1, <1>2, Zenon DEF apic_accept_irq, isrVars, ioapicVars, threadVars, devVars
<1>4. Types'
  BY <1>3 DEF Types
<1>5. ASSUME NEW u \in Vcpus PROVE Thread(u)' /\ Caches(u)' /\ Awake(u)'
  <2>1. CASE u = v
    BY <1>3, <2>1, Zenon DEF Thread, Caches, Awake, Deliverable, Types
  <2>2. CASE u # v
    <3>1. Delivering(u) => Delivering(u)'
      BY <1>3, <2>2 DEF Delivering
    <3>2. UNCHANGED <<irr[u], irr_pending[u], isr[u], isr_count[u], highest_isr_cache[u],
                      req_event[u], step[u], cur[u]>>
      BY <1>3, <2>2 DEF Types
    <3> QED
      BY <3>1, <3>2, ApicIdle, Zenon
  <2> QED
    BY <2>1, <2>2, Zenon
<1>6. \A u \in Vcpus : Known(u)'
  BY <1>3, KnownStands, Zenon
<1>7. Lines' /\ Serviced' /\ Devices'
  BY <1>3, Zenon, LinesStand, Zenon
<1>8. RtcTracksItsEois' /\ RemoteIrrIsAwaited'
  BY <1>3, Zenon DEF RtcTracksItsEois, RemoteIrrIsAwaited, kvm_apic_pending_eoi, InEoi
<1> QED
  BY <1>4, <1>5, <1>6, <1>7, <1>8

(* The delayed work delivers every raised level pin that awaits no EOI. *)
LEMMA WorkStep == ASSUME IInv, EoiInjectWork PROVE IInv'
<1> USE DEF IInv
<1> DEFINE pins == ioapic_irr \cap LevelPins
<1>1. /\ LockFree /\ eoi_inject' = FALSE /\ ioapic_service(redirtbl, pins, FALSE)
      /\ UNCHANGED <<ioapic_irr, irq_states, irq_eoi, scan_req, handled, writer, isr, isr_count,
                     highest_isr_cache, step, cur, dev, inject, resample, writes, stalled>>
  BY Zenon DEF EoiInjectWork, kvm_ioapic_eoi_inject_work, scanVars, isrVars, threadVars, devVars
<1>2. pins \in SUBSET Pins /\ LevelPins \subseteq Pins /\ redirtbl \in [Pins -> Entry]
  BY PinsAssumption DEF Types
<1>3. \A p \in LevelPins : p \in pins <=> irq_states[p] # {}
  BY Zenon DEF Lines
<1> HIDE DEF pins
<1>4. /\ TableTo(redirtbl, pins) /\ Requested(redirtbl, pins) /\ Sent
      /\ Tracked(RTC \in Fires(redirtbl, pins) /\ FALSE)
  BY <1>1, <1>2, Service, Zenon
<1>5. dest_map' = dest_map /\ pending_eoi' = pending_eoi
  BY <1>4, Zenon DEF Tracked
<1>6. Types'
  BY <1>1, <1>4, <1>5, Zenon DEF Types, TableTo, Requested, Sent
<1>7. ASSUME NEW u \in Vcpus PROVE Thread(u)' /\ Caches(u)' /\ Awake(u)' /\ Known(u)'
  <2>1. Caches(u)' /\ Awake(u)'
    BY <1>1, <1>4, ApicKept, Zenon DEF Requested
  <2>2. Thread(u)'
    BY <1>1, <1>4, Zenon DEF Thread, Sent
  <2>3. Known(u)'
    BY <1>1, <1>2, <1>4, KnownKept, Zenon DEF LockFree
  <2> QED
    BY <2>1, <2>2, <2>3
<1>8. Lines' /\ Devices'
  BY <1>1, <1>4, Zenon DEF Lines, Devices, TableTo
<1>9. Serviced'
  BY <1>1, <1>2, <1>3, <1>4, Zenon DEF Serviced, TableTo, Fires
<1>10. RemoteIrrIsAwaited'
  <2>1. \A p \in LevelPins : redirtbl[p].remote_irr =>
          redirtbl[p].remote_irr /\ \A u \in Vcpus : InEoi(u, VectorOf[p]) => InEoi(u, VectorOf[p])'
    BY <1>1, Zenon DEF InEoi
  <2> QED
    BY <1>1, <1>2, <1>4, <2>1, AwaitKept
<1>11. RtcTracksItsEois'
  BY <1>1, <1>4, <1>5, Zenon DEF RtcTracksItsEois, kvm_apic_pending_eoi, Requested, Types
<1> QED
  BY <1>6, <1>7, <1>8, <1>9, <1>10, <1>11

(* The end of an EOI of a pin that is not a level pin. *)
LEMMA EdgeEoiStep ==
  ASSUME IInv, NEW v \in Vcpus, UpdateEoi(v), NEW p \in Pins, cur[v] = VectorOf[p], p \notin LevelPins
  PROVE  IInv'
<1> USE DEF IInv
<1>1. /\ step[v] = "tail" /\ Goto(v, "host", -1)
      /\ UNCHANGED <<redirtbl, ioapic_irr, irr_delivered, irq_states, irq_eoi, eoi_inject, dest_map,
                     pending_eoi, writer, irr, irr_pending, req_event, delivering, isr, isr_count,
                     highest_isr_cache, handled, scan_req, dev, inject, resample, writes, stalled>>
  BY Owner, Zenon DEF UpdateEoi, lapicVars, irrVars, isrVars, ioapicVars, devVars
<1>2. Gone(v, "host", -1)
  BY <1>1, Goes, Zenon DEF Steps
<1>3. Types'
  BY <1>1, <1>2 DEF Types, Gone
<1>4. ASSUME NEW u \in Vcpus PROVE Thread(u)' /\ Caches(u)' /\ Awake(u)' /\ Known(u)'
  <2>1. (step'[u] = "clear" <=> step[u] = "clear") /\ (step[u] = "clear" => cur'[u] = cur[u])
    BY <1>1, <1>2, Zenon DEF Gone
  <2>2. Known(u)'
    BY <1>1, <1>2, Zenon DEF Known, Gone
  <2>3. Caches(u)' /\ Awake(u)'
    BY <1>1, <2>1, ApicStands, Zenon
  <2>4. Thread(u)'
    BY <1>1, <1>2, ThreadGone, Zenon
  <2> QED
    BY <2>2, <2>3, <2>4, Zenon
<1>5. \A q \in LevelPins : VectorOf[q] # cur[v]
  BY PinsAssumption
<1>6. \A u \in Vcpus, q \in LevelPins : InEoi(u, VectorOf[q]) => InEoi(u, VectorOf[q])'
  BY <1>2, <1>5 DEF Gone, InEoi
<1>7. Lines' /\ Serviced'
  BY <1>1, <1>6, Zenon DEF Lines, Serviced
<1>8. Devices'
  <2>1. \A u \in Vcpus : step[u] = "signal" => step'[u] = step[u] /\ cur'[u] = cur[u]
    BY <1>1, <1>2, Zenon DEF Gone
  <2> QED
    BY <1>1, <2>1, DevicesStand, Zenon
<1>9. RtcTracksItsEois' /\ RemoteIrrIsAwaited'
  BY <1>1, <1>6, Zenon DEF RtcTracksItsEois, RemoteIrrIsAwaited, kvm_apic_pending_eoi
<1> QED
  BY <1>3, <1>4, <1>7, <1>8, <1>9, Zenon

(* The end of an EOI of a level pin: it may be delivered again. *)
LEMMA LevelEoiStep ==
  ASSUME IInv, NEW v \in Vcpus, UpdateEoi(v), NEW p \in LevelPins, cur[v] = VectorOf[p]
  PROVE  IInv'
<1> USE DEF IInv
<1> DEFINE again == ~redirtbl[p].mask /\ p \in ioapic_irr
           storm == again /\ irq_eoi[p] + 1 = StormMax
           table == [redirtbl EXCEPT ![p].remote_irr = FALSE]
           pins == IF again /\ ~storm THEN {p} ELSE {}
<1>1. p \in Pins /\ LevelPins \subseteq Pins /\ RTC \notin LevelPins
      /\ (\A q \in LevelPins : q # p => VectorOf[q] # cur[v]) /\ PinOf(cur[v]) = p
  BY PinsAssumption, Owner
<1>2. /\ step[v] = "tail" /\ Goto(v, "host", -1) /\ LockFree
      /\ irq_eoi' = [irq_eoi EXCEPT ![p] = IF again /\ ~storm THEN @ + 1 ELSE 0]
      /\ eoi_inject' = (eoi_inject \/ storm) /\ ioapic_service(table, pins, FALSE)
      /\ UNCHANGED <<ioapic_irr, irq_states, scan_req, handled, writer, isr, isr_count,
                     highest_isr_cache, dev, inject, resample, writes, stalled>>
  BY <1>1, Zenon DEF UpdateEoi, kvm_ioapic_update_eoi, scanVars, isrVars, devVars
<1>3. /\ table \in [Pins -> Entry] /\ ~table[p].remote_irr
      /\ \A q \in Pins : table[q].mask = redirtbl[q].mask /\ table[q].dest = redirtbl[q].dest
      /\ \A q \in Pins : q # p => table[q].remote_irr = redirtbl[q].remote_irr
  <2>1. redirtbl \in [Pins -> Entry]  BY Zenon DEF Types
  <2> HIDE DEF IInv
  <2>2. QED  BY <1>1, <2>1, Zenon DEF Entry
<1>4. pins \in SUBSET Pins /\ RTC \notin pins
  BY <1>1, Zenon
<1>5. again \in BOOLEAN /\ storm \in BOOLEAN /\ (again /\ ~storm => p \in pins)
  OBVIOUS
<1>6. irq_states[p] # {} /\ ~redirtbl[p].mask => again
  BY DEF Lines
<1>7. irq_eoi' \in [Pins -> 0..(StormMax - 1)] /\ eoi_inject' \in BOOLEAN
  <2>1. irq_eoi[p] \in 0..(StormMax - 1)
    BY <1>1, Zenon DEF Types
  <2>2. (IF again /\ ~storm THEN irq_eoi[p] + 1 ELSE 0) \in 0..(StormMax - 1)
    BY <2>1, PinsAssumption
  <2> QED
    BY <1>2, <2>2, Zenon DEF Types
<1> HIDE DEF table, pins, again, storm
<1>8. /\ TableTo(table, pins) /\ Requested(table, pins) /\ Sent
      /\ Tracked(RTC \in Fires(table, pins) /\ FALSE)
  BY <1>2, <1>3, <1>4, Service, Zenon
<1>9. Gone(v, "host", -1)
  BY <1>2, Goes, Zenon DEF Steps
<1>10. dest_map' = dest_map /\ pending_eoi' = pending_eoi
  BY <1>8, Zenon DEF Tracked
<1>11. Types'
  BY <1>2, <1>7, <1>8, <1>9, <1>10, Zenon DEF Types, TableTo, Requested, Sent, Gone
<1>12. ASSUME NEW u \in Vcpus PROVE Thread(u)' /\ Caches(u)' /\ Awake(u)' /\ Known(u)'
  <2>1. /\ step'[u] = "clear" <=> step[u] = "clear"
        /\ step[u] = "clear" => cur'[u] = cur[u]
        /\ step[u] \in {"host", "clear"} => step'[u] = step[u] /\ cur'[u] = cur[u]
    BY <1>2, <1>9, Zenon DEF Gone
  <2>2. Caches(u)' /\ Awake(u)'
    BY <1>2, <1>8, <2>1, ApicKept, Zenon DEF Requested
  <2>3. Thread(u)'
    BY <1>8, <1>9, ThreadGone, Zenon DEF Sent
  <2>4. Known(u)'
    BY <1>2, <1>3, <1>4, <1>8, <2>1, KnownKept, Zenon DEF LockFree
  <2> QED
    BY <2>2, <2>3, <2>4, Zenon
<1>13. \A u \in Vcpus, q \in LevelPins :
          q # p => (InEoi(u, VectorOf[q]) => InEoi(u, VectorOf[q])')
  BY <1>1, <1>9, Zenon DEF Gone, InEoi
<1>14. Lines'
  BY <1>2, <1>8, Zenon DEF Lines, TableTo
<1>15. Devices'
  <2>1. \A u \in Vcpus : step[u] = "signal" => step'[u] = step[u] /\ cur'[u] = cur[u]
    BY <1>2, <1>9, Zenon DEF Gone
  <2> QED
    BY <1>2, <2>1, DevicesStand, Zenon
<1>16. Serviced'
  <2> SUFFICES ASSUME NEW q \in LevelPins, irq_states'[q] # {}, ~redirtbl'[q].mask
               PROVE  \/ redirtbl'[q].remote_irr \/ eoi_inject'
                      \/ \E u \in Vcpus : InEoi(u, VectorOf[q])'
    BY Zenon DEF Serviced
  <2>0. q \in Pins /\ irq_states[q] # {} /\ ~redirtbl[q].mask /\ ~table[q].mask
    BY <1>1, <1>2, <1>3, <1>8, Zenon DEF TableTo
  <2>1. CASE q = p
    <3>1. again
      BY <1>6, <2>0, <2>1, Zenon
    <3>2. CASE storm
      BY <1>2, <3>2, Zenon
    <3>3. CASE ~storm
      BY <1>3, <1>5, <1>8, <2>0, <2>1, <3>1, <3>3, Zenon DEF TableTo, Fires
    <3> QED
      BY <3>2, <3>3, Zenon
  <2>2. CASE q # p
    BY <1>2, <1>3, <1>8, <1>13, <2>0, <2>2, Zenon DEF Serviced, TableTo
  <2> QED
    BY <2>1, <2>2, Zenon
<1>17. RemoteIrrIsAwaited'
  <2>1. \A q \in LevelPins : table[q].remote_irr =>
          redirtbl[q].remote_irr /\ \A u \in Vcpus : InEoi(u, VectorOf[q]) => InEoi(u, VectorOf[q])'
    BY <1>1, <1>3, <1>13, Zenon
  <2> QED
    BY <1>2, <1>3, <1>4, <1>8, <2>1, AwaitKept, Zenon
<1>18. RtcTracksItsEois'
  BY <1>2, <1>8, <1>10, Zenon DEF RtcTracksItsEois, kvm_apic_pending_eoi, Requested, Types
<1> QED
  BY <1>11, <1>12, <1>14, <1>15, <1>16, <1>17, <1>18, Zenon

(* The end of an EOI. *)
LEMMA UpdateEoiStep == ASSUME IInv, NEW v \in Vcpus, UpdateEoi(v) PROVE IInv'
<1>1. PICK p \in Pins : cur[v] = VectorOf[p]
  BY Zenon DEF UpdateEoi, IInv, Thread
<1> QED
  BY <1>1, EdgeEoiStep, LevelEoiStep

(* The guest's EOI takes the highest vector out of service.  It was known to  *)
(* the scan, so that the IOAPIC sees the EOI it waits for.                    *)
LEMMA EoiStep == ASSUME IInv, NEW v \in Vcpus, apic_set_eoi(v) PROVE IInv'
<1> USE DEF IInv
<1> DEFINE x == apic_find_highest_isr(v)
           p == PinOf(x)
<1>1. /\ step[v] = "guest" /\ x # -1
      /\ isr' = [isr EXCEPT ![v] = @ \ {x}]
      /\ isr_count' = [isr_count EXCEPT ![v] = @ - 1]
      /\ highest_isr_cache' = [highest_isr_cache EXCEPT ![v] = -1]
      /\ req_event' = [req_event EXCEPT ![v] = TRUE]
      /\ UNCHANGED <<redirtbl, ioapic_irr, irr_delivered, irq_states, irq_eoi, eoi_inject,
                     writer, irr, irr_pending, delivering, handled, scan_req,
                     dev, inject, resample, writes, stalled>>
  BY Zenon DEF apic_set_eoi, apic_clear_isr, eoiVars, scanVars, devVars
<1>2. IF x \notin handled[v]
      THEN Goto(v, "host", -1) /\ UNCHANGED <<dest_map, pending_eoi>>
      ELSE rtc_irq_eoi(v, x) /\ Goto(v, IF p \in NotifiedPins THEN "deassert" ELSE "tail", x)
  BY Zenon DEF apic_set_eoi
<1>3. x \in isr[v] /\ x \in Vectors
  <2>1. x = find_highest_vector(isr[v]) /\ isr[v] \in SUBSET Vectors
    BY HighestIsr DEF Types
  <2>2. isr[v] # {}
    BY <1>1, <2>1 DEF find_highest_vector
  <2> QED
    BY <2>1, <2>2, Highest, Zenon
<1>4. PICK s \in Steps, y \in {-1, x} :
        /\ Gone(v, s, y)
        /\ x \notin handled[v] => s = "host" /\ y = -1
        /\ x \in handled[v] => y = x /\ s \in {"deassert", "tail"} /\ (s = "deassert" => p \in NotifiedPins)
  <2>1. CASE x \notin handled[v]
    BY <1>2, <2>1, Goes, Zenon DEF Steps
  <2>2. CASE x \in handled[v]
    <3> DEFINE s == IF p \in NotifiedPins THEN "deassert" ELSE "tail"
    <3>1. s \in Steps /\ s \in {"deassert", "tail"} /\ (s = "deassert" => p \in NotifiedPins)
      BY DEF Steps
    <3>2. Goto(v, s, x)
      BY <1>2, <2>2, Zenon
    <3> HIDE DEF s, x
    <3>3. Gone(v, s, x)
      BY <1>3, <3>1, <3>2, Goes, Zenon
    <3> QED
      BY <2>2, <3>1, <3>3, Zenon
  <2> QED
    BY <2>1, <2>2, Zenon
<1>5. x \in handled[v] => \E q \in Pins : x = VectorOf[q] /\ p = q
  BY Owner, Zenon DEF Known
<1>6. \A q \in LevelPins : x = VectorOf[q] => x \in handled[v] \/ stalled
  BY <1>1, <1>3, Zenon DEF Known
<1>7. x = VectorOf[RTC] => x \in handled[v]
  BY <1>3, Zenon DEF Known
<1> HIDE DEF x, p
<1>8. /\ isr'[v] = isr[v] \ {x} /\ isr_count'[v] = isr_count[v] - 1 /\ highest_isr_cache'[v] = -1
      /\ req_event'[v] = TRUE
      /\ \A u \in Vcpus : u # v => UNCHANGED <<isr[u], isr_count[u], highest_isr_cache[u], req_event[u]>>
  BY <1>1 DEF Types
<1>9. IsFiniteSet(isr[v]) /\ isr_count[v] = Cardinality(isr[v])
  BY FiniteVectors, FS_Subset DEF Caches, Types
<1>10. isr_count'[v] = Cardinality(isr'[v]) /\ isr_count'[v] \in Nat
  <2>1. IsFiniteSet(isr[v] \ {x}) /\ Cardinality(isr[v] \ {x}) = Cardinality(isr[v]) - 1
    BY <1>3, <1>9, FS_RemoveElement, Zenon
  <2>2. Cardinality(isr[v] \ {x}) \in Nat
    BY <2>1, FS_CardinalityType, Zenon
  <2> QED
    BY <1>8, <1>9, <2>1, <2>2, Zenon
<1>11. /\ dest_map' \subseteq Vcpus /\ pending_eoi' \in Nat /\ pending_eoi' = Cardinality(dest_map')
       /\ \A u \in dest_map' : u \in dest_map /\ (u = v => x # VectorOf[RTC])
  <2>1. IsFiniteSet(dest_map) /\ pending_eoi = Cardinality(dest_map)
    BY ApicAssumption, FS_Subset DEF Types, RtcTracksItsEois
  <2>2. CASE v \in dest_map /\ x = VectorOf[RTC]
    <3>1. dest_map' = dest_map \ {v} /\ pending_eoi' = pending_eoi - 1
      BY <1>2, <1>7, <2>2, Zenon DEF rtc_irq_eoi
    <3>2. IsFiniteSet(dest_map') /\ Cardinality(dest_map') = Cardinality(dest_map) - 1
      BY <2>1, <2>2, <3>1, FS_RemoveElement
    <3> QED
      BY <2>1, <3>1, <3>2, FS_CardinalityType DEF Types
  <2>3. CASE ~(v \in dest_map /\ x = VectorOf[RTC])
    BY <1>2, <2>1, <2>3 DEF rtc_irq_eoi, Types
  <2> QED
    BY <2>2, <2>3
<1>12. Types'
  <2>1. isr_count' \in [Vcpus -> Nat]
    BY <1>1, <1>10 DEF Types
  <2> QED
    BY <1>1, <1>4, <1>11, <2>1, Zenon DEF Types, Gone
<1>13. ASSUME NEW u \in Vcpus PROVE Thread(u)' /\ Caches(u)' /\ Awake(u)' /\ Known(u)'
  <2>1. CASE u = v
    <3>1. Thread(v)'
      <4>1. step'[v] = s /\ cur'[v] = y /\ req_event'[v]
        BY <1>4, <1>8, Zenon DEF Gone
      <4>2. CASE x \in handled[v]
        <5>1. y = x /\ x # -1 /\ s \in {"deassert", "tail"} /\ (s = "deassert" => p \in NotifiedPins)
          BY <1>1, <1>4, <4>2, Zenon
        <5>2. PICK q \in Pins : x = VectorOf[q] /\ p = q
          BY <1>5, <4>2, Zenon
        <5> QED
          BY <4>1, <5>1, <5>2 DEF Thread
      <4>3. CASE x \notin handled[v]
        BY <1>4, <4>1, <4>3 DEF Thread
      <4> QED
        BY <4>2, <4>3, Zenon
    <3>2. Caches(v)'
      BY <1>1, <1>4, <1>8, <1>10, Zenon DEF Caches, Gone, Delivering
    <3>3. Awake(v)'
      BY <1>4, <1>8, Zenon DEF Awake, Gone
    <3>4. Known(v)'
      BY <1>1, <1>4, <1>8, Zenon DEF Known, Gone
    <3> QED
      BY <2>1, <3>1, <3>2, <3>3, <3>4
  <2>2. CASE u # v
    <3>1. UNCHANGED <<irr[u], irr_pending[u], isr[u], isr_count[u], highest_isr_cache[u],
                      req_event[u], step[u], cur[u]>>
      BY <1>1, <1>4, <1>8, <2>2, Zenon DEF Gone
    <3>2. Known(u)'
      BY <1>1, <3>1, Zenon DEF Known
    <3> QED
      BY <1>1, <3>1, <3>2, ApicIdle, Zenon DEF Delivering
  <2> QED
    BY <2>1, <2>2
<1>14. \A u \in Vcpus : step[u] \in {"deassert", "signal", "tail"} => step'[u] = step[u] /\ cur'[u] = cur[u]
  BY <1>1, <1>4, Zenon DEF Gone
<1>15. Lines' /\ Serviced' /\ Devices'
  BY <1>1, <1>14, LinesStand, Zenon
<1>16. RtcTracksItsEois'
  BY <1>1, <1>8, <1>11, Zenon DEF RtcTracksItsEois, kvm_apic_pending_eoi, Types
<1>17. RemoteIrrIsAwaited'
  <2> SUFFICES ASSUME ~stalled, NEW q \in LevelPins, redirtbl[q].remote_irr
               PROVE  \E u \in Vcpus : \/ VectorOf[q] \in irr'[u] \cup isr'[u]
                                       \/ InEoi(u, VectorOf[q])'
    BY <1>1, Zenon DEF RemoteIrrIsAwaited, kvm_apic_pending_eoi
  <2>1. PICK u \in Vcpus : VectorOf[q] \in irr[u] \cup isr[u] \/ InEoi(u, VectorOf[q])
    BY Zenon DEF RemoteIrrIsAwaited, kvm_apic_pending_eoi
  <2>2. CASE u = v /\ x = VectorOf[q]
    BY <1>4, <1>6, <2>2, Zenon DEF InEoi, Gone
  <2>3. CASE ~(u = v /\ x = VectorOf[q])
    BY <1>1, <1>8, <1>14, <2>1, <2>3, Zenon DEF InEoi
  <2> QED
    BY <2>2, <2>3, Zenon
<1> QED
  BY <1>12, <1>13, <1>15, <1>16, <1>17

-----------------------------------------------------------------------------
(* Save and restore *)

(* A restore rebuilds the caches, the bookkeeping and the scan requests from  *)
(* the registers, and sends again what was not delivered yet.                 *)
LEMMA RestoreStep == ASSUME IInv, SaveRestore PROVE IInv'
<1> USE DEF IInv
<1> DEFINE fired == Fires(redirtbl, ioapic_irr \ irr_delivered)
<1>1. PICK to \in [fired -> SUBSET Vcpus] :
        /\ LockFree
        /\ \A p \in fired : to[p] \in kvm_apic_map_get_dest_lapic(p, redirtbl[p].dest)
        /\ redirtbl' = [p \in Pins |-> [redirtbl[p] EXCEPT
                          !.remote_irr = @ \/ p \in fired \cap LevelPins]]
        /\ ioapic_irr' = ioapic_irr \ irr_delivered
        /\ irr_delivered' = fired \ LevelPins
        /\ scan_req' = Vcpus
        /\ kvm_apic_set_state(kvm_irq_delivery_to_apic(to))
        /\ kvm_rtc_eoi_tracking_restore_all
        /\ UNCHANGED <<irq_states, eoiVars, handled, writer>>
  BY Zenon, Zenon DEF SaveRestore, kvm_set_ioapic, Fires
<1> DEFINE added == kvm_irq_delivery_to_apic(to)
<1>2. /\ \A v \in Vcpus : step[v] = "host"
      /\ writes' \in 0..MaxWrites
      /\ UNCHANGED <<step, cur, dev, inject, resample, stalled, isr, delivering,
                     irq_states, irq_eoi, eoi_inject, handled, writer>>
      /\ delivering = {} /\ writer = {}
  BY <1>1, IrqChipAssumption
  DEF SaveRestore, threadVars, kvm_apic_set_state, eoiVars, LockFree, Types
<1>3. /\ fired \subseteq Pins /\ redirtbl \in [Pins -> Entry] /\ Chosen(redirtbl, fired, to)
  BY <1>1 DEF Fires, Chosen, Types
<1>4. /\ added \subseteq Vcpus \X Vectors
      /\ \A p \in fired : \E v \in Vcpus : VectorOf[p] \in Vectors /\ <<v, VectorOf[p]>> \in added
  <2> HIDE DEF fired
  <2> QED
    BY <1>3, Messages, Zenon
<1>5. /\ irr' = [v \in Vcpus |-> irr[v] \cup {x \in Vectors : <<v, x>> \in added}]
      /\ irr_pending' = [v \in Vcpus |-> TRUE]
      /\ isr_count' = [v \in Vcpus |-> Cardinality(isr[v])]
      /\ highest_isr_cache' = [v \in Vcpus |-> -1]
      /\ req_event' = [v \in Vcpus |-> TRUE]
  BY <1>1, Zenon DEF kvm_apic_set_state
<1>6. \A p \in Pins : /\ redirtbl'[p] \in Entry
                      /\ redirtbl'[p].mask = redirtbl[p].mask
                      /\ redirtbl'[p].dest = redirtbl[p].dest
                      /\ redirtbl'[p].remote_irr <=> redirtbl[p].remote_irr \/ p \in fired \cap LevelPins
  <2> HIDE DEF fired
  <2>1. ASSUME NEW p \in Pins
        PROVE  /\ redirtbl'[p] \in Entry
               /\ redirtbl'[p].mask = redirtbl[p].mask
               /\ redirtbl'[p].dest = redirtbl[p].dest
               /\ redirtbl'[p].remote_irr <=> redirtbl[p].remote_irr \/ p \in fired \cap LevelPins
    <3> DEFINE b == redirtbl[p].remote_irr \/ p \in fired \cap LevelPins
    <3>1. redirtbl'[p] = [redirtbl[p] EXCEPT !.remote_irr = b] /\ b \in BOOLEAN
      BY <1>1
    <3>2. redirtbl[p] \in Entry
      BY <1>3
    <3>3. b <=> redirtbl[p].remote_irr \/ p \in fired \cap LevelPins
      OBVIOUS
    <3> HIDE DEF b
    <3> QED
      BY <3>1, <3>2, <3>3 DEF Entry
  <2> QED
    BY <2>1, Zenon
<1>7. \A v \in Vcpus : irr[v] \subseteq irr'[v] /\ irr'[v] \subseteq Vectors
  BY <1>5 DEF Types
<1>8. \A p \in fired : \E v \in Vcpus : VectorOf[p] \in irr'[v]
  BY <1>4, <1>5, Zenon
<1>9. /\ dest_map' = {v \in Vcpus : v \in redirtbl[RTC].dest /\ VectorOf[RTC] \in irr'[v] \cup isr[v]}
      /\ pending_eoi' = Cardinality(dest_map')
  BY <1>1 DEF kvm_rtc_eoi_tracking_restore_all, kvm_apic_match_dest
<1>10. ioapic_irr' = ioapic_irr \ irr_delivered /\ irr_delivered' = fired \ LevelPins /\ scan_req' = Vcpus
  BY <1>1
<1>11. \A v \in Vcpus : /\ irr_pending'[v] /\ req_event'[v] /\ highest_isr_cache'[v] = -1
                        /\ isr_count'[v] = Cardinality(isr[v]) /\ isr_count'[v] \in Nat
  <2>1. \A v \in Vcpus : IsFiniteSet(isr[v])
    BY FiniteVectors, FS_Subset, Zenon DEF Types
  <2> QED
    BY <1>5, <2>1, FS_CardinalityType, Zenon
<1> HIDE DEF fired, added
<1>12. Types'
  <2>1. redirtbl' \in [Pins -> Entry]
    BY <1>1, <1>6, Zenon
  <2>2. pending_eoi' \in Nat /\ dest_map' \subseteq Vcpus
    BY <1>9, ApicAssumption, FS_Subset, FS_CardinalityType, Zenon
  <2>3. /\ irr' \in [Vcpus -> SUBSET Vectors] /\ irr_pending' \in [Vcpus -> BOOLEAN]
        /\ isr_count' \in [Vcpus -> Nat] /\ highest_isr_cache' \in [Vcpus -> Vectors \cup {-1}]
        /\ req_event' \in [Vcpus -> BOOLEAN]
    BY <1>5, <1>7, <1>11, Zenon
  <2>4. ioapic_irr' \subseteq Pins /\ irr_delivered' \subseteq Pins /\ scan_req' \subseteq Vcpus
    BY <1>3, <1>10 DEF Types
  <2> QED
    BY <1>2, <2>1, <2>2, <2>3, <2>4 DEF Types
<1>13. ASSUME NEW v \in Vcpus PROVE Thread(v)' /\ Caches(v)' /\ Awake(v)' /\ Known(v)'
  <2>1. Thread(v)'
    BY <1>2, Zenon DEF Thread
  <2>2. Caches(v)' /\ Awake(v)'
    BY <1>2, <1>11, Zenon DEF Caches, Awake
  <2>3. Known(v)'
    BY <1>2, <1>10, Zenon DEF Known
  <2> QED
    BY <2>1, <2>2, <2>3
<1>14. Lines' /\ Serviced' /\ Devices'
  <2>1. Lines'
    BY <1>2, <1>10 DEF Lines
  <2>2. Serviced'
    BY <1>2, <1>6, PinsAssumption, Zenon DEF Serviced, InEoi
  <2>3. Devices'
    BY <1>2, Zenon DEF Devices
  <2> QED
    BY <2>1, <2>2, <2>3, Zenon
<1>15. RtcTracksItsEois'
  BY <1>2, <1>9, Zenon DEF RtcTracksItsEois, kvm_apic_pending_eoi
<1>16. RemoteIrrIsAwaited'
  <2> SUFFICES ASSUME ~stalled, NEW q \in LevelPins, redirtbl'[q].remote_irr
               PROVE  \E u \in Vcpus : VectorOf[q] \in irr'[u] \cup isr'[u]
    BY <1>2, Zenon DEF RemoteIrrIsAwaited, kvm_apic_pending_eoi
  <2>1. CASE q \in fired
    BY <1>8, <2>1, Zenon
  <2>2. CASE q \notin fired
    <3>1. redirtbl[q].remote_irr
      BY <1>6, <2>2, PinsAssumption, Zenon
    <3>2. PICK u \in Vcpus : VectorOf[q] \in irr[u] \cup isr[u] \/ InEoi(u, VectorOf[q])
      BY <3>1, Zenon DEF RemoteIrrIsAwaited, kvm_apic_pending_eoi
    <3> QED
      BY <1>2, <1>7, <3>2 DEF InEoi
  <2> QED
    BY <2>1, <2>2, Zenon
<1> QED
  BY <1>12, <1>13, <1>14, <1>15, <1>16

-----------------------------------------------------------------------------
(* The theorems *)

(* The controllers start with nothing requested and every vCPU asked to scan. *)
LEMMA IInvInit == Init => IInv
<1> SUFFICES ASSUME Init PROVE IInv
  OBVIOUS
<1>1. /\ irr = [v \in Vcpus |-> {}] /\ isr = [v \in Vcpus |-> {}]
      /\ irr_pending = [v \in Vcpus |-> FALSE] /\ req_event = [v \in Vcpus |-> FALSE]
      /\ isr_count = [v \in Vcpus |-> 0] /\ highest_isr_cache = [v \in Vcpus |-> -1]
      /\ delivering = {}
  BY Zenon DEF Init, kvm_lapic_reset
<1>2. /\ redirtbl = [p \in Pins |-> [mask |-> TRUE, remote_irr |-> FALSE,
                                     dest |-> CHOOSE d \in Dests : TRUE]]
      /\ ioapic_irr = {} /\ irr_delivered = {}
      /\ irq_states = [p \in Pins |-> {}] /\ irq_eoi = [p \in Pins |-> 0]
      /\ dest_map = {} /\ pending_eoi = 0 /\ eoi_inject = FALSE
      /\ scan_req = Vcpus /\ handled = [v \in Vcpus |-> {}] /\ writer = {}
  BY Zenon DEF Init, kvm_ioapic_reset
<1>3. /\ step = [v \in Vcpus |-> "host"] /\ cur = [v \in Vcpus |-> -1]
      /\ dev = {} /\ inject = {} /\ resample = {} /\ writes = 0 /\ stalled = FALSE
  BY DEF Init
<1>4. LevelPins \subseteq Pins /\ RTC \in Pins /\ StormMax \in Nat \ {0}
  BY PinsAssumption
<1>5. Types
  <2>1. (CHOOSE d \in Dests : TRUE) \in Dests
    BY PinsAssumption
  <2>2. redirtbl \in [Pins -> Entry]
    BY <1>2, <2>1, Zenon DEF Entry
  <2>3. 0 \in 0..(StormMax - 1) /\ 0 \in 0..MaxWrites
    BY <1>4, IrqChipAssumption
  <2> QED
    BY <1>1, <1>2, <1>3, <2>2, <2>3, Zenon DEF Types, Steps
<1>6. ASSUME NEW v \in Vcpus PROVE Thread(v) /\ Caches(v) /\ Awake(v) /\ Known(v)
  <2>1. Thread(v) /\ Awake(v)
    BY <1>1, <1>3 DEF Thread, Awake
  <2>2. Caches(v)
    BY <1>1, FS_EmptySet DEF Caches
  <2>3. Known(v)
    BY <1>1, <1>2, <1>3, Zenon DEF Known
  <2> QED
    BY <2>1, <2>2, <2>3
<1>7. Lines /\ Serviced /\ Devices
  BY <1>2, <1>3, <1>4 DEF Lines, Serviced, Devices
<1>8. RtcTracksItsEois
  BY <1>2, FS_EmptySet DEF RtcTracksItsEois
<1>9. RemoteIrrIsAwaited
  BY <1>2, <1>4 DEF RemoteIrrIsAwaited
<1> QED
  BY <1>5, <1>6, <1>7, <1>8, <1>9 DEF IInv

(* Every step of every thread keeps the invariant. *)
LEMMA IInvNext == IInv /\ [Next]_vars => IInv'
<1> SUFFICES ASSUME IInv, [Next]_vars PROVE IInv'
  OBVIOUS
<1>1. CASE \E v \in Vcpus : \/ Host(v) \/ ClearIrr(v) \/ ExitGuest(v) \/ WriteEntry(v)
                            \/ PostScan(v) \/ apic_set_eoi(v) \/ Eoi(v)
  <2>1. PICK v \in Vcpus : \/ Host(v) \/ ClearIrr(v) \/ ExitGuest(v) \/ WriteEntry(v)
                           \/ PostScan(v) \/ apic_set_eoi(v) \/ Eoi(v)
    BY <1>1
  <2>2. CASE Host(v)
    BY <2>2, ScanStep, InjectStep, EnterStep DEF Host
  <2>3. CASE ClearIrr(v) \/ ExitGuest(v) \/ WriteEntry(v) \/ PostScan(v) \/ apic_set_eoi(v)
    BY <2>3, ClearStep, ExitStep, WriteStep, PostStep, EoiStep
  <2>4. CASE Eoi(v)
    BY <2>4, DeassertStep, SignalStep, UpdateEoiStep DEF Eoi
  <2> QED
    BY <2>1, <2>2, <2>3, <2>4
<1>2. CASE Accept \/ UserspaceIrq \/ IrqfdInject
  BY <1>2, AcceptStep, UserspaceStep, IrqfdStep
<1>3. CASE DeviceRaises \/ DeviceResamples \/ GuestServes
  BY <1>3, DeviceSteps
<1>4. CASE EoiInjectWork \/ SaveRestore
  BY <1>4, WorkStep, RestoreStep
<1>5. CASE UNCHANGED vars
  <2>1. UNCHANGED <<irr, irr_pending, isr, isr_count, highest_isr_cache, req_event, delivering,
                    redirtbl, ioapic_irr, irr_delivered, irq_states, irq_eoi, dest_map, pending_eoi,
                    eoi_inject, scan_req, handled, writer, step, cur, dev, inject, resample,
                    writes, stalled>>
    BY <1>5, Zenon DEF vars, lapicVars, irrVars, isrVars, ioapicVars, threadVars, devVars
  <2>2. Types'
    BY <2>1 DEF IInv, Types
  <2>3. ASSUME NEW v \in Vcpus PROVE Thread(v)' /\ Caches(v)' /\ Awake(v)' /\ Known(v)'
    <3>1. Thread(v)' /\ Known(v)'
      BY <2>1, Zenon DEF IInv, Thread, Known
    <3>2. Caches(v)' /\ Awake(v)'
      BY <2>1, Zenon DEF IInv, Caches, Awake, Delivering, Deliverable
    <3> QED
      BY <3>1, <3>2
  <2>4. Lines' /\ Serviced' /\ Devices'
    BY <2>1, Zenon DEF IInv, Lines, Serviced, Devices, InEoi
  <2>5. RtcTracksItsEois' /\ RemoteIrrIsAwaited'
    BY <2>1, Zenon DEF IInv, RtcTracksItsEois, RemoteIrrIsAwaited, kvm_apic_pending_eoi, InEoi
  <2> QED
    BY <2>2, <2>3, <2>4, <2>5 DEF IInv
<1> QED
  BY <1>1, <1>2, <1>3, <1>4, <1>5 DEF Next

(* So it always holds. *)
LEMMA Invariance == Spec => []IInv
  BY IInvInit, IInvNext, PTL DEF Spec

(* Every register, cache and counter of the interrupt controllers stays in    *)
(* its type; in particular isr_count and pending_eoi, which the code changes  *)
(* by one and never checks, stay between zero and their limits.               *)
THEOREM TypeCorrect == Spec => []IrqChipTypeOK
<1>1. IInv => IrqChipTypeOK
  <2> SUFFICES ASSUME IInv PROVE IrqChipTypeOK
    OBVIOUS
  <2> USE DEF IInv
  <2>1. ASSUME NEW v \in Vcpus PROVE isr_count[v] \in 0..Cardinality(Vectors)
    <3>1. isr[v] \subseteq Vectors
      BY Zenon DEF Types
    <3>2. Cardinality(isr[v]) <= Cardinality(Vectors) /\ Cardinality(Vectors) \in Nat
      BY <3>1, FiniteVectors, FS_Subset, FS_CardinalityType
    <3> QED
      BY <3>2 DEF Types, Caches
  <2>2. pending_eoi \in 0..Cardinality(Vcpus)
    <3>1. dest_map \subseteq Vcpus /\ IsFiniteSet(Vcpus)
      BY ApicAssumption DEF Types
    <3>2. Cardinality(dest_map) <= Cardinality(Vcpus) /\ Cardinality(Vcpus) \in Nat
      BY <3>1, FS_Subset, FS_CardinalityType
    <3> QED
      BY <3>2 DEF Types, RtcTracksItsEois
  <2>3. LapicTypeOK
    BY <2>1 DEF LapicTypeOK, Types
  <2>4. IoApicTypeOK
    BY <2>2 DEF IoApicTypeOK, Types, Entry
  <2> QED
    BY <2>3, <2>4 DEF IrqChipTypeOK, Types
<1> QED
  BY <1>1, Invariance, PTL

(* No EOI of a level interrupt is lost: while remote_irr is set, some vCPU    *)
(* has the vector requested or in service, or is completing its EOI, unless a *)
(* writer of the redirection table stalled.                                   *)
THEOREM AwaitedIrr == Spec => []RemoteIrrIsAwaited
<1>1. IInv => RemoteIrrIsAwaited
  BY DEF IInv
<1> QED
  BY <1>1, Invariance, PTL

(* The RTC's pending_eoi counts the vCPUs of dest_map, and each owes an EOI.  *)
THEOREM TrackedRtc == Spec => []RtcTracksItsEois
<1>1. IInv => RtcTracksItsEois
  BY DEF IInv
<1> QED
  BY <1>1, Invariance, PTL

(* An asserted line, a device that needs service and a vector that may be     *)
(* injected always have someone who will act on them, and the APICs' caches   *)
(* agree with their registers.                                                *)
THEOREM NothingForgotten == Spec => []NothingIsForgotten
<1>1. IInv => NothingIsForgotten
  <2> SUFFICES ASSUME IInv PROVE NothingIsForgotten
    OBVIOUS
  <2> USE DEF IInv
  <2>1. ASSUME NEW v \in Vcpus, kvm_apic_has_interrupt(v) # -1
        PROVE  req_event[v] \/ cur[v] # -1 \/ Delivering(v)
    <3>1. Deliverable(v, kvm_apic_has_interrupt(v))
      BY <2>1, Offers
    <3> QED
      BY <3>1, Zenon DEF Awake, Thread, Deliverable
  <2>2. ASSUME NEW v \in Vcpus
        PROVE  /\ isr_count[v] = Cardinality(isr[v])
               /\ apic_find_highest_isr(v) = find_highest_vector(isr[v])
               /\ irr[v] # {} => irr_pending[v] \/ step[v] = "clear" \/ Delivering(v)
    BY HighestIsr, Zenon DEF Caches
  <2> QED
    BY <2>1, <2>2, Zenon DEF NothingIsForgotten, Serviced, Devices, Delivering
<1> QED
  BY <1>1, Invariance, PTL
=============================================================================
