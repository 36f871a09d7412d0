-------------------------------- MODULE IoApic --------------------------------
(***************************************************************************)
(* The in-kernel IOAPIC (KVM-PT/ioapic.c) on top of the local APICs.       *)
(* ioapic->lock serialises its operations.  A delivery keeps the lock      *)
(* until the target APICs have their hints, and a guest's write to a       *)
(* redirection entry keeps it until the scan request is out; `LockFree'    *)
(* says so.                                                                *)
(*                                                                         *)
(* A guest masks, unmasks and moves a pin; it configures the pin's vector  *)
(* and trigger mode once, so these are constants.                          *)
(***************************************************************************)
EXTENDS Lapic

CONSTANTS Pins,        \* the pins in use
          LevelPins,   \* those configured level-triggered
          LowestPins,  \* those with lowest-priority delivery
          NotifiedPins,\* those whose ack notifier is an irqfd resampler
          RTC,         \* the pin RTC_GSI, edge-triggered
          VectorOf,    \* pin -> vector
          Dests,       \* the destinations (sets of vCPUs) a guest may choose
          Sources,     \* interrupt source ids
          StormMax     \* IOAPIC_SUCCESSIVE_IRQ_MAX_COUNT

ASSUME PinsAssumption ==
  /\ LevelPins \cup LowestPins \cup NotifiedPins \subseteq Pins
  /\ RTC \in Pins \ LevelPins
  /\ \A p, q \in Pins : VectorOf[p] = VectorOf[q] => p = q
  /\ VectorOf \in [Pins -> Vectors]
  /\ Dests \subseteq SUBSET Vcpus /\ Dests # {} /\ {} \notin Dests
  /\ StormMax \in Nat \ {0}

VARIABLES redirtbl,      \* pin -> mask, remote_irr, dest
          ioapic_irr,    \* pins requested (ioapic->irr)
          irr_delivered, \* edge pins whose request was delivered
          irq_states,    \* pin -> sources that assert it
          irq_eoi,       \* pin -> successive EOIs with the line asserted
          dest_map,      \* vCPUs that owe an EOI for the RTC
          pending_eoi,   \* how many do
          eoi_inject,    \* the delayed work is scheduled
          scan_req,      \* vCPUs with KVM_REQ_SCAN_IOAPIC
          handled,       \* vCPU -> ioapic_handled_vectors
          writer         \* vCPU that has yet to post the scan request

serviceVars == <<redirtbl, irr_delivered, dest_map, pending_eoi, irrVars>>
eoiVars == <<irq_eoi, eoi_inject>>
scanVars == <<scan_req, handled>>
ioapicVars == <<redirtbl, ioapic_irr, irr_delivered, irq_states, irq_eoi,
                dest_map, pending_eoi, eoi_inject, scan_req, handled, writer>>

IoApicTypeOK ==
  /\ redirtbl \in [Pins -> [mask : BOOLEAN, remote_irr : BOOLEAN, dest : Dests]]
  /\ ioapic_irr \subseteq Pins /\ irr_delivered \subseteq Pins
  /\ irq_states \in [Pins -> SUBSET Sources]
  /\ irq_eoi \in [Pins -> 0..(StormMax - 1)]
  /\ dest_map \subseteq Vcpus /\ pending_eoi \in 0..Cardinality(Vcpus)
  /\ eoi_inject \in BOOLEAN /\ scan_req \subseteq Vcpus
  /\ handled \in [Vcpus -> SUBSET Vectors] /\ writer \subseteq Vcpus

\* All pins are masked after a reset; the scan has not run yet.
kvm_ioapic_reset ==
  /\ redirtbl = [p \in Pins |-> [mask |-> TRUE, remote_irr |-> FALSE,
                                 dest |-> CHOOSE d \in Dests : TRUE]]
  /\ ioapic_irr = {} /\ irr_delivered = {}
  /\ irq_states = [p \in Pins |-> {}]
  /\ irq_eoi = [p \in Pins |-> 0]
  /\ dest_map = {} /\ pending_eoi = 0
  /\ eoi_inject = FALSE
  /\ scan_req = Vcpus
  /\ handled = [v \in Vcpus |-> {}]
  /\ writer = {}

LockFree == delivering = {} /\ writer = {}
-----------------------------------------------------------------------------
\* A destination is the set of the vCPUs whose APIC it matches.
kvm_apic_match_dest(v, p) == v \in redirtbl[p].dest

\* The sets of vCPUs a message to a destination may be sent to: one of them
\* under lowest-priority arbitration, else all.
kvm_apic_map_get_dest_lapic(p, dest) ==
  IF p \in LowestPins THEN {{v} : v \in dest} ELSE {dest}

\* The APICs and vectors of messages from pins to the chosen vCPUs.
kvm_irq_delivery_to_apic(to) ==
  {w \in Vcpus \X Vectors :
     \E p \in DOMAIN to : w[1] \in to[p] /\ w[2] = VectorOf[p]}

\* ioapic_service for a set of pins, given the redirection table.
ioapic_service(table, pins, line_status) ==
  LET fired == {p \in pins : /\ ~table[p].mask
                             /\ p \in LevelPins => ~table[p].remote_irr}
      track == RTC \in fired /\ line_status
  IN \E to \in [fired -> SUBSET Vcpus] :
       /\ \A p \in fired : to[p] \in kvm_apic_map_get_dest_lapic(p, table[p].dest)
       /\ redirtbl' = [p \in Pins |->
            [table[p] EXCEPT !.remote_irr = @ \/ p \in fired \cap LevelPins]]
       /\ irr_delivered' = (irr_delivered \ pins) \cup (fired \ LevelPins)
       /\ kvm_lapic_set_irr(kvm_irq_delivery_to_apic(to))
       /\ dest_map' = IF track THEN dest_map \cup to[RTC] ELSE dest_map
       /\ pending_eoi' = IF track THEN Cardinality(to[RTC]) ELSE pending_eoi

\* ioapic_set_irq.
ioapic_set_irq(p, level, line_status) ==
  \/ /\ ~level
     /\ ioapic_irr' = ioapic_irr \ {p}
     /\ UNCHANGED serviceVars
  \/ /\ level /\ p = RTC /\ line_status /\ pending_eoi > 0
     /\ UNCHANGED <<ioapic_irr, serviceVars>>
  \/ /\ level /\ ~(p = RTC /\ line_status /\ pending_eoi > 0)
     /\ ioapic_irr' = ioapic_irr \cup {p}
     /\ IF p \notin LevelPins /\ p \in ioapic_irr
          THEN /\ irr_delivered' = irr_delivered \ {p}
               /\ UNCHANGED <<redirtbl, dest_map, pending_eoi, irrVars>>
          ELSE ioapic_service(redirtbl, {p}, line_status)

\* kvm_set_irq, kvm_ioapic_set_irq: a source drives its input of the pin; the
\* pin's level is the disjunction of its inputs.
kvm_ioapic_set_irq(p, source, level, line_status) ==
  LET states == IF level THEN irq_states[p] \cup {source}
                ELSE irq_states[p] \ {source}
  IN /\ LockFree
     /\ irq_states' = [irq_states EXCEPT ![p] = states]
     /\ ioapic_set_irq(p, states # {}, line_status)
     /\ UNCHANGED <<eoiVars, scanVars, writer, isrVars>>

\* The guest on v rewrites the entry of p.  A raised level pin is serviced
\* at once, and only then are the vCPUs asked to scan the table.
ioapic_write_indirect(v, p, mask, dest) ==
  LET table == [redirtbl EXCEPT ![p].mask = mask, ![p].dest = dest]
  IN /\ LockFree
     /\ ioapic_service(table, {p} \cap LevelPins \cap ioapic_irr, FALSE)
     /\ writer' = {v}
     /\ UNCHANGED <<ioapic_irr, irq_states, eoiVars, scanVars, isrVars>>

\* Its last step: the request, and the lock is free again.
kvm_make_scan_ioapic_request(v) ==
  /\ v \in writer /\ delivering = {}
  /\ writer' = {}
  /\ scan_req' = Vcpus
  /\ UNCHANGED <<redirtbl, ioapic_irr, irr_delivered, irq_states, eoiVars,
                 dest_map, pending_eoi, handled, lapicVars>>

\* A scan that looks at destinations only.
vcpu_scan_ioapic_DestOnly(v) ==
  /\ v \in scan_req /\ LockFree
  /\ scan_req' = scan_req \ {v}
  /\ handled' = [handled EXCEPT ![v] =
       {VectorOf[p] : p \in {q \in Pins : v \in redirtbl[q].dest}}]
  /\ UNCHANGED <<redirtbl, ioapic_irr, irr_delivered, irq_states, eoiVars,
                 dest_map, pending_eoi, writer, lapicVars>>

\* vcpu_scan_ioapic and kvm_ioapic_scan_entry: the vectors whose EOI the
\* IOAPIC has to see, from v.
vcpu_scan_ioapic(v) ==
  /\ v \in scan_req /\ LockFree
  /\ scan_req' = scan_req \ {v}
  /\ handled' = [handled EXCEPT ![v] =
       (IF v \in dest_map THEN {VectorOf[RTC]} ELSE {}) \cup
       {VectorOf[p] : p \in {q \in LevelPins \cup NotifiedPins \cup {RTC} :
                               \/ kvm_apic_match_dest(v, q)
                               \/ kvm_apic_pending_eoi(v, VectorOf[q])}}]
  /\ UNCHANGED <<redirtbl, ioapic_irr, irr_delivered, irq_states, eoiVars,
                 dest_map, pending_eoi, writer, lapicVars>>

\* The start of __kvm_ioapic_update_eoi for the vector x of vCPU v.
rtc_irq_eoi(v, x) ==
  IF v \in dest_map /\ x = VectorOf[RTC]
    THEN dest_map' = dest_map \ {v} /\ pending_eoi' = pending_eoi - 1
    ELSE UNCHANGED <<dest_map, pending_eoi>>

\* Its end, after the ack notifiers of the level pin p: the pin may be
\* delivered again, at once or, in a storm, by the delayed work.
kvm_ioapic_update_eoi(p) ==
  LET again == ~redirtbl[p].mask /\ p \in ioapic_irr
      storm == again /\ irq_eoi[p] + 1 = StormMax
      table == [redirtbl EXCEPT ![p].remote_irr = FALSE]
  IN /\ LockFree
     /\ irq_eoi' = [irq_eoi EXCEPT ![p] = IF again /\ ~storm THEN @ + 1 ELSE 0]
     /\ eoi_inject' = (eoi_inject \/ storm)
     /\ ioapic_service(table, IF again /\ ~storm THEN {p} ELSE {}, FALSE)
     /\ UNCHANGED <<ioapic_irr, irq_states, scanVars, writer, isrVars>>

\* A work item that was cancelled.
kvm_ioapic_eoi_inject_work_Lost ==
  /\ eoi_inject /\ LockFree
  /\ eoi_inject' = FALSE
  /\ UNCHANGED <<ioapic_irr, irq_states, irq_eoi, scanVars, writer, isrVars,
                 serviceVars>>

\* The delayed work services every raised level pin that awaits no EOI.
kvm_ioapic_eoi_inject_work ==
  /\ eoi_inject /\ LockFree
  /\ eoi_inject' = FALSE
  /\ ioapic_service(redirtbl, ioapic_irr \cap LevelPins, FALSE)
  /\ UNCHANGED <<ioapic_irr, irq_states, irq_eoi, scanVars, writer, isrVars>>

\* The RTC's bookkeeping, rebuilt from the registers.
kvm_rtc_eoi_tracking_restore_all ==
  /\ dest_map' = {v \in Vcpus : /\ kvm_apic_match_dest(v, RTC)
                                /\ VectorOf[RTC] \in irr'[v] \cup isr[v]}
  /\ pending_eoi' = Cardinality(dest_map')

\* kvm_get_ioapic followed by kvm_set_ioapic, and the same for the local
\* APICs, on a paused machine: delivered edges are left out of what is
\* saved, and the remaining requests are injected anew.
kvm_set_ioapic ==
  LET fired == {p \in ioapic_irr \ irr_delivered :
                  /\ ~redirtbl[p].mask
                  /\ p \in LevelPins => ~redirtbl[p].remote_irr}
  IN \E to \in [fired -> SUBSET Vcpus] :
       /\ LockFree
       /\ \A p \in fired : to[p] \in kvm_apic_map_get_dest_lapic(p, redirtbl[p].dest)
       /\ redirtbl' = [p \in Pins |-> [redirtbl[p] EXCEPT
                         !.remote_irr = @ \/ p \in fired \cap LevelPins]]
       /\ ioapic_irr' = ioapic_irr \ irr_delivered
       /\ irr_delivered' = fired \ LevelPins
       /\ scan_req' = Vcpus
       /\ kvm_apic_set_state(kvm_irq_delivery_to_apic(to))
       /\ kvm_rtc_eoi_tracking_restore_all
       /\ UNCHANGED <<irq_states, eoiVars, handled, writer>>
=============================================================================
