------------------------------- MODULE IrqChip -------------------------------
(***************************************************************************)
(* The in-kernel interrupt controllers at work: vCPU threads that scan,    *)
(* inject, run the guest and process its EOIs; user space that drives      *)
(* lines; and one device per notified pin that uses an irqfd with          *)
(* resampling (virt/kvm/eventfd.c), which re-raises its line after an EOI  *)
(* as long as it needs service.                                            *)
(***************************************************************************)
EXTENDS IoApic

CONSTANTS USERSPACE,     \* KVM_USERSPACE_IRQ_SOURCE_ID
          RESAMPLE,      \* KVM_IRQFD_RESAMPLE_IRQ_SOURCE_ID
          UserPins,      \* pins user space drives
          Writes,        \* what the guest writes: <<pin, mask, dest>>
          MaxWrites      \* bound on the guest's writes and the restores

ASSUME IrqChipAssumption ==
  /\ USERSPACE \in Sources /\ RESAMPLE \in Sources \ {USERSPACE}
  /\ UserPins \subseteq Pins /\ Writes \subseteq Pins \X BOOLEAN \X Dests
  /\ MaxWrites \in Nat

VARIABLES step,     \* vCPU -> where its thread is
          cur,      \* vCPU -> the vector it is injecting or completing
          dev,      \* notified pins whose device needs service
          inject,   \* notified pins with irqfd->inject scheduled
          resample, \* notified pins with a signalled resamplefd
          writes,   \* number of writes and restores so far
          stalled   \* history: a thread stalled in a write, see EnterGuest

threadVars == <<step, cur>>
devVars == <<dev, inject, resample, writes, stalled>>
vars == <<lapicVars, ioapicVars, threadVars, devVars>>

Steps == {"host", "clear", "guest", "write", "deassert", "signal", "tail"}

IrqChipTypeOK ==
  /\ LapicTypeOK /\ IoApicTypeOK
  /\ step \in [Vcpus -> Steps] /\ cur \in [Vcpus -> Vectors \cup {-1}]
  /\ dev \cup inject \cup resample \subseteq NotifiedPins
  /\ writes \in 0..MaxWrites /\ stalled \in BOOLEAN

Init ==
  /\ kvm_lapic_reset /\ kvm_ioapic_reset
  /\ step = [v \in Vcpus |-> "host"]
  /\ cur = [v \in Vcpus |-> -1]
  /\ dev = {} /\ inject = {} /\ resample = {}
  /\ writes = 0 /\ stalled = FALSE

Goto(v, s, x) ==
  /\ step' = [step EXCEPT ![v] = s]
  /\ cur' = [cur EXCEPT ![v] = x]

\* The pin whose ack notifiers an EOI of the vector x runs.
PinOf(x) == CHOOSE p \in Pins : VectorOf[p] = x

-----------------------------------------------------------------------------
(* vcpu_enter_guest.                                                       *)

ScanIoapic(v) ==
  /\ step[v] = "host"
  /\ vcpu_scan_ioapic(v)
  /\ UNCHANGED <<threadVars, devVars>>

InjectPendingEvent(v) ==
  /\ step[v] = "host" /\ v \notin scan_req
  /\ kvm_get_apic_interrupt(v)
  /\ IF kvm_apic_has_interrupt(v) = -1 THEN UNCHANGED threadVars
     ELSE Goto(v, "clear", kvm_apic_has_interrupt(v))
  /\ UNCHANGED <<ioapicVars, devVars>>

ClearIrr(v) ==
  /\ step[v] = "clear"
  /\ apic_clear_irr(v, cur[v])
  /\ Goto(v, "host", -1)
  /\ UNCHANGED <<ioapicVars, devVars>>

\* The guest is entered with no request pending, and left at any time.
\* Between the service of a pin and the scan request of the same write lie a
\* few instructions of the writing thread.  Unless it stalls there, no other
\* vCPU is kicked, takes the interrupt and is back in the guest meanwhile.
EnterGuest(v) ==
  /\ step[v] = "host" /\ v \notin scan_req /\ ~req_event[v]
  /\ Goto(v, "guest", -1)
  /\ stalled' = (stalled \/ writer # {})
  /\ UNCHANGED <<lapicVars, ioapicVars, dev, inject, resample, writes>>

ExitGuest(v) ==
  /\ step[v] = "guest"
  /\ Goto(v, "host", -1)
  /\ UNCHANGED <<lapicVars, ioapicVars, devVars>>

\* The guest rewrites an entry of the redirection table.
WriteEntry(v) ==
  /\ step[v] = "guest"
  /\ \E w \in Writes : ioapic_write_indirect(v, w[1], w[2], w[3])
  /\ Goto(v, "write", -1)
  /\ writes < MaxWrites /\ writes' = writes + 1
  /\ UNCHANGED <<dev, inject, resample, stalled>>

PostScan(v) ==
  /\ step[v] = "write"
  /\ kvm_make_scan_ioapic_request(v)
  /\ Goto(v, "host", -1)
  /\ UNCHANGED devVars
-----------------------------------------------------------------------------
(* The guest's EOI, apic_set_eoi.                                          *)

\* An EOI that forgets the RTC.
apic_set_eoi_NoRtc(v) ==
  LET x == apic_find_highest_isr(v)
      p == PinOf(x)
  IN /\ step[v] = "guest"
     /\ x # -1
     /\ apic_clear_isr(v, x)
     /\ IF x \notin handled[v]
          THEN Goto(v, "host", -1)
          ELSE /\ LockFree
               /\ Goto(v, IF p \in NotifiedPins THEN "deassert" ELSE "tail", x)
     /\ req_event' = [req_event EXCEPT ![v] = TRUE]
     /\ UNCHANGED <<irr, irr_pending, delivering, ioapicVars, devVars>>

\* The highest vector leaves service.  If the IOAPIC handles it, the RTC's
\* bookkeeping follows and the lock is dropped for the ack notifiers.  The
\* function ends with KVM_REQ_EVENT, which only this thread reads.
apic_set_eoi(v) ==
  LET x == apic_find_highest_isr(v)
      p == PinOf(x)
  IN /\ step[v] = "guest"
     /\ x # -1
     /\ apic_clear_isr(v, x)
     /\ IF x \notin handled[v]
          THEN Goto(v, "host", -1) /\ UNCHANGED <<dest_map, pending_eoi>>
          ELSE /\ LockFree
               /\ rtc_irq_eoi(v, x)
               /\ Goto(v, IF p \in NotifiedPins THEN "deassert" ELSE "tail", x)
     /\ req_event' = [req_event EXCEPT ![v] = TRUE]
     /\ UNCHANGED <<irr, irr_pending, delivering, redirtbl, ioapic_irr,
                    irr_delivered, irq_states, eoiVars, scanVars, writer, devVars>>

\* irqfd_resampler_ack lowers the line first ...
ResamplerDeassert(v) ==
  /\ step[v] = "deassert"
  /\ kvm_ioapic_set_irq(PinOf(cur[v]), RESAMPLE, FALSE, FALSE)
  /\ Goto(v, "signal", cur[v])
  /\ UNCHANGED devVars

\* ... and tells the device afterwards.
ResamplerSignal(v) ==
  /\ step[v] = "signal"
  /\ resample' = resample \cup {PinOf(cur[v])}
  /\ Goto(v, "tail", cur[v])
  /\ UNCHANGED <<lapicVars, ioapicVars, dev, inject, writes, stalled>>

\* The rest of the EOI.
UpdateEoi(v) ==
  /\ step[v] = "tail"
  /\ IF PinOf(cur[v]) \in LevelPins
       THEN kvm_ioapic_update_eoi(PinOf(cur[v]))
       ELSE UNCHANGED <<lapicVars, ioapicVars>>
  /\ Goto(v, "host", -1)
  /\ UNCHANGED devVars
-----------------------------------------------------------------------------
(* Everyone else.                                                          *)

Accept == \E d \in delivering :
  /\ apic_accept_irq(d[1], d[2])
  /\ UNCHANGED <<ioapicVars, threadVars, devVars>>

UserspaceIrq == \E p \in UserPins, level \in BOOLEAN :
  /\ level # (USERSPACE \in irq_states[p])
  /\ kvm_ioapic_set_irq(p, USERSPACE, level, TRUE)
  /\ UNCHANGED <<threadVars, devVars>>

\* A device needs service: its eventfd is signalled (irqfd_wakeup).
DeviceRaises == \E p \in NotifiedPins \ dev :
  /\ dev' = dev \cup {p} /\ inject' = inject \cup {p}
  /\ UNCHANGED <<resample, lapicVars, ioapicVars, threadVars, writes, stalled>>

\* irqfd_inject.
IrqfdInject == \E p \in inject :
  /\ inject' = inject \ {p}
  /\ kvm_ioapic_set_irq(p, RESAMPLE, TRUE, FALSE)
  /\ UNCHANGED <<dev, resample, threadVars, writes, stalled>>

\* The resamplefd's owner signals again if the device still needs service.
DeviceResamples == \E p \in resample :
  /\ resample' = resample \ {p}
  /\ inject' = IF p \in dev THEN inject \cup {p} ELSE inject
  /\ UNCHANGED <<dev, lapicVars, ioapicVars, threadVars, writes, stalled>>

\* The guest's handler serves the device.
GuestServes == \E v \in Vcpus : \E p \in dev :
  /\ step[v] = "guest" /\ VectorOf[p] \in isr[v]
  /\ dev' = dev \ {p}
  /\ UNCHANGED <<inject, resample, lapicVars, ioapicVars, threadVars, writes, stalled>>

EoiInjectWork ==
  /\ kvm_ioapic_eoi_inject_work
  /\ UNCHANGED <<threadVars, devVars>>

\* The machine is paused, its controllers are saved and restored.
SaveRestore ==
  /\ \A v \in Vcpus : step[v] = "host"
  /\ kvm_set_ioapic
  /\ writes < MaxWrites /\ writes' = writes + 1
  /\ UNCHANGED <<threadVars, dev, inject, resample, stalled>>

Host(v) == ScanIoapic(v) \/ InjectPendingEvent(v) \/ EnterGuest(v)
Eoi(v) == ResamplerDeassert(v) \/ ResamplerSignal(v) \/ UpdateEoi(v)

Next ==
  \/ \E v \in Vcpus : \/ Host(v) \/ ClearIrr(v) \/ ExitGuest(v) \/ WriteEntry(v)
                      \/ PostScan(v) \/ apic_set_eoi(v) \/ Eoi(v)
  \/ Accept \/ UserspaceIrq \/ DeviceRaises \/ IrqfdInject \/ DeviceResamples
  \/ GuestServes \/ EoiInjectWork \/ SaveRestore

Spec == Init /\ [][Next]_vars
-----------------------------------------------------------------------------
(* Properties.                                                             *)

InEoi(v, x) == step[v] \in {"deassert", "signal", "tail"} /\ cur[v] = x

\* "For level interrupts, the remote_irr field tells us if the interrupt is
\* waiting for an EOI" (ioapic.c): as long as it is set, some vCPU has the
\* pin's vector requested or in service, or is completing its EOI.  An EOI
\* that got lost would leave the pin blocked for ever.  Only a thread that
\* stalls in a write of the entry can lose one: the target then completes the
\* interrupt with its old ioapic_handled_vectors.
RemoteIrrIsAwaited ==
  ~stalled => \A p \in LevelPins : redirtbl[p].remote_irr =>
    \E v \in Vcpus : kvm_apic_pending_eoi(v, VectorOf[p]) \/ InEoi(v, VectorOf[p])

\* The RTC's bookkeeping: pending_eoi counts the vCPUs in dest_map, and each
\* of them really has the RTC's vector requested or in service, so that the
\* tick user space is told was coalesced is followed by an EOI.
RtcTracksItsEois ==
  /\ pending_eoi = Cardinality(dest_map)
  /\ \A v \in dest_map : kvm_apic_pending_eoi(v, VectorOf[RTC])

\* Every interrupt still has someone who will act on it.  An asserted and
\* unmasked level line awaits an EOI, the delayed work or the end of an EOI;
\* a device that needs service has its line asserted, or its irqfd or
\* resamplefd signalled; a vector that may be injected has KVM_REQ_EVENT set,
\* or a thread on its way to set it.  And the caches through which an APIC finds
\* it agree with its registers: highest_isr_cache is the highest vector in service
\* whenever it is used, and irr_pending is false only with no vector requested,
\* except while a thread is between its two writes.
NothingIsForgotten ==
  /\ LockFree => \A p \in LevelPins :
       irq_states[p] # {} /\ ~redirtbl[p].mask =>
         \/ redirtbl[p].remote_irr \/ eoi_inject
         \/ \E v \in Vcpus : InEoi(v, VectorOf[p])
  /\ \A p \in dev : \/ RESAMPLE \in irq_states[p]
                    \/ p \in inject \cup resample
                    \/ \E v \in Vcpus : step[v] = "signal" /\ cur[v] = VectorOf[p]
  /\ \A v \in Vcpus : kvm_apic_has_interrupt(v) # -1 =>
       \/ req_event[v] \/ cur[v] # -1
       \/ \E x \in Vectors : <<v, x>> \in delivering
  /\ \A v \in Vcpus :
       /\ isr_count[v] = Cardinality(isr[v])
       /\ apic_find_highest_isr(v) = find_highest_vector(isr[v])
       /\ irr[v] # {} => \/ irr_pending[v]
                         \/ step[v] = "clear"
                         \/ \E x \in Vectors : <<v, x>> \in delivering
=============================================================================
