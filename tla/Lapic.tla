-------------------------------- MODULE Lapic --------------------------------
(***************************************************************************)
(* The in-kernel local APICs of a virtual machine (KVM-PT/lapic.c), one    *)
(* per vCPU, without APIC virtualisation (vcpu->arch.apicv_active is       *)
(* false).  Kept are the interrupt request and in-service registers        *)
(* (APIC_IRR, APIC_ISR), the two caches in front of them (irr_pending, a   *)
(* hint, and isr_count with highest_isr_cache) and KVM_REQ_EVENT.  The     *)
(* task priority stays 0, every APIC is enabled and a vector keeps its     *)
(* trigger mode, so that APIC_TMR needs no variable.                       *)
(*                                                                         *)
(* Another thread may set an IRR bit while the vCPU's own thread clears    *)
(* one.  Both operations therefore take two steps here: the bit and the    *)
(* hint are two writes.                                                    *)
(***************************************************************************)
EXTENDS Integers, FiniteSets, FiniteSetsExt

CONSTANTS Vcpus,        \* the vCPUs
          Vectors       \* the vectors in use

ASSUME ApicAssumption == IsFiniteSet(Vcpus) /\ Vectors \subseteq 0..255

VARIABLES irr,               \* vCPU -> set of requested vectors
          irr_pending,       \* vCPU -> the hint "some vector is requested"
          isr,               \* vCPU -> set of vectors in service
          isr_count,         \* vCPU -> number of vectors in service
          highest_isr_cache, \* vCPU -> highest vector in service, or -1
          req_event,         \* vCPU -> KVM_REQ_EVENT is pending
          delivering         \* <<vCPU, vector>>: IRR bit set, hint not yet

irrVars == <<irr, irr_pending, req_event, delivering>>
isrVars == <<isr, isr_count, highest_isr_cache>>
lapicVars == <<irrVars, isrVars>>

LapicTypeOK ==
  /\ irr \in [Vcpus -> SUBSET Vectors]
  /\ isr \in [Vcpus -> SUBSET Vectors]
  /\ irr_pending \in [Vcpus -> BOOLEAN]
  /\ req_event \in [Vcpus -> BOOLEAN]
  /\ isr_count \in [Vcpus -> 0..Cardinality(Vectors)]
  /\ highest_isr_cache \in [Vcpus -> Vectors \cup {-1}]
  /\ delivering \subseteq Vcpus \X Vectors

\* A fresh APIC: nothing requested, nothing in service.
kvm_lapic_reset ==
  /\ irr = [v \in Vcpus |-> {}]
  /\ isr = [v \in Vcpus |-> {}]
  /\ irr_pending = [v \in Vcpus |-> FALSE]
  /\ req_event = [v \in Vcpus |-> FALSE]
  /\ isr_count = [v \in Vcpus |-> 0]
  /\ highest_isr_cache = [v \in Vcpus |-> -1]
  /\ delivering = {}
-----------------------------------------------------------------------------
find_highest_vector(bitmap) == IF bitmap = {} THEN -1 ELSE Max(bitmap)

apic_find_highest_irr(v) ==
  IF irr_pending[v] THEN find_highest_vector(irr[v]) ELSE -1

apic_find_highest_isr(v) ==
  CASE isr_count[v] = 0          -> -1
    [] highest_isr_cache[v] # -1 -> highest_isr_cache[v]
    [] OTHER                     -> find_highest_vector(isr[v])

kvm_apic_pending_eoi(v, x) == x \in irr[v] \cup isr[v]

\* Vectors come in priority classes of sixteen.
PriorityClass(x) == x \div 16

\* The processor priority: the class of what is in service.
apic_update_ppr(v) ==
  IF apic_find_highest_isr(v) = -1 THEN 0
  ELSE PriorityClass(apic_find_highest_isr(v))

\* The requested vector that may interrupt what is in service, or -1.
kvm_apic_has_interrupt(v) ==
  IF PriorityClass(apic_find_highest_irr(v)) <= apic_update_ppr(v)
    THEN -1
    ELSE apic_find_highest_irr(v)
-----------------------------------------------------------------------------
\* The first half of __apic_accept_irq: the IRR bits of a message that goes
\* to several pairs of a vCPU and a vector.
kvm_lapic_set_irr(targets) ==
  /\ irr' = [v \in Vcpus |->
               irr[v] \cup {x \in Vectors : <<v, x>> \in targets}]
  /\ delivering' = delivering \cup targets
  /\ UNCHANGED <<irr_pending, req_event>>

\* The second half: the hint, the request, and the kick, which lets a vCPU
\* in guest mode leave it.
apic_accept_irq(v, x) ==
  /\ <<v, x>> \in delivering
  /\ delivering' = delivering \ {<<v, x>>}
  /\ irr_pending' = [irr_pending EXCEPT ![v] = TRUE]
  /\ req_event' = [req_event EXCEPT ![v] = TRUE]
  /\ UNCHANGED <<irr, isrVars>>

\* kvm_get_apic_interrupt up to the first write of apic_clear_irr.  With no
\* deliverable vector only the request is consumed.
kvm_get_apic_interrupt(v) ==
  /\ req_event[v]
  /\ req_event' = [req_event EXCEPT ![v] = FALSE]
  /\ irr_pending' = IF kvm_apic_has_interrupt(v) = -1 THEN irr_pending
                    ELSE [irr_pending EXCEPT ![v] = FALSE]
  /\ UNCHANGED <<irr, isrVars, delivering>>

\* The rest of apic_clear_irr and apic_set_isr.
apic_clear_irr(v, x) ==
  /\ irr' = [irr EXCEPT ![v] = @ \ {x}]
  /\ irr_pending' = [irr_pending EXCEPT ![v] = @ \/ irr'[v] # {}]
  /\ isr' = [isr EXCEPT ![v] = @ \cup {x}]
  /\ IF x \in isr[v] THEN UNCHANGED <<isr_count, highest_isr_cache>>
     ELSE /\ isr_count' = [isr_count EXCEPT ![v] = @ + 1]
          /\ highest_isr_cache' = [highest_isr_cache EXCEPT ![v] = x]
  /\ UNCHANGED <<req_event, delivering>>

\* The start of apic_set_eoi: the highest vector leaves service.
apic_clear_isr(v, x) ==
  /\ isr' = [isr EXCEPT ![v] = @ \ {x}]
  /\ isr_count' = [isr_count EXCEPT ![v] = @ - 1]
  /\ highest_isr_cache' = [highest_isr_cache EXCEPT ![v] = -1]

\* kvm_apic_set_state with the registers kvm_apic_get_state returned, for
\* all vCPUs of a paused machine: the caches are set anew.  The caller may
\* have added vectors to IRR.
kvm_apic_set_state(added) ==
  /\ irr' = [v \in Vcpus |->
               irr[v] \cup {x \in Vectors : <<v, x>> \in added}]
  /\ irr_pending' = [v \in Vcpus |-> TRUE]
  /\ isr_count' = [v \in Vcpus |-> Cardinality(isr[v])]
  /\ highest_isr_cache' = [v \in Vcpus |-> -1]
  /\ req_event' = [v \in Vcpus |-> TRUE]
  /\ UNCHANGED <<isr, delivering>>
=============================================================================
