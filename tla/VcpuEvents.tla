----------------------------- MODULE VcpuEvents -----------------------------
(***************************************************************************)
(* The event queues of one vCPU: exceptions, NMIs and the interrupt that   *)
(* was taken from a controller, and how they go through the VMCS (x86.c,   *)
(* vmx.c).  The operators are functions of the record vcpu; the fields     *)
(* irq_window .. nmi_mask are the VMCS's.  The guest is not nested, SMM is *)
(* not used and the CPU has virtual NMIs (enable_vnmi).                    *)
(***************************************************************************)
EXTENDS Integers, FiniteSets

VARIABLE vcpu

Exceptions == {"PF", "GP", "UD", "DF"}

VcpuAtReset ==
  [mp_state |-> "RUNNABLE", apf_halted |-> FALSE, requests |-> {},
   pending |-> FALSE, injected |-> FALSE, nr |-> "UD",       \* arch.exception
   interrupt |-> FALSE,                                      \* arch.interrupt.injected
   nmi_queued |-> 0, nmi_pending |-> 0, nmi_injected |-> FALSE,
   entry |-> "none",                                         \* VM_ENTRY_INTR_INFO_FIELD
   irq_window |-> FALSE, nmi_window |-> FALSE,
   IF_flag |-> FALSE, sti |-> FALSE, nmi_mask |-> FALSE,
   nmi_known_unmasked |-> FALSE]

kvm_make_request(v, req) == [v EXCEPT !.requests = @ \union {req}]

-----------------------------------------------------------------------------
exception_class(nr) ==
  CASE nr = "PF" -> "PF" [] nr = "GP" -> "CONTRIBUTORY" [] OTHER -> "BENIGN"

kvm_multiple_exception(v0, nr, reinject) ==
  LET v == kvm_make_request(v0, "EVENT")
      queue == [v EXCEPT !.injected = reinject, !.pending = IF reinject THEN @ ELSE TRUE,
                         !.nr = nr]
      class1 == exception_class(v.nr)
      class2 == exception_class(nr)
      doubles == \/ class1 = "CONTRIBUTORY" /\ class2 = "CONTRIBUTORY"
                 \/ class1 = "PF" /\ class2 # "BENIGN"
  IN  CASE ~v.pending /\ ~v.injected -> queue
        [] (v.pending \/ v.injected) /\ v.nr = "DF" -> kvm_make_request(v, "TRIPLE_FAULT")
        [] (v.pending \/ v.injected) /\ v.nr # "DF" /\ doubles ->
             [v EXCEPT !.pending = TRUE, !.injected = FALSE, !.nr = "DF"]
        [] OTHER -> queue

kvm_clear_exception_queue(v) == [v EXCEPT !.pending = FALSE, !.injected = FALSE]

kvm_event_needs_reinjection(v) == v.injected \/ v.interrupt \/ v.nmi_injected

-----------------------------------------------------------------------------
vmx_nmi_allowed(v) == ~v.sti /\ ~v.nmi_mask
vmx_interrupt_allowed(v) == v.IF_flag /\ ~v.sti

vmx_get_nmi_mask(v) == ~v.nmi_known_unmasked /\ v.nmi_mask
vmx_set_nmi_mask(v, masked) == [v EXCEPT !.nmi_mask = masked, !.nmi_known_unmasked = ~masked]

vmx_inject_nmi(v) == [v EXCEPT !.nmi_known_unmasked = FALSE, !.entry = "nmi"]

enable_nmi_window(v) ==
  IF v.sti THEN [v EXCEPT !.irq_window = TRUE] ELSE [v EXCEPT !.nmi_window = TRUE]

(* vmx_get_nmi_mask refreshes its cache. *)
process_nmi(v) ==
  LET limit == IF vmx_get_nmi_mask(v) \/ v.nmi_injected THEN 1 ELSE 2
      n == v.nmi_pending + v.nmi_queued
  IN  kvm_make_request([v EXCEPT !.nmi_pending = IF n < limit THEN n ELSE limit, !.nmi_queued = 0,
                                 !.nmi_known_unmasked = @ \/ ~v.nmi_mask], "EVENT")

-----------------------------------------------------------------------------
(* inject_pending_event up to the interrupt controllers: what was not      *)
(* delivered goes first, then the pending exception, then an NMI.          *)
Reinject(v) ==
  CASE v.injected -> [v EXCEPT !.entry = "exception"]
    [] ~v.injected /\ ~v.pending /\ v.nmi_injected -> vmx_inject_nmi(v)
    [] ~v.injected /\ ~v.pending /\ ~v.nmi_injected /\ v.interrupt -> [v EXCEPT !.entry = "irq"]
    [] OTHER -> v

InjectException(v) ==
  IF v.pending THEN [v EXCEPT !.pending = FALSE, !.injected = TRUE, !.entry = "exception"] ELSE v

InjectNmi(v) ==
  IF v.nmi_pending > 0 /\ vmx_nmi_allowed(v) /\ ~kvm_event_needs_reinjection(v)
    THEN vmx_inject_nmi([v EXCEPT !.nmi_pending = @ - 1, !.nmi_injected = TRUE])
    ELSE v

(* An interrupt is looked for only if nothing was injected. *)
LooksForInterrupt(v) ==
  LET w == InjectException(Reinject(v))
  IN  ~kvm_event_needs_reinjection(w) /\ ~(w.nmi_pending > 0 /\ vmx_nmi_allowed(w))

inject_pending_event(v) == InjectNmi(InjectException(Reinject(v)))

-----------------------------------------------------------------------------
__vmx_complete_interrupts(v0, info) ==
  LET v == kvm_clear_exception_queue([v0 EXCEPT !.nmi_injected = FALSE, !.interrupt = FALSE])
      e == kvm_make_request(v, "EVENT")
  IN  CASE info = "none" -> v
        [] info = "nmi" -> vmx_set_nmi_mask([e EXCEPT !.nmi_injected = TRUE], FALSE)
        [] info = "exception" -> kvm_multiple_exception(e, e.nr, TRUE)
        [] info = "irq" -> [e EXCEPT !.interrupt = TRUE]

vmx_cancel_injection(v) ==
  __vmx_complete_interrupts([v EXCEPT !.entry = "none"], v.entry)

(* The exit was not an exception: nothing says that an IRET faulted. *)
vmx_recover_nmi_blocking(v) == [v EXCEPT !.nmi_known_unmasked = @ \/ ~v.nmi_mask]

(* The CPU consumes the entry field; vectoring is what was being delivered *)
(* when the guest exited.                                                  *)
AfterExit(v, vectoring) ==
  __vmx_complete_interrupts(vmx_recover_nmi_blocking([v EXCEPT !.entry = "none"]), vectoring)

-----------------------------------------------------------------------------
(* KVM_GET_VCPU_EVENTS followed by KVM_SET_VCPU_EVENTS of the same state,  *)
(* without KVM_CAP_EXCEPTION_PAYLOAD.                                      *)
SaveRestoreEvents(v) ==
  LET w == process_nmi(v)
  IN  vmx_set_nmi_mask(
        kvm_make_request([w EXCEPT !.injected = @ \/ w.pending, !.pending = FALSE,
                            !.nmi_pending = IF @ > 0 THEN 1 ELSE 0], "EVENT"),
        vmx_get_nmi_mask(w))

(* kvm_vcpu_reset on INIT, the vCPU's part of it; the VMCS controls of the *)
(* windows are not touched.                                                *)
kvm_vcpu_reset(v) ==
  kvm_make_request(
    [v EXCEPT !.nmi_queued = 0, !.nmi_pending = 0, !.nmi_injected = FALSE, !.interrupt = FALSE,
              !.pending = FALSE, !.injected = FALSE, !.apf_halted = FALSE, !.entry = "none",
              !.IF_flag = FALSE, !.sti = FALSE, !.nmi_mask = FALSE], "EVENT")
=============================================================================
