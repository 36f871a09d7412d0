------------------------------- MODULE VmxPt -------------------------------
(***************************************************************************)
(* The Intel PT part of KVM-PT (vmx_pt.c) for one vCPU: the ioctls of the  *)
(* "vmx-pt" file descriptor and what happens around a VM entry.  Turning   *)
(* tracing on or off is deferred: the ioctl leaves a request that the next *)
(* VM entry carries out.                                                   *)
(*                                                                         *)
(* The state of struct vcpu_vmx_pt is a record; every ioctl is an operator *)
(* from that record to the new record and the value the ioctl returns, so  *)
(* that a client (PtControl) can issue several of them in one step.  The   *)
(* specification of this module has the most general client: the vCPU's    *)
(* own thread, issuing any ioctl between two runs of the guest.            *)
(***************************************************************************)
EXTENDS Integers, Sequences

CONSTANTS Units,            \* kinds of trace data the CPU writes
          Main, Fallback,   \* size of the two ToPA regions, in units
          CR3s,             \* page table roots a client may ask to filter on
          Addrs,            \* indices of the IP filter ranges
          supported_addrn   \* how many of them the CPU has

ASSUME SizeAssumption == Main \in Nat \ {0} /\ Fallback \in Nat
ASSUME CR3Assumption == CR3s \subseteq Nat \ {0}
ASSUME AddrAssumption == Addrs \subseteq 0 .. 3 /\ supported_addrn \in 0 .. 4

VARIABLES pt,       \* struct vcpu_vmx_pt
          running   \* the guest runs: between vmx_pt_vmentry and vmx_pt_vmexit

EINVAL == -22

(* What IA32_RTIT_CTL holds; the guest's value is loaded by the VM entry. *)
Control == [trace : BOOLEAN, cr3 : BOOLEAN, addr : SUBSET Addrs]

VcpuVmxPt == [configured : BOOLEAN, state_change_pending : BOOLEAN, state : BOOLEAN,
              cr3_filter : BOOLEAN, cr3_match : CR3s \union {0},
              multi_cr3_num : 0 .. 1, multi_cr3_enabled : BOOLEAN,
              ranges : SUBSET Addrs, addr_en : SUBSET Addrs,
              guest_ctl : Control, topa : Seq(Units)]

(* The record is well formed and trace data never exceeds the two regions. *)
TypeOK ==
  /\ running \in BOOLEAN
  /\ pt \in VcpuVmxPt
  /\ Len(pt.topa) <= Main + Fallback

(* vmx_pt_setup and vmx_pt_setup_msrs. *)
vmx_pt_setup ==
  [configured |-> FALSE, state_change_pending |-> FALSE, state |-> FALSE,
   cr3_filter |-> FALSE, cr3_match |-> 0,
   multi_cr3_num |-> 0, multi_cr3_enabled |-> FALSE,
   ranges |-> {}, addr_en |-> {},
   guest_ctl |-> [trace |-> FALSE, cr3 |-> FALSE, addr |-> {}],
   topa |-> << >>]

Init == pt = vmx_pt_setup /\ running = FALSE

-----------------------------------------------------------------------------
(* The ToPA buffer.  The main region raises an interrupt when it is full; the *)
(* fallback region takes what is still written until the guest has stopped.   *)

vmx_pt_get_data_size(k) == Len(k.topa)

topa_reset(k) == [k EXCEPT !.topa = << >>]

topa_full(k) == vmx_pt_get_data_size(k) >= Main

-----------------------------------------------------------------------------
(* The ioctls. *)

Returns(k, r) == [pt |-> k, r |-> r]
Guarded(guard, k, new) == IF guard THEN Returns(new, 0) ELSE Returns(k, EINVAL)

(* ok is the outcome of range_check. *)
CONFIGURE_ADDR(k, n, ok) ==
  Guarded(~k.configured /\ supported_addrn > n /\ ok,
          k, [k EXCEPT !.ranges = @ \union {n}])

ENABLE_ADDR(k, n) ==
  Guarded(~k.configured /\ n \in k.ranges /\ supported_addrn > n,
          k, [k EXCEPT !.addr_en = @ \union {n}])

DISABLE_ADDR(k, n) ==
  Guarded(~k.configured /\ n \in k.addr_en, k, [k EXCEPT !.addr_en = @ \ {n}])

CONFIGURE_MULTI_CR3(k, num) ==
  Guarded(~k.configured, k, [k EXCEPT !.multi_cr3_num = num])

ENABLE_MULTI_CR3(k) ==
  Guarded(~k.configured /\ ~k.cr3_filter /\ k.multi_cr3_num # 0 /\ ~k.multi_cr3_enabled,
          k, [k EXCEPT !.multi_cr3_enabled = TRUE])

DISABLE_MULTI_CR3(k) ==
  Guarded(~k.configured /\ k.multi_cr3_enabled,
          k, [k EXCEPT !.multi_cr3_enabled = FALSE])

CONFIGURE_CR3(k, cr3) ==
  Guarded(~k.configured, k, [k EXCEPT !.cr3_match = cr3])

ENABLE_CR3_WhileTracing(k) ==
  Guarded(k.cr3_match # 0 /\ ~k.multi_cr3_enabled, k, [k EXCEPT !.cr3_filter = TRUE])

ENABLE_CR3(k) ==
  Guarded(~k.configured /\ k.cr3_match # 0 /\ ~k.multi_cr3_enabled,
          k, [k EXCEPT !.cr3_filter = TRUE])

DISABLE_CR3(k) ==
  Guarded(~k.configured /\ k.cr3_filter, k, [k EXCEPT !.cr3_filter = FALSE])

(* ENABLE claims success even if it was ignored. *)
ENABLE(k) ==
  Returns(IF ~k.configured /\ ~k.state_change_pending
          THEN [k EXCEPT !.state_change_pending = TRUE, !.state = TRUE]
          ELSE k, 0)

(* DISABLE returns the size of the trace; the buffer itself is only reset by *)
(* the VM entry that carries the request out.                                *)
DISABLE(k) ==
  IF k.configured /\ ~k.state_change_pending
  THEN Returns([k EXCEPT !.state_change_pending = TRUE, !.state = FALSE],
               vmx_pt_get_data_size(k))
  ELSE Returns(k, EINVAL)

(* vmx_pt_check_overflow: a trace that filled the main region is handed out. *)
CHECK_TOPA_OVERFLOW(k) ==
  IF topa_full(k) THEN Returns(topa_reset(k), vmx_pt_get_data_size(k))
                  ELSE Returns(k, 0)

FilterIoctl(k) ==
  {ENABLE_MULTI_CR3(k), DISABLE_MULTI_CR3(k), ENABLE_CR3(k), DISABLE_CR3(k)}
  \union {CONFIGURE_MULTI_CR3(k, num) : num \in 0 .. 1}
  \union {CONFIGURE_CR3(k, cr3) : cr3 \in CR3s \union {0}}
  \union {CONFIGURE_ADDR(k, n, ok) : n \in Addrs, ok \in BOOLEAN}
  \union {ENABLE_ADDR(k, n) : n \in Addrs}
  \union {DISABLE_ADDR(k, n) : n \in Addrs}

vmx_pt_ioctl(k) == FilterIoctl(k) \union {ENABLE(k), DISABLE(k), CHECK_TOPA_OVERFLOW(k)}

-----------------------------------------------------------------------------
(* VM entry and exit. *)

(* The guest's control register is set up when tracing is switched, not at  *)
(* every entry.                                                             *)
vmx_pt_setup_vmx_autoload_msr(k, trace) ==
  [k EXCEPT !.guest_ctl = [trace |-> trace, cr3 |-> k.cr3_filter, addr |-> k.addr_en]]

vmx_pt_enable(k) ==
  IF k.configured THEN k
  ELSE vmx_pt_setup_vmx_autoload_msr([k EXCEPT !.configured = TRUE], TRUE)

vmx_pt_disable_KeepTrace(k) ==
  IF ~k.configured THEN k
  ELSE vmx_pt_setup_vmx_autoload_msr([k EXCEPT !.configured = FALSE], FALSE)

vmx_pt_disable(k) ==
  IF ~k.configured THEN k
  ELSE topa_reset(vmx_pt_setup_vmx_autoload_msr([k EXCEPT !.configured = FALSE], FALSE))

vmx_pt_vmentry(k) ==
  IF k.state_change_pending
  THEN [(IF k.state THEN vmx_pt_enable(k) ELSE vmx_pt_disable(k))
           EXCEPT !.state_change_pending = FALSE]
  ELSE k

(* What the CPU wrote while the guest ran becomes visible at the VM exit. *)
vmx_pt_vmexit(k, written) ==
  IF k.configured THEN [k EXCEPT !.topa = @ \o written] ELSE k

(* All the CPU may write: once the main region is full, its interrupt stops  *)
(* the guest before the fallback region is used up.                          *)
Written(k, unit, most) ==
  {[i \in 1 .. n |-> unit] :
     n \in {m \in 0 .. most : m > 0 =>
              /\ k.guest_ctl.trace
              /\ m <= Fallback + (IF topa_full(k) THEN 0 ELSE Main - Len(k.topa))}}

-----------------------------------------------------------------------------
Ioctl ==
  /\ ~running
  /\ \E new \in vmx_pt_ioctl(pt) : pt' = new.pt
  /\ UNCHANGED running

(* vmx_vcpu_run up to the VM entry; it goes back to the client instead when *)
(* the buffer is full.                                                      *)
vmx_vcpu_run ==
  /\ ~running
  /\ ~topa_full(pt)
  /\ pt' = vmx_pt_vmentry(pt)
  /\ running' = TRUE

VmExit ==
  /\ running
  /\ \E u \in Units : \E w \in Written(pt, u, Main + Fallback) : pt' = vmx_pt_vmexit(pt, w)
  /\ running' = FALSE

Next == Ioctl \/ vmx_vcpu_run \/ VmExit

Spec == Init /\ [][Next]_<<pt, running>>

-----------------------------------------------------------------------------
(* Properties *)

(* Whatever the client asks for and in whatever order, the guest is traced    *)
(* with the filters that are configured: the value loaded into IA32_RTIT_CTL, *)
(* computed when tracing was switched on, never differs from the filters in   *)
(* struct vcpu_vmx_pt while tracing is on (all filter ioctls test             *)
(* is_configured; ENABLE and DISABLE are deferred to the VM entry).           *)
TracedAsConfigured ==
  /\ pt.guest_ctl.trace = pt.configured
  /\ pt.configured => /\ pt.guest_ctl.cr3 = pt.cr3_filter
                      /\ pt.guest_ctl.addr = pt.addr_en

(* The single-CR3 filter of the CPU and the multi-CR3 filter emulated by KVM *)
(* are never on together, since either ENABLE ioctl tests the other.         *)
OneCr3Filter == ~(pt.cr3_filter /\ pt.multi_cr3_enabled)

(* A trace starts empty: when the guest is entered with tracing off, nothing  *)
(* is left in the buffer that a later trace would be appended to (DISABLE     *)
(* does not reset it, vmx_pt_disable does).                                   *)
TraceStartsEmpty == running /\ ~pt.configured => pt.topa = << >>

(* No order of ioctls and VM entries leaves struct vcpu_vmx_pt, the MSRs and  *)
(* the buffer at odds: all three of the above.                                *)
TracingIsSound == TracedAsConfigured /\ OneCr3Filter /\ TraceStartsEmpty

=============================================================================
