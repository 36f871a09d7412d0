---------------------------- MODULE VmxPtProofs ----------------------------
(***************************************************************************)
(* Proofs about VmxPt, for any number of filters and any buffer sizes.     *)
(*                                                                         *)
(* The inductive invariant adds to the three properties that the buffer is *)
(* empty whenever tracing is off, running or not, and that it is not full  *)
(* when the guest was just entered.                                        *)
(***************************************************************************)
EXTENDS VmxPt, TLAPS

NoTraceWhenOff == ~pt.configured => pt.topa = << >>

RoomWhenRunning == running => ~topa_full(pt)

Inv == TypeOK /\ TracedAsConfigured /\ OneCr3Filter /\ NoTraceWhenOff /\ RoomWhenRunning

(* The initial state of vmx_pt_setup satisfies the invariant. *)
LEMMA InitInv == Init => Inv
<1> SUFFICES ASSUME Init PROVE Inv  OBVIOUS
<1>1. pt \in VcpuVmxPt  BY DEF Init, vmx_pt_setup, VcpuVmxPt, Control
<1>2. pt.topa = << >> /\ ~running /\ running \in BOOLEAN  BY DEF Init, vmx_pt_setup
<1>3. TypeOK  BY <1>1, <1>2, SizeAssumption DEF TypeOK
<1>4. TracedAsConfigured /\ OneCr3Filter
  BY DEF Init, vmx_pt_setup, TracedAsConfigured, OneCr3Filter
<1>5. QED  BY <1>2, <1>3, <1>4 DEF Inv, NoTraceWhenOff, RoomWhenRunning

(* The record updates the ioctls and VM entries make keep its type. *)
LEMMA Retyped ==
  ASSUME NEW k \in VcpuVmxPt
  PROVE  /\ \A b \in BOOLEAN : /\ [k EXCEPT !.multi_cr3_enabled = b] \in VcpuVmxPt
                               /\ [k EXCEPT !.cr3_filter = b] \in VcpuVmxPt
                               /\ [k EXCEPT !.configured = b] \in VcpuVmxPt
                               /\ [k EXCEPT !.state_change_pending = b] \in VcpuVmxPt
                               /\ [k EXCEPT !.state_change_pending = TRUE, !.state = b] \in VcpuVmxPt
                               /\ vmx_pt_setup_vmx_autoload_msr(k, b) \in VcpuVmxPt
         /\ \A s \in Seq(Units) : [k EXCEPT !.topa = s] \in VcpuVmxPt
         /\ topa_reset(k) \in VcpuVmxPt
<1>1. ASSUME NEW b \in BOOLEAN
      PROVE  /\ [k EXCEPT !.multi_cr3_enabled = b] \in VcpuVmxPt
             /\ [k EXCEPT !.cr3_filter = b] \in VcpuVmxPt
             /\ [k EXCEPT !.configured = b] \in VcpuVmxPt
             /\ [k EXCEPT !.state_change_pending = b] \in VcpuVmxPt
             /\ [k EXCEPT !.state_change_pending = TRUE, !.state = b] \in VcpuVmxPt
  BY DEF VcpuVmxPt
<1>2. ASSUME NEW b \in BOOLEAN PROVE vmx_pt_setup_vmx_autoload_msr(k, b) \in VcpuVmxPt
  BY DEF VcpuVmxPt, Control, vmx_pt_setup_vmx_autoload_msr
<1>3. ASSUME NEW s \in Seq(Units) PROVE [k EXCEPT !.topa = s] \in VcpuVmxPt
  BY DEF VcpuVmxPt
<1>4. << >> \in Seq(Units)  OBVIOUS
<1>5. topa_reset(k) \in VcpuVmxPt  BY <1>3, <1>4 DEF topa_reset
<1>6. QED  BY <1>1, <1>2, <1>3, <1>5

(* A filter ioctl is refused, or changes one field while tracing is off. *)
LEMMA FilterIoctls ==
  ASSUME Inv, ~running,
         NEW new \in FilterIoctl(pt),
         pt' = new.pt, running' = running
  PROVE  Inv'
<1>0. pt \in VcpuVmxPt  BY DEF Inv, TypeOK
<1>1. CASE new = ENABLE_MULTI_CR3(pt)
  <2>1. \/ pt' = pt
        \/ ~pt.configured /\ ~pt.cr3_filter /\ pt' = [pt EXCEPT !.multi_cr3_enabled = TRUE]
    BY <1>1 DEF ENABLE_MULTI_CR3, Guarded, Returns
  <2>2. pt' \in VcpuVmxPt  BY <1>0, <2>1, Retyped
  <2>3. QED  BY <1>0, <2>1, <2>2 
    DEF VcpuVmxPt, Inv, TypeOK, TracedAsConfigured, OneCr3Filter, NoTraceWhenOff, RoomWhenRunning
<1>2. CASE new = DISABLE_MULTI_CR3(pt)
  <2>1. \/ pt' = pt
        \/ ~pt.configured /\ pt' = [pt EXCEPT !.multi_cr3_enabled = FALSE]
    BY <1>2 DEF DISABLE_MULTI_CR3, Guarded, Returns
  <2>2. pt' \in VcpuVmxPt  BY <1>0, <2>1, Retyped
  <2>3. QED  BY <1>0, <2>1, <2>2 
    DEF VcpuVmxPt, Inv, TypeOK, TracedAsConfigured, OneCr3Filter, NoTraceWhenOff, RoomWhenRunning
<1>3. CASE new = ENABLE_CR3(pt)
  <2>1. \/ pt' = pt
        \/ ~pt.configured /\ ~pt.multi_cr3_enabled /\ pt' = [pt EXCEPT !.cr3_filter = TRUE]
    BY <1>3 DEF ENABLE_CR3, Guarded, Returns
  <2>2. pt' \in VcpuVmxPt  BY <1>0, <2>1, Retyped
  <2>3. QED  BY <1>0, <2>1, <2>2 
    DEF VcpuVmxPt, Inv, TypeOK, TracedAsConfigured, OneCr3Filter, NoTraceWhenOff, RoomWhenRunning
<1>4. CASE new = DISABLE_CR3(pt)
  <2>1. \/ pt' = pt
        \/ ~pt.configured /\ pt' = [pt EXCEPT !.cr3_filter = FALSE]
    BY <1>4 DEF DISABLE_CR3, Guarded, Returns
  <2>2. pt' \in VcpuVmxPt  BY <1>0, <2>1, Retyped
  <2>3. QED  BY <1>0, <2>1, <2>2 
    DEF VcpuVmxPt, Inv, TypeOK, TracedAsConfigured, OneCr3Filter, NoTraceWhenOff, RoomWhenRunning
<1>5. CASE \E num \in 0 .. 1 : new = CONFIGURE_MULTI_CR3(pt, num)
  BY <1>5 DEF CONFIGURE_MULTI_CR3, Guarded, Returns, VcpuVmxPt,
              Inv, TypeOK, TracedAsConfigured, OneCr3Filter, NoTraceWhenOff, RoomWhenRunning
<1>6. CASE \E cr3 \in CR3s \union {0} : new = CONFIGURE_CR3(pt, cr3)
  BY <1>6 DEF CONFIGURE_CR3, Guarded, Returns, VcpuVmxPt,
              Inv, TypeOK, TracedAsConfigured, OneCr3Filter, NoTraceWhenOff, RoomWhenRunning
<1>7. CASE \E n \in Addrs, ok \in BOOLEAN : new = CONFIGURE_ADDR(pt, n, ok)
  BY <1>7 DEF CONFIGURE_ADDR, Guarded, Returns, VcpuVmxPt,
              Inv, TypeOK, TracedAsConfigured, OneCr3Filter, NoTraceWhenOff, RoomWhenRunning
<1>8. CASE \E n \in Addrs : new = ENABLE_ADDR(pt, n)
  BY <1>8 DEF ENABLE_ADDR, Guarded, Returns, VcpuVmxPt,
              Inv, TypeOK, TracedAsConfigured, OneCr3Filter, NoTraceWhenOff, RoomWhenRunning
<1>9. CASE \E n \in Addrs : new = DISABLE_ADDR(pt, n)
  BY <1>9 DEF DISABLE_ADDR, Guarded, Returns, VcpuVmxPt,
              Inv, TypeOK, TracedAsConfigured, OneCr3Filter, NoTraceWhenOff, RoomWhenRunning
<1>10. QED
  BY <1>1, <1>2, <1>3, <1>4, <1>5, <1>6, <1>7, <1>8, <1>9 DEF FilterIoctl

(* ENABLE and DISABLE only leave a request; the overflow ioctl may empty the *)
(* buffer.                                                                   *)
LEMMA TraceIoctls ==
  ASSUME Inv, ~running,
         NEW new \in {ENABLE(pt), DISABLE(pt), CHECK_TOPA_OVERFLOW(pt)},
         pt' = new.pt, running' = running
  PROVE  Inv'
<1>0. pt \in VcpuVmxPt  BY DEF Inv, TypeOK
<1>1. CASE new = ENABLE(pt)
  <2>1. pt' = pt \/ pt' = [pt EXCEPT !.state_change_pending = TRUE, !.state = TRUE]
    BY <1>1 DEF ENABLE, Returns
  <2>2. pt' \in VcpuVmxPt  BY <1>0, <2>1, Retyped
  <2>3. QED  BY <1>0, <2>1, <2>2
    DEF VcpuVmxPt, Inv, TypeOK, TracedAsConfigured, OneCr3Filter, NoTraceWhenOff, RoomWhenRunning
<1>2. CASE new = DISABLE(pt)
  <2>1. pt' = pt \/ pt' = [pt EXCEPT !.state_change_pending = TRUE, !.state = FALSE]
    BY <1>2 DEF DISABLE, Returns
  <2>2. pt' \in VcpuVmxPt  BY <1>0, <2>1, Retyped
  <2>3. QED  BY <1>0, <2>1, <2>2
    DEF VcpuVmxPt, Inv, TypeOK, TracedAsConfigured, OneCr3Filter, NoTraceWhenOff, RoomWhenRunning
<1>3. CASE new = CHECK_TOPA_OVERFLOW(pt)
  <2>1. pt' = pt \/ pt' = topa_reset(pt)
    BY <1>3 DEF CHECK_TOPA_OVERFLOW, Returns
  <2>2. pt' \in VcpuVmxPt  BY <1>0, <2>1, Retyped
  <2>3. QED  BY <1>0, <2>1, <2>2, SizeAssumption
    DEF VcpuVmxPt, topa_reset, Inv, TypeOK, TracedAsConfigured, OneCr3Filter, NoTraceWhenOff, RoomWhenRunning
<1>4. QED  BY <1>1, <1>2, <1>3

(* A VM entry carries out the request: switching tracing on loads the current *)
(* filters, switching it off empties the buffer.                              *)
LEMMA EntryInv == Inv /\ vmx_vcpu_run => Inv'
<1> SUFFICES ASSUME Inv, vmx_vcpu_run PROVE Inv'  OBVIOUS
<1>0. /\ pt \in VcpuVmxPt /\ running' \in BOOLEAN
      /\ ~topa_full(pt) /\ pt' = vmx_pt_vmentry(pt)
  BY DEF Inv, TypeOK, vmx_vcpu_run
<1>1. CASE \/ ~pt.state_change_pending
           \/ pt.state /\ pt.configured
           \/ ~pt.state /\ ~pt.configured
  <2>1. pt' = pt \/ pt' = [pt EXCEPT !.state_change_pending = FALSE]
    BY <1>0, <1>1 DEF vmx_pt_vmentry, vmx_pt_enable, vmx_pt_disable
  <2>2. pt' \in VcpuVmxPt  BY <1>0, <2>1, Retyped
  <2>3. QED  BY <1>0, <2>1, <2>2
    DEF VcpuVmxPt, topa_full, vmx_pt_get_data_size, Inv, TypeOK, TracedAsConfigured, OneCr3Filter, NoTraceWhenOff, RoomWhenRunning
<1>2. CASE pt.state_change_pending /\ pt.state /\ ~pt.configured
  <2>1. PICK k \in VcpuVmxPt : k = [pt EXCEPT !.configured = TRUE]
    BY <1>0, Retyped
  <2>2. PICK m \in VcpuVmxPt : m = vmx_pt_setup_vmx_autoload_msr(k, TRUE)
    BY Retyped
  <2>3. pt' = [m EXCEPT !.state_change_pending = FALSE]
    BY <1>0, <1>2, <2>1, <2>2 DEF vmx_pt_vmentry, vmx_pt_enable
  <2>4. pt' \in VcpuVmxPt  BY <2>3, Retyped
  <2>5. /\ pt'.guest_ctl = [trace |-> TRUE, cr3 |-> pt.cr3_filter, addr |-> pt.addr_en]
        /\ pt'.configured = TRUE /\ pt'.cr3_filter = pt.cr3_filter
        /\ pt'.addr_en = pt.addr_en /\ pt'.topa = pt.topa
        /\ pt'.multi_cr3_enabled = pt.multi_cr3_enabled
    BY <1>0, <2>1, <2>2, <2>3 DEF VcpuVmxPt, vmx_pt_setup_vmx_autoload_msr
  <2>6. TypeOK' /\ RoomWhenRunning'
    BY <1>0, <2>4, <2>5 DEF Inv, TypeOK, RoomWhenRunning, topa_full, vmx_pt_get_data_size
  <2>7. TracedAsConfigured' /\ OneCr3Filter' /\ NoTraceWhenOff'
    <3>1. pt'.guest_ctl.trace = TRUE  BY <2>5
    <3>2. pt'.guest_ctl.cr3 = pt.cr3_filter  BY <2>5
    <3>3. pt'.guest_ctl.addr = pt.addr_en  BY <2>5
    <3>4. TracedAsConfigured'  BY <2>5, <3>1, <3>2, <3>3, Zenon DEF TracedAsConfigured
    <3>5. OneCr3Filter'  BY <2>5 DEF Inv, OneCr3Filter
    <3>6. NoTraceWhenOff'  BY <2>5 DEF NoTraceWhenOff
    <3>7. QED  BY <3>4, <3>5, <3>6
  <2>8. QED  BY <2>6, <2>7 DEF Inv
<1>3. CASE pt.state_change_pending /\ ~pt.state /\ pt.configured
  <2>1. PICK k \in VcpuVmxPt : k = [pt EXCEPT !.configured = FALSE]
    BY <1>0, Retyped
  <2>2. PICK m \in VcpuVmxPt : m = vmx_pt_setup_vmx_autoload_msr(k, FALSE)
    BY Retyped
  <2>3. PICK r \in VcpuVmxPt : r = topa_reset(m)
    BY Retyped
  <2>4. pt' = [r EXCEPT !.state_change_pending = FALSE]
    BY <1>0, <1>3, <2>1, <2>2, <2>3 DEF vmx_pt_vmentry, vmx_pt_disable
  <2>5. pt' \in VcpuVmxPt  BY <2>4, Retyped
  <2>6. /\ pt'.guest_ctl = [trace |-> FALSE, cr3 |-> pt.cr3_filter, addr |-> pt.addr_en]
        /\ pt'.configured = FALSE /\ pt'.topa = << >>
        /\ pt'.cr3_filter = pt.cr3_filter
        /\ pt'.multi_cr3_enabled = pt.multi_cr3_enabled
    BY <1>0, <2>1, <2>2, <2>3, <2>4 DEF VcpuVmxPt, topa_reset, vmx_pt_setup_vmx_autoload_msr
  <2>7. TypeOK' /\ RoomWhenRunning'
    BY <1>0, <2>5, <2>6, SizeAssumption
    DEF TypeOK, RoomWhenRunning, topa_full, vmx_pt_get_data_size
  <2>8. TracedAsConfigured' /\ OneCr3Filter' /\ NoTraceWhenOff'
    <3>1. pt'.guest_ctl.trace = FALSE  BY <2>6
    <3>2. TracedAsConfigured'  BY <2>6, <3>1, Zenon DEF TracedAsConfigured
    <3>3. OneCr3Filter'  BY <2>6 DEF Inv, OneCr3Filter
    <3>4. NoTraceWhenOff'  BY <2>6 DEF NoTraceWhenOff
    <3>5. QED  BY <3>2, <3>3, <3>4
  <2>9. QED  BY <2>7, <2>8 DEF Inv
<1>4. QED  BY <1>0, <1>1, <1>2, <1>3 DEF VcpuVmxPt

(* A VM exit adds what the CPU wrote, at most up to the end of the fallback *)
(* region since the buffer was not full at the entry.                       *)
LEMMA ExitInv == Inv /\ VmExit => Inv'
<1> SUFFICES ASSUME Inv, VmExit PROVE Inv'  OBVIOUS
<1>1. PICK u \in Units : \E w \in Written(pt, u, Main + Fallback) : pt' = vmx_pt_vmexit(pt, w)
  BY DEF VmExit
<1>2. PICK w \in Written(pt, u, Main + Fallback) : pt' = vmx_pt_vmexit(pt, w)
  BY <1>1
<1>3. running /\ running' = FALSE  BY DEF VmExit
<1>4. CASE ~pt.configured
  <2>1. pt' = pt  BY <1>2, <1>4 DEF vmx_pt_vmexit
  <2>2. TypeOK'  BY <1>3, <2>1 DEF Inv, TypeOK
  <2>3. TracedAsConfigured' /\ OneCr3Filter' /\ NoTraceWhenOff'
    BY <2>1 DEF Inv, TracedAsConfigured, OneCr3Filter, NoTraceWhenOff
  <2>4. QED  BY <1>3, <2>2, <2>3 DEF Inv, RoomWhenRunning
<1>5. CASE pt.configured
  <2>1. PICK n \in 0 .. (Main + Fallback) :
          /\ w = [i \in 1 .. n |-> u]
          /\ n > 0 => n <= Fallback + (IF topa_full(pt) THEN 0 ELSE Main - Len(pt.topa))
    BY <1>2 DEF Written
  <2>2. pt.topa \in Seq(Units) /\ Len(pt.topa) < Main /\ Len(pt.topa) \in Nat
    BY <1>3, SizeAssumption DEF Inv, TypeOK, VcpuVmxPt, RoomWhenRunning, topa_full, vmx_pt_get_data_size
  <2>3. n \in Nat /\ Len(pt.topa) + n <= Main + Fallback
    BY <2>1, <2>2, SizeAssumption DEF topa_full, vmx_pt_get_data_size
  <2>4. w \in Seq(Units) /\ Len(w) = n
    BY <2>1, <2>3
  <2>5. pt.topa \o w \in Seq(Units) /\ Len(pt.topa \o w) = Len(pt.topa) + n
    BY <2>2, <2>4
  <2>6. pt' = [pt EXCEPT !.topa = pt.topa \o w]
    BY <1>2, <1>5 DEF vmx_pt_vmexit
  <2>7. pt \in VcpuVmxPt /\ pt' \in VcpuVmxPt
    BY <2>5, <2>6, Retyped DEF Inv, TypeOK
  <2>8. pt'.topa = pt.topa \o w  BY <2>6, <2>7 DEF VcpuVmxPt
  <2>9. TypeOK'  BY <1>3, <2>3, <2>5, <2>7, <2>8 DEF TypeOK
  <2>10. TracedAsConfigured' /\ OneCr3Filter' /\ NoTraceWhenOff'
    BY <1>5, <2>6, <2>7 DEF Inv, VcpuVmxPt, TracedAsConfigured, OneCr3Filter, NoTraceWhenOff
  <2>11. QED  BY <1>3, <2>9, <2>10 DEF Inv, RoomWhenRunning
<1>6. QED  BY <1>4, <1>5

(* Every ioctl, entry and exit keeps the invariant. *)
LEMMA NextInv == Inv /\ [Next]_<<pt, running>> => Inv'
<1> SUFFICES ASSUME Inv, [Next]_<<pt, running>> PROVE Inv'  OBVIOUS
<1>1. CASE Ioctl
  <2>1. PICK new \in vmx_pt_ioctl(pt) : pt' = new.pt  BY <1>1 DEF Ioctl
  <2>2. ~running /\ running' = running  BY <1>1 DEF Ioctl
  <2>3. CASE new \in {ENABLE(pt), DISABLE(pt), CHECK_TOPA_OVERFLOW(pt)}
    BY <2>1, <2>2, <2>3, TraceIoctls
  <2>4. CASE new \in FilterIoctl(pt)
    BY <2>1, <2>2, <2>4, FilterIoctls
  <2>5. QED  BY <2>1, <2>3, <2>4 DEF vmx_pt_ioctl
<1>2. CASE vmx_vcpu_run  BY <1>2, EntryInv
<1>3. CASE VmExit  BY <1>3, ExitInv
<1>4. CASE UNCHANGED <<pt, running>>
  BY <1>4 DEF Inv, TypeOK, TracedAsConfigured, OneCr3Filter, NoTraceWhenOff, RoomWhenRunning,
              topa_full, vmx_pt_get_data_size
<1>5. QED  BY <1>1, <1>2, <1>3, <1>4 DEF Next

(* The invariant holds in every reachable state. *)
LEMMA AlwaysInv == Spec => []Inv
  BY InitInv, NextInv, PTL DEF Spec

(* Type correctness; in particular the trace never outgrows the two ToPA     *)
(* regions, because vmx_vcpu_run does not enter a guest whose buffer is full.*)
THEOREM TypeCorrect == Spec => []TypeOK
<1>1. Inv => TypeOK  BY DEF Inv
<1>2. QED  BY AlwaysInv, <1>1, PTL

(* The guest is traced with the configured filters, whatever ioctls the      *)
(* client issues and in whatever order.                                      *)
THEOREM Filters == Spec => []TracedAsConfigured
<1>1. Inv => TracedAsConfigured  BY DEF Inv
<1>2. QED  BY AlwaysInv, <1>1, PTL

(* The two kinds of CR3 filter are never on together. *)
THEOREM Cr3Filters == Spec => []OneCr3Filter
<1>1. Inv => OneCr3Filter  BY DEF Inv
<1>2. QED  BY AlwaysInv, <1>1, PTL

(* A trace never starts behind an older one in the buffer. *)
THEOREM EmptyStart == Spec => []TraceStartsEmpty
<1>1. Inv => TraceStartsEmpty  BY DEF Inv, NoTraceWhenOff, TraceStartsEmpty
<1>2. QED  BY AlwaysInv, <1>1, PTL

(* No order of ioctls and VM entries puts filters, MSRs and buffer at odds. *)
THEOREM SoundTracing == Spec => []TracingIsSound
<1>1. TracedAsConfigured /\ OneCr3Filter /\ TraceStartsEmpty => TracingIsSound
  BY DEF TracingIsSound
<1>2. QED  BY Filters, Cr3Filters, EmptyStart, <1>1, PTL

=============================================================================
