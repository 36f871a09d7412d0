----------------------------- MODULE NestedVmcs -----------------------------
(***************************************************************************)
(* The VMCSs of nested VMX on one vCPU (vmx.c): the VMX instructions of    *)
(* the guest hypervisor L1, and the four places in which the VMCS that L1  *)
(* wrote for its guest L2 may live: the page in guest memory, the cached   *)
(* vmcs12, the shadow VMCS that the processor reads and writes without an  *)
(* exit, and vmcs02, on which L2 runs.                                     *)
(*                                                                         *)
(* A VMCS has one field of each kind the code treats differently:          *)
(*   rip       guest state, shadowed, always loaded (RSP, RFLAGS, CRs)     *)
(*   es        guest state, not shadowed, loaded if dirty_vmcs12           *)
(*   pin, tsc, link   controls, not shadowed                               *)
(*   entry, timer     event injection and preemption timer, shadowed       *)
(*   reason, idt      exit information, shadowed read-only                 *)
(*   launch_state, error   neither guest state nor control                 *)
(* The state of KVM is one record k, and an operator takes k to the k that *)
(* the function of that name leaves.                                       *)
(***************************************************************************)
EXTENDS Integers

NoVmcs  == "-1"                     \* an unset VMCS pointer
NoEvent == "none"
ShadowRW == {"rip", "entry", "timer"}
ShadowRO == {"reason", "idt"}

\* what kmalloc and alloc_vmcs return: nothing reads it before it is loaded
Blank == [rip |-> 0, es |-> 0, pin |-> {}, tsc |-> 0, link |-> FALSE,
          entry |-> NoEvent, timer |-> 0, reason |-> "none", idt |-> NoEvent,
          launch_state |-> 0, error |-> "none"]
Fresh02 == [initialized |-> FALSE, es |-> 0, pin |-> {}, tsc |-> 0,
            entry |-> NoEvent, window |-> FALSE, pages |-> FALSE]

\* dst with the fields F of src
Copy(dst, src, F) == [f \in DOMAIN dst |-> IF f \in F THEN src[f] ELSE dst[f]]

Request(k, r) == [k EXCEPT !.req = @ \union {r}]

------------------------------------------------------------------------------
(* Copies between the cached vmcs12 and the shadow VMCS.                    *)

copy_shadow_to_vmcs12(k) ==
    [k EXCEPT !.cached = Copy(@, k.shadow,
        ShadowRW \union (IF k.conf.vmwrite_any THEN ShadowRO ELSE {}))]

copy_vmcs12_to_shadow(k) ==
    [k EXCEPT !.shadow = Copy(@, k.cached, ShadowRW \union ShadowRO)]

\* vmx_vcpu_run, before it enters the guest
SyncShadow(k) ==
    IF k.need_vmcs12_sync
    THEN [copy_vmcs12_to_shadow(k) EXCEPT !.need_vmcs12_sync = FALSE]
    ELSE k


set_current_vmptr(k, v) ==
    [k EXCEPT !.current_vmptr = v, !.dirty_vmcs12 = TRUE,
              !.shadowing = k.conf.shadow,
              !.need_vmcs12_sync = @ \/ k.conf.shadow]

nested_release_vmcs12(k) ==
    IF k.current_vmptr = NoVmcs THEN k
    ELSE LET c == IF k.conf.shadow
                  THEN [copy_shadow_to_vmcs12(k) EXCEPT
                            !.need_vmcs12_sync = FALSE, !.shadowing = FALSE]
                  ELSE k
         IN [c EXCEPT !.mem[k.current_vmptr] = c.cached, !.current_vmptr = NoVmcs]

------------------------------------------------------------------------------
(* VMX operation.                                                           *)

enter_vmx_operation(k) ==
    [k EXCEPT !.vmxon = TRUE, !.vmcs02 = Fresh02, !.cached = Blank,
              !.cached_shadow = 0, !.shadow = Blank,
              !.warned = @ \/ k.allocated, !.allocated = TRUE]

free_nested(k) ==
    IF ~k.vmxon /\ ~k.smm_vmxon THEN k
    ELSE [k EXCEPT !.vmxon = FALSE, !.smm_vmxon = FALSE,
                   !.current_vmptr = NoVmcs, !.shadowing = FALSE,
                   !.allocated = FALSE, !.pinned = FALSE]

\* the error of a VMX instruction that fails with a current VMCS
nested_vmx_failValid(k, err) ==
    IF k.current_vmptr = NoVmcs THEN k ELSE [k EXCEPT !.cached.error = err]

handle_vmon(k) ==
    IF k.vmxon THEN nested_vmx_failValid(k, "vmxon") ELSE enter_vmx_operation(k)

handle_vmoff(k) == free_nested(k)

handle_vmclear(k, v) ==
    LET r == IF v = k.current_vmptr THEN nested_release_vmcs12(k) ELSE k
    IN [r EXCEPT !.mem[v].launch_state = 0]

handle_vmptrld(k, v) ==
    IF v = k.current_vmptr THEN k
    ELSE LET r == nested_release_vmcs12(k)
         IN set_current_vmptr([r EXCEPT !.cached = r.mem[v]], v)

\* VMWRITE of a field that is not shadowed, or without a shadow VMCS; in
\* guest mode it is L2's, and goes to the VMCS the link pointer names
handle_vmwrite(k, f, x) ==
    IF k.current_vmptr = NoVmcs THEN k
    ELSE IF f \in ShadowRO /\ ~k.conf.vmwrite_any
    THEN nested_vmx_failValid(k, "readonly")
    ELSE [k EXCEPT !.cached[f] = x,
                   !.dirty_vmcs12 = @ \/ f \notin ShadowRW]

\* VMREAD and VMWRITE of L2, which L1 lets through to a linked VMCS
handle_l2_vmwrite(k, x) ==
    IF ~k.cached.link THEN k ELSE [k EXCEPT !.cached_shadow = x]

\* what VMREAD gives L1 of its current VMCS: the shadow VMCS without an exit,
\* and handle_vmread's vmcs12 with one
handle_vmread(k) ==
    IF k.shadowing /\ ~k.need_vmcs12_sync
    THEN Copy(k.cached, k.shadow, ShadowRW \union ShadowRO) ELSE k.cached
==============================================================================
