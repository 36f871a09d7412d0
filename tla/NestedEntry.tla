----------------------------- MODULE NestedEntry -----------------------------
(***************************************************************************)
(* Entering L2, leaving it, and what else moves a vCPU between the two     *)
(* levels (vmx.c): VMLAUNCH and VMRESUME with their failures, the reflected *)
(* exit, system management mode, and the save and restore of nested state. *)
(* fail says which of the checks of an entry refuses it.                   *)
(***************************************************************************)
EXTENDS NestedVmcs

EntryFailures == {"none", "prereq", "hw", "post", "prepare", "msr"}

TscOffset12(k) == k.cached.tsc      \* 0 without CPU_BASED_USE_TSC_OFFSETING

nested_exit_on_intr(k) == "intr" \in k.cached.pin
nested_exit_on_nmi(k)  == "nmi" \in k.cached.pin

------------------------------------------------------------------------------
(* The preemption timer of L2, an hrtimer of L0.                            *)

vmx_preemption_timer_fn(k) ==
    [Request(k, "EVENT") EXCEPT !.expired = TRUE, !.kick = @ \/ k.pc = "guest"]

vmx_start_preemption_timer(k) ==
    IF k.cached.timer = 0 THEN vmx_preemption_timer_fn(k)
    ELSE [k EXCEPT !.timer = TRUE]

vmx_get_preemption_timer_value(k) == IF k.expired THEN 0 ELSE 1

------------------------------------------------------------------------------
(* Entry.                                                                   *)

nested_get_vmcs12_pages(k) ==
    [k EXCEPT !.pinned = TRUE, !.vmcs02.pages = @ \/ k.on02]


prepare_vmcs02_early(k) ==
    [k EXCEPT !.vmcs02.initialized = @ \/ k.dirty_vmcs12,
              !.vmcs02.pin = k.cached.pin, !.vmcs02.window = FALSE,
              !.vmcs02.pages = FALSE,
              !.vmcs02.entry = IF k.nested_run_pending THEN k.cached.entry
                               ELSE NoEvent]

\* everything up to the last check that may fail is done before it fails
prepare_vmcs02(k) ==
    LET full == IF k.dirty_vmcs12
                THEN [k EXCEPT !.vmcs02.es = k.cached.es, !.dirty_vmcs12 = FALSE]
                ELSE k
        timer == IF "timer" \in k.cached.pin
                 THEN vmx_start_preemption_timer([full EXCEPT !.expired = FALSE])
                 ELSE [full EXCEPT !.expired = FALSE]
    IN [timer EXCEPT !.vmcs02.tsc = k.tsc_offset, !.rip = k.cached.rip]

\* L1's registers at its exit handler, with interrupts off
load_vmcs12_host_state(k) == [k EXCEPT !.rip = 0, !.l1if = FALSE]

\* the result is in ret: 0 entered, 1 an exit with a failed entry, -1 VMFail
nested_vmx_enter_non_root_mode(k, from_vmentry, fail) ==
    LET evaluate == k.vmcs01.window
        early == prepare_vmcs02_early([k EXCEPT !.on02 = TRUE])
        pages == IF from_vmentry THEN nested_get_vmcs12_pages(early) ELSE early
        inL2  == prepare_vmcs02([pages EXCEPT !.guest_mode = TRUE,
                                              !.tsc_offset = @ + TscOffset12(k)])
        Failed(s) == [load_vmcs12_host_state(s) EXCEPT
                        !.on02 = FALSE, !.cached.reason = "failed",
                        !.need_vmcs12_sync = @ \/ k.conf.shadow, !.ret = 1]
    IN CASE fail = "hw"   -> [pages EXCEPT !.on02 = FALSE, !.ret = -1]
         [] fail = "post" -> Failed(pages)
         [] fail \in {"prepare", "msr"} ->
              Failed([inL2 EXCEPT !.guest_mode = FALSE,
                                  !.tsc_offset = @ - TscOffset12(k)])
         [] OTHER ->
              [inL2 EXCEPT !.ret = 0,
                 !.req = @ \union (IF from_vmentry THEN {} ELSE {"GET_VMCS12_PAGES"})
                           \union (IF evaluate THEN {"EVENT"} ELSE {})]

nested_cache_shadow_vmcs12(k) ==
    IF k.cached.link THEN [k EXCEPT !.cached_shadow = k.mem_link] ELSE k

nested_flush_cached_shadow_vmcs12(k) ==
    IF k.cached.link THEN [k EXCEPT !.mem_link = k.cached_shadow] ELSE k

nested_vmx_run(k, launch, fail) ==
    LET c == IF k.conf.shadow THEN copy_shadow_to_vmcs12(k) ELSE k
        e == nested_vmx_enter_non_root_mode(
                 [c EXCEPT !.nested_run_pending = TRUE], TRUE, fail)
        r == [e EXCEPT !.nested_run_pending = e.ret = 0]
    IN CASE k.current_vmptr = NoVmcs -> k
         [] k.current_vmptr # NoVmcs /\ c.cached.launch_state = launch ->
              nested_vmx_failValid(c, "state")
         [] k.current_vmptr # NoVmcs /\ c.cached.launch_state # launch ->
              IF fail = "prereq" THEN nested_vmx_failValid(c, "control")
              ELSE IF r.ret = -1 THEN nested_vmx_failValid(r, "control")
              ELSE IF r.ret = 1 THEN r
              ELSE nested_cache_shadow_vmcs12(r)

------------------------------------------------------------------------------
(* Exit.                                                                    *)

sync_vmcs12(k) ==
    LET inUse == "timer" \in k.cached.pin
    IN [k EXCEPT !.cached.rip = k.rip, !.cached.es = k.vmcs02.es,
                 !.cached.timer = IF inUse /\ "save" \in k.cached.pin
                                  THEN vmx_get_preemption_timer_value(k) ELSE @,
                 !.timer = @ /\ ~inUse]

\* L2's undelivered event becomes exit information and leaves the queue
prepare_vmcs12(k, reason) ==
    LET s == sync_vmcs12(k)
        x == [s EXCEPT !.cached.reason = reason, !.cached.idt = NoEvent,
                       !.injected = NoEvent]
    IN IF reason = "failed" THEN x
       ELSE [x EXCEPT !.cached.launch_state = 1, !.cached.entry = NoEvent,
                      !.cached.idt = k.injected]

\* L1 goes on behind its VMLAUNCH or VMRESUME
nested_vmx_restore_host_state(k) == [k EXCEPT !.rip = 0]

nested_vmx_vmexit(k, reason) ==
    LET left == [k EXCEPT !.warned = @ \/ k.nested_run_pending,
                          !.guest_mode = FALSE, !.tsc_offset = @ - TscOffset12(k)]
        saved == IF reason = "vmfail" THEN left
                 ELSE nested_flush_cached_shadow_vmcs12(
                        IF reason = "-1" THEN sync_vmcs12(left)
                        ELSE prepare_vmcs12(left, reason))
        l1 == [saved EXCEPT !.on02 = FALSE, !.vmcs01.tsc = saved.tsc_offset,
                 !.pinned = FALSE,
                 !.need_vmcs12_sync = @ \/ (reason # "-1" /\ k.conf.shadow)]
        acked == [l1 EXCEPT !.irq = @ /\ ~(reason = "intr" /\ "ack" \in k.cached.pin)]
    IN IF reason = "vmfail"
       THEN nested_vmx_restore_host_state(nested_vmx_failValid(l1, "control"))
       ELSE load_vmcs12_host_state(acked)

vmx_leave_nested(k) ==
    free_nested(IF k.guest_mode
                THEN nested_vmx_vmexit([k EXCEPT !.nested_run_pending = FALSE], "-1")
                ELSE k)

------------------------------------------------------------------------------
(* System management mode.                                                  *)

\* enter_smm saves the registers of the level that runs before vmx_pre_enter_smm
vmx_pre_enter_smm(k) ==
    LET saved == [k EXCEPT !.smram = [rip |-> k.rip, es |-> k.vmcs02.es,
                                      l1if |-> k.l1if],
                           !.smm_guest_mode = k.guest_mode]
        left == IF k.guest_mode THEN nested_vmx_vmexit(saved, "-1") ELSE saved
    IN [left EXCEPT !.smm_vmxon = left.vmxon, !.vmxon = FALSE,
                    !.smm = TRUE, !.smi = FALSE, !.rip = 0]

\* em_rsm: back to L2 first, then the registers from SMRAM
vmx_pre_leave_smm(k) ==
    LET on == [k EXCEPT !.vmxon = @ \/ k.smm_vmxon, !.smm_vmxon = FALSE]
        in == IF k.smm_guest_mode
              THEN [nested_vmx_enter_non_root_mode(on, FALSE, "none") EXCEPT
                       !.smm_guest_mode = FALSE, !.vmcs02.es = k.smram.es]
              ELSE on
    IN Request([in EXCEPT !.smm = FALSE, !.rip = k.smram.rip,
                          !.l1if = k.smram.l1if], "EVENT")

------------------------------------------------------------------------------
(* Save and restore.  A saved state is what the ioctl copies to user space. *)

\* the vCPU once the ioctl has brought vmcs12 up to date ...
vmx_get_nested_state(k) ==
    IF k.guest_mode THEN sync_vmcs12(k)
    ELSE IF k.current_vmptr # NoVmcs /\ ~k.need_vmcs12_sync /\ k.conf.shadow
    THEN copy_shadow_to_vmcs12(k)
    ELSE k

\* ... and what it returned
NestedState(k) ==
    [vmxon |-> k.vmxon \/ k.smm_vmxon, vmcs |-> k.current_vmptr,
     guest_mode |-> k.guest_mode, run_pending |-> k.nested_run_pending,
     smm_vmxon |-> k.smm_vmxon, smm_guest_mode |-> k.smm_guest_mode,
     vmcs12 |-> k.cached, shadow12 |-> k.cached_shadow]

\* a state with VMX on, taken outside SMM
vmx_set_nested_state(k, s) ==
    LET on   == enter_vmx_operation(vmx_leave_nested(k))
        cur  == [set_current_vmptr(on, s.vmcs) EXCEPT !.cached = s.vmcs12]
        run  == [cur EXCEPT !.nested_run_pending = s.run_pending,
                            !.cached_shadow = IF s.vmcs12.link THEN s.shadow12 ELSE @,
                            !.dirty_vmcs12 = TRUE]
    IN IF ~s.vmxon THEN vmx_leave_nested(k)
       ELSE IF s.vmcs = NoVmcs THEN on
       ELSE IF ~s.guest_mode THEN cur
       ELSE nested_vmx_enter_non_root_mode(run, FALSE, "none")
==============================================================================
