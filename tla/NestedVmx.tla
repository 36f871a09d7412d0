------------------------------ MODULE NestedVmx ------------------------------
(***************************************************************************)
(* One vCPU whose guest L1 runs a guest of its own, L2: vcpu_run around    *)
(* the entries and exits of both levels, the events pending for either,    *)
(* and user space saving and restoring the vCPU (x86.c, vmx.c).            *)
(*                                                                         *)
(* g is what the architecture promises L1 and L2, kept beside the code's   *)
(* state k: vmcs, the VMCSs as L1 wrote them and exits changed them; link, *)
(* the VMCS page L2 writes through the link pointer; l2, L2's registers;   *)
(* owed, the event L2 is still to receive; wrong, L2 received another one; *)
(* tsc, L1's TSC offset.  Four flags mark the cases in which the code does *)
(* not keep a promise: shifted, see VmcsIsCoherent; dropped, unseen and    *)
(* stopped, see NoEventIsForgotten.                                        *)
(***************************************************************************)
EXTENDS NestedEntry

CONSTANTS
    Confs           \* the configurations and mixtures of operations that are checked

VARIABLES k, g, snap, arrived

vars == <<k, g, snap, arrived>>

Vmcss(c) == DOMAIN c.vmcs
NoSnapshot == [taken |-> FALSE]

Init ==
    \E c \in Confs :
        /\ k = [conf |-> c, mem |-> c.vmcs, mem_link |-> 0, pc |-> "loop", ret |-> 0,
                vmxon |-> FALSE, current_vmptr |-> NoVmcs, allocated |-> FALSE,
                need_vmcs12_sync |-> FALSE, dirty_vmcs12 |-> FALSE,
                nested_run_pending |-> FALSE, cached |-> Blank, cached_shadow |-> 0,
                shadow |-> Blank, shadowing |-> FALSE, pinned |-> FALSE,
                vmcs02 |-> Fresh02, vmcs01 |-> [window |-> FALSE, tsc |-> 0],
                on02 |-> FALSE, guest_mode |-> FALSE, smm |-> FALSE,
                smm_vmxon |-> FALSE, smm_guest_mode |-> FALSE,
                smram |-> [rip |-> 0, es |-> 0, l1if |-> FALSE],
                rip |-> 0, l1if |-> FALSE, tsc_offset |-> 0,
                timer |-> FALSE, expired |-> FALSE, injected |-> NoEvent,
                irq |-> FALSE, nmi |-> FALSE, smi |-> FALSE,
                req |-> {}, immediate |-> FALSE, kick |-> FALSE, warned |-> FALSE]
        /\ g = [vmcs |-> c.vmcs, link |-> 0, l2 |-> [rip |-> 0, es |-> 0],
                owed |-> NoEvent, wrong |-> FALSE, tsc |-> 0,
                shifted |-> FALSE, dropped |-> FALSE, unseen |-> FALSE, stopped |-> FALSE]
        /\ snap = NoSnapshot
        /\ arrived = 0

------------------------------------------------------------------------------
(* What the architecture makes of an exit from L2 to L1.                    *)

cur == k.current_vmptr

ArchExit(a, reason) ==
    LET v == a.vmcs[cur]
        info == [v EXCEPT !.rip = a.l2.rip, !.es = a.l2.es, !.reason = reason,
                          !.idt = a.owed, !.launch_state = 1, !.entry = NoEvent,
                          !.timer = IF {"timer", "save"} \subseteq v.pin
                                    THEN vmx_get_preemption_timer_value(k) ELSE @]
    IN [a EXCEPT !.vmcs[cur] = info, !.owed = NoEvent,
                 !.unseen = k.irq /\ "intr" \notin v.pin]

ArchFailed(a) ==
    [a EXCEPT !.vmcs[cur].reason = "failed", !.owed = NoEvent]

ArchError(a, err) ==
    IF cur = NoVmcs THEN a ELSE [a EXCEPT !.vmcs[cur].error = err]

\* the exit that a step of the event code made of its own, if it made one
ArchOf(a, k2) ==
    IF k.guest_mode /\ ~k2.guest_mode /\ ~k2.smm_guest_mode
    THEN ArchExit(a, k2.cached.reason) ELSE a

------------------------------------------------------------------------------
(* Pending events.                                                          *)

vmx_check_nested_events(s) ==
    LET why == IF "timer" \in s.cached.pin /\ s.expired THEN "timer"
               ELSE IF s.nmi /\ nested_exit_on_nmi(s) THEN "nmi"
               ELSE IF s.irq /\ nested_exit_on_intr(s) THEN "intr" ELSE "none"
    IN IF why = "none" THEN [s EXCEPT !.ret = 0]
       ELSE IF s.nested_run_pending \/ s.injected # NoEvent THEN [s EXCEPT !.ret = -1]
       ELSE [nested_vmx_vmexit(s, why) EXCEPT !.ret = 0, !.nmi = @ /\ why # "nmi"]

\* an event for L2 goes through vmcs02; one for L1 is delivered at once
Deliver(s, ev) ==
    IF s.guest_mode THEN [s EXCEPT !.injected = ev, !.vmcs02.entry = ev] ELSE s

vmx_nmi_allowed(s) == ~s.nested_run_pending /\ ~s.smm
vmx_interrupt_allowed(s) ==
    ~s.nested_run_pending /\ ~s.smm /\ (s.guest_mode \/ s.l1if)

inject_pending_event(s) ==
    LET again == IF s.injected = NoEvent THEN s
                 ELSE [s EXCEPT !.vmcs02.entry = s.injected]
        c == IF s.guest_mode THEN vmx_check_nested_events(again)
             ELSE [again EXCEPT !.ret = 0]
    IN IF c.ret # 0 \/ c.injected # NoEvent THEN c
       ELSE IF c.smi /\ ~c.smm /\ ~c.nested_run_pending THEN vmx_pre_enter_smm(c)
       ELSE IF c.nmi /\ vmx_nmi_allowed(c) THEN Deliver([c EXCEPT !.nmi = FALSE], "nmi")
       ELSE IF c.irq /\ vmx_interrupt_allowed(c)
       THEN Deliver([c EXCEPT !.irq = FALSE], "irq")
       ELSE c

\* a pending exit of L2 that cannot be made yet only opens a window
Windows_NoImmediate(s) ==
    [s EXCEPT !.immediate = s.smi /\ ~s.smm, !.ret = 0,
              !.vmcs02.window = @ \/ ((s.nmi \/ s.irq) /\ s.on02),
              !.vmcs01.window = @ \/ ((s.nmi \/ s.irq) /\ ~s.on02)]

\* vcpu_enter_guest after the injection: what could not be injected gets an
\* immediate exit or a window on the VMCS that is loaded
Windows(s) ==
    LET open == s.nmi \/ s.irq
    IN IF s.ret # 0 THEN [s EXCEPT !.immediate = TRUE, !.ret = 0]
       ELSE [s EXCEPT !.immediate = s.smi /\ ~s.smm,
                      !.vmcs02.window = @ \/ (open /\ s.on02),
                      !.vmcs01.window = @ \/ (open /\ ~s.on02)]

ProcessEvents(s) ==
    IF "EVENT" \in s.req
    THEN Windows(inject_pending_event([s EXCEPT !.req = @ \ {"EVENT"}])) ELSE s

ProcessPages(s) ==
    IF "GET_VMCS12_PAGES" \in s.req
    THEN [nested_get_vmcs12_pages(s) EXCEPT !.req = @ \ {"GET_VMCS12_PAGES"}] ELSE s

------------------------------------------------------------------------------
(* vcpu_run and vcpu_enter_guest.                                           *)

\* an event that Prepare took from the devices is owed to L2 from then on
Taken(a, k2) ==
    IF ~k2.guest_mode THEN a
    ELSE IF k.nmi /\ ~k2.nmi THEN [a EXCEPT !.owed = "nmi"]
    ELSE IF k.irq /\ ~k2.irq THEN [a EXCEPT !.owed = "irq"] ELSE a

\* kvm_vcpu_running looks at the nested events, whatever the requests are
Running ==
    /\ k.pc = "loop"
    /\ LET k2 == IF k.guest_mode THEN vmx_check_nested_events(k) ELSE k
       IN /\ k' = [k2 EXCEPT !.pc = "enter", !.ret = 0]
          /\ g' = ArchOf(g, k2)
    /\ UNCHANGED <<snap, arrived>>

\* vcpu_enter_guest up to local_irq_disable
Prepare ==
    /\ k.pc = "enter"
    /\ LET k2 == ProcessEvents(ProcessPages([k EXCEPT !.immediate = FALSE]))
           a  == Taken(ArchOf(g, k2), k2)
       IN /\ k' = [k2 EXCEPT !.pc = "armed"]
          /\ g' = IF "EVENT" \in k.req
                  THEN [a EXCEPT !.dropped = FALSE, !.unseen = FALSE] ELSE a
    /\ UNCHANGED <<snap, arrived>>

\* vmx_cancel_injection
vmx_cancel_injection(s) ==
    IF ~s.on02 THEN s
    ELSE [s EXCEPT !.injected = s.vmcs02.entry, !.vmcs02.entry = NoEvent,
                   !.req = @ \union (IF s.vmcs02.entry = NoEvent THEN {} ELSE {"EVENT"})]

\* a request, a signal or need_resched
Cancel ==
    /\ k.pc = "armed"
    /\ LET k2 == vmx_cancel_injection(k)
       IN /\ k' = [k2 EXCEPT !.pc = "loop", !.immediate = FALSE]
          /\ g' = [g EXCEPT !.dropped = @ \/ (k.immediate /\ "EVENT" \notin k2.req)]
    /\ UNCHANGED <<snap, arrived>>

\* vmx_vcpu_run to the entry; nested_run_pending is cleared behind it
vmx_vcpu_run ==
    LET s == [SyncShadow(k) EXCEPT !.nested_run_pending = FALSE, !.immediate = FALSE,
                !.warned = @ \/ (k.need_vmcs12_sync /\ ~k.allocated)]
    IN IF k.immediate THEN [Request(s, "EVENT") EXCEPT !.kick = TRUE] ELSE s

Commits == k.pc = "armed" /\ k.req = {}

Enter ==
    /\ Commits
    /\ k' = [vmx_vcpu_run EXCEPT !.pc = "guest", !.injected = NoEvent,
                                 !.vmcs02.entry = IF k.on02 THEN NoEvent ELSE @]
    /\ g' = IF ~k.guest_mode THEN g
            ELSE [g EXCEPT !.owed = NoEvent,
                           !.wrong = @ \/ k.vmcs02.entry # g.owed]
    /\ UNCHANGED <<snap, arrived>>

\* back in L0, with no event left in the VMCS
Exited(s) == [s EXCEPT !.pc = "loop", !.kick = FALSE]

\* the processor exits while it delivers the event; L0 handles the exit, or
\* reflects it as an EPT violation of L1's tables
DeliveryExit(reflect) ==
    /\ Commits /\ k.guest_mode /\ k.vmcs02.entry # NoEvent
    /\ LET s == Request([vmx_vcpu_run EXCEPT !.injected = k.vmcs02.entry,
                                             !.vmcs02.entry = NoEvent], "EVENT")
           late == [g EXCEPT !.wrong = @ \/ k.vmcs02.entry # g.owed]
       IN /\ k' = Exited(IF reflect THEN nested_vmx_vmexit(s, "ept") ELSE s)
          /\ g' = IF reflect THEN ArchExit(late, "ept") ELSE late
    /\ UNCHANGED <<snap, arrived>>

\* the processor refuses guest state ("failed") or controls ("vmfail") that
\* the checks of the nested entry leave to it
EntryFailure(how) ==
    /\ Commits /\ k.guest_mode /\ k.nested_run_pending
    /\ how = "vmfail" => k.injected = NoEvent
    /\ k' = Exited(nested_vmx_vmexit(vmx_vcpu_run, how))
    /\ g' = IF how = "vmfail" THEN [ArchError(g, "control") EXCEPT !.owed = NoEvent]
            ELSE [ArchFailed(g) EXCEPT !.vmcs[cur].idt = NoEvent]
    /\ UNCHANGED <<snap, arrived>>

------------------------------------------------------------------------------
(* Exits of either level that L0 handles without the other noticing.        *)

InGuest == k.pc = "guest"
InL1 == InGuest /\ ~k.guest_mode /\ ~k.smm
InL2 == InGuest /\ k.guest_mode

\* an external interrupt, the kick of a request, or a page fault of L0's
L0Exit ==
    /\ InGuest
    /\ k' = Exited(k)
    /\ UNCHANGED <<g, snap, arrived>>

\* handle_interrupt_window and handle_nmi_window
WindowExit ==
    /\ InGuest /\ ~k.smm
    /\ IF k.on02 THEN k.vmcs02.window ELSE k.vmcs01.window /\ k.l1if
    /\ LET s == IF k.on02 THEN [k EXCEPT !.vmcs02.window = FALSE]
                ELSE [k EXCEPT !.vmcs01.window = FALSE]
       IN k' = Exited(Request(s, "EVENT"))
    /\ UNCHANGED <<g, snap, arrived>>

------------------------------------------------------------------------------
(* L1.                                                                      *)

L1Exit(k2, a) ==
    /\ InL1
    /\ k' = Exited(k2)
    /\ g' = a
    /\ UNCHANGED <<snap, arrived>>

Vmon == L1Exit(handle_vmon(k), IF k.vmxon THEN ArchError(g, "vmxon") ELSE g)

\* what VMXOFF leaves of a current VMCS is the processor's; here, its page
Vmoff ==
    /\ k.vmxon
    /\ L1Exit(handle_vmoff(k),
              IF cur = NoVmcs THEN g ELSE [g EXCEPT !.vmcs[cur] = k.mem[cur]])

Vmclear(v) ==
    /\ k.vmxon
    /\ L1Exit(handle_vmclear(k, v), [g EXCEPT !.vmcs[v].launch_state = 0])

Vmptrld(v) == k.vmxon /\ L1Exit(handle_vmptrld(k, v), g)

\* exit information is written only without a shadow VMCS
Vmwrite(f, x) ==
    /\ k.vmxon /\ cur # NoVmcs
    /\ ~(k.shadowing /\ f \in ShadowRW)
    /\ f \in ShadowRO => ~(k.shadowing /\ k.conf.vmwrite_any)
    /\ L1Exit(handle_vmwrite(k, f, x),
              IF f \in ShadowRO /\ ~k.conf.vmwrite_any THEN ArchError(g, "readonly")
              ELSE [g EXCEPT !.vmcs[cur][f] = x])

\* the processor writes the shadow VMCS, and L0 does not notice
ShadowWrite(f, x) ==
    /\ InL1 /\ k.vmxon /\ k.shadowing /\ f \in ShadowRW
    /\ k' = [k EXCEPT !.shadow[f] = x]
    /\ g' = [g EXCEPT !.vmcs[cur][f] = x]
    /\ UNCHANGED <<snap, arrived>>

\* VMLAUNCH (launch = 1) and VMRESUME (launch = 0)
Vmrun(launch, fail) ==
    /\ k.vmxon /\ cur # NoVmcs
    /\ g.vmcs[cur].launch_state = launch => "state" \in k.conf.fails
    /\ LET v == g.vmcs[cur]
           a == CASE v.launch_state = launch -> ArchError(g, "state")
                  [] v.launch_state # launch /\ fail \in {"prereq", "hw"} ->
                       ArchError(g, "control")
                  [] v.launch_state # launch /\ fail \in {"post", "prepare", "msr"} ->
                       ArchFailed(g)
                  [] OTHER -> [g EXCEPT !.l2 = [rip |-> v.rip, es |-> v.es],
                                        !.owed = v.entry, !.stopped = FALSE]
       IN L1Exit(nested_vmx_run(k, launch, fail), a)

Sti(on) ==
    /\ InL1 /\ k.l1if # on
    /\ k' = [k EXCEPT !.l1if = on]
    /\ UNCHANGED <<g, snap, arrived>>

------------------------------------------------------------------------------
(* L2.                                                                      *)

L2Step(rip, es) ==
    /\ InL2
    /\ k' = [k EXCEPT !.rip = rip, !.vmcs02.es = es]
    /\ g' = [g EXCEPT !.l2 = [rip |-> rip, es |-> es]]
    /\ UNCHANGED <<snap, arrived>>

\* an instruction that L0 emulates for L2, or a nested hypercall of Nyx:
\* vmx_handle_exit skips the VMCALL and leaves for user space
L2Emulated(rip) ==
    /\ InL2
    /\ k' = Exited([k EXCEPT !.rip = rip])
    /\ g' = [g EXCEPT !.l2.rip = rip]
    /\ UNCHANGED <<snap, arrived>>

\* nested_vmx_reflect_vmexit
L2Exit ==
    /\ InL2
    /\ k' = Exited(nested_vmx_vmexit(k, "cpuid"))
    /\ g' = ArchExit(g, "cpuid")
    /\ UNCHANGED <<snap, arrived>>

L2Vmwrite(x) ==
    /\ InL2
    /\ k' = Exited(handle_l2_vmwrite(k, x))
    /\ g' = IF g.vmcs[cur].link THEN [g EXCEPT !.link = x] ELSE g
    /\ UNCHANGED <<snap, arrived>>

------------------------------------------------------------------------------
(* Devices, the preemption timer, system management mode.                   *)

Arrives(ev) ==
    /\ arrived < k.conf.arrivals /\ ~k[ev]
    /\ arrived' = arrived + 1
    /\ k' = [Request(k, "EVENT") EXCEPT ![ev] = TRUE, !.kick = @ \/ InGuest]
    /\ UNCHANGED <<g, snap>>

TimerFires ==
    /\ k.timer
    /\ k' = [vmx_preemption_timer_fn(k) EXCEPT !.timer = FALSE]
    /\ UNCHANGED <<g, snap, arrived>>

Rsm ==
    /\ InGuest /\ k.smm
    /\ k' = Exited(vmx_pre_leave_smm(k))
    /\ g' = [g EXCEPT !.stopped = @ /\ ~k.smm_guest_mode]
    /\ UNCHANGED <<snap, arrived>>

------------------------------------------------------------------------------
(* User space, between two KVM_RUN.                                         *)

\* kvm_vcpu_write_tsc_offset: L2's VMCS gets the sum, arch.tsc_offset does not
vmx_write_tsc_offset(s, x) ==
    LET w == [s EXCEPT !.tsc_offset = x]
    IN IF s.guest_mode THEN [w EXCEPT !.vmcs02.tsc = x + TscOffset12(s)]
       ELSE [w EXCEPT !.vmcs01.tsc = x]

vmx_read_l1_tsc_offset(s) ==
    s.tsc_offset - (IF s.guest_mode THEN TscOffset12(s) ELSE 0)

\* a write that leaves L1 short of L2's offset when L2 next exits
Shifts(s) == s.guest_mode /\ TscOffset12(s) # 0

WriteTsc(x) ==
    /\ k.pc = "loop" /\ g.tsc # x
    /\ k' = vmx_write_tsc_offset(k, x)
    /\ g' = [g EXCEPT !.tsc = x, !.shifted = Shifts(k)]
    /\ UNCHANGED <<snap, arrived>>

\* kvm_arch_get_registers for a look at the registers
GetState ==
    /\ k.pc = "loop" /\ k.vmxon
    /\ k' = vmx_get_nested_state(k)
    /\ g' = [g EXCEPT !.stopped = @ \/ (k.timer /\ ~vmx_get_nested_state(k).timer)]
    /\ UNCHANGED <<snap, arrived>>

\* the registers, events and memory saved with a nested state
Snapshot ==
    /\ k.pc = "loop" /\ ~snap.taken /\ k.vmxon
    /\ k.conf.linked => k.guest_mode
    /\ LET s == vmx_get_nested_state(k)
       IN /\ snap' = [taken |-> TRUE, nested |-> NestedState(s), g |-> g,
                      mem |-> s.mem, mem_link |-> s.mem_link, rip |-> s.rip,
                      es |-> s.vmcs02.es, l1if |-> s.l1if, injected |-> s.injected,
                      tsc |-> vmx_read_l1_tsc_offset(s), irq |-> s.irq, nmi |-> s.nmi, smi |-> s.smi]
          /\ k' = s
          /\ g' = [g EXCEPT !.stopped = @ \/ (k.timer /\ ~s.timer)]
    /\ UNCHANGED arrived

\* fast_reload_restore: guest memory, then kvm_arch_put_registers, which puts
\* the nested state, the registers, the TSC and at last the events
Reload ==
    /\ k.pc = "loop" /\ snap.taken /\ ~k.smm
    /\ LET m == [k EXCEPT !.mem = snap.mem, !.mem_link = snap.mem_link]
           n == vmx_set_nested_state(m, snap.nested)
           r == [n EXCEPT !.rip = snap.rip, !.l1if = snap.l1if,
                          !.vmcs02.es = IF n.guest_mode THEN snap.es ELSE @]
           t == vmx_write_tsc_offset(r, snap.tsc)
       IN /\ k' = Request([t EXCEPT !.injected = snap.injected, !.irq = snap.irq,
                                 !.nmi = snap.nmi, !.smi = snap.smi, !.ret = 0], "EVENT")
          /\ g' = [snap.g EXCEPT !.stopped = FALSE, !.wrong = g.wrong,
                                 !.shifted = @ \/ Shifts(n)]
    /\ UNCHANGED <<snap, arrived>>

------------------------------------------------------------------------------
\* the values a register of L2 takes: 0 and 1 if L1 also writes it
Regs(f) == IF f \in k.conf.writes THEN 0..1 ELSE {0}
VmwriteValues(f) ==
    CASE f = "rip" -> 0..1 [] f = "es" -> 0..1 [] f = "timer" -> 0..1
      [] f = "entry" -> {"inj"} [] f = "reason" -> {"written"}

Next ==
    \/ Running \/ Prepare \/ Cancel \/ Enter
    \/ \E b \in BOOLEAN : DeliveryExit(b) \/ Sti(b)
    \/ \E how \in k.conf.fails \cap {"failed", "vmfail"} : EntryFailure(how)
    \/ L0Exit \/ WindowExit
    \/ (k.vmxon => "state" \in k.conf.fails) /\ Vmon
    \/ \E v \in Vmcss(k.conf) : Vmptrld(v) \/ (k.conf.clears /\ Vmclear(v))
    \/ k.conf.clears /\ Vmoff
    \/ \E f \in k.conf.writes : \E x \in VmwriteValues(f) : Vmwrite(f, x) \/ ShadowWrite(f, x)
    \/ \E launch \in 0..1, fail \in k.conf.fails \cap EntryFailures : Vmrun(launch, fail)
    \/ \E rip \in Regs("rip") : L2Emulated(rip) \/ \E es \in Regs("es") : L2Step(rip, es)
    \/ L2Exit
    \/ \E x \in 0..1 : L2Vmwrite(x) \/ ("tsc" \in k.conf.user /\ WriteTsc(x))
    \/ \E ev \in k.conf.events : Arrives(ev)
    \/ TimerFires \/ Rsm
    \/ "get" \in k.conf.user /\ GetState
    \/ "reload" \in k.conf.user /\ (Snapshot \/ Reload)

Spec == Init /\ [][Next]_vars

------------------------------------------------------------------------------
(* Properties.                                                              *)



\* While L2 runs, an interrupt or NMI that L1 intercepts, or the expiry of
\* L1's preemption timer, has an exit from L2 on its way; while L1 runs, a
\* pending interrupt has an exit on its way or a window.  Not so when a
\* cancelled entry drops the immediate exit (dropped), when L2 exits with an
\* interrupt that L1 does not intercept (unseen), and when a look at the
\* nested state has cancelled the timer (stopped).
NoEventIsForgotten ==
    InGuest /\ ~k.smm /\ ~g.dropped =>
        LET coming == k.kick /\ "EVENT" \in k.req
            pin == g.vmcs[cur].pin
        IN IF k.guest_mode
           THEN /\ (k.irq /\ "intr" \in pin) \/ (k.nmi /\ "nmi" \in pin)
                     \/ (k.expired /\ "timer" \in pin) => coming
                /\ "timer" \in pin => k.timer \/ k.expired \/ g.stopped
           ELSE k.irq => coming \/ k.vmcs01.window \/ g.unseen
==============================================================================
