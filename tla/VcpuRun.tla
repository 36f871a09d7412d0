------------------------------ MODULE VcpuRun ------------------------------
(***************************************************************************)
(* One vCPU thread in KVM_RUN (x86.c, kvm_main.c), the interrupt sources   *)
(* that reach it from other CPUs and the timer of its own CPU.  A source   *)
(* publishes its event, raises a request, then wakes or kicks the vCPU;    *)
(* the vCPU handles requests, injects, sets IN_GUEST_MODE and looks at the *)
(* requests once more, or puts itself on its wait queue and looks again    *)
(* for a reason to run.  The local APIC is reduced to one vector           *)
(* (Lapic.tla has the rest); the guest is any sequence of the exits below. *)
(***************************************************************************)
EXTENDS VcpuEvents, AsyncPf, Pic

CONSTANTS
  Scenarios,    \* [bsp, kinds, gfns]: the events and exits a behaviour has, and the
                \* frames it may find swapped out; with "apf" the guest has enabled
                \* asynchronous page faults at the start
  PortWrites    \* the writes to the PIC's ports: {[n, cmd, val]}

ASSUME PortWritesAssumption ==
  \A w \in PortWrites :
    /\ w.n \in 0 .. 1
    /\ w.cmd \in Eois \union {"icw1", "icw2", "icw3", "icw4", "imr", "priority", "poll"}
    /\ w.cmd = "priority" => w.val \in 0 .. 7      \* OCW2's low three bits

VARIABLES
  run,        \* [pc, mode, onq, ipi, signal, from]: the thread
  lapic,      \* [irr, isr, lvtt, timer_pending, pending_events]
  sender,     \* where each interrupt source is
  scenario,   \* the member of Scenarios this behaviour follows
  owed,       \* history: events taken from their source, not yet delivered
  sipi_due    \* history: a SIPI followed the last INIT

vars == << vcpu, apf, pic, run, lapic, sender, scenario, owed, sipi_due >>

Sources == {"dev", "nmi", "ipi", "apf"}
Has(kind) == kind \in scenario.kinds
bsp == scenario.bsp

Init ==
  /\ scenario \in Scenarios
  /\ vcpu = [VcpuAtReset EXCEPT !.mp_state = IF bsp THEN "RUNNABLE" ELSE "UNINITIALIZED"]
  /\ apf = [AsyncPfIdle EXCEPT !.enabled = Has("apf")]
  /\ pic = kvm_pic_init
  /\ run = [pc |-> "user", mode |-> "OUTSIDE", onq |-> FALSE, ipi |-> FALSE, signal |-> FALSE,
            from |-> "run"]
  /\ lapic = [irr |-> FALSE, isr |-> FALSE, lvtt |-> TRUE, timer_pending |-> FALSE,
              pending_events |-> {}]
  /\ sender = [s \in Sources |-> "idle"]
  /\ owed = {}
  /\ sipi_due = FALSE

-----------------------------------------------------------------------------
(* Does a controller have something for this vCPU? *)
kvm_cpu_has_extint == bsp /\ pic.output
kvm_apic_has_interrupt == lapic.irr /\ ~lapic.isr
kvm_cpu_has_interrupt == kvm_cpu_has_extint \/ kvm_apic_has_interrupt
kvm_cpu_has_pending_timer2 == lapic.lvtt /\ lapic.timer_pending

kvm_vcpu_running == vcpu.mp_state = "RUNNABLE" /\ ~vcpu.apf_halted

kvm_vcpu_has_events ==
  \/ apf.done # << >>
  \/ lapic.pending_events # {}
  \/ vcpu.pending
  \/ "NMI" \in vcpu.requests
  \/ vcpu.nmi_pending > 0 /\ vmx_nmi_allowed(vcpu)
  \/ vmx_interrupt_allowed(vcpu) /\ kvm_cpu_has_interrupt

kvm_arch_vcpu_runnable == kvm_vcpu_running \/ kvm_vcpu_has_events

-----------------------------------------------------------------------------
(* The sources.  pic_unlock tells the vCPU that accepts the PIC.           *)
DevSetsLine(pin) ==
  /\ Has("dev") /\ sender["dev"] = "idle"
  /\ LET p == kvm_pic_set_irq(pic, pin, Input(pin) \notin pic.chip[Chip(pin)].last_irr)
     IN  /\ pic' = [p EXCEPT !.wakeup_needed = FALSE]
         /\ sender' = [sender EXCEPT !["dev"] = IF p.wakeup_needed /\ bsp THEN "request" ELSE "idle"]
  /\ UNCHANGED << vcpu, apf, run, lapic, scenario, owed, sipi_due >>

kvm_inject_nmi ==
  /\ Has("nmi") /\ sender["nmi"] = "idle" /\ vcpu.nmi_queued < 2     \* bound
  /\ vcpu' = [vcpu EXCEPT !.nmi_queued = @ + 1]
  /\ sender' = [sender EXCEPT !["nmi"] = "request"]
  /\ UNCHANGED << apf, pic, run, lapic, scenario, owed, sipi_due >>

(* __apic_accept_irq of the three delivery modes that reach a vCPU here. *)
__apic_accept_irq(mode) ==
  /\ Has(mode) /\ sender["ipi"] = "idle"
  /\ lapic' = CASE mode = "INIT" -> [lapic EXCEPT !.pending_events = {"INIT"}]
                [] mode = "STARTUP" -> [lapic EXCEPT !.pending_events = @ \union {"SIPI"}]
                [] mode = "FIXED" -> [lapic EXCEPT !.irr = TRUE]
  /\ sipi_due' = CASE mode = "INIT" -> FALSE
                   [] mode = "STARTUP" -> \/ sipi_due
                                          \/ "INIT" \in lapic.pending_events
                                          \/ vcpu.mp_state = "INIT_RECEIVED"
                   [] mode = "FIXED" -> sipi_due
  /\ sender' = [sender EXCEPT !["ipi"] = "request"]
  /\ UNCHANGED << vcpu, apf, pic, run, scenario, owed >>

(* The request is visible before the source looks for a sleeper. *)
SenderRequests(s) ==
  /\ sender[s] = "request"
  /\ vcpu' = kvm_make_request(vcpu, IF s = "nmi" THEN "NMI" ELSE "EVENT")
  /\ sender' = [sender EXCEPT ![s] = "wake"]
  /\ UNCHANGED << apf, pic, run, lapic, scenario, owed, sipi_due >>

(* A source that finds no sleeper goes on to kick; a finished fetch only wakes. *)
kvm_vcpu_wake_up(s) ==
  /\ sender[s] = "wake"
  /\ run' = [run EXCEPT !.onq = FALSE]
  /\ sender' = [sender EXCEPT ![s] = IF run.onq \/ s = "apf" THEN "idle" ELSE "kick"]
  /\ UNCHANGED << vcpu, apf, pic, lapic, scenario, owed, sipi_due >>

kvm_vcpu_kick(s) ==
  /\ sender[s] = "kick"
  /\ run' = IF run.mode = "IN_GUEST" THEN [run EXCEPT !.mode = "EXITING", !.ipi = TRUE] ELSE run
  /\ sender' = [sender EXCEPT ![s] = "idle"]
  /\ UNCHANGED << vcpu, apf, pic, lapic, scenario, owed, sipi_due >>

(* The timer interrupt comes on the CPU that runs the vCPU thread, so not  *)
(* while that has interrupts off; in guest mode it first causes an exit.   *)
apic_timer_expired ==
  /\ Has("timer") /\ lapic.lvtt /\ ~lapic.timer_pending
  /\ run.pc \notin {"armed", "guest"}
  /\ lapic' = [lapic EXCEPT !.timer_pending = TRUE]
  /\ vcpu' = kvm_make_request(vcpu, "PENDING_TIMER")
  /\ run' = [run EXCEPT !.onq = FALSE]
  /\ UNCHANGED << apf, pic, sender, scenario, owed, sipi_due >>

Fetched(gfn) ==
  /\ gfn \in Fetching(apf) /\ sender["apf"] = "idle"
  /\ apf' = async_pf_execute(apf, gfn)
  /\ sender' = [sender EXCEPT !["apf"] = "wake"]
  /\ UNCHANGED << vcpu, pic, run, lapic, scenario, owed, sipi_due >>

(* QEMU's vCPU kick (SIG_IPI). *)
Signal ==
  /\ Has("signal") /\ ~run.signal /\ run.pc # "user"
  /\ run' = [run EXCEPT !.signal = TRUE, !.ipi = @ \/ run.pc \in {"armed", "guest"}]
  /\ UNCHANGED << vcpu, apf, pic, lapic, sender, scenario, owed, sipi_due >>

-----------------------------------------------------------------------------
(* kvm_apic_accept_events as next states of its three parts; w is the vCPU *)
(* it starts from and pc where the thread goes on.                         *)
AcceptedVcpu(w) ==
  LET pe == lapic.pending_events
      init == IF "INIT" \in pe
                THEN [kvm_vcpu_reset(w) EXCEPT !.mp_state = IF bsp THEN "RUNNABLE" ELSE "INIT_RECEIVED"]
                ELSE w
  IN  IF "SIPI" \in pe /\ init.mp_state = "INIT_RECEIVED"
        THEN [init EXCEPT !.mp_state = "RUNNABLE"] ELSE init

AcceptedApf(a) ==
  IF "INIT" \in lapic.pending_events
    THEN kvm_async_pf_hash_reset(kvm_clear_async_pf_completion_queue([a EXCEPT !.enabled = FALSE]))
    ELSE a

(* kvm_lapic_reset masks the timer's LVT entry and cancels the timer. *)
kvm_lapic_reset(l) ==
  [l EXCEPT !.irr = FALSE, !.isr = FALSE, !.lvtt = FALSE, !.timer_pending = FALSE]

AcceptEvents ==
  /\ apf' = AcceptedApf(apf)
  /\ lapic' = [IF "INIT" \in lapic.pending_events THEN kvm_lapic_reset(lapic) ELSE lapic
                 EXCEPT !.pending_events = {}]
  /\ owed' = IF "INIT" \in lapic.pending_events THEN {} ELSE owed

-----------------------------------------------------------------------------
(* kvm_arch_vcpu_ioctl_run and vcpu_run; a vCPU that was never started     *)
(* blocks before it gets to the loop.                                      *)
kvm_arch_vcpu_ioctl_run ==
  /\ run.pc = "user"
  /\ run' = IF vcpu.mp_state = "UNINITIALIZED" THEN [run EXCEPT !.pc = "block", !.from = "init"]
            ELSE [run EXCEPT !.pc = "loop", !.from = "run"]
  /\ UNCHANGED << vcpu, apf, pic, lapic, sender, scenario, owed, sipi_due >>

vcpu_run ==
  /\ run.pc = "loop"
  /\ run' = [run EXCEPT !.pc = IF kvm_vcpu_running THEN "requests"
                               ELSE IF kvm_arch_vcpu_runnable THEN "unhalt" ELSE "block"]
  /\ UNCHANGED << vcpu, apf, pic, lapic, sender, scenario, owed, sipi_due >>

(* The first half of vcpu_enter_guest. *)
ProcessRequests ==
  LET nmi == IF "NMI" \in vcpu.requests
               THEN process_nmi([vcpu EXCEPT !.requests = @ \ {"NMI"}]) ELSE vcpu
      event == [nmi EXCEPT !.requests = @ \ {"EVENT"}]
  IN
  /\ run.pc = "requests"
  /\ \/ /\ "TRIPLE_FAULT" \in vcpu.requests
        /\ vcpu' = [vcpu EXCEPT !.requests = @ \ {"TRIPLE_FAULT"}]
        /\ run' = [run EXCEPT !.pc = "user"]
        /\ UNCHANGED << apf, lapic, owed >>
     \/ /\ "TRIPLE_FAULT" \notin vcpu.requests /\ "APF_HALT" \in vcpu.requests
        /\ vcpu' = [vcpu EXCEPT !.requests = @ \ {"APF_HALT"}, !.apf_halted = TRUE]
        /\ run' = [run EXCEPT !.pc = "tail"]
        /\ UNCHANGED << apf, lapic, owed >>
     \/ /\ vcpu.requests \intersect {"TRIPLE_FAULT", "APF_HALT"} = {}
        /\ "EVENT" \in nmi.requests
        /\ vcpu' = AcceptedVcpu(event)
        /\ AcceptEvents
        /\ run' = [run EXCEPT !.pc = IF vcpu'.mp_state = "INIT_RECEIVED" THEN "tail" ELSE "inject"]
     \/ /\ vcpu.requests \intersect {"TRIPLE_FAULT", "APF_HALT"} = {}
        /\ "EVENT" \notin nmi.requests
        /\ run' = [run EXCEPT !.pc = "arm"]
        /\ UNCHANGED << vcpu, apf, lapic, owed >>
  /\ UNCHANGED << pic, sender, scenario, sipi_due >>

EnableWindows(v) ==
  LET w == IF v.nmi_pending > 0 THEN enable_nmi_window(v) ELSE v
  IN  IF kvm_cpu_has_interrupt THEN [w EXCEPT !.irq_window = TRUE] ELSE w

Inject ==
  LET v == inject_pending_event(vcpu)
      takes == LooksForInterrupt(vcpu) /\ kvm_cpu_has_interrupt /\ vmx_interrupt_allowed(v)
  IN
  /\ run.pc = "inject"
  /\ vcpu' = IF takes THEN v ELSE EnableWindows(v)
  /\ owed' = IF v.nmi_pending < vcpu.nmi_pending THEN owed \union {"nmi"} ELSE owed
  /\ run' = [run EXCEPT !.pc = IF takes THEN "take" ELSE "arm"]
  /\ UNCHANGED << apf, pic, lapic, sender, scenario, sipi_due >>

(* kvm_cpu_get_interrupt and vmx_inject_irq, then the windows.  The        *)
(* controllers are asked a second time: when the line was lowered since,   *)
(* the vector is -1 (255).                                                 *)
TakeInterrupt ==
  LET p == kvm_pic_read_irq(pic).pic
      taken == [vcpu EXCEPT !.interrupt = TRUE, !.entry = "irq"]
  IN
  /\ run.pc = "take"
  /\ \/ /\ kvm_cpu_has_extint
        /\ pic' = [p EXCEPT !.wakeup_needed = FALSE]
        /\ vcpu' = LET v == IF p.wakeup_needed THEN kvm_make_request(taken, "EVENT") ELSE taken
                       w == IF v.nmi_pending > 0 THEN enable_nmi_window(v) ELSE v
                   IN  [w EXCEPT !.irq_window = @ \/ p.output \/ kvm_apic_has_interrupt]
        /\ UNCHANGED lapic
     \/ /\ ~kvm_cpu_has_extint
        /\ lapic' = IF kvm_apic_has_interrupt THEN [lapic EXCEPT !.irr = FALSE, !.isr = TRUE] ELSE lapic
        /\ vcpu' = IF taken.nmi_pending > 0 THEN enable_nmi_window(taken) ELSE taken
        /\ UNCHANGED pic
  /\ owed' = owed \union {"irq"}
  /\ run' = [run EXCEPT !.pc = "arm"]
  /\ UNCHANGED << apf, sender, scenario, sipi_due >>

SetGuestMode ==
  /\ run.pc = "arm"
  /\ run' = [run EXCEPT !.mode = "IN_GUEST", !.pc = "armed"]
  /\ UNCHANGED << vcpu, apf, pic, lapic, sender, scenario, owed, sipi_due >>

(* Back in the host: where the thread goes on. *)
Outside(pc) == [run EXCEPT !.mode = "OUTSIDE", !.ipi = FALSE, !.pc = pc]

MustNotEnter_NoRequests == run.mode = "EXITING" \/ run.signal
MustNotEnter == run.mode = "EXITING" \/ vcpu.requests # {} \/ run.signal

CancelInjection ==
  /\ run.pc = "armed" /\ MustNotEnter
  /\ vcpu' = vmx_cancel_injection(vcpu)
  /\ run' = Outside("tail")
  /\ UNCHANGED << apf, pic, lapic, sender, scenario, owed, sipi_due >>

(* The CPU delivers what the entry field holds. *)
EnterGuest ==
  /\ run.pc = "armed" /\ ~MustNotEnter
  /\ vcpu' = [vcpu EXCEPT !.entry = "none",
                !.IF_flag = @ /\ vcpu.entry # "irq",
                !.nmi_mask = @ \/ vcpu.entry = "nmi"]
  /\ owed' = owed \ {vcpu.entry}
  /\ run' = [run EXCEPT !.pc = "guest"]
  /\ UNCHANGED << apf, pic, lapic, sender, scenario, sipi_due >>

-----------------------------------------------------------------------------
kvm_can_do_async_pf_NoGuard(v) == ~v.pending /\ vmx_interrupt_allowed(v)

kvm_can_do_async_pf(v) ==
  ~kvm_event_needs_reinjection(v) /\ ~v.pending /\ vmx_interrupt_allowed(v)

(* try_async_pf for a page that is not resident: v and apf afterwards.     *)
(* notify says that the guest takes the fault as an exception.             *)
AsyncFault(v, gfn, notify) ==
  IF kvm_find_async_pf_gfn(apf.gfns, gfn)
    THEN vcpu' = kvm_make_request(v, "APF_HALT") /\ apf' = apf
  ELSE IF apf.queued < ASYNC_PF_PER_VCPU
    THEN /\ vcpu' = IF notify THEN kvm_multiple_exception(v, "PF", FALSE)
                              ELSE kvm_make_request(v, "APF_HALT")
         /\ apf' = kvm_setup_async_pf(apf, gfn)
  ELSE vcpu' = v /\ apf' = apf

(* A resident page, or one that is fetched on the spot, changes nothing here. *)
tdp_page_fault(v, gfn) ==
  \/ vcpu' = v /\ apf' = apf
  \/ /\ Has("fault") /\ kvm_can_do_async_pf(v)
     /\ \E notify \in {FALSE, apf.enabled} : AsyncFault(v, gfn, notify)

(* Delivering the event ran into an EPT violation, into MMIO or another    *)
(* intercepted exception (an internal error for user space) or, without    *)
(* EPT, delivering an exception ran into a page fault of the guest's.      *)
DeliveryFaults ==
  LET v == AfterExit([vcpu EXCEPT !.nmi_mask = @ \/ vcpu.entry = "nmi"], vcpu.entry)
  IN
  /\ run.pc = "armed" /\ ~MustNotEnter /\ vcpu.entry # "none"
  /\ \/ \E gfn \in scenario.gfns : tdp_page_fault(v, gfn) /\ run' = Outside("tail")
     \/ vcpu' = v /\ apf' = apf /\ run' = Outside("user")
     \/ /\ vcpu.entry = "exception"
        /\ vcpu' = kvm_multiple_exception(v, "PF", FALSE)
        /\ apf' = apf /\ run' = Outside("tail")
  /\ UNCHANGED << pic, lapic, sender, scenario, owed, sipi_due >>

-----------------------------------------------------------------------------
(* The guest runs; an open window comes before its next instruction.       *)
IrqWindowOpen == vcpu.irq_window /\ vmx_interrupt_allowed(vcpu)
NmiWindowOpen == vcpu.nmi_window /\ vmx_nmi_allowed(vcpu)
Executes == run.pc = "guest" /\ ~IrqWindowOpen /\ ~NmiWindowOpen
Exited(v) == AfterExit(v, "none")
Completed(v) == Exited([v EXCEPT !.sti = FALSE])      \* kvm_skip_emulated_instruction

handle_interrupt_window ==
  /\ run.pc = "guest" /\ IrqWindowOpen
  /\ vcpu' = kvm_make_request(Exited([vcpu EXCEPT !.irq_window = FALSE]), "EVENT")
  /\ run' = Outside("tail")
  /\ UNCHANGED << apf, pic, lapic, sender, scenario, owed, sipi_due >>

handle_nmi_window ==
  /\ run.pc = "guest" /\ NmiWindowOpen
  /\ vcpu' = kvm_make_request(Exited([vcpu EXCEPT !.nmi_window = FALSE]), "EVENT")
  /\ run' = Outside("tail")
  /\ UNCHANGED << apf, pic, lapic, sender, scenario, owed, sipi_due >>

(* A host interrupt, the kick's IPI among them, or an exit to user space. *)
ExternalExit ==
  /\ run.pc = "guest"
  /\ vcpu' = Exited(vcpu)
  /\ \/ run' = Outside("tail")
     \/ Executes /\ run' = Outside("user")
  /\ UNCHANGED << apf, pic, lapic, sender, scenario, owed, sipi_due >>

(* STI, CLI and IRET do not exit. *)
GuestFlags ==
  /\ Executes
  /\ \/ vcpu' = [vcpu EXCEPT !.IF_flag = TRUE, !.sti = ~vcpu.IF_flag]
     \/ vcpu' = [vcpu EXCEPT !.IF_flag = FALSE, !.sti = FALSE]
     \/ vcpu.nmi_mask /\ vcpu' = [vcpu EXCEPT !.nmi_mask = FALSE, !.sti = FALSE]
  /\ UNCHANGED << apf, pic, run, lapic, sender, scenario, owed, sipi_due >>

kvm_emulate_halt ==
  /\ Executes
  /\ vcpu' = [Completed(vcpu) EXCEPT !.mp_state = "HALTED"]
  /\ run' = Outside("tail")
  /\ UNCHANGED << apf, pic, lapic, sender, scenario, owed, sipi_due >>

(* The guest's EOI to its local APIC. *)
apic_set_eoi ==
  /\ Executes /\ lapic.isr
  /\ lapic' = [lapic EXCEPT !.isr = FALSE]
  /\ vcpu' = kvm_make_request(Completed(vcpu), "EVENT")
  /\ run' = Outside("tail")
  /\ UNCHANGED << apf, pic, sender, scenario, owed, sipi_due >>

(* A write to the PIC, or a read after the poll command.  An EOI drops the *)
(* lock for the acknowledge notifiers before it updates the output.        *)
PicAccess(p, v, pc) ==
  /\ Executes
  /\ pic' = [p EXCEPT !.wakeup_needed = FALSE]
  /\ vcpu' = IF p.wakeup_needed /\ bsp THEN kvm_make_request(v, "EVENT") ELSE v
  /\ run' = Outside(pc)
  /\ UNCHANGED << apf, lapic, sender, scenario, owed, sipi_due >>

picdev_write(w) ==
  /\ Has(w.cmd) /\ Accepts(pic, w.n, w.cmd)
  /\ IF w.cmd \in Eois
       THEN /\ pic.chip[w.n].isr # {}
            /\ PicAccess(pic_eoi(pic, w.n, w.cmd), Completed(vcpu), "acked")
       ELSE PicAccess(pic_ioport_write(pic, w.n, w.cmd, w.val), Completed(vcpu), "tail")

picdev_read(n) ==
  /\ pic.chip[n].poll
  /\ PicAccess(pic_poll_read(pic, n), Completed(vcpu), IF PollUpdates(pic, n) THEN "acked" ELSE "tail")

PicEoiUpdate ==
  LET p == pic_update_irq(pic)
  IN
  /\ run.pc = "acked"
  /\ pic' = [p EXCEPT !.wakeup_needed = FALSE]
  /\ vcpu' = IF p.wakeup_needed /\ bsp THEN kvm_make_request(vcpu, "EVENT") ELSE vcpu
  /\ run' = [run EXCEPT !.pc = "tail"]
  /\ UNCHANGED << apf, lapic, sender, scenario, owed, sipi_due >>

(* With unblock the faulting instruction is the IRET of an NMI handler:    *)
(* the CPU has lifted the NMI blocking, the handler restores it.           *)
handle_ept_violation(gfn, unblock) ==
  LET v == Exited([vcpu EXCEPT !.nmi_mask = @ /\ ~unblock])
  IN
  /\ Executes /\ Has("fault")
  /\ unblock => vcpu.nmi_mask
  /\ tdp_page_fault([v EXCEPT !.nmi_mask = @ \/ unblock], gfn)
  /\ run' = Outside("tail")
  /\ UNCHANGED << pic, lapic, sender, scenario, owed, sipi_due >>

(* An intercepted or emulated instruction raises an exception. *)
handle_exception(nr) ==
  /\ Executes /\ Has("exception")
  /\ vcpu' = kvm_multiple_exception(Exited(vcpu), nr, FALSE)
  /\ run' = Outside("tail")
  /\ UNCHANGED << apf, pic, lapic, sender, scenario, owed, sipi_due >>

WriteApfMsr(enable) ==
  /\ Executes /\ Has("msr") /\ enable # apf.enabled
  /\ apf' = kvm_pv_enable_async_pf(apf, enable)
  /\ vcpu' = Completed(vcpu)
  /\ run' = Outside("tail")
  /\ UNCHANGED << pic, lapic, sender, scenario, owed, sipi_due >>

-----------------------------------------------------------------------------
(* The rest of vcpu_run's loop body. *)
ClearPendingTimer ==
  /\ run.pc = "tail"
  /\ vcpu' = [vcpu EXCEPT !.requests = @ \ {"PENDING_TIMER"}]
  /\ run' = [run EXCEPT !.pc = "timer"]
  /\ UNCHANGED << apf, pic, lapic, sender, scenario, owed, sipi_due >>

kvm_inject_pending_timer_irqs ==
  /\ run.pc = "timer"
  /\ IF kvm_cpu_has_pending_timer2
       THEN /\ lapic' = [lapic EXCEPT !.irr = TRUE, !.timer_pending = FALSE]
            /\ vcpu' = kvm_make_request(vcpu, "EVENT")
       ELSE UNCHANGED << vcpu, lapic >>
  /\ run' = [run EXCEPT !.pc = "apf"]
  /\ UNCHANGED << apf, pic, sender, scenario, owed, sipi_due >>

kvm_arch_can_inject_async_page_present == ~apf.enabled \/ kvm_can_do_async_pf(vcpu)

(* One turn of kvm_check_async_pf_completion2. *)
AsyncPagePresent ==
  /\ run.pc = "apf" /\ apf.done # << >> /\ kvm_arch_can_inject_async_page_present
  /\ apf' = CompletedHead(apf)
  /\ vcpu' = LET v == IF apf.enabled THEN kvm_multiple_exception(vcpu, "PF", FALSE) ELSE vcpu
             IN  [v EXCEPT !.apf_halted = FALSE, !.mp_state = "RUNNABLE"]
  /\ UNCHANGED << pic, run, lapic, sender, scenario, owed, sipi_due >>

LoopAgain ==
  /\ run.pc = "apf" /\ ~(apf.done # << >> /\ kvm_arch_can_inject_async_page_present)
  /\ run' = IF run.signal THEN [run EXCEPT !.pc = "user", !.signal = FALSE]
            ELSE [run EXCEPT !.pc = "loop"]
  /\ UNCHANGED << vcpu, apf, pic, lapic, sender, scenario, owed, sipi_due >>

-----------------------------------------------------------------------------
(* kvm_vcpu_block.  kvm_vcpu_check_block ends it when there is a reason.   *)
EndsBlock == kvm_arch_vcpu_runnable \/ kvm_cpu_has_pending_timer2 \/ run.signal
CheckedVcpu == IF kvm_arch_vcpu_runnable THEN kvm_make_request(vcpu, "UNHALT") ELSE vcpu

(* Halt polling looks for a reason before the thread is on the wait queue. *)
HaltPoll ==
  /\ run.pc = "block"
  /\ \/ EndsBlock /\ vcpu' = CheckedVcpu /\ run' = [run EXCEPT !.pc = "blocked"]
     \/ vcpu' = vcpu /\ run' = [run EXCEPT !.pc = "check", !.onq = TRUE]
  /\ UNCHANGED << apf, pic, lapic, sender, scenario, owed, sipi_due >>

kvm_vcpu_check_block_NotAgain ==
  /\ run.pc = "check"
  /\ run' = [run EXCEPT !.pc = "asleep"]
  /\ UNCHANGED << vcpu, apf, pic, lapic, sender, scenario, owed, sipi_due >>

kvm_vcpu_check_block ==
  /\ run.pc = "check"
  /\ IF EndsBlock
       THEN vcpu' = CheckedVcpu /\ run' = [run EXCEPT !.pc = "blocked", !.onq = FALSE]
       ELSE vcpu' = vcpu /\ run' = [run EXCEPT !.pc = "asleep"]
  /\ UNCHANGED << apf, pic, lapic, sender, scenario, owed, sipi_due >>

(* schedule() returns, or never sleeps, once the thread was woken; the     *)
(* loop puts it back on the queue.                                         *)
Wakes ==
  /\ run.pc = "asleep" /\ (~run.onq \/ run.signal)
  /\ run' = [run EXCEPT !.pc = "check", !.onq = TRUE]
  /\ UNCHANGED << vcpu, apf, pic, lapic, sender, scenario, owed, sipi_due >>

AfterBlock ==
  /\ run.pc = "blocked"
  /\ \/ /\ run.from = "init"
        /\ vcpu' = AcceptedVcpu([vcpu EXCEPT !.requests = @ \ {"UNHALT"}])
        /\ AcceptEvents
        /\ run' = [run EXCEPT !.pc = "user", !.signal = FALSE]
     \/ /\ run.from = "run"
        /\ vcpu' = [vcpu EXCEPT !.requests = @ \ {"UNHALT"}]
        /\ run' = [run EXCEPT !.pc = IF "UNHALT" \in vcpu.requests THEN "unhalt" ELSE "tail"]
        /\ UNCHANGED << apf, lapic, owed >>
  /\ UNCHANGED << pic, sender, scenario, sipi_due >>

(* The end of vcpu_block. *)
Unhalt ==
  LET v == AcceptedVcpu(vcpu)
  IN
  /\ run.pc = "unhalt"
  /\ vcpu' = IF v.mp_state \in {"HALTED", "RUNNABLE"}
               THEN [v EXCEPT !.mp_state = "RUNNABLE", !.apf_halted = FALSE] ELSE v
  /\ AcceptEvents
  /\ run' = [run EXCEPT !.pc = "tail"]
  /\ UNCHANGED << pic, sender, scenario, sipi_due >>

(* User space reads the events and the mp_state and writes them back. *)
SaveRestore ==
  /\ Has("save") /\ run.pc = "user"
  /\ vcpu' = AcceptedVcpu(SaveRestoreEvents(vcpu))
  /\ AcceptEvents
  /\ UNCHANGED << pic, run, sender, scenario, sipi_due >>

-----------------------------------------------------------------------------
Sources_Next ==
  \/ \E pin \in Pins : DevSetsLine(pin)
  \/ kvm_inject_nmi
  \/ \E mode \in {"INIT", "STARTUP", "FIXED"} : __apic_accept_irq(mode)
  \/ \E s \in Sources : SenderRequests(s) \/ kvm_vcpu_wake_up(s) \/ kvm_vcpu_kick(s)
  \/ apic_timer_expired
  \/ \E gfn \in Gfns : Fetched(gfn)
  \/ Signal

Guest_Next ==
  \/ handle_interrupt_window \/ handle_nmi_window \/ ExternalExit
  \/ GuestFlags \/ kvm_emulate_halt \/ apic_set_eoi
  \/ \E w \in PortWrites : picdev_write(w)
  \/ \E n \in 0 .. 1 : picdev_read(n)
  \/ \E gfn \in scenario.gfns, unblock \in BOOLEAN : handle_ept_violation(gfn, unblock)
  \/ \E nr \in {"PF", "GP", "UD"} : handle_exception(nr)
  \/ \E enable \in BOOLEAN : WriteApfMsr(enable)

Vcpu_Next ==
  \/ kvm_arch_vcpu_ioctl_run \/ vcpu_run \/ ProcessRequests \/ Inject \/ TakeInterrupt
  \/ SetGuestMode \/ CancelInjection \/ EnterGuest \/ DeliveryFaults \/ PicEoiUpdate
  \/ ClearPendingTimer \/ kvm_inject_pending_timer_irqs \/ AsyncPagePresent \/ LoopAgain
  \/ HaltPoll \/ kvm_vcpu_check_block \/ Wakes \/ AfterBlock \/ Unhalt \/ SaveRestore

Next == Sources_Next \/ Guest_Next \/ Vcpu_Next

Spec == Init /\ [][Next]_vars

-----------------------------------------------------------------------------
(* No source is halfway and nobody signalled the thread. *)
Quiet == (\A s \in Sources : sender[s] = "idle") /\ ~run.signal

(* No wakeup is lost: a vCPU thread that sleeps in kvm_vcpu_block while no *)
(* source is on its way has no reason to run, neither by                   *)
(* kvm_arch_vcpu_runnable nor by a pending timer, and the PIC has no       *)
(* interrupt for it that its output does not show.  A processor that got   *)
(* INIT and then SIPI does not sleep on in a state that waits for them.    *)
NoWakeupIsLost ==
  run.pc = "asleep" /\ run.onq /\ Quiet =>
    /\ sipi_due /\ ~bsp => vcpu.mp_state \notin {"UNINITIALIZED", "INIT_RECEIVED"}
    /\ ~kvm_arch_vcpu_runnable
    /\ ~kvm_cpu_has_pending_timer2
    /\ bsp /\ vmx_interrupt_allowed(vcpu) /\ ~pic.stale => pic_get_irq(pic, 0) < 0

(* The guest never runs on with unserved work: while no source is on its   *)
(* way and no kick is pending there is no request and no expired timer,    *)
(* and what waits for the guest to become interruptible has its window     *)
(* exit enabled (vcpu_enter_guest's order of mode, requests and entry).    *)
GuestRunsUpToDate ==
  run.pc = "guest" /\ run.mode = "IN_GUEST" /\ Quiet =>
    /\ vcpu.requests = {}
    /\ ~kvm_cpu_has_pending_timer2
    /\ kvm_cpu_has_interrupt => vcpu.irq_window
    /\ vcpu.nmi_pending > 0 => vcpu.nmi_window \/ vcpu.irq_window

(* The entry field never holds an event the CPU would refuse: an interrupt *)
(* only with interrupts enabled, an NMI only when NMIs are not blocked,    *)
(* nor either in the shadow of an STI.  And the warnings of x86.c:459,     *)
(* 7215 and 7758 stay silent: one exception is queued at a time, and none  *)
(* is left pending when the guest is entered.                              *)
EntryIsLegal ==
  /\ run.pc = "armed" => /\ vcpu.entry = "irq" => vmx_interrupt_allowed(vcpu)
                         /\ vcpu.entry = "nmi" => vmx_nmi_allowed(vcpu)
  /\ ~(vcpu.pending /\ vcpu.injected)
  /\ run.pc \in {"take", "arm", "armed"} => ~vcpu.pending

(* An interrupt or NMI that was taken from its source is delivered exactly *)
(* once: it stays queued through cancelled entries, faulted deliveries and *)
(* save and restore, leaves the queue when the guest has got it, and is    *)
(* never put in an entry the CPU would refuse.                             *)
EventsAreDeliveredOnce ==
  /\ run.pc = "guest" => owed = {}
  /\ run.pc # "guest" => /\ vcpu.interrupt <=> "irq" \in owed
                         /\ vcpu.nmi_injected <=> "nmi" \in owed
  /\ EntryIsLegal

(* The table of faulting frames holds exactly those with an item           *)
(* outstanding, each where a lookup finds it, and the count is theirs.     *)
ApfTableIsExact ==
  /\ \A gfn \in Gfns : kvm_find_async_pf_gfn(apf.gfns, gfn) <=> gfn \in apf.queue
  /\ apf.queued = Cardinality(apf.queue) + Cardinality({WakeupAll} \intersect Range(apf.done))
=============================================================================
