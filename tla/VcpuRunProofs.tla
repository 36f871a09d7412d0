---------------------------- MODULE VcpuRunProofs ----------------------------
(***************************************************************************)
(* Proofs about VcpuRun.tla, for every set of scenarios, frames, lines and *)
(* port writes: no wakeup of a blocked vCPU is lost, the guest never runs  *)
(* on with unserved work, and an event taken from its source is delivered  *)
(* exactly once.                                                           *)
(***************************************************************************)
EXTENDS VcpuRun, TLAPS

(* The records, by their fields; a count is a number. *)
IsVcpu(v) ==
  /\ DOMAIN v = {"mp_state", "apf_halted", "requests", "pending", "injected", "nr", "interrupt",
                 "nmi_queued", "nmi_pending", "nmi_injected", "entry", "irq_window", "nmi_window",
                 "IF_flag", "sti", "nmi_mask", "nmi_known_unmasked"}
  /\ v.nmi_queued \in Nat /\ v.nmi_pending \in Nat

IsThread(r) == DOMAIN r = {"pc", "mode", "onq", "ipi", "signal", "from"}

IsLapic(l) == DOMAIN l = {"irr", "isr", "lvtt", "timer_pending", "pending_events"}

IsChip(s) ==
  /\ DOMAIN s = {"irr", "last_irr", "imr", "isr", "priority_add", "special_fully_nested_mode",
                 "init_state", "init4", "poll"}
  /\ s.priority_add \in 0 .. 7

IsPic(p) ==
  /\ DOMAIN p = {"chip", "output", "wakeup_needed", "stale"}
  /\ DOMAIN p.chip = {0, 1} /\ IsChip(p.chip[0]) /\ IsChip(p.chip[1])

Types ==
  /\ IsVcpu(vcpu) /\ IsThread(run) /\ IsLapic(lapic) /\ IsPic(pic)
  /\ sender \in [Sources -> {"idle", "request", "wake", "kick"}]
  /\ owed \in SUBSET {"irq", "nmi"}

-----------------------------------------------------------------------------
(* Events: at most one is queued, legal to inject, and requested. *)
Queued(v) == v.pending \/ v.injected \/ v.interrupt \/ v.nmi_injected

OneQueued(v) ==
  /\ v.pending => ~v.injected /\ ~v.interrupt /\ ~v.nmi_injected
  /\ v.injected => ~v.interrupt /\ ~v.nmi_injected
  /\ v.interrupt => ~v.nmi_injected

Legal(v) ==
  /\ v.interrupt => vmx_interrupt_allowed(v)
  /\ v.nmi_injected => vmx_nmi_allowed(v)

EntryHolds(v) ==
  /\ v.entry \in {"none", "exception", "nmi", "irq"} /\ ~v.pending
  /\ v.injected <=> v.entry = "exception"
  /\ v.nmi_injected <=> v.entry = "nmi"
  /\ v.interrupt <=> v.entry = "irq"

Queue(v) ==
  /\ OneQueued(v) /\ Legal(v)
  /\ v.interrupt <=> "irq" \in owed
  /\ v.nmi_injected <=> "nmi" \in owed

Entries(v, pc) ==
  /\ pc \in {"arm", "armed"} => EntryHolds(v)
  /\ pc = "take" => ~Queued(v) /\ vmx_interrupt_allowed(v)
  /\ pc = "guest" => ~v.pending
  /\ pc \notin {"arm", "armed", "guest"} => v.entry = "none"
  /\ pc \notin {"inject", "take", "arm", "armed", "guest"} /\ Queued(v) => "EVENT" \in v.requests

Events ==
  /\ IF run.pc = "guest" THEN owed = {} ELSE Queue(vcpu)
  /\ Entries(vcpu, run.pc)

-----------------------------------------------------------------------------
(* What waits for the guest has a window, a request or a source on its way. *)
Windows ==
  run.pc \notin {"inject", "take"} =>
    /\ kvm_cpu_has_interrupt =>
         \/ vcpu.irq_window \/ "EVENT" \in vcpu.requests
         \/ sender["dev"] = "request" \/ sender["ipi"] = "request"
    /\ vcpu.nmi_pending > 0 =>
         vcpu.nmi_window \/ vcpu.irq_window \/ "EVENT" \in vcpu.requests

Kicks ==
  run.pc = "guest" /\ run.mode = "IN_GUEST" /\ vcpu.requests # {} =>
    \E s \in Sources \ {"apf"} : sender[s] \in {"wake", "kick"}

Timers ==
  kvm_cpu_has_pending_timer2 => run.pc = "timer" \/ "PENDING_TIMER" \in vcpu.requests

Threads ==
  /\ run.onq => run.pc \in {"check", "asleep"}
  /\ run.pc = "requests" => vcpu.mp_state = "RUNNABLE"
  /\ sender["apf"] \in {"idle", "wake"}

-----------------------------------------------------------------------------
(* A sleeper with a reason to run is about to be woken. *)
Sleeps ==
  run.pc = "asleep" /\ run.onq /\ (kvm_arch_vcpu_runnable \/ kvm_cpu_has_pending_timer2) =>
    \E s \in Sources : sender[s] \in {"request", "wake"}

Started ==
  sipi_due /\ ~bsp =>
    \/ /\ "SIPI" \in lapic.pending_events
       /\ "INIT" \in lapic.pending_events \/ vcpu.mp_state = "INIT_RECEIVED"
    \/ /\ vcpu.mp_state \notin {"UNINITIALIZED", "INIT_RECEIVED"}
       /\ "INIT" \notin lapic.pending_events

Output(p) == p.output <=> pic_get_irq(p, 0) >= 0

Outputs == ~pic.stale /\ run.pc # "acked" => Output(pic)

IInv ==
  /\ Types /\ Events /\ Windows /\ Kicks /\ Timers /\ Threads /\ Sleeps /\ Started /\ Outputs

-----------------------------------------------------------------------------
(* The operations on the vCPU *)

SameQueue(w, v) ==
  /\ w.pending = v.pending /\ w.injected = v.injected
  /\ w.interrupt = v.interrupt /\ w.nmi_injected = v.nmi_injected

SameCpu(w, v) == w.IF_flag = v.IF_flag /\ w.sti = v.sti /\ w.nmi_mask = v.nmi_mask

SameWindows(w, v) ==
  w.irq_window = v.irq_window /\ w.nmi_window = v.nmi_window /\ w.nmi_pending = v.nmi_pending

SameState(w, v) == w.mp_state = v.mp_state /\ w.apf_halted = v.apf_halted

Idle(w) == ~w.pending /\ ~w.injected /\ ~w.interrupt /\ ~w.nmi_injected

(* A request adds itself and nothing else. *)
LEMMA Requested ==
  ASSUME NEW v, IsVcpu(v), NEW r
  PROVE  LET w == kvm_make_request(v, r)
         IN  /\ IsVcpu(w) /\ w.requests = v.requests \union {r} /\ w.entry = v.entry
             /\ SameQueue(w, v) /\ SameCpu(w, v) /\ SameWindows(w, v) /\ SameState(w, v)
  BY Zenon DEF IsVcpu, kvm_make_request, SameQueue, SameCpu, SameWindows, SameState

(* After an exit that interrupted no delivery nothing is queued. *)
LEMMA ExitedFacts ==
  ASSUME NEW v, IsVcpu(v)
  PROVE  LET w == Exited(v)
         IN  /\ IsVcpu(w) /\ w.requests = v.requests /\ w.entry = "none" /\ Idle(w)
             /\ SameCpu(w, v) /\ SameWindows(w, v) /\ SameState(w, v)
  BY Zenon DEF IsVcpu, Exited, AfterExit, vmx_recover_nmi_blocking, __vmx_complete_interrupts,
     kvm_clear_exception_queue, Idle, SameCpu, SameWindows, SameState

(* The instruction that exited is completed: its STI shadow is over. *)
LEMMA CompletedFacts ==
  ASSUME NEW v, IsVcpu(v)
  PROVE  LET w == Completed(v)
         IN  /\ IsVcpu(w) /\ w.requests = v.requests /\ w.entry = "none" /\ Idle(w)
             /\ SameWindows(w, v) /\ SameState(w, v)
  BY Zenon DEF IsVcpu, Completed, Exited, AfterExit, vmx_recover_nmi_blocking,
     __vmx_complete_interrupts, kvm_clear_exception_queue, Idle, SameWindows, SameState

(* What was being delivered when an entry ended is queued again, and the   *)
(* entry asked for: w is the vCPU v afterwards.                            *)
QueuesAgain(v, w, info) ==
  /\ IsVcpu(w) /\ w.entry = v.entry /\ SameWindows(w, v) /\ SameState(w, v)
  /\ w.IF_flag = v.IF_flag /\ w.sti = v.sti
  /\ IF info = "nmi" THEN ~w.nmi_mask ELSE w.nmi_mask = v.nmi_mask
  /\ v.requests \subseteq w.requests
  /\ info # "none" => "EVENT" \in w.requests
  /\ ~w.pending
  /\ w.injected <=> info = "exception"
  /\ w.interrupt <=> info = "irq"
  /\ w.nmi_injected <=> info = "nmi"

(* __vmx_complete_interrupts queues again what the exit interrupted, and   *)
(* nothing else.                                                           *)
LEMMA CompleteFacts ==
  ASSUME NEW v, IsVcpu(v), NEW info \in {"none", "nmi", "exception", "irq"}
  PROVE  QueuesAgain(v, __vmx_complete_interrupts(v, info), info)
<1>1. QueuesAgain(v, __vmx_complete_interrupts(v, "none"), "none")
  BY Zenon DEF QueuesAgain, IsVcpu, __vmx_complete_interrupts, kvm_clear_exception_queue,
     SameWindows, SameState
<1>2. QueuesAgain(v, __vmx_complete_interrupts(v, "nmi"), "nmi")
  BY Zenon DEF QueuesAgain, IsVcpu, __vmx_complete_interrupts, kvm_clear_exception_queue,
     kvm_make_request, vmx_set_nmi_mask, SameWindows, SameState
<1>3. QueuesAgain(v, __vmx_complete_interrupts(v, "exception"), "exception")
  BY Zenon DEF QueuesAgain, IsVcpu, __vmx_complete_interrupts, kvm_clear_exception_queue,
     kvm_make_request, kvm_multiple_exception, SameWindows, SameState
<1>4. QueuesAgain(v, __vmx_complete_interrupts(v, "irq"), "irq")
  BY Zenon DEF QueuesAgain, IsVcpu, __vmx_complete_interrupts, kvm_clear_exception_queue,
     kvm_make_request, SameWindows, SameState
<1>5. QED  BY <1>1, <1>2, <1>3, <1>4, Zenon

(* An exception is queued, or becomes a double or a triple fault. *)
LEMMA ExceptionFacts ==
  ASSUME NEW v, IsVcpu(v), NEW nr
  PROVE  LET w == kvm_multiple_exception(v, nr, FALSE)
         IN  /\ IsVcpu(w) /\ w.entry = v.entry /\ SameWindows(w, v) /\ SameState(w, v)
             /\ SameCpu(w, v)
             /\ "EVENT" \in w.requests /\ v.requests \subseteq w.requests
             /\ w.interrupt = v.interrupt /\ w.nmi_injected = v.nmi_injected
             /\ \/ w.pending /\ ~w.injected
                \/ w.pending = v.pending /\ w.injected = v.injected
  BY Zenon DEF IsVcpu, kvm_multiple_exception, kvm_make_request, SameCpu, SameWindows, SameState

(* NMIs that were raised are counted, up to the limit. *)
LEMMA NmiFacts ==
  ASSUME NEW v, IsVcpu(v)
  PROVE  LET w == process_nmi(v)
         IN  /\ IsVcpu(w) /\ w.entry = v.entry /\ w.requests = v.requests \union {"EVENT"}
             /\ SameState(w, v) /\ SameCpu(w, v) /\ SameQueue(w, v)
             /\ w.irq_window = v.irq_window /\ w.nmi_window = v.nmi_window
<1> DEFINE limit == IF vmx_get_nmi_mask(v) \/ v.nmi_injected THEN 1 ELSE 2
           n == v.nmi_pending + v.nmi_queued
           m == IF n < limit THEN n ELSE limit
<1>1. m \in Nat /\ 0 \in Nat  BY DEF IsVcpu
<1> HIDE DEF m
<1>2. process_nmi(v) = kvm_make_request([v EXCEPT !.nmi_pending = m, !.nmi_queued = 0,
                                           !.nmi_known_unmasked = @ \/ ~v.nmi_mask], "EVENT")
  BY Zenon DEF process_nmi, m
<1>3. QED
  BY <1>1, <1>2, Zenon DEF IsVcpu, kvm_make_request, SameState, SameCpu, SameQueue

(* Reading the events and writing them back keeps them; a pending          *)
(* exception comes back as an injected one.                                *)
LEMMA SaveRestoreFacts ==
  ASSUME NEW v, IsVcpu(v)
  PROVE  LET w == SaveRestoreEvents(v)
         IN  /\ IsVcpu(w) /\ w.entry = v.entry /\ SameState(w, v)
             /\ "EVENT" \in w.requests /\ v.requests \subseteq w.requests
             /\ w.IF_flag = v.IF_flag /\ w.sti = v.sti /\ (w.nmi_mask => v.nmi_mask)
             /\ ~w.pending /\ (w.injected <=> v.injected \/ v.pending)
             /\ w.interrupt = v.interrupt /\ w.nmi_injected = v.nmi_injected
<1> DEFINE u == process_nmi(v)
           m == IF u.nmi_pending > 0 THEN 1 ELSE 0
<1>1. /\ IsVcpu(u) /\ u.entry = v.entry /\ u.requests = v.requests \union {"EVENT"}
      /\ SameState(u, v) /\ SameCpu(u, v) /\ SameQueue(u, v)
  BY NmiFacts, Zenon
<1>2. m \in Nat  OBVIOUS
<1>3. SaveRestoreEvents(v) =
        vmx_set_nmi_mask(kvm_make_request([u EXCEPT !.injected = @ \/ u.pending, !.pending = FALSE,
                                             !.nmi_pending = m], "EVENT"), vmx_get_nmi_mask(u))
  BY Zenon DEF SaveRestoreEvents
<1> HIDE DEF u, m
<1>4. LET w == SaveRestoreEvents(v)
      IN  /\ IsVcpu(w) /\ w.entry = u.entry /\ SameState(w, u)
          /\ w.requests = u.requests \union {"EVENT"}
          /\ w.IF_flag = u.IF_flag /\ w.sti = u.sti /\ (w.nmi_mask => u.nmi_mask)
          /\ ~w.pending /\ (w.injected <=> u.injected \/ u.pending)
          /\ w.interrupt = u.interrupt /\ w.nmi_injected = u.nmi_injected
  BY <1>1, <1>2, <1>3, Zenon
  DEF IsVcpu, vmx_set_nmi_mask, vmx_get_nmi_mask, kvm_make_request, SameState
<1> DEFINE w == SaveRestoreEvents(v)
<1> HIDE DEF w
<1>5. QED  BY <1>1, <1>4, Zenon DEF SameState, SameCpu, SameQueue, w

(* What inject_pending_event makes of a vCPU v with a free entry. *)
Injects(v, w) ==
  /\ IsVcpu(w) /\ w.requests = v.requests /\ SameState(w, v) /\ SameCpu(w, v)
  /\ w.irq_window = v.irq_window /\ w.nmi_window = v.nmi_window
  /\ EntryHolds(w) /\ OneQueued(w) /\ w.interrupt = v.interrupt
  /\ \/ w.nmi_pending = v.nmi_pending /\ w.nmi_injected = v.nmi_injected
     \/ /\ w.nmi_pending < v.nmi_pending /\ ~v.nmi_injected /\ w.nmi_injected /\ vmx_nmi_allowed(w)

(* inject_pending_event leaves one event in the entry field, and none if   *)
(* it goes on to the controllers.                                          *)
LEMMA InjectFacts ==
  ASSUME NEW v, IsVcpu(v), v.entry = "none", OneQueued(v)
  PROVE  /\ Injects(v, inject_pending_event(v))
         /\ LooksForInterrupt(v) => /\ ~Queued(inject_pending_event(v))
                                    /\ inject_pending_event(v).entry = "none"
<1>1. (v.nmi_pending > 0 => v.nmi_pending - 1 \in Nat) /\ v.nmi_pending - 1 < v.nmi_pending
  BY DEF IsVcpu
<1>2. CASE v.injected
  <2>1. inject_pending_event(v) = [v EXCEPT !.entry = "exception"]
    BY <1>2, Zenon DEF inject_pending_event, InjectNmi, InjectException, Reinject,
       kvm_event_needs_reinjection, vmx_inject_nmi, vmx_nmi_allowed, IsVcpu, OneQueued, Queued
  <2>2. ~LooksForInterrupt(v)
    BY <1>2, Zenon DEF LooksForInterrupt, InjectException, Reinject, kvm_event_needs_reinjection,
       vmx_inject_nmi, IsVcpu, OneQueued, Queued, vmx_nmi_allowed
  <2>3. QED
    BY <1>2, <2>1, <2>2, Zenon
    DEF Injects, IsVcpu, OneQueued, EntryHolds, Queued, SameState, SameCpu, vmx_nmi_allowed
<1>3. CASE v.pending
  <2>1. inject_pending_event(v) = [v EXCEPT !.pending = FALSE, !.injected = TRUE, !.entry = "exception"]
    BY <1>3, Zenon DEF inject_pending_event, InjectNmi, InjectException, Reinject,
       kvm_event_needs_reinjection, vmx_inject_nmi, vmx_nmi_allowed, IsVcpu, OneQueued, Queued
  <2>2. ~LooksForInterrupt(v)
    BY <1>3, Zenon DEF LooksForInterrupt, InjectException, Reinject, kvm_event_needs_reinjection,
       vmx_inject_nmi, IsVcpu, OneQueued, Queued, vmx_nmi_allowed
  <2>3. QED
    BY <1>3, <2>1, <2>2, Zenon
    DEF Injects, IsVcpu, OneQueued, EntryHolds, Queued, SameState, SameCpu, vmx_nmi_allowed
<1>4. CASE v.nmi_injected
  <2>1. inject_pending_event(v) = [v EXCEPT !.nmi_known_unmasked = FALSE, !.entry = "nmi"]
    BY <1>4, Zenon DEF inject_pending_event, InjectNmi, InjectException, Reinject,
       kvm_event_needs_reinjection, vmx_inject_nmi, vmx_nmi_allowed, IsVcpu, OneQueued, Queued
  <2>2. ~LooksForInterrupt(v)
    BY <1>4, Zenon DEF LooksForInterrupt, InjectException, Reinject, kvm_event_needs_reinjection,
       vmx_inject_nmi, IsVcpu, OneQueued, Queued, vmx_nmi_allowed
  <2>3. QED
    BY <1>4, <2>1, <2>2, Zenon
    DEF Injects, IsVcpu, OneQueued, EntryHolds, Queued, SameState, SameCpu, vmx_nmi_allowed
<1>5. CASE v.interrupt
  <2>1. inject_pending_event(v) = [v EXCEPT !.entry = "irq"]
    BY <1>5, Zenon DEF inject_pending_event, InjectNmi, InjectException, Reinject,
       kvm_event_needs_reinjection, vmx_inject_nmi, vmx_nmi_allowed, IsVcpu, OneQueued, Queued
  <2>2. ~LooksForInterrupt(v)
    BY <1>5, Zenon DEF LooksForInterrupt, InjectException, Reinject, kvm_event_needs_reinjection,
       vmx_inject_nmi, IsVcpu, OneQueued, Queued, vmx_nmi_allowed
  <2>3. QED
    BY <1>5, <2>1, <2>2, Zenon
    DEF Injects, IsVcpu, OneQueued, EntryHolds, Queued, SameState, SameCpu, vmx_nmi_allowed
<1>6. CASE ~Queued(v) /\ v.nmi_pending > 0 /\ vmx_nmi_allowed(v)
  <2>1. inject_pending_event(v) = [v EXCEPT !.nmi_pending = @ - 1, !.nmi_injected = TRUE,
                                      !.nmi_known_unmasked = FALSE, !.entry = "nmi"]
    BY <1>6, Zenon DEF inject_pending_event, InjectNmi, InjectException, Reinject,
       kvm_event_needs_reinjection, vmx_inject_nmi, vmx_nmi_allowed, IsVcpu, OneQueued, Queued
  <2>2. ~LooksForInterrupt(v)
    BY <1>6, Zenon DEF LooksForInterrupt, InjectException, Reinject, kvm_event_needs_reinjection,
       vmx_inject_nmi, IsVcpu, OneQueued, Queued, vmx_nmi_allowed
  <2>3. QED
    BY <1>1, <1>6, <2>1, <2>2, Zenon
    DEF Injects, IsVcpu, OneQueued, EntryHolds, Queued, SameState, SameCpu, vmx_nmi_allowed
<1>7. CASE ~Queued(v) /\ ~(v.nmi_pending > 0 /\ vmx_nmi_allowed(v))
  <2>1. inject_pending_event(v) = v
    BY <1>7, Zenon DEF inject_pending_event, InjectNmi, InjectException, Reinject,
       kvm_event_needs_reinjection, vmx_inject_nmi, vmx_nmi_allowed, IsVcpu, OneQueued, Queued
  <2>3. QED
    BY <1>7, <2>1, Zenon
    DEF Injects, IsVcpu, OneQueued, EntryHolds, Queued, SameState, SameCpu, vmx_nmi_allowed
<1>8. QED  BY <1>2, <1>3, <1>4, <1>5, <1>6, <1>7, Zenon DEF Queued

(* The windows are opened for what waits, and nothing else changes. *)
Opens(v, w) ==
  /\ IsVcpu(w) /\ w.requests = v.requests /\ w.entry = v.entry
  /\ SameQueue(w, v) /\ SameState(w, v) /\ SameCpu(w, v) /\ w.nmi_pending = v.nmi_pending
  /\ w.nmi_pending > 0 => w.nmi_window \/ w.irq_window
  /\ v.irq_window => w.irq_window

(* Asking for an NMI window opens one and changes no queue. *)
LEMMA NmiWindowFacts ==
  ASSUME NEW v, IsVcpu(v)
  PROVE  Opens(v, IF v.nmi_pending > 0 THEN enable_nmi_window(v) ELSE v)
  BY Zenon DEF Opens, IsVcpu, enable_nmi_window, SameQueue, SameState, SameCpu

(* vcpu_enter_guest opens a window for every interrupt that is left over. *)
LEMMA WindowFacts ==
  ASSUME NEW v, IsVcpu(v)
  PROVE  /\ Opens(v, EnableWindows(v))
         /\ kvm_cpu_has_interrupt => EnableWindows(v).irq_window
<1> DEFINE w == IF v.nmi_pending > 0 THEN enable_nmi_window(v) ELSE v
<1>1. Opens(v, w)  BY NmiWindowFacts, Zenon
<1>2. EnableWindows(v) = IF kvm_cpu_has_interrupt THEN [w EXCEPT !.irq_window = TRUE] ELSE w
  BY Zenon DEF EnableWindows
<1> HIDE DEF w
<1>3. CASE kvm_cpu_has_interrupt
  BY <1>1, <1>2, <1>3, Zenon DEF Opens, IsVcpu, SameQueue, SameState, SameCpu
<1>4. CASE ~kvm_cpu_has_interrupt
  BY <1>1, <1>2, <1>4, Zenon
<1>5. QED  BY <1>3, <1>4, Zenon

(* kvm_apic_accept_events: INIT resets, SIPI starts a processor that waits. *)
AcceptsEvents(v, w) ==
  LET init == "INIT" \in lapic.pending_events
      sipi == "SIPI" \in lapic.pending_events
  IN  /\ IsVcpu(w) /\ v.requests \subseteq w.requests
      /\ init => "EVENT" \in w.requests /\ Idle(w) /\ w.entry = "none"
      /\ ~init => /\ w.requests = v.requests /\ w.entry = v.entry
                  /\ SameQueue(w, v) /\ SameCpu(w, v) /\ SameWindows(w, v)
      /\ w.mp_state = IF init THEN IF bsp \/ sipi THEN "RUNNABLE" ELSE "INIT_RECEIVED"
                      ELSE IF sipi /\ v.mp_state = "INIT_RECEIVED" THEN "RUNNABLE" ELSE v.mp_state

(* What kvm_apic_accept_events makes of the vCPU. *)
LEMMA AcceptedFacts ==
  ASSUME NEW v, IsVcpu(v)
  PROVE  AcceptsEvents(v, AcceptedVcpu(v))
<1>0. 0 \in Nat  OBVIOUS
<1>1. CASE "INIT" \in lapic.pending_events
  BY <1>0, <1>1, Zenon
  DEF AcceptsEvents, AcceptedVcpu, IsVcpu, kvm_vcpu_reset, kvm_make_request, Idle
<1>2. CASE "INIT" \notin lapic.pending_events
  BY <1>2, Zenon DEF AcceptsEvents, AcceptedVcpu, IsVcpu, SameQueue, SameCpu, SameWindows
<1>3. QED  BY <1>1, <1>2, Zenon

-----------------------------------------------------------------------------
(* Steps of the vCPU thread *)

(* The windows, requests and sources still cover what waits. *)
LEMMA WindowsStay ==
  ASSUME Windows, run.pc \notin {"inject", "take"},
         kvm_cpu_has_interrupt' => kvm_cpu_has_interrupt \/ "EVENT" \in vcpu'.requests,
         \/ "EVENT" \in vcpu'.requests
         \/ SameWindows(vcpu', vcpu) /\ ("EVENT" \in vcpu.requests => "EVENT" \in vcpu'.requests),
         sender' = sender
  PROVE  Windows'
<1>1. CASE "EVENT" \in vcpu'.requests
  BY <1>1, Zenon DEF Windows
<1>2. CASE SameWindows(vcpu', vcpu) /\ "EVENT" \notin vcpu.requests
  BY <1>2, Zenon DEF Windows, SameWindows
<1>3. QED  BY <1>1, <1>2, Zenon

(* A step that takes no timer request away and expires none. *)
LEMMA TimersStay ==
  ASSUME Timers, run.pc # "timer",
         kvm_cpu_has_pending_timer2' => kvm_cpu_has_pending_timer2,
         "PENDING_TIMER" \in vcpu.requests => "PENDING_TIMER" \in vcpu'.requests
  PROVE  Timers'
  BY Zenon DEF Timers

(* A step that takes no INIT or SIPI. *)
LEMMA StartedStays ==
  ASSUME Started, UNCHANGED <<sipi_due, scenario>>,
         lapic'.pending_events = lapic.pending_events,
         vcpu'.mp_state \in {vcpu.mp_state, "HALTED", "RUNNABLE"}
  PROVE  Started'
  BY Zenon DEF Started, bsp

(* A step inside the loop of vcpu_run or of kvm_vcpu_block, short of the   *)
(* guest and of sleep.                                                     *)
LEMMA Turn ==
  ASSUME IInv, IsVcpu(vcpu'), IsThread(run'), IsLapic(lapic'), IsPic(pic'),
         UNCHANGED sender, owed' \in SUBSET {"irq", "nmi"},
         run'.pc \notin {"guest", "asleep"}, run'.onq => run'.pc = "check",
         run'.pc = "requests" => vcpu'.mp_state = "RUNNABLE",
         Queue(vcpu)', Entries(vcpu', run'.pc), Windows', Timers', Started', Outputs'
  PROVE  IInv'
<1>1. Types'  BY Zenon DEF IInv, Types
<1>2. Events' BY Zenon DEF Events
<1>3. Kicks' /\ Sleeps'  BY Zenon DEF Kicks, Sleeps
<1>4. Threads'  BY Zenon DEF IInv, Threads
<1>5. QED  BY <1>1, <1>2, <1>3, <1>4, Zenon DEF IInv

(* A step that leaves the PIC alone. *)
LEMMA OutputsStay ==
  ASSUME Outputs, UNCHANGED pic, run.pc # "acked"
  PROVE  Outputs'
  BY Zenon DEF Outputs, Output

(* An exit of the guest. *)
LEMMA Leaves ==
  ASSUME IInv, run.pc = "guest", NEW pc \in {"tail", "user", "acked"}, run' = Outside(pc),
         IsVcpu(vcpu'), vcpu'.entry = "none", ~vcpu'.interrupt, ~vcpu'.nmi_injected,
         ~(vcpu'.pending /\ vcpu'.injected), Queued(vcpu') => "EVENT" \in vcpu'.requests,
         SameWindows(vcpu', vcpu) \/ "EVENT" \in vcpu'.requests, vcpu.requests \subseteq vcpu'.requests,
         vcpu'.mp_state \in {vcpu.mp_state, "HALTED"},
         IsLapic(lapic'), lapic'.pending_events = lapic.pending_events,
         kvm_cpu_has_pending_timer2' => kvm_cpu_has_pending_timer2,
         kvm_cpu_has_interrupt' => kvm_cpu_has_interrupt \/ "EVENT" \in vcpu'.requests,
         IsPic(pic'), Outputs', UNCHANGED <<sender, scenario, owed, sipi_due>>
  PROVE  IInv'
<1>1. IsThread(run') /\ run'.pc = pc /\ run'.onq = run.onq
  BY Zenon DEF IInv, Types, IsThread, Outside
<1>2. ~run.onq /\ owed = {}  BY Zenon DEF IInv, Threads, Events
<1>3. Queue(vcpu)'  BY <1>2, Zenon DEF Queue, OneQueued, Legal
<1>4. Entries(vcpu', run'.pc)  BY <1>1, Zenon DEF Entries
<1>5. Windows'  BY WindowsStay, Zenon DEF IInv
<1>6. Timers'  BY TimersStay, Zenon DEF IInv
<1>7. Started'  BY StartedStays, Zenon DEF IInv
<1>8. QED  BY <1>1, <1>2, <1>3, <1>4, <1>5, <1>6, <1>7, Turn, Zenon

(* What the controllers say does not change by itself. *)
LEMMA ControllersStay ==
  ASSUME IInv, UNCHANGED <<pic, lapic, scenario>>, run.pc # "acked"
  PROVE  /\ IsPic(pic') /\ IsLapic(lapic') /\ lapic'.pending_events = lapic.pending_events /\ Outputs'
         /\ kvm_cpu_has_interrupt' => kvm_cpu_has_interrupt
         /\ kvm_cpu_has_pending_timer2' => kvm_cpu_has_pending_timer2
<1>1. IsPic(pic') /\ IsLapic(lapic') /\ lapic'.pending_events = lapic.pending_events
  BY Zenon DEF IInv, Types
<1>2. Outputs'  BY OutputsStay, Zenon DEF IInv
<1>3. kvm_cpu_has_interrupt' => kvm_cpu_has_interrupt
  BY Zenon DEF kvm_cpu_has_interrupt, kvm_cpu_has_extint, kvm_apic_has_interrupt, bsp
<1>4. kvm_cpu_has_pending_timer2' => kvm_cpu_has_pending_timer2
  BY Zenon DEF kvm_cpu_has_pending_timer2
<1>5. QED  BY <1>1, <1>2, <1>3, <1>4, Zenon

-----------------------------------------------------------------------------
(* The guest's exits *)

(* An exit that touches no controller and queues at most an exception. *)
LEMMA SimpleLeaves ==
  ASSUME IInv, run.pc = "guest", NEW pc \in {"tail", "user"}, run' = Outside(pc),
         IsVcpu(vcpu'), vcpu'.entry = "none", ~vcpu'.interrupt, ~vcpu'.nmi_injected,
         ~(vcpu'.pending /\ vcpu'.injected), Queued(vcpu') => "EVENT" \in vcpu'.requests,
         SameWindows(vcpu', vcpu) \/ "EVENT" \in vcpu'.requests, vcpu.requests \subseteq vcpu'.requests,
         vcpu'.mp_state \in {vcpu.mp_state, "HALTED"},
         UNCHANGED <<pic, lapic, sender, scenario, owed, sipi_due>>
  PROVE  IInv'
<1>1. /\ IsPic(pic') /\ IsLapic(lapic') /\ lapic'.pending_events = lapic.pending_events /\ Outputs'
      /\ kvm_cpu_has_interrupt' => kvm_cpu_has_interrupt
      /\ kvm_cpu_has_pending_timer2' => kvm_cpu_has_pending_timer2
  BY ControllersStay, Zenon
<1>2. QED  BY <1>1, Leaves, Zenon

(* The interrupt-window exit preserves the invariant. *)
LEMMA InterruptWindowStep ==
  ASSUME IInv, handle_interrupt_window
  PROVE  IInv'
<1>1. /\ IsVcpu(vcpu') /\ vcpu'.requests = vcpu.requests \union {"EVENT"} /\ vcpu'.entry = "none"
      /\ Idle(vcpu') /\ vcpu'.mp_state = vcpu.mp_state
  BY Zenon DEF IInv, Types, IsVcpu, handle_interrupt_window, Exited, AfterExit, Idle,
     vmx_recover_nmi_blocking, __vmx_complete_interrupts, kvm_clear_exception_queue, kvm_make_request
<1>2. /\ run.pc = "guest" /\ run' = Outside("tail")
      /\ UNCHANGED <<pic, lapic, sender, scenario, owed, sipi_due>>
  BY Zenon DEF handle_interrupt_window
<1>3. QED  BY <1>1, <1>2, SimpleLeaves, Zenon DEF Idle, Queued

(* The NMI-window exit preserves the invariant. *)
LEMMA NmiWindowStep ==
  ASSUME IInv, handle_nmi_window
  PROVE  IInv'
<1>1. /\ IsVcpu(vcpu') /\ vcpu'.requests = vcpu.requests \union {"EVENT"} /\ vcpu'.entry = "none"
      /\ Idle(vcpu') /\ vcpu'.mp_state = vcpu.mp_state
  BY Zenon DEF IInv, Types, IsVcpu, handle_nmi_window, Exited, AfterExit, Idle,
     vmx_recover_nmi_blocking, __vmx_complete_interrupts, kvm_clear_exception_queue, kvm_make_request
<1>2. /\ run.pc = "guest" /\ run' = Outside("tail")
      /\ UNCHANGED <<pic, lapic, sender, scenario, owed, sipi_due>>
  BY Zenon DEF handle_nmi_window
<1>3. QED  BY <1>1, <1>2, SimpleLeaves, Zenon DEF Idle, Queued

(* An exit for a host interrupt or to user space preserves the invariant. *)
LEMMA ExternalExitStep ==
  ASSUME IInv, ExternalExit
  PROVE  IInv'
<1>1. /\ IsVcpu(vcpu') /\ vcpu'.requests = vcpu.requests /\ vcpu'.entry = "none" /\ Idle(vcpu')
      /\ SameWindows(vcpu', vcpu) /\ SameState(vcpu', vcpu)
  BY ExitedFacts, Zenon DEF IInv, Types, ExternalExit
<1>2. /\ run.pc = "guest" /\ \E pc \in {"tail", "user"} : run' = Outside(pc)
      /\ UNCHANGED <<pic, lapic, sender, scenario, owed, sipi_due>>
  BY Zenon DEF ExternalExit
<1>3. QED  BY <1>1, <1>2, SimpleLeaves, Zenon DEF Idle, Queued, SameState

(* HLT preserves the invariant. *)
LEMMA HaltStep ==
  ASSUME IInv, kvm_emulate_halt
  PROVE  IInv'
<1>1. /\ IsVcpu(vcpu') /\ vcpu'.requests = vcpu.requests /\ vcpu'.entry = "none" /\ Idle(vcpu')
      /\ SameWindows(vcpu', vcpu) /\ vcpu'.mp_state = "HALTED"
  BY Zenon DEF IInv, Types, IsVcpu, kvm_emulate_halt, Completed, Exited, AfterExit, Idle, SameWindows,
     vmx_recover_nmi_blocking, __vmx_complete_interrupts, kvm_clear_exception_queue
<1>2. /\ run.pc = "guest" /\ run' = Outside("tail")
      /\ UNCHANGED <<pic, lapic, sender, scenario, owed, sipi_due>>
  BY Zenon DEF kvm_emulate_halt, Executes
<1>3. QED  BY <1>1, <1>2, SimpleLeaves, Zenon DEF Idle, Queued

(* An intercepted exception preserves the invariant. *)
LEMMA ExceptionStep ==
  ASSUME IInv, NEW nr, handle_exception(nr)
  PROVE  IInv'
<1> DEFINE e == Exited(vcpu)
<1>1. /\ IsVcpu(e) /\ e.requests = vcpu.requests /\ e.entry = "none" /\ Idle(e)
      /\ SameWindows(e, vcpu) /\ SameState(e, vcpu)
  BY ExitedFacts, Zenon DEF IInv, Types
<1>2. /\ vcpu' = kvm_multiple_exception(e, nr, FALSE) /\ run.pc = "guest" /\ run' = Outside("tail")
      /\ UNCHANGED <<pic, lapic, sender, scenario, owed, sipi_due>>
  BY Zenon DEF handle_exception, Executes
<1> HIDE DEF e
<1>3. /\ IsVcpu(vcpu') /\ vcpu'.entry = e.entry /\ SameState(vcpu', e)
      /\ "EVENT" \in vcpu'.requests /\ e.requests \subseteq vcpu'.requests
      /\ vcpu'.interrupt = e.interrupt /\ vcpu'.nmi_injected = e.nmi_injected
      /\ \/ vcpu'.pending /\ ~vcpu'.injected
         \/ vcpu'.pending = e.pending /\ vcpu'.injected = e.injected
  BY <1>1, <1>2, ExceptionFacts, Zenon
<1>4. /\ vcpu'.entry = "none" /\ ~vcpu'.interrupt /\ ~vcpu'.nmi_injected
      /\ ~(vcpu'.pending /\ vcpu'.injected) /\ vcpu.requests \subseteq vcpu'.requests
      /\ vcpu'.mp_state = vcpu.mp_state
  BY <1>1, <1>3, Zenon DEF Idle, SameState
<1>5. QED  BY <1>2, <1>3, <1>4, SimpleLeaves, Zenon

(* WRMSR of the asynchronous page fault MSR preserves the invariant. *)
LEMMA MsrStep ==
  ASSUME IInv, NEW enable, WriteApfMsr(enable)
  PROVE  IInv'
<1>1. /\ IsVcpu(vcpu') /\ vcpu'.requests = vcpu.requests /\ vcpu'.entry = "none" /\ Idle(vcpu')
      /\ SameWindows(vcpu', vcpu) /\ SameState(vcpu', vcpu)
  BY CompletedFacts, Zenon DEF IInv, Types, WriteApfMsr
<1>2. /\ run.pc = "guest" /\ run' = Outside("tail")
      /\ UNCHANGED <<pic, lapic, sender, scenario, owed, sipi_due>>
  BY Zenon DEF WriteApfMsr, Executes
<1>3. QED  BY <1>1, <1>2, SimpleLeaves, Zenon DEF Idle, Queued, SameState

-----------------------------------------------------------------------------
(* The interrupt controllers *)

(* A nonempty set of priorities has a highest one. *)
LEMMA Highest ==
  ASSUME NEW S, S \subseteq 0 .. 7, S # {}
  PROVE  \E k \in S : \A j \in S : k <= j
<1> SUFFICES ASSUME ~\E k \in S : \A j \in S : k <= j
             PROVE  FALSE
  OBVIOUS
<1> DEFINE Above(k) == \A m \in S : k <= m
<1>1. ASSUME NEW k \in 0 .. 7, Above(k)
      PROVE  Above(k + 1)
  <2>1. k \notin S  BY <1>1
  <2>2. ASSUME NEW m \in S  PROVE k + 1 <= m
    <3>1. m \in 0 .. 7 /\ k <= m /\ m # k  BY <1>1, <2>1, <2>2
    <3>2. QED  BY <3>1
  <2>3. QED  BY <2>2
<1>2. Above(0)  OBVIOUS
<1> HIDE DEF Above
<1>3. Above(1) /\ Above(2)
  <2>1. Above(1)  BY <1>1, <1>2
  <2>2. QED  BY <1>1, <2>1
<1>4. Above(3) /\ Above(4)
  <2>1. Above(3)  BY <1>1, <1>3
  <2>2. QED  BY <1>1, <2>1
<1>5. Above(5) /\ Above(6)
  <2>1. Above(5)  BY <1>1, <1>4
  <2>2. QED  BY <1>1, <2>1
<1>6. Above(7)  BY <1>1, <1>5
<1>7. Above(8)  BY <1>1, <1>6
<1>8. PICK m \in S : TRUE  OBVIOUS
<1>9. m \in 0 .. 7 /\ 8 <= m  BY <1>7 DEF Above
<1>10. QED  BY <1>9

(* get_priority finds one of eight lines, or 8 for none. *)
LEMMA PriorityType ==
  ASSUME NEW s, NEW mask
  PROVE  get_priority(s, mask) \in 0 .. 8
<1> DEFINE found == {k \in 0 .. 7 : ((k + s.priority_add) % 8) \in mask}
<1>1. found \subseteq 0 .. 7  OBVIOUS
<1>2. get_priority(s, mask) = IF found = {} THEN 8 ELSE CHOOSE k \in found : \A j \in found : k <= j
  BY DEF get_priority
<1> HIDE DEF found
<1>3. CASE found # {}
  <2>1. \E k \in found : \A j \in found : k <= j  BY <1>1, <1>3, Highest
  <2>2. (CHOOSE k \in found : \A j \in found : k <= j) \in found  BY <2>1, Zenon
  <2>3. get_priority(s, mask) \in found  BY <1>2, <1>3, <2>2, Zenon
  <2>4. get_priority(s, mask) \in 0 .. 7  BY <1>1, <2>3, Zenon
  <2>5. QED  BY <2>4
<1>4. CASE found = {}  BY <1>2, <1>4
<1>5. QED  BY <1>3, <1>4

(* The input that a chip wants served is a number. *)
LEMMA GetIrqType ==
  ASSUME NEW p, NEW n, IsChip(p.chip[n])
  PROVE  pic_get_irq(p, n) \in -1 .. 7
<1> DEFINE s == p.chip[n]
           priority == get_priority(s, s.irr \ s.imr)
           cur == get_priority(s, IF s.special_fully_nested_mode /\ n = 0 THEN s.isr \ {2} ELSE s.isr)
<1>1. pic_get_irq(p, n) = IF priority < cur THEN (priority + s.priority_add) % 8 ELSE -1
  BY Zenon DEF pic_get_irq
<1>2. priority \in 0 .. 8 /\ s.priority_add \in 0 .. 7  BY PriorityType, Zenon DEF IsChip
<1> HIDE DEF priority, cur, s
<1>3. QED  BY <1>1, <1>2

(* One chip changes. *)
LEMMA ChipChanges ==
  ASSUME NEW p, IsPic(p), NEW n \in {0, 1}, NEW s, IsChip(s)
  PROVE  LET q == [p EXCEPT !.chip[n] = s]
         IN  IsPic(q) /\ q.output = p.output /\ q.wakeup_needed = p.wakeup_needed /\ q.stale = p.stale
  BY DEF IsPic

(* pic_update_irq ends with the output the inputs call for, and asks for a *)
(* wakeup whenever it was low before.                                      *)
Updates(p, q) ==
  /\ IsPic(q) /\ ~q.stale /\ Output(q)
  /\ q.output => p.output \/ q.wakeup_needed

(* pic_update_irq leaves an output that is what the chips' state says. *)
LEMMA UpdateFacts ==
  ASSUME NEW p, IsPic(p)
  PROVE  Updates(p, pic_update_irq(p))
<1> DEFINE up == pic_set_irq1(p.chip[0], FALSE, 2, TRUE)
           s == pic_set_irq1(up, FALSE, 2, FALSE)
           q == IF pic_get_irq(p, 1) >= 0 THEN [p EXCEPT !.chip[0] = s] ELSE p
<1>1. IsChip(s)  BY Zenon DEF IsPic, IsChip, pic_set_irq1
<1> HIDE DEF s
<1>2. IsPic(q) /\ q.output = p.output /\ q.wakeup_needed = p.wakeup_needed
  BY <1>1, ChipChanges
<1>3. pic_update_irq(p) = pic_irq_request(q, pic_get_irq(q, 0) >= 0)
  BY Zenon DEF pic_update_irq, s
<1> HIDE DEF q
<1> DEFINE r == pic_irq_request(q, pic_get_irq(q, 0) >= 0)
<1>4. IsPic(r) /\ ~r.stale /\ (r.output <=> pic_get_irq(q, 0) >= 0) /\ r.chip = q.chip
      /\ (r.wakeup_needed <=> q.wakeup_needed \/ ~q.output)
  BY <1>2, Zenon DEF IsPic, pic_irq_request
<1> HIDE DEF r
<1>5. pic_get_irq(r, 0) = pic_get_irq(q, 0)  BY <1>4, Zenon DEF pic_get_irq
<1>6. QED  BY <1>2, <1>3, <1>4, <1>5, Zenon DEF Updates, Output, r

(* An access of the controller keeps output and inputs together, unless it *)
(* is one of those that leave the output stale, and never raises the       *)
(* output without asking for a wakeup.                                     *)
PicStep(p, q) ==
  /\ IsPic(q) /\ (q.output => p.output \/ q.wakeup_needed)
  /\ p.stale \/ Output(p) => q.stale \/ Output(q)

(* pic_get_irq depends on the master's request, mask, service and priority *)
(* state alone.                                                            *)
LEMMA SameIrq ==
  ASSUME NEW p, NEW q, q.chip[0].irr = p.chip[0].irr, q.chip[0].imr = p.chip[0].imr,
         q.chip[0].isr = p.chip[0].isr, q.chip[0].priority_add = p.chip[0].priority_add,
         q.chip[0].special_fully_nested_mode = p.chip[0].special_fully_nested_mode
  PROVE  pic_get_irq(q, 0) = pic_get_irq(p, 0)
<1> DEFINE s == p.chip[0]
           t == q.chip[0]
<1>1. \A mask : get_priority(t, mask) = get_priority(s, mask)
  <2>1. \A mask : {k \in 0 .. 7 : ((k + t.priority_add) % 8) \in mask}
                  = {k \in 0 .. 7 : ((k + s.priority_add) % 8) \in mask}
    OBVIOUS
  <2>2. QED  BY <2>1 DEF get_priority
<1>2. (IF t.special_fully_nested_mode /\ 0 = 0 THEN t.isr \ {2} ELSE t.isr)
        = (IF s.special_fully_nested_mode /\ 0 = 0 THEN s.isr \ {2} ELSE s.isr)
  OBVIOUS
<1>3. QED  BY <1>1, <1>2 DEF pic_get_irq

(* kvm_pic_set_irq leaves the output up to date. *)
LEMMA SetIrqFacts ==
  ASSUME NEW p, IsPic(p), NEW pin \in Pins, NEW level
  PROVE  Updates(p, kvm_pic_set_irq(p, pin, level))
<1> DEFINE n == Chip(pin)
           s == pic_set_irq1(p.chip[n], Input(pin) \in elcr(n), Input(pin), level)
           x == [p EXCEPT !.chip[n] = s]
<1>1. n \in {0, 1}  BY PicPinsAssumption DEF Chip
<1> HIDE DEF n
<1>2. IsChip(p.chip[n])  BY <1>1, Zenon DEF IsPic
<1>3. IsChip(s)  BY <1>2, Zenon DEF IsChip, pic_set_irq1
<1>4. kvm_pic_set_irq(p, pin, level) = pic_update_irq(x)  BY DEF kvm_pic_set_irq, n
<1> HIDE DEF s
<1>5. IsPic(x) /\ x.output = p.output  BY <1>1, <1>3, ChipChanges
<1> HIDE DEF x
<1>6. Updates(x, pic_update_irq(x))  BY <1>5, UpdateFacts, Zenon
<1>7. QED  BY <1>4, <1>5, <1>6, Zenon DEF Updates

(* pic_intack keeps the type. *)
LEMMA IntackFacts ==
  ASSUME NEW p, IsPic(p), NEW n \in {0, 1}, NEW irq
  PROVE  IsPic(pic_intack(p, n, irq))
<1>1. IsChip(p.chip[n])  BY Zenon DEF IsPic
<1> DEFINE s == [p.chip[n] EXCEPT !.isr = @ \union {irq},
                                 !.irr = IF irq \in elcr(n) THEN @ ELSE @ \ {irq}]
<1>2. IsChip(s)  BY <1>1, Zenon DEF IsChip
<1>3. pic_intack(p, n, irq) = [p EXCEPT !.chip[n] = s]  BY <1>1 DEF pic_intack, IsPic, IsChip
<1>4. QED  BY <1>2, <1>3, ChipChanges

(* kvm_pic_read_irq leaves the output up to date. *)
LEMMA ReadIrqFacts ==
  ASSUME NEW p, IsPic(p)
  PROVE  LET q == kvm_pic_read_irq(p).pic IN IsPic(q) /\ ~q.stale /\ Output(q)
<1> DEFINE l == [p EXCEPT !.output = FALSE]
           irq == pic_get_irq(l, 0)
           a == pic_intack(l, 0, irq)
           irq2 == pic_get_irq(a, 1)
           b == pic_intack(a, 1, irq2)
<1>1. IsPic(l)  BY Zenon DEF IsPic
<1> HIDE DEF l
<1>2. IsPic(a)  BY <1>1, IntackFacts, Zenon
<1>3. irq \in -1 .. 7  BY <1>1, GetIrqType, Zenon DEF IsPic
<1> HIDE DEF a
<1>4. IsPic(b)  BY <1>2, IntackFacts, Zenon
<1>5. irq2 \in -1 .. 7  BY <1>2, GetIrqType, Zenon DEF IsPic
<1> HIDE DEF b
<1>6. kvm_pic_read_irq(p).pic \in {pic_update_irq(l), pic_update_irq(a), pic_update_irq(b)}
  <2> HIDE DEF irq, irq2
  <2>1. kvm_pic_read_irq(p) =
          CASE irq < 0 -> [pic |-> pic_update_irq(l), irq |-> 7]
            [] irq = 2 /\ irq2 < 0 -> [pic |-> pic_update_irq(a), irq |-> 15]
            [] irq = 2 /\ irq2 >= 0 -> [pic |-> pic_update_irq(b), irq |-> irq2 + 8]
            [] OTHER -> [pic |-> pic_update_irq(a), irq |-> irq]
    BY Zenon DEF kvm_pic_read_irq, irq, irq2, a, b, l
  <2>2. QED  BY <1>3, <1>5, <2>1
<1>7. QED  BY <1>1, <1>2, <1>4, <1>6, UpdateFacts, Zenon DEF Updates

(* An update of a PIC with the same output is a step of the PIC. *)
LEMMA UpdatesStep ==
  ASSUME NEW p, NEW x, NEW q, x.output = p.output, Updates(x, q)
  PROVE  PicStep(p, q)
  BY Zenon DEF Updates, PicStep

(* A command that changes a chip's mode but none of its inputs. *)
LEMMA ModeFacts ==
  ASSUME NEW p, IsPic(p), NEW n \in {0, 1}, NEW s, IsChip(s),
         s.irr = p.chip[n].irr, s.imr = p.chip[n].imr, s.isr = p.chip[n].isr,
         s.priority_add = p.chip[n].priority_add,
         s.special_fully_nested_mode = p.chip[n].special_fully_nested_mode
  PROVE  PicStep(p, [p EXCEPT !.chip[n] = s])
<1> DEFINE q == [p EXCEPT !.chip[n] = s]
<1>1. IsPic(q) /\ q.output = p.output /\ q.stale = p.stale  BY ChipChanges
<1>2. q.chip[0] = IF n = 0 THEN s ELSE p.chip[0]  BY DEF IsPic
<1> HIDE DEF q
<1>3. pic_get_irq(q, 0) = pic_get_irq(p, 0)
  <2>1. CASE n = 0  BY <1>2, <2>1, SameIrq
  <2>2. CASE n # 0  BY <1>2, <2>2, SameIrq
  <2>3. QED  BY <2>1, <2>2
<1>4. QED  BY <1>1, <1>3, Zenon DEF PicStep, Output, q

(* ICW1 leaves the output as it was, possibly stale. *)
LEMMA ResetFacts ==
  ASSUME NEW p, IsPic(p), NEW n \in {0, 1}
  PROVE  LET q == kvm_pic_reset(p, n, TRUE) IN IsPic(q) /\ q.output = p.output /\ q.stale
<1> DEFINE s == p.chip[n]
           t == [s EXCEPT !.last_irr = {}, !.irr = @ \intersect elcr(n), !.imr = {},
                          !.priority_add = 0, !.init_state = 1, !.init4 = TRUE,
                          !.special_fully_nested_mode = TRUE /\ @]
           x == [p EXCEPT !.stale = TRUE, !.chip[n] = t]
           u == [t EXCEPT !.isr = @ \ (s.irr \ elcr(n))]
<1>1. IsChip(s)  BY Zenon DEF IsPic
<1>2. 0 \in 0 .. 7  OBVIOUS
<1> HIDE DEF s
<1>3. IsChip(t)  BY <1>1, <1>2, Zenon DEF IsChip
<1> HIDE DEF t
<1>4. IsChip(u)  BY <1>3, Zenon DEF IsChip
<1>5. IsPic(x) /\ x.output = p.output /\ x.stale /\ x.chip[n] = t  BY <1>3 DEF IsPic
<1>6. kvm_pic_reset(p, n, TRUE) = [x EXCEPT !.chip[n].isr = @ \ (s.irr \ elcr(n))]
  BY Zenon DEF kvm_pic_reset, pic_clear_isr, s, t
<1> HIDE DEF x
<1>7. kvm_pic_reset(p, n, TRUE) = [x EXCEPT !.chip[n] = u]  BY <1>3, <1>5, <1>6 DEF IsPic, IsChip
<1> HIDE DEF u
<1>8. LET q == [x EXCEPT !.chip[n] = u] IN IsPic(q) /\ q.output = x.output /\ q.stale = x.stale
  BY <1>4, <1>5 DEF IsPic
<1>9. QED  BY <1>5, <1>7, <1>8, Zenon

(* Every port write other than an EOI is a step of the PIC. *)
LEMMA WriteFacts ==
  ASSUME NEW p, IsPic(p), NEW w \in PortWrites, w.cmd \notin Eois
  PROVE  PicStep(p, pic_ioport_write(p, w.n, w.cmd, w.val))
<1> DEFINE n == w.n
           s == p.chip[n]
           q == pic_ioport_write(p, w.n, w.cmd, w.val)
<1>1. n \in {0, 1}  BY PortWritesAssumption
<1>2. IsChip(s)  BY <1>1, Zenon DEF IsPic
<1>3. CASE w.cmd = "icw1"
  <2>1. q = kvm_pic_reset(p, n, TRUE)  BY <1>3, Zenon DEF pic_ioport_write
  <2> HIDE DEF q, n
  <2>2. QED  BY <1>1, <2>1, ResetFacts, Zenon DEF PicStep, q
<1>4. CASE w.cmd = "poll"
  <2> DEFINE t == [s EXCEPT !.poll = TRUE]
  <2>1. q = [p EXCEPT !.chip[n] = t]  BY <1>1, <1>2, <1>4 DEF pic_ioport_write, IsPic, IsChip
  <2> HIDE DEF s
  <2>2. IsChip(t) /\ t.irr = s.irr /\ t.imr = s.imr /\ t.isr = s.isr
        /\ t.priority_add = s.priority_add
        /\ t.special_fully_nested_mode = s.special_fully_nested_mode
    BY <1>2, Zenon DEF IsChip
  <2> HIDE DEF t, n
  <2>3. PicStep(p, [p EXCEPT !.chip[n] = t])  BY <1>1, <2>2, ModeFacts DEF s
  <2> HIDE DEF q
  <2>4. QED  BY <2>1, <2>3, Zenon DEF q
<1>5. CASE w.cmd = "priority"
  <2> DEFINE t == [s EXCEPT !.priority_add = (w.val + 1) % 8]
             x == [p EXCEPT !.chip[n] = t]
  <2>1. (w.val + 1) % 8 \in 0 .. 7  BY <1>5, PortWritesAssumption
  <2>2. IsChip(t)  BY <1>2, <2>1 DEF IsChip
  <2>3. q = pic_update_irq(x)  BY <1>1, <1>2, <1>5 DEF pic_ioport_write, IsPic, IsChip
  <2> HIDE DEF t, s, n
  <2>4. IsPic(x) /\ x.output = p.output  BY <1>1, <2>2, ChipChanges
  <2> HIDE DEF x, q
  <2>5. QED  BY <2>3, <2>4, UpdateFacts, UpdatesStep, Zenon DEF q
<1>6. CASE w.cmd = "imr"
  <2> DEFINE t == [s EXCEPT !.imr = w.val]
             x == [p EXCEPT !.chip[n] = t]
  <2>1. IsChip(t)  BY <1>2, Zenon DEF IsChip
  <2>2. q = pic_update_irq(x)  BY <1>1, <1>2, <1>6 DEF pic_ioport_write, IsPic, IsChip
  <2> HIDE DEF t, s, n
  <2>3. IsPic(x) /\ x.output = p.output  BY <1>1, <2>1, ChipChanges
  <2> HIDE DEF x, q
  <2>4. QED  BY <2>2, <2>3, UpdateFacts, UpdatesStep, Zenon DEF q
<1>7. CASE w.cmd \in {"icw2", "icw3"}
  <2> DEFINE k == IF w.cmd = "icw2" THEN 2 ELSE IF s.init_state = 2 /\ s.init4 THEN 3 ELSE 0
             t == [s EXCEPT !.init_state = k]
  <2>1. q = [p EXCEPT !.chip[n] = t]  BY <1>1, <1>2, <1>7 DEF pic_ioport_write, IsPic, IsChip
  <2> HIDE DEF k, s
  <2>2. IsChip(t) /\ t.irr = s.irr /\ t.imr = s.imr /\ t.isr = s.isr
        /\ t.priority_add = s.priority_add
        /\ t.special_fully_nested_mode = s.special_fully_nested_mode
    BY <1>2, Zenon DEF IsChip
  <2> HIDE DEF t, n
  <2>3. PicStep(p, [p EXCEPT !.chip[n] = t])  BY <1>1, <2>2, ModeFacts DEF s
  <2> HIDE DEF q
  <2>4. QED  BY <2>1, <2>3, Zenon DEF q
<1>8. CASE w.cmd = "icw4"
  <2> DEFINE t == [s EXCEPT !.init_state = 0, !.special_fully_nested_mode = w.val]
             x == [p EXCEPT !.stale = TRUE]
  <2>1. q = [x EXCEPT !.chip[n] = t]  BY <1>1, <1>2, <1>8 DEF pic_ioport_write, IsPic, IsChip
  <2>2. IsChip(t)  BY <1>2, Zenon DEF IsChip
  <2>3. IsPic(x) /\ x.output = p.output /\ x.stale  BY Zenon DEF IsPic
  <2> HIDE DEF t, x, n, q
  <2>4. LET r == [x EXCEPT !.chip[n] = t] IN IsPic(r) /\ r.output = x.output /\ r.stale = x.stale
    BY <1>1, <2>2, <2>3 DEF IsPic
  <2>5. QED  BY <2>1, <2>3, <2>4, Zenon DEF PicStep, q
<1>9. w.cmd \in {"icw1", "icw2", "icw3", "icw4", "imr", "priority", "poll"}
  BY PortWritesAssumption, Zenon
<1>10. QED  BY <1>3, <1>4, <1>5, <1>6, <1>7, <1>8, <1>9, Zenon

(* An EOI touches the inputs only; the output follows in PicEoiUpdate. *)
LEMMA EoiFacts ==
  ASSUME NEW p, IsPic(p), NEW n \in {0, 1}, NEW cmd
  PROVE  LET q == pic_eoi(p, n, cmd) IN IsPic(q) /\ q.output = p.output
<1> DEFINE s == p.chip[n]
           irq == InService(p, n)
           k == IF cmd = "rotate_eoi" THEN (irq + 1) % 8 ELSE s.priority_add
           t == [s EXCEPT !.isr = @ \ {irq}, !.priority_add = k]
<1>1. IsChip(s)  BY Zenon DEF IsPic
<1>2. irq \in 0 .. 7
  <2> DEFINE g == get_priority(s, s.isr)
  <2>1. g \in 0 .. 8 /\ s.priority_add \in 0 .. 7  BY <1>1, PriorityType, Zenon DEF IsChip
  <2>2. irq = (g + s.priority_add) % 8  BY Zenon DEF InService
  <2> HIDE DEF g, s, irq
  <2>3. QED  BY <2>1, <2>2
<1> HIDE DEF irq
<1>3. k \in 0 .. 7  BY <1>1, <1>2 DEF IsChip
<1>4. pic_eoi(p, n, cmd) = [p EXCEPT !.chip[n] = t]
  BY <1>1 DEF pic_eoi, pic_clear_isr, IsPic, IsChip, irq
<1> HIDE DEF k, s
<1>5. IsChip(t)  BY <1>1, <1>3, Zenon DEF IsChip
<1> HIDE DEF t
<1>6. LET q == [p EXCEPT !.chip[n] = t] IN IsPic(q) /\ q.output = p.output
  BY <1>5 DEF IsPic
<1>7. QED  BY <1>4, <1>6, Zenon

(* A read that polls takes the interrupt and leaves the output for later,  *)
(* or finds none and updates it.                                           *)
LEMMA PollFacts ==
  ASSUME NEW p, IsPic(p), NEW n \in {0, 1}
  PROVE  PicStep(p, pic_poll_read(p, n))
<1> DEFINE ret == pic_get_irq(p, n)
           s == [p.chip[n] EXCEPT !.poll = FALSE]
           q == [p EXCEPT !.chip[n] = s]
           c == [q.chip[0] EXCEPT !.isr = @ \ {2}, !.irr = @ \ {2}]
           m == IF n = 1 THEN [q EXCEPT !.chip[0] = c] ELSE q
           x == [m EXCEPT !.stale = TRUE]
           t == [x.chip[n] EXCEPT !.irr = @ \ {ret}, !.isr = @ \ {ret}]
<1>1. IsChip(p.chip[n])  BY Zenon DEF IsPic
<1>2. IsChip(s)  BY <1>1, Zenon DEF IsChip
<1>3. [p EXCEPT !.chip[n].poll = FALSE] = q  BY <1>1 DEF IsPic, IsChip
<1> HIDE DEF s
<1>4. IsPic(q) /\ q.output = p.output  BY <1>2 DEF IsPic
<1> HIDE DEF q
<1>5. CASE ret < 0
  <2>1. pic_poll_read(p, n) = pic_update_irq(q)  BY <1>3, <1>5, Zenon DEF pic_poll_read
  <2> DEFINE r == pic_poll_read(p, n)
  <2>2. Updates(q, r)  BY <1>4, <2>1, UpdateFacts, Zenon
  <2> HIDE DEF r, ret
  <2>3. QED  BY <1>4, <2>2, UpdatesStep, Zenon DEF r
<1>6. CASE ~(ret < 0)
  <2>1. IsChip(q.chip[0])  BY <1>4, Zenon DEF IsPic
  <2>2. IsChip(c)  BY <2>1, Zenon DEF IsChip
  <2>3. [q EXCEPT !.chip[0].isr = @ \ {2}, !.chip[0].irr = @ \ {2}] = [q EXCEPT !.chip[0] = c]
    BY <1>4, <2>1 DEF IsPic, IsChip
  <2> HIDE DEF c
  <2>4. IsPic(m) /\ m.output = p.output  BY <1>4, <2>2 DEF IsPic
  <2>5. pic_poll_read(p, n) = pic_clear_isr([m EXCEPT !.chip[n].irr = @ \ {ret}, !.stale = TRUE], n, {ret})
    BY <1>3, <1>6, <2>3, Zenon DEF pic_poll_read, q
  <2> HIDE DEF m, ret
  <2>6. IsPic(x) /\ x.output = p.output /\ x.stale  BY <2>4, Zenon DEF IsPic
  <2>7. IsChip(x.chip[n]) /\ IsChip(t)
    <3> HIDE DEF x
    <3>1. IsChip(x.chip[n])  BY <2>6, Zenon DEF IsPic
    <3>2. QED  BY <3>1, Zenon DEF IsChip
  <2>8. pic_poll_read(p, n) = [x EXCEPT !.chip[n] = t]
    BY <2>4, <2>5, <2>7 DEF pic_clear_isr, IsPic, IsChip
  <2> HIDE DEF t, x
  <2>9. LET r == [x EXCEPT !.chip[n] = t] IN IsPic(r) /\ r.output = x.output /\ r.stale = x.stale
    BY <2>6, <2>7 DEF IsPic
  <2> DEFINE r == pic_poll_read(p, n)
  <2>10. IsPic(r) /\ r.output = p.output /\ r.stale  BY <2>6, <2>8, <2>9, Zenon
  <2> HIDE DEF r
  <2>11. QED  BY <2>10, Zenon DEF PicStep, r
<1>7. QED  BY <1>5, <1>6, Zenon

(* pic_unlock: the output, once the wakeup was asked for. *)
LEMMA Unlocked ==
  ASSUME NEW p, IsPic(p), pic' = [p EXCEPT !.wakeup_needed = FALSE]
  PROVE  /\ IsPic(pic') /\ pic'.output = p.output /\ pic'.stale = p.stale
         /\ Output(pic)' <=> Output(p)
<1>1. IsPic(pic') /\ pic'.output = p.output /\ pic'.stale = p.stale /\ pic'.chip = p.chip
  BY Zenon DEF IsPic
<1>2. pic_get_irq(pic', 0) = pic_get_irq(p, 0)  BY <1>1, SameIrq, Zenon
<1>3. QED  BY <1>1, <1>2, Zenon DEF Output

-----------------------------------------------------------------------------
(* The guest's accesses to the controllers, its flags and its page faults *)

(* STI, CLI and IRET of the guest preserve the invariant. *)
LEMMA FlagsStep ==
  ASSUME IInv, GuestFlags
  PROVE  IInv'
<1>1. /\ IsVcpu(vcpu') /\ SameWindows(vcpu', vcpu) /\ SameState(vcpu', vcpu)
      /\ vcpu'.requests = vcpu.requests /\ vcpu'.pending = vcpu.pending
  BY Zenon DEF GuestFlags, IInv, Types, IsVcpu, SameWindows, SameState
<1>2. /\ run.pc = "guest"
      /\ UNCHANGED << apf, pic, run, lapic, sender, scenario, owed, sipi_due >>
  BY Zenon DEF GuestFlags, Executes
<1>3. Types'  BY <1>1, <1>2, Zenon DEF IInv, Types
<1>4. Events'  BY <1>1, <1>2, Zenon DEF IInv, Events, Entries
<1>5. /\ Outputs'
      /\ kvm_cpu_has_interrupt' => kvm_cpu_has_interrupt
      /\ kvm_cpu_has_pending_timer2' => kvm_cpu_has_pending_timer2
  BY <1>2, ControllersStay, Zenon
<1>6. Windows'  BY <1>1, <1>2, <1>5, WindowsStay, Zenon DEF IInv
<1>7. Timers'  BY <1>1, <1>2, <1>5, TimersStay, Zenon DEF IInv
<1>8. Started'  BY <1>1, <1>2, StartedStays, Zenon DEF IInv, SameState
<1>9. Kicks' /\ Sleeps' /\ Threads'
  BY <1>1, <1>2, Zenon DEF IInv, Kicks, Sleeps, Threads
<1>10. QED  BY <1>3, <1>4, <1>5, <1>6, <1>7, <1>8, <1>9, Zenon DEF IInv

(* An EOI to the local APIC preserves the invariant. *)
LEMMA LapicEoiStep ==
  ASSUME IInv, apic_set_eoi
  PROVE  IInv'
<1> DEFINE e == Completed(vcpu)
<1>1. /\ IsVcpu(e) /\ e.requests = vcpu.requests /\ e.entry = "none" /\ Idle(e)
      /\ SameWindows(e, vcpu) /\ SameState(e, vcpu)
  BY CompletedFacts, Zenon DEF IInv, Types
<1>2. /\ vcpu' = kvm_make_request(e, "EVENT") /\ run.pc = "guest" /\ run' = Outside("tail")
      /\ lapic' = [lapic EXCEPT !.isr = FALSE]
      /\ UNCHANGED <<pic, sender, scenario, owed, sipi_due>>
  BY Zenon DEF apic_set_eoi, Executes
<1> HIDE DEF e
<1>3. /\ IsVcpu(vcpu') /\ vcpu'.entry = "none" /\ Idle(vcpu') /\ SameState(vcpu', vcpu)
      /\ vcpu'.requests = vcpu.requests \union {"EVENT"}
  BY <1>1, <1>2, Zenon DEF IsVcpu, kvm_make_request, Idle, SameState
<1>4. /\ IsLapic(lapic') /\ lapic'.pending_events = lapic.pending_events
      /\ kvm_cpu_has_pending_timer2' => kvm_cpu_has_pending_timer2
  BY <1>2, Zenon DEF IInv, Types, IsLapic, kvm_cpu_has_pending_timer2
<1>5. IsPic(pic') /\ Outputs'  BY <1>2, OutputsStay, Zenon DEF IInv, Types
<1>6. QED  BY <1>2, <1>3, <1>4, <1>5, Leaves, Zenon DEF Idle, Queued, SameState

(* An access to the PIC's ports that is a step of the PIC preserves the    *)
(* invariant.                                                              *)
LEMMA PicAccessStep ==
  ASSUME IInv, NEW p, IsPic(p), NEW pc \in {"tail", "acked"}, PicAccess(p, Completed(vcpu), pc),
         p.output => pic.output \/ p.wakeup_needed,
         pc = "tail" => (pic.stale \/ Output(pic) => p.stale \/ Output(p))
  PROVE  IInv'
<1> DEFINE e == Completed(vcpu)
<1>1. /\ IsVcpu(e) /\ e.requests = vcpu.requests /\ e.entry = "none" /\ Idle(e)
      /\ SameWindows(e, vcpu) /\ SameState(e, vcpu)
  BY CompletedFacts, Zenon DEF IInv, Types
<1>2. /\ pic' = [p EXCEPT !.wakeup_needed = FALSE]
      /\ vcpu' = IF p.wakeup_needed /\ bsp THEN kvm_make_request(e, "EVENT") ELSE e
      /\ run.pc = "guest" /\ run' = Outside(pc)
      /\ UNCHANGED << apf, lapic, sender, scenario, owed, sipi_due >>
  BY Zenon DEF PicAccess, Executes
<1> HIDE DEF e
<1>3. /\ IsVcpu(vcpu') /\ vcpu'.entry = "none" /\ Idle(vcpu') /\ SameState(vcpu', vcpu)
      /\ SameWindows(vcpu', vcpu) /\ vcpu.requests \subseteq vcpu'.requests
      /\ p.wakeup_needed /\ bsp => "EVENT" \in vcpu'.requests
  BY <1>1, <1>2, Zenon DEF IsVcpu, kvm_make_request, Idle, SameState, SameWindows
<1>4. /\ IsPic(pic') /\ pic'.output = p.output /\ pic'.stale = p.stale
      /\ Output(pic)' <=> Output(p)
  BY <1>2, Unlocked, Zenon
<1>5. run'.pc = pc  BY <1>2, Zenon DEF IInv, Types, IsThread, Outside
<1>6. pic.stale \/ Output(pic)  BY <1>2, Zenon DEF IInv, Outputs
<1>7. Outputs'  BY <1>4, <1>5, <1>6, Zenon DEF Outputs
<1>8. kvm_cpu_has_interrupt' => kvm_cpu_has_interrupt \/ "EVENT" \in vcpu'.requests
  BY <1>2, <1>3, <1>4, Zenon
  DEF kvm_cpu_has_interrupt, kvm_cpu_has_extint, kvm_apic_has_interrupt, bsp
<1>9. /\ IsLapic(lapic') /\ lapic'.pending_events = lapic.pending_events
      /\ kvm_cpu_has_pending_timer2' => kvm_cpu_has_pending_timer2
  BY <1>2, Zenon DEF IInv, Types, kvm_cpu_has_pending_timer2
<1>10. QED  BY <1>2, <1>3, <1>4, <1>7, <1>8, <1>9, Leaves, Zenon DEF Idle, Queued, SameState

(* OUT to a PIC port preserves the invariant. *)
LEMMA PortStep ==
  ASSUME IInv, NEW w \in PortWrites, picdev_write(w)
  PROVE  IInv'
<1>0. IsPic(pic) /\ w.n \in {0, 1}  BY PortWritesAssumption DEF IInv, Types
<1>1. CASE w.cmd \in Eois
  <2> DEFINE p == pic_eoi(pic, w.n, w.cmd)
  <2>1. IsPic(p) /\ p.output = pic.output  BY <1>0, EoiFacts, Zenon
  <2>2. PicAccess(p, Completed(vcpu), "acked")  BY <1>1, Zenon DEF picdev_write
  <2> HIDE DEF p
  <2>3. QED  BY <2>1, <2>2, PicAccessStep, Zenon
<1>2. CASE w.cmd \notin Eois
  <2> DEFINE p == pic_ioport_write(pic, w.n, w.cmd, w.val)
  <2>1. PicStep(pic, p)  BY <1>0, <1>2, WriteFacts, Zenon
  <2>2. PicAccess(p, Completed(vcpu), "tail")  BY <1>2, Zenon DEF picdev_write
  <2> HIDE DEF p
  <2>3. QED  BY <2>1, <2>2, PicAccessStep, Zenon DEF PicStep
<1>3. QED  BY <1>1, <1>2, Zenon

(* IN from a PIC port preserves the invariant. *)
LEMMA PollStep ==
  ASSUME IInv, NEW n \in 0 .. 1, picdev_read(n)
  PROVE  IInv'
<1>0. IsPic(pic) /\ n \in {0, 1}  BY DEF IInv, Types
<1> DEFINE p == pic_poll_read(pic, n)
           pc == IF PollUpdates(pic, n) THEN "acked" ELSE "tail"
<1>1. PicStep(pic, p)  BY <1>0, PollFacts, Zenon
<1>2. PicAccess(p, Completed(vcpu), pc)  BY Zenon DEF picdev_read
<1>3. pc \in {"tail", "acked"}  BY Zenon
<1> HIDE DEF p, pc
<1>4. QED  BY <1>1, <1>2, <1>3, PicAccessStep, Zenon DEF PicStep

(* A page fault halts the vCPU, queues an exception on an empty queue or   *)
(* changes nothing.                                                        *)
Faults(v, w) ==
  /\ IsVcpu(w) /\ w.entry = v.entry /\ SameWindows(w, v) /\ SameState(w, v) /\ SameCpu(w, v)
  /\ v.requests \subseteq w.requests
  /\ \/ SameQueue(w, v)
     \/ /\ ~Queued(v) /\ "EVENT" \in w.requests
        /\ w.pending /\ ~w.injected /\ ~w.interrupt /\ ~w.nmi_injected

(* tdp_page_fault halts the vCPU, queues a page fault or does neither. *)
LEMMA TdpFacts ==
  ASSUME NEW v, IsVcpu(v), NEW gfn, tdp_page_fault(v, gfn)
  PROVE  Faults(v, vcpu')
<1>1. CASE vcpu' = v  BY <1>1, Zenon DEF Faults, SameWindows, SameState, SameCpu, SameQueue
<1>2. CASE vcpu' = kvm_make_request(v, "APF_HALT")
  BY <1>2, Zenon
  DEF Faults, IsVcpu, kvm_make_request, SameWindows, SameState, SameCpu, SameQueue
<1>3. CASE vcpu' = kvm_multiple_exception(v, "PF", FALSE) /\ kvm_can_do_async_pf(v)
  <2>1. /\ IsVcpu(vcpu') /\ vcpu'.entry = v.entry /\ SameWindows(vcpu', v) /\ SameState(vcpu', v)
        /\ SameCpu(vcpu', v)
        /\ "EVENT" \in vcpu'.requests /\ v.requests \subseteq vcpu'.requests
        /\ vcpu'.interrupt = v.interrupt /\ vcpu'.nmi_injected = v.nmi_injected
        /\ \/ vcpu'.pending /\ ~vcpu'.injected
           \/ vcpu'.pending = v.pending /\ vcpu'.injected = v.injected
    BY <1>3, ExceptionFacts, Zenon
  <2>2. ~Queued(v)  BY <1>3, Zenon DEF kvm_can_do_async_pf, kvm_event_needs_reinjection, Queued
  <2>3. QED  BY <2>1, <2>2, Zenon DEF Faults, Queued, SameQueue
<1>4. vcpu' = v \/ vcpu' = kvm_make_request(v, "APF_HALT")
      \/ (vcpu' = kvm_multiple_exception(v, "PF", FALSE) /\ kvm_can_do_async_pf(v))
  BY Zenon DEF tdp_page_fault, AsyncFault
<1>5. QED  BY <1>1, <1>2, <1>3, <1>4, Zenon

(* An EPT violation preserves the invariant. *)
LEMMA EptStep ==
  ASSUME IInv, NEW gfn, NEW unblock, handle_ept_violation(gfn, unblock)
  PROVE  IInv'
<1> DEFINE u == [vcpu EXCEPT !.nmi_mask = @ /\ ~unblock]
           e == Exited(u)
           v == [e EXCEPT !.nmi_mask = @ \/ unblock]
<1>1. IsVcpu(u) /\ u.requests = vcpu.requests /\ SameWindows(u, vcpu) /\ SameState(u, vcpu)
  BY Zenon DEF IInv, Types, IsVcpu, SameWindows, SameState
<1>2. /\ tdp_page_fault(v, gfn) /\ run.pc = "guest" /\ run' = Outside("tail")
      /\ UNCHANGED <<pic, lapic, sender, scenario, owed, sipi_due>>
  BY Zenon DEF handle_ept_violation, Executes
<1> HIDE DEF u
<1>3. /\ IsVcpu(e) /\ e.requests = u.requests /\ e.entry = "none" /\ Idle(e)
      /\ SameWindows(e, u) /\ SameState(e, u)
  BY <1>1, ExitedFacts, Zenon
<1> HIDE DEF e
<1>4. /\ IsVcpu(v) /\ v.requests = vcpu.requests /\ v.entry = "none" /\ Idle(v)
      /\ SameWindows(v, vcpu) /\ SameState(v, vcpu)
  BY <1>1, <1>3, Zenon DEF IsVcpu, Idle, SameWindows, SameState
<1> HIDE DEF v
<1>5. Faults(v, vcpu')  BY <1>2, <1>4, TdpFacts, Zenon
<1>6. /\ IsVcpu(vcpu') /\ vcpu'.entry = "none" /\ ~vcpu'.interrupt /\ ~vcpu'.nmi_injected
      /\ ~(vcpu'.pending /\ vcpu'.injected)
      /\ vcpu.requests \subseteq vcpu'.requests /\ SameWindows(vcpu', vcpu)
      /\ vcpu'.mp_state = vcpu.mp_state
  BY <1>4, <1>5, Zenon DEF Faults, Idle, SameQueue, SameWindows, SameState
<1>7. Queued(vcpu') => "EVENT" \in vcpu'.requests
  BY <1>4, <1>5, Zenon DEF Faults, Idle, SameQueue, Queued
<1>8. QED  BY <1>2, <1>6, <1>7, SimpleLeaves, Zenon

-----------------------------------------------------------------------------
(* The loop of vcpu_run *)

(* A step between two turns: no controller changes and no request that     *)
(* something waits for is dropped.                                         *)
LEMMA LoopTurn ==
  ASSUME IInv, run.pc \notin {"inject", "take", "arm", "armed", "guest", "timer", "acked"},
         IsThread(run'), run'.pc \notin {"inject", "take", "arm", "armed", "guest", "asleep"},
         run'.onq => run'.pc = "check", run'.pc = "requests" => vcpu'.mp_state = "RUNNABLE",
         IsVcpu(vcpu'), vcpu'.entry = vcpu.entry, SameQueue(vcpu', vcpu), SameCpu(vcpu', vcpu),
         SameWindows(vcpu', vcpu), vcpu'.mp_state \in {vcpu.mp_state, "HALTED", "RUNNABLE"},
         "EVENT" \in vcpu.requests => "EVENT" \in vcpu'.requests,
         run'.pc = "timer" \/ ("PENDING_TIMER" \in vcpu.requests => "PENDING_TIMER" \in vcpu'.requests),
         UNCHANGED <<pic, lapic, sender, scenario, owed, sipi_due>>
  PROVE  IInv'
<1>1. /\ IsPic(pic') /\ IsLapic(lapic') /\ lapic'.pending_events = lapic.pending_events /\ Outputs'
      /\ kvm_cpu_has_interrupt' => kvm_cpu_has_interrupt
      /\ kvm_cpu_has_pending_timer2' => kvm_cpu_has_pending_timer2
  BY ControllersStay, Zenon
<1>2. Queue(vcpu) /\ Entries(vcpu, run.pc)  BY Zenon DEF IInv, Events
<1>3. Queue(vcpu)'
  BY <1>2, Zenon DEF Queue, OneQueued, Legal, SameQueue, SameCpu, vmx_interrupt_allowed, vmx_nmi_allowed
<1>4. Entries(vcpu', run'.pc)  BY <1>2, Zenon DEF Entries, Queued, SameQueue
<1>5. Windows'  BY <1>1, WindowsStay, Zenon DEF IInv
<1>6. Timers'  BY <1>1, TimersStay, Zenon DEF IInv, Timers
<1>7. Started'  BY <1>1, StartedStays, Zenon DEF IInv
<1>8. owed' \in SUBSET {"irq", "nmi"}  BY Zenon DEF IInv, Types
<1>9. QED  BY <1>1, <1>3, <1>4, <1>5, <1>6, <1>7, <1>8, Turn, Zenon

(* The same, with the vCPU as it was. *)
LEMMA LoopMoves ==
  ASSUME IInv, run.pc \notin {"inject", "take", "arm", "armed", "guest", "timer", "acked"},
         IsThread(run'), run'.pc \notin {"inject", "take", "arm", "armed", "guest", "asleep"},
         run'.onq => run'.pc = "check", run'.pc = "requests" => vcpu.mp_state = "RUNNABLE",
         UNCHANGED <<vcpu, pic, lapic, sender, scenario, owed, sipi_due>>
  PROVE  IInv'
<1>1. /\ IsVcpu(vcpu') /\ vcpu'.entry = vcpu.entry /\ SameQueue(vcpu', vcpu) /\ SameCpu(vcpu', vcpu)
      /\ SameWindows(vcpu', vcpu) /\ vcpu'.mp_state = vcpu.mp_state /\ vcpu'.requests = vcpu.requests
  BY Zenon DEF IInv, Types, SameQueue, SameCpu, SameWindows
<1>2. QED  BY <1>1, LoopTurn, Zenon

(* The start of KVM_RUN preserves the invariant. *)
LEMMA IoctlRunStep ==
  ASSUME IInv, kvm_arch_vcpu_ioctl_run
  PROVE  IInv'
<1>1. /\ IsThread(run') /\ run'.pc \in {"block", "loop"} /\ run'.onq = run.onq
  BY Zenon DEF IInv, Types, IsThread, kvm_arch_vcpu_ioctl_run
<1>2. run.pc = "user" /\ UNCHANGED <<vcpu, pic, lapic, sender, scenario, owed, sipi_due>>
  BY Zenon DEF kvm_arch_vcpu_ioctl_run
<1>3. ~run.onq  BY <1>2, Zenon DEF IInv, Threads
<1>4. QED  BY <1>1, <1>2, <1>3, LoopMoves, Zenon

(* The head of the loop of vcpu_run preserves the invariant. *)
LEMMA RunStep ==
  ASSUME IInv, vcpu_run
  PROVE  IInv'
<1>1. /\ IsThread(run') /\ run'.pc \in {"requests", "unhalt", "block"} /\ run'.onq = run.onq
      /\ run'.pc = "requests" => vcpu.mp_state = "RUNNABLE"
  BY Zenon DEF IInv, Types, IsThread, vcpu_run, kvm_vcpu_running
<1>2. run.pc = "loop" /\ UNCHANGED <<vcpu, pic, lapic, sender, scenario, owed, sipi_due>>
  BY Zenon DEF vcpu_run
<1>3. ~run.onq  BY <1>2, Zenon DEF IInv, Threads
<1>4. QED  BY <1>1, <1>2, <1>3, LoopMoves, Zenon

(* The end of the loop body of vcpu_run preserves the invariant. *)
LEMMA LoopAgainStep ==
  ASSUME IInv, LoopAgain
  PROVE  IInv'
<1>1. /\ IsThread(run') /\ run'.pc \in {"user", "loop"} /\ run'.onq = run.onq
  BY Zenon DEF IInv, Types, IsThread, LoopAgain
<1>2. run.pc = "apf" /\ UNCHANGED <<vcpu, pic, lapic, sender, scenario, owed, sipi_due>>
  BY Zenon DEF LoopAgain
<1>3. ~run.onq  BY <1>2, Zenon DEF IInv, Threads
<1>4. QED  BY <1>1, <1>2, <1>3, LoopMoves, Zenon

(* Being woken preserves the invariant. *)
LEMMA WakesStep ==
  ASSUME IInv, Wakes
  PROVE  IInv'
<1>1. IsThread(run') /\ run'.pc = "check"
  BY Zenon DEF IInv, Types, IsThread, Wakes
<1>2. run.pc = "asleep" /\ UNCHANGED <<vcpu, pic, lapic, sender, scenario, owed, sipi_due>>
  BY Zenon DEF Wakes
<1>3. QED  BY <1>1, <1>2, LoopMoves, Zenon

(* kvm_clear_request of the timer preserves the invariant. *)
LEMMA ClearTimerStep ==
  ASSUME IInv, ClearPendingTimer
  PROVE  IInv'
<1>1. /\ IsThread(run') /\ run'.pc = "timer" /\ run'.onq = run.onq
  BY Zenon DEF IInv, Types, IsThread, ClearPendingTimer
<1>2. run.pc = "tail" /\ UNCHANGED <<pic, lapic, sender, scenario, owed, sipi_due>>
  BY Zenon DEF ClearPendingTimer
<1>3. ~run.onq  BY <1>2, Zenon DEF IInv, Threads
<1>4. /\ IsVcpu(vcpu') /\ vcpu'.entry = vcpu.entry /\ SameQueue(vcpu', vcpu) /\ SameCpu(vcpu', vcpu)
      /\ SameWindows(vcpu', vcpu) /\ vcpu'.mp_state = vcpu.mp_state
      /\ "EVENT" \in vcpu.requests => "EVENT" \in vcpu'.requests
  BY Zenon DEF IInv, Types, IsVcpu, ClearPendingTimer, SameQueue, SameCpu, SameWindows
<1>5. QED  BY <1>1, <1>2, <1>3, <1>4, LoopTurn, Zenon

(* The update after an EOI asks for the entry that a raised output needs. *)
LEMMA EoiUpdateStep ==
  ASSUME IInv, PicEoiUpdate
  PROVE  IInv'
<1> DEFINE p == pic_update_irq(pic)
<1>1. IsPic(p) /\ ~p.stale /\ Output(p) /\ (p.output => pic.output \/ p.wakeup_needed)
  BY UpdateFacts, Zenon DEF Updates, IInv, Types
<1>2. /\ pic' = [p EXCEPT !.wakeup_needed = FALSE]
      /\ vcpu' = IF p.wakeup_needed /\ bsp THEN kvm_make_request(vcpu, "EVENT") ELSE vcpu
      /\ run.pc = "acked" /\ run' = [run EXCEPT !.pc = "tail"]
      /\ UNCHANGED << lapic, sender, scenario, owed, sipi_due >>
  BY Zenon DEF PicEoiUpdate
<1> HIDE DEF p
<1>3. /\ IsVcpu(vcpu') /\ vcpu'.entry = vcpu.entry /\ SameQueue(vcpu', vcpu)
      /\ SameCpu(vcpu', vcpu) /\ SameState(vcpu', vcpu) /\ SameWindows(vcpu', vcpu)
      /\ vcpu.requests \subseteq vcpu'.requests
      /\ p.wakeup_needed /\ bsp => "EVENT" \in vcpu'.requests
  BY <1>2, Zenon
  DEF IInv, Types, IsVcpu, kvm_make_request, SameQueue, SameCpu, SameState, SameWindows
<1>4. IsPic(pic') /\ pic'.output = p.output /\ Outputs'
  BY <1>1, <1>2, Unlocked, Zenon DEF Outputs
<1>5. IsThread(run') /\ run'.pc = "tail" /\ run'.onq = run.onq
  BY <1>2, Zenon DEF IInv, Types, IsThread
<1>6. ~run.onq  BY <1>2, Zenon DEF IInv, Threads
<1>7. kvm_cpu_has_interrupt' => kvm_cpu_has_interrupt \/ "EVENT" \in vcpu'.requests
  BY <1>1, <1>2, <1>3, <1>4, Zenon
  DEF kvm_cpu_has_interrupt, kvm_cpu_has_extint, kvm_apic_has_interrupt, bsp
<1>8. Windows'  BY <1>2, <1>3, <1>7, WindowsStay, Zenon DEF IInv
<1>9. Timers'
  BY <1>2, <1>3, TimersStay, Zenon DEF IInv, kvm_cpu_has_pending_timer2
<1>10. Started'  BY <1>2, <1>3, StartedStays, Zenon DEF IInv, SameState
<1>11. Queue(vcpu) /\ Entries(vcpu, run.pc)  BY <1>2, Zenon DEF IInv, Events
<1>12. Queue(vcpu)'
  BY <1>2, <1>3, <1>11, Zenon
  DEF Queue, OneQueued, Legal, SameQueue, SameCpu, vmx_interrupt_allowed, vmx_nmi_allowed
<1>13. Entries(vcpu', run'.pc)  BY <1>2, <1>3, <1>5, <1>11, Zenon DEF Entries, Queued, SameQueue
<1>14. IsLapic(lapic') /\ owed' \in SUBSET {"irq", "nmi"}  BY <1>2, Zenon DEF IInv, Types
<1>15. QED
  BY <1>2, <1>3, <1>4, <1>5, <1>6, <1>8, <1>9, <1>10, <1>12, <1>13, <1>14, Turn, Zenon

(* An expired timer becomes an interrupt of the local APIC. *)
LEMMA TimerIrqStep ==
  ASSUME IInv, kvm_inject_pending_timer_irqs
  PROVE  IInv'
<1>1. /\ run.pc = "timer" /\ run' = [run EXCEPT !.pc = "apf"]
      /\ UNCHANGED << pic, sender, scenario, owed, sipi_due >>
  BY Zenon DEF kvm_inject_pending_timer_irqs
<1>2. /\ IsVcpu(vcpu') /\ vcpu'.entry = vcpu.entry /\ SameQueue(vcpu', vcpu)
      /\ SameCpu(vcpu', vcpu) /\ SameState(vcpu', vcpu) /\ SameWindows(vcpu', vcpu)
      /\ vcpu.requests \subseteq vcpu'.requests
  <2>1. vcpu' = vcpu \/ vcpu' = kvm_make_request(vcpu, "EVENT")
    BY Zenon DEF kvm_inject_pending_timer_irqs
  <2>2. IsVcpu(vcpu)  BY Zenon DEF IInv, Types
  <2>3. QED
    BY <2>1, <2>2, Zenon
    DEF IsVcpu, kvm_make_request, SameQueue, SameCpu, SameState, SameWindows
<1>3. /\ IsLapic(lapic') /\ lapic'.pending_events = lapic.pending_events
      /\ lapic' = lapic \/ "EVENT" \in vcpu'.requests
  <2>1. CASE kvm_cpu_has_pending_timer2
    <3>1. /\ lapic' = [lapic EXCEPT !.irr = TRUE, !.timer_pending = FALSE]
          /\ vcpu' = kvm_make_request(vcpu, "EVENT")
      BY <2>1, Zenon DEF kvm_inject_pending_timer_irqs
    <3>2. "EVENT" \in vcpu'.requests  BY <3>1, Zenon DEF IInv, Types, IsVcpu, kvm_make_request
    <3>3. IsLapic(lapic') /\ lapic'.pending_events = lapic.pending_events
      BY <3>1, Zenon DEF IInv, Types, IsLapic
    <3>4. QED  BY <3>2, <3>3, Zenon
  <2>2. CASE ~kvm_cpu_has_pending_timer2
    BY <2>2, Zenon DEF kvm_inject_pending_timer_irqs, IInv, Types
  <2>3. QED  BY <2>1, <2>2, Zenon
<1>4. ~kvm_cpu_has_pending_timer2'
  BY Zenon DEF kvm_inject_pending_timer_irqs, IInv, Types, IsLapic, kvm_cpu_has_pending_timer2
<1>5. IsThread(run') /\ run'.pc = "apf" /\ run'.onq = run.onq
  BY <1>1, Zenon DEF IInv, Types, IsThread
<1>6. ~run.onq  BY <1>1, Zenon DEF IInv, Threads
<1>7. kvm_cpu_has_interrupt' => kvm_cpu_has_interrupt \/ "EVENT" \in vcpu'.requests
  BY <1>1, <1>3, Zenon DEF kvm_cpu_has_interrupt, kvm_cpu_has_extint, kvm_apic_has_interrupt, bsp
<1>8. Windows'  BY <1>1, <1>2, <1>7, WindowsStay, Zenon DEF IInv
<1>9. Timers'  BY <1>4, Zenon DEF Timers
<1>10. Started'  BY <1>1, <1>2, <1>3, StartedStays, Zenon DEF IInv, SameState
<1>11. Queue(vcpu) /\ Entries(vcpu, run.pc)  BY <1>1, Zenon DEF IInv, Events
<1>12. Queue(vcpu)'
  BY <1>1, <1>2, <1>11, Zenon
  DEF Queue, OneQueued, Legal, SameQueue, SameCpu, vmx_interrupt_allowed, vmx_nmi_allowed
<1>13. Entries(vcpu', run'.pc)  BY <1>1, <1>2, <1>5, <1>11, Zenon DEF Entries, Queued, SameQueue
<1>14. IsPic(pic') /\ owed' \in SUBSET {"irq", "nmi"}  BY <1>1, Zenon DEF IInv, Types
<1>15. Outputs'  BY <1>1, OutputsStay, Zenon DEF IInv
<1>16. QED
  BY <1>1, <1>2, <1>3, <1>5, <1>6, <1>8, <1>9, <1>10, <1>12, <1>13, <1>14, <1>15, Turn, Zenon

(* A page that was fetched is reported only when nothing else is queued. *)
LEMMA PresentStep ==
  ASSUME IInv, AsyncPagePresent
  PROVE  IInv'
<1> DEFINE v == IF apf.enabled THEN kvm_multiple_exception(vcpu, "PF", FALSE) ELSE vcpu
<1>1. /\ run.pc = "apf" /\ vcpu' = [v EXCEPT !.apf_halted = FALSE, !.mp_state = "RUNNABLE"]
      /\ apf.enabled => kvm_can_do_async_pf(vcpu)
      /\ UNCHANGED << pic, run, lapic, sender, scenario, owed, sipi_due >>
  BY Zenon DEF AsyncPagePresent, kvm_arch_can_inject_async_page_present
<1>2. IsVcpu(vcpu) /\ IsThread(run) /\ owed \in SUBSET {"irq", "nmi"}  BY Zenon DEF IInv, Types
<1>3. Faults(vcpu, v)
  <2>1. CASE apf.enabled
    <3> DEFINE e == kvm_multiple_exception(vcpu, "PF", FALSE)
    <3>1. /\ IsVcpu(e) /\ e.entry = vcpu.entry /\ SameWindows(e, vcpu) /\ SameState(e, vcpu)
          /\ SameCpu(e, vcpu)
          /\ "EVENT" \in e.requests /\ vcpu.requests \subseteq e.requests
          /\ e.interrupt = vcpu.interrupt /\ e.nmi_injected = vcpu.nmi_injected
          /\ \/ e.pending /\ ~e.injected
             \/ e.pending = vcpu.pending /\ e.injected = vcpu.injected
      BY <1>2, ExceptionFacts, Zenon
    <3>2. ~Queued(vcpu)
      BY <1>1, <2>1, Zenon DEF kvm_can_do_async_pf, kvm_event_needs_reinjection, Queued
    <3>3. v = e  BY <2>1, Zenon
    <3> HIDE DEF v, e
    <3>4. Faults(vcpu, e)  BY <3>1, <3>2, Zenon DEF Faults, Queued, SameQueue
    <3>5. QED  BY <3>3, <3>4, Zenon
  <2>2. CASE ~apf.enabled
    BY <1>2, <2>2, Zenon DEF Faults, SameWindows, SameState, SameCpu, SameQueue
  <2>3. QED  BY <2>1, <2>2, Zenon
<1> HIDE DEF v
<1>4. /\ IsVcpu(vcpu') /\ vcpu'.entry = v.entry /\ vcpu'.requests = v.requests
      /\ SameQueue(vcpu', v) /\ SameCpu(vcpu', v) /\ SameWindows(vcpu', v)
      /\ vcpu'.mp_state = "RUNNABLE"
  BY <1>1, <1>3, Zenon DEF Faults, IsVcpu, SameQueue, SameCpu, SameWindows
<1>5. /\ vcpu.requests \subseteq vcpu'.requests /\ SameWindows(vcpu', vcpu) /\ SameCpu(vcpu', vcpu)
      /\ vcpu'.entry = vcpu.entry
      /\ \/ SameQueue(vcpu', vcpu)
         \/ /\ ~Queued(vcpu) /\ "EVENT" \in vcpu'.requests
            /\ vcpu'.pending /\ ~vcpu'.injected /\ ~vcpu'.interrupt /\ ~vcpu'.nmi_injected
  BY <1>3, <1>4, Zenon DEF Faults, SameQueue, SameCpu, SameWindows
<1>6. Queue(vcpu) /\ Entries(vcpu, run.pc)  BY <1>1, Zenon DEF IInv, Events
<1>7. Queue(vcpu)'
  <2>1. CASE SameQueue(vcpu', vcpu)
    BY <1>1, <1>5, <1>6, <2>1, Zenon
    DEF Queue, OneQueued, Legal, SameQueue, SameCpu, vmx_interrupt_allowed, vmx_nmi_allowed
  <2>2. CASE /\ ~Queued(vcpu) /\ vcpu'.pending /\ ~vcpu'.injected
             /\ ~vcpu'.interrupt /\ ~vcpu'.nmi_injected
    BY <1>1, <1>6, <2>2, Zenon DEF Queue, OneQueued, Legal, Queued
  <2>3. QED  BY <1>5, <2>1, <2>2, Zenon
<1>8. Entries(vcpu', run'.pc)  BY <1>1, <1>5, <1>6, Zenon DEF Entries, Queued, SameQueue
<1>9. /\ IsPic(pic') /\ IsLapic(lapic') /\ lapic'.pending_events = lapic.pending_events /\ Outputs'
      /\ kvm_cpu_has_interrupt' => kvm_cpu_has_interrupt
      /\ kvm_cpu_has_pending_timer2' => kvm_cpu_has_pending_timer2
  BY <1>1, ControllersStay, Zenon
<1>10. Windows'  BY <1>1, <1>5, <1>9, WindowsStay, Zenon DEF IInv
<1>11. Timers'  BY <1>1, <1>5, <1>9, TimersStay, Zenon DEF IInv
<1>12. Started'  BY <1>1, <1>4, <1>9, StartedStays, Zenon DEF IInv
<1>13. ~run.onq  BY <1>1, Zenon DEF IInv, Threads
<1>14. QED  BY <1>1, <1>2, <1>4, <1>7, <1>8, <1>9, <1>10, <1>11, <1>12, <1>13, Turn, Zenon

-----------------------------------------------------------------------------
(* kvm_vcpu_block *)

(* kvm_vcpu_check_block only adds a request. *)
LEMMA CheckedFacts ==
  ASSUME IsVcpu(vcpu), vcpu' = CheckedVcpu
  PROVE  /\ IsVcpu(vcpu') /\ vcpu'.entry = vcpu.entry /\ SameQueue(vcpu', vcpu)
         /\ SameCpu(vcpu', vcpu) /\ SameWindows(vcpu', vcpu) /\ vcpu'.mp_state = vcpu.mp_state
         /\ vcpu.requests \subseteq vcpu'.requests
<1>1. vcpu' = vcpu \/ vcpu' = kvm_make_request(vcpu, "UNHALT")  BY Zenon DEF CheckedVcpu
<1>2. QED
  BY <1>1, Zenon DEF IsVcpu, kvm_make_request, SameQueue, SameCpu, SameWindows

(* Halt polling preserves the invariant. *)
LEMMA HaltPollStep ==
  ASSUME IInv, HaltPoll
  PROVE  IInv'
<1>1. run.pc = "block" /\ UNCHANGED << pic, lapic, sender, scenario, owed, sipi_due >>
  BY Zenon DEF HaltPoll
<1>2. ~run.onq /\ IsThread(run) /\ IsVcpu(vcpu)  BY <1>1, Zenon DEF IInv, Threads, Types
<1>3. CASE vcpu' = CheckedVcpu /\ run' = [run EXCEPT !.pc = "blocked"]
  <2>1. IsThread(run') /\ run'.pc = "blocked" /\ ~run'.onq  BY <1>2, <1>3, Zenon DEF IsThread
  <2>2. QED  BY <1>1, <1>2, <1>3, <2>1, CheckedFacts, LoopTurn, Zenon
<1>4. CASE vcpu' = vcpu /\ run' = [run EXCEPT !.pc = "check", !.onq = TRUE]
  <2>1. IsThread(run') /\ run'.pc = "check"  BY <1>2, <1>4, Zenon DEF IsThread
  <2>2. QED  BY <1>1, <1>4, <2>1, LoopMoves, Zenon
<1>5. QED  BY <1>3, <1>4, Zenon DEF HaltPoll

(* The thread is on its wait queue when it looks the last time: nothing it *)
(* does not see then comes without a source that wakes it.                 *)
LEMMA CheckBlockStep ==
  ASSUME IInv, kvm_vcpu_check_block
  PROVE  IInv'
<1>1. run.pc = "check" /\ UNCHANGED << apf, pic, lapic, sender, scenario, owed, sipi_due >>
  BY Zenon DEF kvm_vcpu_check_block
<1>2. IsThread(run) /\ IsVcpu(vcpu)  BY Zenon DEF IInv, Types
<1>3. CASE EndsBlock
  <2>1. vcpu' = CheckedVcpu /\ run' = [run EXCEPT !.pc = "blocked", !.onq = FALSE]
    BY <1>3, Zenon DEF kvm_vcpu_check_block
  <2>2. IsThread(run') /\ run'.pc = "blocked" /\ ~run'.onq  BY <1>2, <2>1, Zenon DEF IsThread
  <2>3. QED  BY <1>1, <1>2, <2>1, <2>2, CheckedFacts, LoopTurn, Zenon
<1>4. CASE ~EndsBlock
  <2>1. UNCHANGED vcpu /\ run' = [run EXCEPT !.pc = "asleep"]
    BY <1>4, Zenon DEF kvm_vcpu_check_block
  <2>2. IsThread(run') /\ run'.pc = "asleep"  BY <1>2, <2>1, Zenon DEF IsThread
  <2>3. ~kvm_arch_vcpu_runnable' /\ ~kvm_cpu_has_pending_timer2'
    BY <1>1, <1>4, <2>1, Zenon
    DEF EndsBlock, kvm_arch_vcpu_runnable, kvm_vcpu_running, kvm_vcpu_has_events, bsp,
        kvm_cpu_has_interrupt, kvm_cpu_has_extint, kvm_apic_has_interrupt, kvm_cpu_has_pending_timer2
  <2>4. Types'  BY <1>1, <2>1, <2>2, Zenon DEF IInv, Types
  <2>5. Events'  BY <1>1, <2>1, <2>2, Zenon DEF IInv, Events, Queue, Entries
  <2>6. Outputs' /\ (kvm_cpu_has_interrupt' => kvm_cpu_has_interrupt)
    BY <1>1, ControllersStay, Zenon
  <2>7. Windows'  BY <1>1, <2>1, <2>6, WindowsStay, Zenon DEF IInv, SameWindows
  <2>8. Kicks' /\ Timers' /\ Sleeps'  BY <2>2, <2>3, Zenon DEF Kicks, Timers, Sleeps
  <2>9. Started' /\ Threads'
    BY <1>1, <2>1, <2>2, StartedStays, Zenon DEF IInv, Threads
  <2>10. QED  BY <2>4, <2>5, <2>6, <2>7, <2>8, <2>9, Zenon DEF IInv
<1>5. QED  BY <1>3, <1>4, Zenon

-----------------------------------------------------------------------------
(* kvm_apic_accept_events as part of a step *)

(* kvm_apic_accept_events takes every pending INIT and SIPI, and raises    *)
(* nothing.                                                                *)
LEMMA AcceptedLapic ==
  ASSUME IInv, AcceptEvents, UNCHANGED << pic, scenario >>
  PROVE  /\ IsLapic(lapic') /\ lapic'.pending_events = {}
         /\ kvm_cpu_has_interrupt' => kvm_cpu_has_interrupt
         /\ kvm_cpu_has_pending_timer2' => kvm_cpu_has_pending_timer2
<1>1. IsLapic(lapic)  BY Zenon DEF IInv, Types
<1>2. CASE "INIT" \in lapic.pending_events
  <2>1. lapic' = [kvm_lapic_reset(lapic) EXCEPT !.pending_events = {}]
    BY <1>2, Zenon DEF AcceptEvents
  <2>2. IsLapic(lapic') /\ lapic'.pending_events = {} /\ ~lapic'.irr /\ ~lapic'.lvtt
    BY <1>1, <2>1, Zenon DEF IsLapic, kvm_lapic_reset
  <2>3. QED
    BY <2>2, Zenon DEF kvm_cpu_has_interrupt, kvm_cpu_has_extint, kvm_apic_has_interrupt, bsp,
       kvm_cpu_has_pending_timer2
<1>3. CASE "INIT" \notin lapic.pending_events
  <2>1. lapic' = [lapic EXCEPT !.pending_events = {}]
    BY <1>3, Zenon DEF AcceptEvents
  <2>2. /\ IsLapic(lapic') /\ lapic'.pending_events = {} /\ lapic'.irr = lapic.irr
        /\ lapic'.isr = lapic.isr
        /\ lapic'.lvtt = lapic.lvtt /\ lapic'.timer_pending = lapic.timer_pending
    BY <1>1, <2>1, Zenon DEF IsLapic
  <2>3. QED
    BY <2>2, Zenon DEF kvm_cpu_has_interrupt, kvm_cpu_has_extint, kvm_apic_has_interrupt, bsp,
       kvm_cpu_has_pending_timer2
<1>4. QED  BY <1>2, <1>3, Zenon

(* A processor that got INIT and SIPI is started by it. *)
LEMMA AcceptedStarted ==
  ASSUME Started, NEW v, NEW w, AcceptsEvents(v, w), v.mp_state = vcpu.mp_state,
         vcpu'.mp_state \in {w.mp_state, "RUNNABLE"}, lapic'.pending_events = {},
         UNCHANGED << scenario, sipi_due >>
  PROVE  Started'
<1>1. bsp' = bsp  BY Zenon DEF bsp
<1> SUFFICES ASSUME sipi_due, ~bsp
             PROVE  vcpu'.mp_state \notin {"UNINITIALIZED", "INIT_RECEIVED"}
  BY <1>1, Zenon DEF Started
<1>2. w.mp_state = "RUNNABLE" \/ w.mp_state \notin {"UNINITIALIZED", "INIT_RECEIVED"}
  <2>1. CASE "INIT" \in lapic.pending_events
    BY <2>1, Zenon DEF Started, AcceptsEvents
  <2>2. CASE "INIT" \notin lapic.pending_events
    BY <2>2, Zenon DEF Started, AcceptsEvents
  <2>3. QED  BY <2>1, <2>2, Zenon
<1>3. QED  BY <1>2, Zenon

(* The thread takes the events that arrived at its local APIC; v is the    *)
(* vCPU before that, without the requests the step has consumed.           *)
LEMMA AcceptTurn ==
  ASSUME IInv, run.pc \notin {"inject", "take", "arm", "armed", "guest", "timer", "acked"},
         IsThread(run'), run'.pc \notin {"take", "arm", "armed", "guest", "asleep", "requests"},
         ~run'.onq,
         NEW v, IsVcpu(v), v.entry = "none", v.mp_state = vcpu.mp_state, OneQueued(v), Legal(v),
         v.interrupt <=> vcpu.interrupt, v.nmi_injected <=> vcpu.nmi_injected,
         "PENDING_TIMER" \in vcpu.requests => "PENDING_TIMER" \in v.requests,
         \/ run'.pc = "inject"
         \/ "INIT" \in lapic.pending_events
         \/ "EVENT" \in v.requests
         \/ ~Queued(v) /\ SameWindows(v, vcpu) /\ "EVENT" \notin vcpu.requests,
         \/ vcpu' = AcceptedVcpu(v)
         \/ vcpu' = [AcceptedVcpu(v) EXCEPT !.mp_state = "RUNNABLE", !.apf_halted = FALSE],
         AcceptEvents, UNCHANGED << pic, sender, scenario, sipi_due >>
  PROVE  IInv'
<1> DEFINE w == AcceptedVcpu(v)
<1>1. AcceptsEvents(v, w)  BY AcceptedFacts, Zenon
<1>2. vcpu' = w \/ vcpu' = [w EXCEPT !.mp_state = "RUNNABLE", !.apf_halted = FALSE]
  BY Zenon
<1> HIDE DEF w
<1>3. IsVcpu(w)  BY <1>1, Zenon DEF AcceptsEvents
<1>4. /\ IsVcpu(vcpu') /\ vcpu'.requests = w.requests /\ vcpu'.entry = w.entry
      /\ SameQueue(vcpu', w) /\ SameCpu(vcpu', w) /\ SameWindows(vcpu', w)
      /\ vcpu'.mp_state \in {w.mp_state, "RUNNABLE"}
  BY <1>2, <1>3, Zenon DEF IsVcpu, SameQueue, SameCpu, SameWindows
<1>5. /\ IsLapic(lapic') /\ lapic'.pending_events = {}
      /\ kvm_cpu_has_interrupt' => kvm_cpu_has_interrupt
      /\ kvm_cpu_has_pending_timer2' => kvm_cpu_has_pending_timer2
  BY AcceptedLapic, Zenon
<1>6. Started'  BY <1>1, <1>4, <1>5, AcceptedStarted, Zenon DEF IInv
<1>7. v.requests \subseteq vcpu'.requests  BY <1>1, <1>4, Zenon DEF AcceptsEvents
<1>8. Timers'  BY <1>5, <1>7, TimersStay, Zenon DEF IInv
<1>9. IsPic(pic') /\ Outputs'  BY OutputsStay, Zenon DEF IInv, Types
<1>10. Queue(vcpu) /\ owed \in SUBSET {"irq", "nmi"}  BY Zenon DEF IInv, Events, Types
<1>11. owed' = IF "INIT" \in lapic.pending_events THEN {} ELSE owed  BY Zenon DEF AcceptEvents
<1>12. CASE "INIT" \in lapic.pending_events
  <2>1. "EVENT" \in vcpu'.requests /\ Idle(vcpu') /\ vcpu'.entry = "none"
    BY <1>1, <1>4, <1>12, Zenon DEF AcceptsEvents, Idle, SameQueue
  <2>2. Queue(vcpu)'  BY <1>11, <1>12, <2>1, Zenon DEF Queue, OneQueued, Legal, Idle
  <2>3. Entries(vcpu', run'.pc)  BY <2>1, Zenon DEF Entries
  <2>4. Windows'  BY <1>5, <2>1, WindowsStay, Zenon DEF IInv
  <2>5. owed' \in SUBSET {"irq", "nmi"}  BY <1>11, <1>12, Zenon
  <2>6. QED  BY <1>4, <1>5, <1>6, <1>8, <1>9, <2>2, <2>3, <2>4, <2>5, Turn, Zenon
<1>13. CASE "INIT" \notin lapic.pending_events
  <2>1. /\ vcpu'.requests = v.requests /\ vcpu'.entry = v.entry
        /\ SameQueue(vcpu', v) /\ SameCpu(vcpu', v) /\ SameWindows(vcpu', v)
    <3>1. /\ w.requests = v.requests /\ w.entry = v.entry
          /\ SameQueue(w, v) /\ SameCpu(w, v) /\ SameWindows(w, v)
      BY <1>1, <1>13, Zenon DEF AcceptsEvents
    <3>2. QED  BY <1>4, <3>1, Zenon DEF SameQueue, SameCpu, SameWindows
  <2>2. Queue(vcpu)'
    BY <1>10, <1>11, <1>13, <2>1, Zenon
    DEF Queue, OneQueued, Legal, SameQueue, SameCpu, vmx_interrupt_allowed, vmx_nmi_allowed
  <2>3. Entries(vcpu', run'.pc)
    BY <1>13, <2>1, Zenon DEF Entries, Queued, SameQueue
  <2>4. Windows'
    <3>1. CASE run'.pc = "inject"  BY <3>1, Zenon DEF Windows
    <3>2. CASE "EVENT" \in v.requests  BY <1>5, <2>1, <3>2, WindowsStay, Zenon DEF IInv
    <3>3. CASE SameWindows(v, vcpu) /\ "EVENT" \notin vcpu.requests
      <4>1. SameWindows(vcpu', vcpu)  BY <2>1, <3>3, Zenon DEF SameWindows
      <4>2. QED  BY <1>5, <3>3, <4>1, WindowsStay, Zenon DEF IInv
    <3>4. QED  BY <1>13, <3>1, <3>2, <3>3, Zenon
  <2>5. owed' \in SUBSET {"irq", "nmi"}  BY <1>10, <1>11, <1>13, Zenon
  <2>6. QED  BY <1>4, <1>5, <1>6, <1>8, <1>9, <2>2, <2>3, <2>4, <2>5, Turn, Zenon
<1>14. QED  BY <1>12, <1>13, Zenon

(* The end of vcpu_block preserves the invariant. *)
LEMMA UnhaltStep ==
  ASSUME IInv, Unhalt
  PROVE  IInv'
<1>1. /\ run.pc = "unhalt" /\ run' = [run EXCEPT !.pc = "tail"] /\ AcceptEvents
      /\ UNCHANGED << pic, sender, scenario, sipi_due >>
      /\ \/ vcpu' = AcceptedVcpu(vcpu)
         \/ vcpu' = [AcceptedVcpu(vcpu) EXCEPT !.mp_state = "RUNNABLE", !.apf_halted = FALSE]
  BY Zenon DEF Unhalt
<1>2. IsThread(run') /\ run'.pc = "tail" /\ run'.onq = run.onq
  BY <1>1, Zenon DEF IInv, Types, IsThread
<1>3. ~run.onq /\ IsVcpu(vcpu)  BY <1>1, Zenon DEF IInv, Threads, Types
<1>4. Queue(vcpu) /\ Entries(vcpu, run.pc)  BY <1>1, Zenon DEF IInv, Events
<1>5. /\ OneQueued(vcpu) /\ Legal(vcpu) /\ vcpu.entry = "none" /\ SameWindows(vcpu, vcpu)
      /\ Queued(vcpu) => "EVENT" \in vcpu.requests
  BY <1>1, <1>4, Zenon DEF Queue, Entries, SameWindows
<1>6. QED  BY <1>1, <1>2, <1>3, <1>5, AcceptTurn, Zenon

(* A request that nothing waits for is dropped. *)
LEMMA Dropped ==
  ASSUME NEW v, IsVcpu(v), NEW r
  PROVE  LET w == [v EXCEPT !.requests = @ \ {r}]
         IN  /\ IsVcpu(w) /\ w.requests = v.requests \ {r} /\ w.entry = v.entry
             /\ SameQueue(w, v) /\ SameCpu(w, v) /\ SameWindows(w, v) /\ SameState(w, v)
  BY Zenon DEF IsVcpu, SameQueue, SameCpu, SameWindows, SameState

(* What follows kvm_vcpu_block preserves the invariant. *)
LEMMA AfterBlockStep ==
  ASSUME IInv, AfterBlock
  PROVE  IInv'
<1> DEFINE v == [vcpu EXCEPT !.requests = @ \ {"UNHALT"}]
<1>1. run.pc = "blocked" /\ UNCHANGED << pic, sender, scenario, sipi_due >>
  BY Zenon DEF AfterBlock
<1>2. ~run.onq /\ IsVcpu(vcpu) /\ IsThread(run)  BY <1>1, Zenon DEF IInv, Threads, Types
<1>3. /\ IsVcpu(v) /\ v.requests = vcpu.requests \ {"UNHALT"} /\ v.entry = vcpu.entry
      /\ SameQueue(v, vcpu) /\ SameCpu(v, vcpu) /\ SameWindows(v, vcpu) /\ SameState(v, vcpu)
  BY <1>2, Dropped, Zenon
<1>4. \/ /\ vcpu' = AcceptedVcpu(v) /\ AcceptEvents
         /\ run' = [run EXCEPT !.pc = "user", !.signal = FALSE]
      \/ /\ vcpu' = v /\ UNCHANGED << lapic, owed >>
         /\ run' = [run EXCEPT !.pc = IF "UNHALT" \in vcpu.requests THEN "unhalt" ELSE "tail"]
  BY Zenon DEF AfterBlock
<1> HIDE DEF v
<1>5. CASE /\ vcpu' = AcceptedVcpu(v) /\ AcceptEvents
           /\ run' = [run EXCEPT !.pc = "user", !.signal = FALSE]
  <2>1. IsThread(run') /\ run'.pc = "user" /\ ~run'.onq  BY <1>2, <1>5, Zenon DEF IsThread
  <2>2. Queue(vcpu) /\ Entries(vcpu, run.pc)  BY <1>1, Zenon DEF IInv, Events
  <2>3. OneQueued(v) /\ Legal(v)
    BY <1>3, <2>2, Zenon
    DEF Queue, OneQueued, Legal, SameQueue, SameCpu, vmx_interrupt_allowed, vmx_nmi_allowed
  <2>4. /\ v.entry = "none" /\ v.mp_state = vcpu.mp_state
        /\ v.interrupt <=> vcpu.interrupt
        /\ v.nmi_injected <=> vcpu.nmi_injected
        /\ "PENDING_TIMER" \in vcpu.requests => "PENDING_TIMER" \in v.requests
    BY <1>1, <1>3, <2>2, Zenon DEF Entries, SameQueue, SameState
  <2>5. "EVENT" \in v.requests \/ (~Queued(v) /\ "EVENT" \notin vcpu.requests)
    BY <1>1, <1>3, <2>2, Zenon DEF Entries, Queued, SameQueue
  <2>6. QED  BY <1>1, <1>3, <1>5, <2>1, <2>3, <2>4, <2>5, AcceptTurn, Zenon
<1>6. CASE /\ vcpu' = v /\ UNCHANGED << lapic, owed >>
           /\ run' = [run EXCEPT !.pc = IF "UNHALT" \in vcpu.requests THEN "unhalt" ELSE "tail"]
  <2>1. IsThread(run') /\ run'.pc \in {"unhalt", "tail"} /\ ~run'.onq
    BY <1>2, <1>6, Zenon DEF IsThread
  <2>2. QED  BY <1>1, <1>3, <1>6, <2>1, LoopTurn, Zenon DEF SameState
<1>7. QED  BY <1>4, <1>5, <1>6, Zenon

(* Events that were written back are queued as before, and asked for. *)
LEMMA SaveRestoreStep ==
  ASSUME IInv, SaveRestore
  PROVE  IInv'
<1> DEFINE v == SaveRestoreEvents(vcpu)
<1>1. /\ run.pc = "user" /\ vcpu' = AcceptedVcpu(v) /\ AcceptEvents
      /\ UNCHANGED << pic, run, sender, scenario, sipi_due >>
  BY Zenon DEF SaveRestore
<1>2. ~run.onq /\ IsVcpu(vcpu) /\ IsThread(run)  BY <1>1, Zenon DEF IInv, Threads, Types
<1>3. /\ IsVcpu(v) /\ v.entry = vcpu.entry /\ SameState(v, vcpu)
      /\ "EVENT" \in v.requests /\ vcpu.requests \subseteq v.requests
      /\ v.IF_flag = vcpu.IF_flag /\ v.sti = vcpu.sti /\ (v.nmi_mask => vcpu.nmi_mask)
      /\ ~v.pending /\ (v.injected <=> vcpu.injected \/ vcpu.pending)
      /\ v.interrupt = vcpu.interrupt /\ v.nmi_injected = vcpu.nmi_injected
  BY <1>2, SaveRestoreFacts, Zenon
<1> HIDE DEF v
<1>4. Queue(vcpu) /\ Entries(vcpu, run.pc)  BY <1>1, Zenon DEF IInv, Events
<1>5. OneQueued(v) /\ Legal(v)
  BY <1>3, <1>4, Zenon DEF Queue, OneQueued, Legal, vmx_interrupt_allowed, vmx_nmi_allowed
<1>6. v.entry = "none" /\ v.mp_state = vcpu.mp_state
  BY <1>1, <1>3, <1>4, Zenon DEF Entries, SameState
<1>7. QED  BY <1>1, <1>2, <1>3, <1>5, <1>6, AcceptTurn, Zenon

-----------------------------------------------------------------------------
(* vcpu_enter_guest *)

(* Handling the requests preserves the invariant. *)
LEMMA RequestsStep ==
  ASSUME IInv, ProcessRequests
  PROVE  IInv'
<1> DEFINE nmi == IF "NMI" \in vcpu.requests
                    THEN process_nmi([vcpu EXCEPT !.requests = @ \ {"NMI"}]) ELSE vcpu
           v == [nmi EXCEPT !.requests = @ \ {"EVENT"}]
<1>1. run.pc = "requests" /\ UNCHANGED << pic, sender, scenario, sipi_due >>
  BY Zenon DEF ProcessRequests
<1>2. ~run.onq /\ IsVcpu(vcpu) /\ IsThread(run) /\ vcpu.mp_state = "RUNNABLE"
  BY <1>1, Zenon DEF IInv, Threads, Types
<1>3. Queue(vcpu) /\ Entries(vcpu, run.pc)  BY <1>1, Zenon DEF IInv, Events
<1>4. vcpu.entry = "none" /\ (Queued(vcpu) => "EVENT" \in vcpu.requests)
  BY <1>1, <1>3, Zenon DEF Entries
<1>5. \/ /\ vcpu' = [vcpu EXCEPT !.requests = @ \ {"TRIPLE_FAULT"}]
         /\ run' = [run EXCEPT !.pc = "user"] /\ UNCHANGED << lapic, owed >>
      \/ /\ vcpu' = [vcpu EXCEPT !.requests = @ \ {"APF_HALT"}, !.apf_halted = TRUE]
         /\ run' = [run EXCEPT !.pc = "tail"] /\ UNCHANGED << lapic, owed >>
      \/ /\ vcpu' = AcceptedVcpu(v) /\ AcceptEvents
         /\ run' = [run EXCEPT !.pc = IF vcpu'.mp_state = "INIT_RECEIVED" THEN "tail" ELSE "inject"]
      \/ /\ "EVENT" \notin nmi.requests
         /\ run' = [run EXCEPT !.pc = "arm"] /\ UNCHANGED << vcpu, lapic, owed >>
  BY Zenon DEF ProcessRequests
<1>6. /\ IsVcpu(nmi) /\ nmi.entry = vcpu.entry /\ SameState(nmi, vcpu) /\ SameCpu(nmi, vcpu)
      /\ SameQueue(nmi, vcpu) /\ vcpu.requests \ {"NMI"} \subseteq nmi.requests
      /\ nmi = vcpu \/ "EVENT" \in nmi.requests
  <2> DEFINE u == [vcpu EXCEPT !.requests = @ \ {"NMI"}]
  <2>1. /\ IsVcpu(u) /\ u.requests = vcpu.requests \ {"NMI"} /\ u.entry = vcpu.entry
        /\ SameQueue(u, vcpu) /\ SameCpu(u, vcpu) /\ SameState(u, vcpu)
    BY <1>2, Dropped, Zenon
  <2>2. nmi = vcpu \/ nmi = process_nmi(u)  BY Zenon
  <2> HIDE DEF u, nmi
  <2>3. CASE nmi = vcpu  BY <1>2, <2>3, Zenon DEF SameQueue, SameCpu, SameState
  <2>4. CASE nmi = process_nmi(u)
    <3>1. /\ IsVcpu(nmi) /\ nmi.entry = u.entry /\ nmi.requests = u.requests \union {"EVENT"}
          /\ SameState(nmi, u) /\ SameCpu(nmi, u) /\ SameQueue(nmi, u)
      BY <2>1, <2>4, NmiFacts, Zenon
    <3>2. QED  BY <2>1, <3>1, Zenon DEF SameQueue, SameCpu, SameState
  <2>5. QED  BY <2>2, <2>3, <2>4, Zenon
<1> HIDE DEF nmi
<1>7. CASE /\ vcpu' = [vcpu EXCEPT !.requests = @ \ {"TRIPLE_FAULT"}]
           /\ run' = [run EXCEPT !.pc = "user"] /\ UNCHANGED << lapic, owed >>
  <2>1. IsThread(run') /\ run'.pc = "user" /\ ~run'.onq  BY <1>2, <1>7, Zenon DEF IsThread
  <2>2. /\ IsVcpu(vcpu') /\ vcpu'.requests = vcpu.requests \ {"TRIPLE_FAULT"}
        /\ vcpu'.entry = vcpu.entry /\ SameQueue(vcpu', vcpu) /\ SameCpu(vcpu', vcpu)
        /\ SameWindows(vcpu', vcpu) /\ SameState(vcpu', vcpu)
    BY <1>2, <1>7, Dropped, Zenon
  <2>3. QED  BY <1>1, <1>7, <2>1, <2>2, LoopTurn, Zenon DEF SameState
<1>8. CASE /\ vcpu' = [vcpu EXCEPT !.requests = @ \ {"APF_HALT"}, !.apf_halted = TRUE]
           /\ run' = [run EXCEPT !.pc = "tail"] /\ UNCHANGED << lapic, owed >>
  <2>1. IsThread(run') /\ run'.pc = "tail" /\ ~run'.onq  BY <1>2, <1>8, Zenon DEF IsThread
  <2>2. /\ IsVcpu(vcpu') /\ vcpu'.requests = vcpu.requests \ {"APF_HALT"}
        /\ vcpu'.entry = vcpu.entry /\ SameQueue(vcpu', vcpu) /\ SameCpu(vcpu', vcpu)
        /\ SameWindows(vcpu', vcpu) /\ vcpu'.mp_state = vcpu.mp_state
    BY <1>2, <1>8, Zenon DEF IsVcpu, SameQueue, SameCpu, SameWindows
  <2>3. QED  BY <1>1, <1>8, <2>1, <2>2, LoopTurn, Zenon
<1>9. CASE /\ vcpu' = AcceptedVcpu(v) /\ AcceptEvents
           /\ run' = [run EXCEPT !.pc = IF vcpu'.mp_state = "INIT_RECEIVED" THEN "tail" ELSE "inject"]
  <2>1. /\ IsVcpu(v) /\ v.requests = nmi.requests \ {"EVENT"} /\ v.entry = nmi.entry
        /\ SameQueue(v, nmi) /\ SameCpu(v, nmi) /\ SameState(v, nmi)
    BY <1>6, Dropped, Zenon
  <2> HIDE DEF v
  <2>2. /\ v.entry = "none" /\ v.mp_state = vcpu.mp_state /\ SameQueue(v, vcpu) /\ SameCpu(v, vcpu)
        /\ "PENDING_TIMER" \in vcpu.requests => "PENDING_TIMER" \in v.requests
    BY <1>4, <1>6, <2>1, Zenon DEF SameQueue, SameCpu, SameState
  <2>3. /\ OneQueued(v) /\ Legal(v)
        /\ v.interrupt <=> vcpu.interrupt
        /\ v.nmi_injected <=> vcpu.nmi_injected
    BY <1>3, <2>2, Zenon
    DEF Queue, OneQueued, Legal, SameQueue, SameCpu, vmx_interrupt_allowed, vmx_nmi_allowed
  <2>4. /\ IsThread(run') /\ run'.pc \in {"tail", "inject"} /\ ~run'.onq
        /\ run'.pc = "tail" => vcpu'.mp_state = "INIT_RECEIVED"
    BY <1>2, <1>9, Zenon DEF IsThread
  <2>5. run'.pc = "inject" \/ "INIT" \in lapic.pending_events
    BY <1>2, <1>9, <2>1, <2>2, <2>4, AcceptedFacts, Zenon DEF AcceptsEvents
  <2>6. QED  BY <1>1, <1>9, <2>1, <2>2, <2>3, <2>4, <2>5, AcceptTurn, Zenon
<1>10. CASE /\ "EVENT" \notin nmi.requests
            /\ run' = [run EXCEPT !.pc = "arm"] /\ UNCHANGED << vcpu, lapic, owed >>
  <2>1. nmi = vcpu /\ "EVENT" \notin vcpu.requests /\ ~Queued(vcpu)  BY <1>4, <1>6, <1>10, Zenon
  <2>2. IsThread(run') /\ run'.pc = "arm" /\ ~run'.onq  BY <1>2, <1>10, Zenon DEF IsThread
  <2>3. Queue(vcpu)'  BY <1>3, <1>10, Zenon DEF Queue
  <2>4. Entries(vcpu', run'.pc)  BY <1>4, <1>10, <2>1, <2>2, Zenon DEF Entries, EntryHolds, Queued
  <2>5. /\ IsPic(pic') /\ IsLapic(lapic') /\ lapic'.pending_events = lapic.pending_events /\ Outputs'
        /\ kvm_cpu_has_interrupt' => kvm_cpu_has_interrupt
        /\ kvm_cpu_has_pending_timer2' => kvm_cpu_has_pending_timer2
    BY <1>1, <1>10, ControllersStay, Zenon
  <2>6. Windows'  BY <1>1, <1>10, <2>5, WindowsStay, Zenon DEF IInv, SameWindows
  <2>7. Timers'  BY <1>1, <1>10, <2>5, TimersStay, Zenon DEF IInv
  <2>8. Started'  BY <1>1, <1>10, <2>5, StartedStays, Zenon DEF IInv
  <2>9. IsVcpu(vcpu') /\ owed' \in SUBSET {"irq", "nmi"}  BY <1>10, Zenon DEF IInv, Types
  <2>10. QED  BY <1>1, <2>2, <2>3, <2>4, <2>5, <2>6, <2>7, <2>8, <2>9, Turn, Zenon
<1>11. QED  BY <1>5, <1>7, <1>8, <1>9, <1>10, Zenon

(* A step up to the entry: what the controllers hold may be taken from     *)
(* them, but the other parts are as they were.                             *)
LEMMA EntryTurn ==
  ASSUME IInv, run.pc \in {"inject", "take", "arm"}, NEW pc \in {"take", "arm", "armed"},
         IsThread(run'), run'.pc = pc, run'.onq = run.onq,
         IsVcpu(vcpu'), IsLapic(lapic'), IsPic(pic'), owed' \in SUBSET {"irq", "nmi"},
         vcpu'.mp_state = vcpu.mp_state, lapic'.pending_events = lapic.pending_events,
         "PENDING_TIMER" \in vcpu.requests => "PENDING_TIMER" \in vcpu'.requests,
         kvm_cpu_has_pending_timer2' => kvm_cpu_has_pending_timer2,
         Queue(vcpu)', Entries(vcpu', pc), Windows', Outputs',
         UNCHANGED << sender, scenario, sipi_due >>
  PROVE  IInv'
<1>1. ~run.onq  BY Zenon DEF IInv, Threads
<1>2. Timers'  BY TimersStay, Zenon DEF IInv
<1>3. Started'  BY StartedStays, Zenon DEF IInv
<1>4. QED  BY <1>1, <1>2, <1>3, Turn, Zenon

(* inject_pending_event preserves the invariant. *)
LEMMA InjectStep ==
  ASSUME IInv, Inject
  PROVE  IInv'
<1> DEFINE v == inject_pending_event(vcpu)
           takes == LooksForInterrupt(vcpu) /\ kvm_cpu_has_interrupt /\ vmx_interrupt_allowed(v)
<1>1. /\ run.pc = "inject" /\ vcpu' = IF takes THEN v ELSE EnableWindows(v)
      /\ owed' = IF v.nmi_pending < vcpu.nmi_pending THEN owed \union {"nmi"} ELSE owed
      /\ run' = [run EXCEPT !.pc = IF takes THEN "take" ELSE "arm"]
      /\ UNCHANGED << pic, lapic, sender, scenario, sipi_due >>
  BY Zenon DEF Inject
<1>2. IsVcpu(vcpu) /\ IsThread(run) /\ owed \in SUBSET {"irq", "nmi"}  BY Zenon DEF IInv, Types
<1>3. Queue(vcpu) /\ Entries(vcpu, run.pc)  BY <1>1, Zenon DEF IInv, Events
<1>4. OneQueued(vcpu) /\ vcpu.entry = "none"  BY <1>1, <1>3, Zenon DEF Queue, Entries
<1>5. Injects(vcpu, v) /\ (LooksForInterrupt(vcpu) => ~Queued(v))
  BY <1>2, <1>4, InjectFacts, Zenon
<1>6. ~(vcpu.nmi_pending < vcpu.nmi_pending)  BY <1>2 DEF IsVcpu
<1> HIDE DEF v
<1>7. /\ v.interrupt <=> "irq" \in owed'
      /\ v.nmi_injected <=> "nmi" \in owed'
  <2>1. CASE v.nmi_pending = vcpu.nmi_pending /\ v.nmi_injected = vcpu.nmi_injected
    <3>1. owed' = owed  BY <1>1, <1>6, <2>1, Zenon
    <3>2. QED  BY <1>3, <1>5, <2>1, <3>1, Zenon DEF Queue, Injects
  <2>2. CASE v.nmi_pending < vcpu.nmi_pending /\ v.nmi_injected
    BY <1>1, <1>3, <1>5, <2>2, Zenon DEF Queue, Injects
  <2>3. QED  BY <1>5, <2>1, <2>2, Zenon DEF Injects
<1>8. OneQueued(v) /\ Legal(v)
  BY <1>3, <1>5, Zenon DEF Injects, Queue, Legal, SameCpu, vmx_interrupt_allowed, vmx_nmi_allowed
<1>9. owed' \in SUBSET {"irq", "nmi"}  BY <1>1, <1>2, Zenon
<1>10. IsVcpu(v) /\ EntryHolds(v) /\ v.requests = vcpu.requests /\ v.mp_state = vcpu.mp_state
  BY <1>5, Zenon DEF Injects, SameState
<1>11. /\ IsPic(pic') /\ IsLapic(lapic') /\ lapic'.pending_events = lapic.pending_events /\ Outputs'
       /\ kvm_cpu_has_interrupt' => kvm_cpu_has_interrupt
       /\ kvm_cpu_has_pending_timer2' => kvm_cpu_has_pending_timer2
  BY <1>1, ControllersStay, Zenon
<1>12. CASE takes
  <2>1. vcpu' = v /\ ~Queued(v) /\ vmx_interrupt_allowed(v)  BY <1>1, <1>5, <1>12, Zenon
  <2>2. IsThread(run') /\ run'.pc = "take" /\ run'.onq = run.onq
    BY <1>1, <1>2, <1>12, Zenon DEF IsThread
  <2> HIDE DEF takes
  <2>3. Queue(vcpu)'  BY <1>7, <1>8, <2>1, Zenon DEF Queue
  <2>4. Entries(vcpu', "take")
    BY <1>10, <2>1, Zenon DEF Entries, EntryHolds, Queued
  <2>5. Windows'  BY <2>2, Zenon DEF Windows
  <2>6. QED  BY <1>1, <1>9, <1>10, <1>11, <2>1, <2>2, <2>3, <2>4, <2>5, EntryTurn, Zenon
<1>13. CASE ~takes
  <2>1. vcpu' = EnableWindows(v)  BY <1>1, <1>13, Zenon
  <2>2. IsThread(run') /\ run'.pc = "arm" /\ run'.onq = run.onq
    BY <1>1, <1>2, <1>13, Zenon DEF IsThread
  <2> HIDE DEF takes
  <2>3. Opens(v, vcpu') /\ (kvm_cpu_has_interrupt => vcpu'.irq_window)
    BY <1>10, <2>1, WindowFacts, Zenon
  <2>4. Queue(vcpu)'
    BY <1>7, <1>8, <2>3, Zenon
    DEF Queue, Opens, OneQueued, Legal, SameQueue, SameCpu, vmx_interrupt_allowed, vmx_nmi_allowed
  <2>5. Entries(vcpu', "arm")  BY <1>10, <2>3, Zenon DEF Entries, EntryHolds, Opens, SameQueue
  <2>6. Windows'  BY <1>11, <2>3, Zenon DEF Windows, Opens
  <2>7. IsVcpu(vcpu') /\ vcpu'.mp_state = vcpu.mp_state /\ vcpu'.requests = vcpu.requests
    BY <1>10, <2>3, Zenon DEF Opens, SameState
  <2>8. QED  BY <1>1, <1>9, <1>11, <2>2, <2>4, <2>5, <2>6, <2>7, EntryTurn, Zenon
<1>14. QED  BY <1>12, <1>13, Zenon

(* Setting IN_GUEST_MODE preserves the invariant. *)
LEMMA GuestModeStep ==
  ASSUME IInv, SetGuestMode
  PROVE  IInv'
<1>1. /\ run.pc = "arm" /\ run' = [run EXCEPT !.mode = "IN_GUEST", !.pc = "armed"]
      /\ UNCHANGED << vcpu, apf, pic, lapic, sender, scenario, owed, sipi_due >>
  BY Zenon DEF SetGuestMode
<1>2. IsThread(run') /\ run'.pc = "armed" /\ run'.onq = run.onq
  BY <1>1, Zenon DEF IInv, Types, IsThread
<1>3. Queue(vcpu) /\ Entries(vcpu, run.pc)  BY <1>1, Zenon DEF IInv, Events
<1>4. Queue(vcpu)'  BY <1>1, <1>3, Zenon DEF Queue
<1>5. Entries(vcpu', "armed")  BY <1>1, <1>3, Zenon DEF Entries, EntryHolds
<1>6. /\ IsPic(pic') /\ IsLapic(lapic') /\ lapic'.pending_events = lapic.pending_events /\ Outputs'
      /\ kvm_cpu_has_interrupt' => kvm_cpu_has_interrupt
      /\ kvm_cpu_has_pending_timer2' => kvm_cpu_has_pending_timer2
  BY <1>1, ControllersStay, Zenon
<1>7. Windows'  BY <1>1, <1>6, WindowsStay, Zenon DEF IInv, SameWindows
<1>8. IsVcpu(vcpu') /\ owed' \in SUBSET {"irq", "nmi"}  BY <1>1, Zenon DEF IInv, Types
<1>9. QED  BY <1>1, <1>2, <1>4, <1>5, <1>6, <1>7, <1>8, EntryTurn, Zenon

(* The interrupt is taken from its controller and put in the entry. *)
LEMMA TakeStep ==
  ASSUME IInv, TakeInterrupt
  PROVE  IInv'
<1> DEFINE p == kvm_pic_read_irq(pic).pic
           taken == [vcpu EXCEPT !.interrupt = TRUE, !.entry = "irq"]
<1>1. /\ run.pc = "take" /\ run' = [run EXCEPT !.pc = "arm"] /\ owed' = owed \union {"irq"}
      /\ UNCHANGED << sender, scenario, sipi_due >>
  BY Zenon DEF TakeInterrupt
<1>2. /\ IsVcpu(vcpu) /\ IsThread(run) /\ owed \in SUBSET {"irq", "nmi"} /\ IsPic(pic)
      /\ IsLapic(lapic)
  BY Zenon DEF IInv, Types
<1>3. IsThread(run') /\ run'.pc = "arm" /\ run'.onq = run.onq  BY <1>1, <1>2, Zenon DEF IsThread
<1>4. Queue(vcpu) /\ Entries(vcpu, run.pc)  BY <1>1, Zenon DEF IInv, Events
<1>5. ~Queued(vcpu) /\ vmx_interrupt_allowed(vcpu)  BY <1>1, <1>4, Zenon DEF Entries
<1>6. owed' = {"irq"}
  <2>1. "irq" \notin owed /\ "nmi" \notin owed  BY <1>4, <1>5, Zenon DEF Queue, Queued
  <2>2. QED  BY <1>1, <1>2, <2>1
<1>7. /\ IsVcpu(taken) /\ taken.requests = vcpu.requests /\ taken.mp_state = vcpu.mp_state
      /\ SameCpu(taken, vcpu) /\ taken.interrupt /\ taken.entry = "irq"
      /\ taken.pending = vcpu.pending /\ taken.injected = vcpu.injected
      /\ taken.nmi_injected = vcpu.nmi_injected
  BY <1>2, Zenon DEF IsVcpu, SameCpu
<1>8. \/ /\ pic' = [p EXCEPT !.wakeup_needed = FALSE] /\ UNCHANGED lapic
         /\ vcpu' = LET v == IF p.wakeup_needed THEN kvm_make_request(taken, "EVENT") ELSE taken
                        w == IF v.nmi_pending > 0 THEN enable_nmi_window(v) ELSE v
                    IN  [w EXCEPT !.irq_window = @ \/ p.output \/ kvm_apic_has_interrupt]
      \/ /\ ~kvm_cpu_has_extint /\ UNCHANGED pic
         /\ lapic' = IF kvm_apic_has_interrupt THEN [lapic EXCEPT !.irr = FALSE, !.isr = TRUE] ELSE lapic
         /\ vcpu' = IF taken.nmi_pending > 0 THEN enable_nmi_window(taken) ELSE taken
  BY Zenon DEF TakeInterrupt
<1>9. IsPic(p) /\ ~p.stale /\ Output(p)  BY <1>2, ReadIrqFacts, Zenon
<1> HIDE DEF p, taken
(* What both ways leave to show: the vCPU w that goes on to the entry. *)
<1>10. ASSUME IsVcpu(vcpu'), taken.requests \subseteq vcpu'.requests, vcpu'.mp_state = taken.mp_state,
              SameQueue(vcpu', taken), SameCpu(vcpu', taken), vcpu'.entry = taken.entry,
              vcpu'.nmi_pending > 0 => vcpu'.nmi_window \/ vcpu'.irq_window,
              kvm_cpu_has_interrupt' => vcpu'.irq_window,
              IsPic(pic'), IsLapic(lapic'), Outputs', lapic'.pending_events = lapic.pending_events,
              kvm_cpu_has_pending_timer2' => kvm_cpu_has_pending_timer2
       PROVE  IInv'
  <2>1. /\ vcpu'.interrupt /\ ~vcpu'.pending /\ ~vcpu'.injected /\ ~vcpu'.nmi_injected
        /\ vmx_interrupt_allowed(vcpu')
    BY <1>5, <1>7, <1>10, Zenon DEF SameQueue, SameCpu, Queued, vmx_interrupt_allowed
  <2>2. Queue(vcpu)'  BY <1>6, <2>1, Zenon DEF Queue, OneQueued, Legal
  <2>3. Entries(vcpu', "arm")  BY <1>7, <1>10, <2>1, Zenon DEF Entries, EntryHolds
  <2>4. Windows'  BY <1>10, Zenon DEF Windows
  <2>5. owed' \in SUBSET {"irq", "nmi"}  BY <1>6, Zenon
  <2>6. QED  BY <1>1, <1>3, <1>7, <1>10, <2>2, <2>3, <2>4, <2>5, EntryTurn, Zenon
<1>11. CASE /\ pic' = [p EXCEPT !.wakeup_needed = FALSE] /\ UNCHANGED lapic
            /\ vcpu' = LET v == IF p.wakeup_needed THEN kvm_make_request(taken, "EVENT") ELSE taken
                           w == IF v.nmi_pending > 0 THEN enable_nmi_window(v) ELSE v
                       IN  [w EXCEPT !.irq_window = @ \/ p.output \/ kvm_apic_has_interrupt]
  <2> DEFINE v == IF p.wakeup_needed THEN kvm_make_request(taken, "EVENT") ELSE taken
             w == IF v.nmi_pending > 0 THEN enable_nmi_window(v) ELSE v
  <2>1. /\ IsVcpu(v) /\ taken.requests \subseteq v.requests /\ v.entry = taken.entry
        /\ SameQueue(v, taken) /\ SameCpu(v, taken) /\ v.mp_state = taken.mp_state
    BY <1>7, Zenon DEF IsVcpu, kvm_make_request, SameQueue, SameCpu
  <2>2. vcpu' = [w EXCEPT !.irq_window = @ \/ p.output \/ kvm_apic_has_interrupt]  BY <1>11, Zenon
  <2> HIDE DEF v
  <2>3. Opens(v, w)  BY <2>1, NmiWindowFacts, Zenon
  <2> HIDE DEF w
  <2>4. /\ IsVcpu(vcpu') /\ vcpu'.requests = v.requests /\ vcpu'.entry = v.entry
        /\ SameQueue(vcpu', v) /\ SameCpu(vcpu', v) /\ vcpu'.mp_state = v.mp_state
        /\ vcpu'.nmi_pending > 0 => vcpu'.nmi_window \/ vcpu'.irq_window
        /\ p.output \/ kvm_apic_has_interrupt => vcpu'.irq_window
    BY <2>2, <2>3, Zenon DEF Opens, IsVcpu, SameQueue, SameCpu, SameState
  <2>5. /\ IsPic(pic') /\ pic'.output = p.output /\ pic'.stale = p.stale
        /\ Output(pic)' <=> Output(p)
    BY <1>9, <1>11, Unlocked, Zenon
  <2>6. Outputs'  BY <1>9, <2>5, Zenon DEF Outputs
  <2>7. kvm_cpu_has_interrupt' => vcpu'.irq_window
    BY <1>11, <2>4, <2>5, Zenon DEF kvm_cpu_has_interrupt, kvm_cpu_has_extint, kvm_apic_has_interrupt
  <2>8. /\ IsLapic(lapic') /\ lapic'.pending_events = lapic.pending_events
        /\ kvm_cpu_has_pending_timer2' => kvm_cpu_has_pending_timer2
    BY <1>2, <1>11, Zenon DEF kvm_cpu_has_pending_timer2
  <2>9. SameQueue(vcpu', taken) /\ SameCpu(vcpu', taken)
    BY <2>1, <2>4, Zenon DEF SameQueue, SameCpu
  <2>10. QED  BY <1>10, <2>1, <2>4, <2>5, <2>6, <2>7, <2>8, <2>9, Zenon
<1>12. CASE /\ ~kvm_cpu_has_extint /\ UNCHANGED pic
            /\ lapic' = IF kvm_apic_has_interrupt THEN [lapic EXCEPT !.irr = FALSE, !.isr = TRUE] ELSE lapic
            /\ vcpu' = IF taken.nmi_pending > 0 THEN enable_nmi_window(taken) ELSE taken
  <2>1. Opens(taken, vcpu')  BY <1>7, <1>12, NmiWindowFacts, Zenon
  <2>2. /\ IsVcpu(vcpu') /\ vcpu'.requests = taken.requests /\ vcpu'.entry = taken.entry
        /\ SameQueue(vcpu', taken) /\ SameCpu(vcpu', taken) /\ vcpu'.mp_state = taken.mp_state
        /\ vcpu'.nmi_pending > 0 => vcpu'.nmi_window \/ vcpu'.irq_window
    BY <2>1, Zenon DEF Opens, SameState
  <2>3. /\ IsLapic(lapic') /\ lapic'.pending_events = lapic.pending_events
        /\ lapic'.lvtt = lapic.lvtt /\ lapic'.timer_pending = lapic.timer_pending
        /\ ~(lapic'.irr /\ ~lapic'.isr)
    BY <1>2, <1>12, Zenon DEF IsLapic, kvm_apic_has_interrupt
  <2>4. ~kvm_cpu_has_interrupt'
    BY <1>1, <1>12, <2>3, Zenon
    DEF kvm_cpu_has_interrupt, kvm_cpu_has_extint, kvm_apic_has_interrupt, bsp
  <2>5. kvm_cpu_has_pending_timer2' => kvm_cpu_has_pending_timer2
    BY <2>3, Zenon DEF kvm_cpu_has_pending_timer2
  <2>6. IsPic(pic') /\ Outputs'  BY <1>1, <1>2, <1>12, OutputsStay, Zenon DEF IInv
  <2>7. QED  BY <1>10, <2>2, <2>3, <2>4, <2>5, <2>6, Zenon
<1>13. QED  BY <1>8, <1>11, <1>12, Zenon

(* An entry that ends before the guest runs: what it held is queued again. *)
LEMMA EntryEnds ==
  ASSUME IInv, run.pc = "armed", NEW pc \in {"tail", "user"}, run' = Outside(pc),
         IsVcpu(vcpu'), vcpu'.entry = "none", SameWindows(vcpu', vcpu), vcpu'.mp_state = vcpu.mp_state,
         vcpu.requests \subseteq vcpu'.requests, Queued(vcpu') => "EVENT" \in vcpu'.requests,
         OneQueued(vcpu'), Legal(vcpu'),
         vcpu'.interrupt <=> vcpu.interrupt, vcpu'.nmi_injected <=> vcpu.nmi_injected,
         UNCHANGED << pic, lapic, sender, scenario, owed, sipi_due >>
  PROVE  IInv'
<1>1. IsThread(run') /\ run'.pc = pc /\ run'.onq = run.onq
  BY Zenon DEF IInv, Types, IsThread, Outside
<1>2. ~run.onq /\ Queue(vcpu)  BY Zenon DEF IInv, Threads, Events
<1>3. Queue(vcpu)'  BY <1>2, Zenon DEF Queue
<1>4. Entries(vcpu', run'.pc)  BY <1>1, Zenon DEF Entries
<1>5. /\ IsPic(pic') /\ IsLapic(lapic') /\ lapic'.pending_events = lapic.pending_events /\ Outputs'
      /\ kvm_cpu_has_interrupt' => kvm_cpu_has_interrupt
      /\ kvm_cpu_has_pending_timer2' => kvm_cpu_has_pending_timer2
  BY ControllersStay, Zenon
<1>6. Windows'  BY <1>5, WindowsStay, Zenon DEF IInv
<1>7. Timers'  BY <1>5, TimersStay, Zenon DEF IInv
<1>8. Started'  BY <1>5, StartedStays, Zenon DEF IInv
<1>9. owed' \in SUBSET {"irq", "nmi"}  BY Zenon DEF IInv, Types
<1>10. QED  BY <1>1, <1>2, <1>3, <1>4, <1>5, <1>6, <1>7, <1>8, <1>9, Turn, Zenon

(* What QueuesAgain says of an entry that held what the queues say. *)
LEMMA Again ==
  ASSUME IInv, run.pc = "armed", NEW v, NEW w, QueuesAgain(v, w, vcpu.entry),
         v.entry = "none", v.requests = vcpu.requests, SameWindows(v, vcpu), SameState(v, vcpu),
         v.IF_flag = vcpu.IF_flag, v.sti = vcpu.sti
  PROVE  /\ IsVcpu(w) /\ w.entry = "none" /\ SameWindows(w, vcpu) /\ SameState(w, vcpu)
         /\ vcpu.requests \subseteq w.requests
         /\ vcpu.entry # "none" => "EVENT" \in w.requests /\ Queued(w)
         /\ vcpu.entry = "none" => ~Queued(w)
         /\ ~w.pending /\ OneQueued(w) /\ Legal(w)
         /\ w.injected <=> vcpu.entry = "exception"
         /\ w.interrupt <=> vcpu.interrupt
         /\ w.nmi_injected <=> vcpu.nmi_injected
<1>1. EntryHolds(vcpu) /\ Legal(vcpu)  BY Zenon DEF IInv, Events, Queue, Entries
<1>2. /\ IsVcpu(w) /\ w.entry = "none" /\ SameWindows(w, vcpu) /\ SameState(w, vcpu)
      /\ vcpu.requests \subseteq w.requests
      /\ w.IF_flag = vcpu.IF_flag /\ w.sti = vcpu.sti
  BY Zenon DEF QueuesAgain, SameWindows, SameState
<1>3. /\ ~w.pending
      /\ w.injected <=> vcpu.entry = "exception"
      /\ w.interrupt <=> vcpu.entry = "irq"
      /\ w.nmi_injected <=> vcpu.entry = "nmi"
      /\ vcpu.entry # "none" => "EVENT" \in w.requests
      /\ vcpu.entry = "nmi" => ~w.nmi_mask
  BY Zenon DEF QueuesAgain
<1>4. OneQueued(w)  BY <1>3, Zenon DEF OneQueued
<1>5. Legal(w)
  BY <1>1, <1>2, <1>3, Zenon DEF Legal, EntryHolds, vmx_interrupt_allowed, vmx_nmi_allowed
<1>6. /\ vcpu.entry # "none" => Queued(w)
      /\ vcpu.entry = "none" => ~Queued(w)
  BY <1>1, <1>3, Zenon DEF EntryHolds, Queued
<1>7. QED  BY <1>1, <1>2, <1>3, <1>4, <1>5, <1>6, Zenon DEF EntryHolds

(* Giving up an entry preserves the invariant. *)
LEMMA CancelStep ==
  ASSUME IInv, CancelInjection
  PROVE  IInv'
<1> DEFINE v == [vcpu EXCEPT !.entry = "none"]
<1>1. /\ run.pc = "armed" /\ run' = Outside("tail")
      /\ vcpu' = __vmx_complete_interrupts(v, vcpu.entry)
      /\ UNCHANGED << pic, lapic, sender, scenario, owed, sipi_due >>
  BY Zenon DEF CancelInjection, vmx_cancel_injection
<1>2. vcpu.entry \in {"none", "nmi", "exception", "irq"}
  BY <1>1, Zenon DEF IInv, Events, Entries, EntryHolds
<1>3. /\ IsVcpu(v) /\ v.entry = "none" /\ v.requests = vcpu.requests /\ SameWindows(v, vcpu)
      /\ SameState(v, vcpu) /\ v.IF_flag = vcpu.IF_flag /\ v.sti = vcpu.sti
  BY Zenon DEF IInv, Types, IsVcpu, SameWindows, SameState
<1> HIDE DEF v
<1>4. QueuesAgain(v, vcpu', vcpu.entry)  BY <1>1, <1>2, <1>3, CompleteFacts, Zenon
<1>5. /\ IsVcpu(vcpu') /\ vcpu'.entry = "none" /\ SameWindows(vcpu', vcpu) /\ SameState(vcpu', vcpu)
      /\ vcpu.requests \subseteq vcpu'.requests
      /\ vcpu.entry # "none" => "EVENT" \in vcpu'.requests
      /\ vcpu.entry = "none" => ~Queued(vcpu')
      /\ OneQueued(vcpu') /\ Legal(vcpu')
      /\ vcpu'.interrupt <=> vcpu.interrupt
      /\ vcpu'.nmi_injected <=> vcpu.nmi_injected
  BY <1>1, <1>3, <1>4, Again, Zenon
<1>6. QED  BY <1>1, <1>5, EntryEnds, Zenon DEF SameState

(* The guest gets what the entry held, and nothing else was owed. *)
LEMMA EnterStep ==
  ASSUME IInv, EnterGuest
  PROVE  IInv'
<1>1. /\ run.pc = "armed" /\ vcpu.requests = {} /\ run' = [run EXCEPT !.pc = "guest"]
      /\ owed' = owed \ {vcpu.entry}
      /\ UNCHANGED << apf, pic, lapic, sender, scenario, sipi_due >>
  BY Zenon DEF EnterGuest, MustNotEnter
<1>2. /\ IsVcpu(vcpu') /\ vcpu'.requests = vcpu.requests /\ SameWindows(vcpu', vcpu)
      /\ vcpu'.mp_state = vcpu.mp_state /\ vcpu'.pending = vcpu.pending
  BY Zenon DEF EnterGuest, IInv, Types, IsVcpu, SameWindows
<1>3. IsThread(run') /\ run'.pc = "guest" /\ run'.onq = run.onq
  BY <1>1, Zenon DEF IInv, Types, IsThread
<1>4. ~run.onq /\ owed \in SUBSET {"irq", "nmi"}  BY <1>1, Zenon DEF IInv, Threads, Types
<1>5. owed' = {} /\ ~vcpu'.pending
  <2>1. Queue(vcpu) /\ EntryHolds(vcpu)  BY <1>1, Zenon DEF IInv, Events, Entries
  <2>2. /\ "irq" \in owed => vcpu.entry = "irq"
        /\ "nmi" \in owed => vcpu.entry = "nmi"
    BY <2>1, Zenon DEF Queue, EntryHolds
  <2>3. owed' = {}  BY <1>1, <1>4, <2>2, Zenon
  <2>4. QED  BY <1>2, <2>1, <2>3, Zenon DEF EntryHolds
<1>6. Events'  BY <1>3, <1>5, Zenon DEF Events, Entries
<1>7. /\ IsPic(pic') /\ IsLapic(lapic') /\ lapic'.pending_events = lapic.pending_events /\ Outputs'
      /\ kvm_cpu_has_interrupt' => kvm_cpu_has_interrupt
      /\ kvm_cpu_has_pending_timer2' => kvm_cpu_has_pending_timer2
  BY <1>1, ControllersStay, Zenon
<1>8. Windows'  BY <1>1, <1>2, <1>7, WindowsStay, Zenon DEF IInv
<1>9. Timers'  BY <1>1, <1>2, <1>7, TimersStay, Zenon DEF IInv
<1>10. Started'  BY <1>1, <1>2, <1>7, StartedStays, Zenon DEF IInv
<1>11. Kicks' /\ Sleeps'  BY <1>1, <1>2, <1>3, Zenon DEF Kicks, Sleeps
<1>12. Threads'  BY <1>1, <1>3, <1>4, Zenon DEF IInv, Threads
<1>13. Types'  BY <1>1, <1>2, <1>3, <1>5, <1>7, Zenon DEF IInv, Types
<1>14. QED  BY <1>6, <1>7, <1>8, <1>9, <1>10, <1>11, <1>12, <1>13, Zenon DEF IInv

(* A delivery that faulted is repeated, whatever the fault leads to. *)
LEMMA DeliveryStep ==
  ASSUME IInv, DeliveryFaults
  PROVE  IInv'
<1> DEFINE u == [vcpu EXCEPT !.nmi_mask = @ \/ vcpu.entry = "nmi"]
           x == vmx_recover_nmi_blocking([u EXCEPT !.entry = "none"])
           v == AfterExit(u, vcpu.entry)
<1>1. /\ run.pc = "armed" /\ vcpu.entry # "none"
      /\ UNCHANGED << pic, lapic, sender, scenario, owed, sipi_due >>
      /\ \/ \E gfn \in scenario.gfns : tdp_page_fault(v, gfn) /\ run' = Outside("tail")
         \/ vcpu' = v /\ run' = Outside("user")
         \/ /\ vcpu.entry = "exception" /\ run' = Outside("tail")
            /\ vcpu' = kvm_multiple_exception(v, "PF", FALSE)
  BY Zenon DEF DeliveryFaults
<1>2. vcpu.entry \in {"none", "nmi", "exception", "irq"}
  BY <1>1, Zenon DEF IInv, Events, Entries, EntryHolds
<1>3. /\ IsVcpu(x) /\ x.entry = "none" /\ x.requests = vcpu.requests /\ SameWindows(x, vcpu)
      /\ SameState(x, vcpu) /\ x.IF_flag = vcpu.IF_flag /\ x.sti = vcpu.sti
  BY Zenon DEF IInv, Types, IsVcpu, vmx_recover_nmi_blocking, SameWindows, SameState
<1>4. v = __vmx_complete_interrupts(x, vcpu.entry)  BY Zenon DEF AfterExit
<1> HIDE DEF x, v, u
<1>5. QueuesAgain(x, v, vcpu.entry)  BY <1>2, <1>3, <1>4, CompleteFacts, Zenon
<1>6. /\ IsVcpu(v) /\ v.entry = "none" /\ SameWindows(v, vcpu) /\ SameState(v, vcpu)
      /\ vcpu.requests \subseteq v.requests
      /\ "EVENT" \in v.requests /\ Queued(v)
      /\ ~v.pending /\ OneQueued(v) /\ Legal(v)
      /\ v.injected <=> vcpu.entry = "exception"
      /\ v.interrupt <=> vcpu.interrupt
      /\ v.nmi_injected <=> vcpu.nmi_injected
  BY <1>1, <1>3, <1>5, Again, Zenon
<1>7. CASE \E gfn \in scenario.gfns : tdp_page_fault(v, gfn) /\ run' = Outside("tail")
  <2>1. Faults(v, vcpu')  BY <1>6, <1>7, TdpFacts, Zenon
  <2>2. /\ IsVcpu(vcpu') /\ vcpu'.entry = v.entry /\ SameWindows(vcpu', v) /\ SameState(vcpu', v)
        /\ SameCpu(vcpu', v) /\ v.requests \subseteq vcpu'.requests /\ SameQueue(vcpu', v)
    BY <1>6, <2>1, Zenon DEF Faults
  <2>3. OneQueued(vcpu') /\ Legal(vcpu')
    BY <1>6, <2>2, Zenon
    DEF OneQueued, Legal, SameQueue, SameCpu, vmx_interrupt_allowed, vmx_nmi_allowed
  <2>4. /\ vcpu'.entry = "none" /\ SameWindows(vcpu', vcpu) /\ vcpu'.mp_state = vcpu.mp_state
        /\ vcpu.requests \subseteq vcpu'.requests /\ "EVENT" \in vcpu'.requests
        /\ vcpu'.interrupt <=> vcpu.interrupt
        /\ vcpu'.nmi_injected <=> vcpu.nmi_injected
    BY <1>6, <2>2, Zenon DEF SameWindows, SameState, SameQueue
  <2>5. QED  BY <1>1, <1>7, <2>2, <2>3, <2>4, EntryEnds, Zenon
<1>8. CASE vcpu' = v /\ run' = Outside("user")
  BY <1>1, <1>6, <1>8, EntryEnds, Zenon DEF SameState
<1>9. CASE /\ vcpu.entry = "exception" /\ run' = Outside("tail")
           /\ vcpu' = kvm_multiple_exception(v, "PF", FALSE)
  <2>1. /\ IsVcpu(vcpu') /\ vcpu'.entry = v.entry /\ SameWindows(vcpu', v) /\ SameState(vcpu', v)
        /\ "EVENT" \in vcpu'.requests /\ v.requests \subseteq vcpu'.requests
        /\ vcpu'.interrupt = v.interrupt /\ vcpu'.nmi_injected = v.nmi_injected
        /\ \/ vcpu'.pending /\ ~vcpu'.injected
           \/ vcpu'.pending = v.pending /\ vcpu'.injected = v.injected
    BY <1>6, <1>9, ExceptionFacts, Zenon
  <2>2. OneQueued(vcpu') /\ Legal(vcpu')
    BY <1>6, <1>9, <2>1, Zenon DEF OneQueued, Legal
  <2>3. /\ vcpu'.entry = "none" /\ SameWindows(vcpu', vcpu) /\ vcpu'.mp_state = vcpu.mp_state
        /\ vcpu.requests \subseteq vcpu'.requests
        /\ vcpu'.interrupt <=> vcpu.interrupt
        /\ vcpu'.nmi_injected <=> vcpu.nmi_injected
    BY <1>6, <2>1, Zenon DEF SameWindows, SameState
  <2>4. QED  BY <1>1, <1>9, <2>1, <2>2, <2>3, EntryEnds, Zenon
<1>10. QED  BY <1>1, <1>7, <1>8, <1>9, Zenon

-----------------------------------------------------------------------------
(* The sources *)

(* One source moves and the others stay. *)
LEMMA SenderMoves ==
  ASSUME IInv, NEW s \in Sources, NEW x \in {"idle", "request", "wake", "kick"},
         sender' = [sender EXCEPT ![s] = x]
  PROVE  /\ sender' \in [Sources -> {"idle", "request", "wake", "kick"}]
         /\ sender'[s] = x
         /\ \A t \in Sources : t # s => sender'[t] = sender[t]
<1>1. sender \in [Sources -> {"idle", "request", "wake", "kick"}]  BY Zenon DEF IInv, Types
<1>2. QED  BY <1>1

(* A source never touches the queues; it may add a request. *)
LEMMA SourceTurn ==
  ASSUME IInv, IsVcpu(vcpu'), IsThread(run'), IsLapic(lapic'), IsPic(pic'),
         sender' \in [Sources -> {"idle", "request", "wake", "kick"}],
         sender'["apf"] \in {"idle", "wake"},
         run'.pc = run.pc, run'.onq => run.onq,
         vcpu'.entry = vcpu.entry, SameQueue(vcpu', vcpu), SameCpu(vcpu', vcpu),
         vcpu'.mp_state = vcpu.mp_state, vcpu.requests \subseteq vcpu'.requests,
         UNCHANGED owed, Windows', Kicks', Timers', Sleeps', Started', Outputs'
  PROVE  IInv'
<1>1. Types'  BY Zenon DEF IInv, Types
<1>2. Events'
  <2>1. CASE run.pc = "guest"  BY <2>1, Zenon DEF IInv, Events, Entries, SameQueue
  <2>2. CASE run.pc # "guest"
    <3>1. Queue(vcpu) /\ Entries(vcpu, run.pc)  BY <2>2, Zenon DEF IInv, Events
    <3>2. Queue(vcpu)'
      BY <3>1, Zenon
      DEF Queue, OneQueued, Legal, SameQueue, SameCpu, vmx_interrupt_allowed, vmx_nmi_allowed
    <3>3. EntryHolds(vcpu) => EntryHolds(vcpu')  BY Zenon DEF EntryHolds, SameQueue
    <3>4. Queued(vcpu') => Queued(vcpu)  BY Zenon DEF Queued, SameQueue
    <3>5. vmx_interrupt_allowed(vcpu) => vmx_interrupt_allowed(vcpu')
      BY Zenon DEF SameCpu, vmx_interrupt_allowed
    <3>6. Entries(vcpu', run'.pc)  BY <2>2, <3>1, <3>3, <3>4, <3>5, Zenon DEF Entries
    <3>7. QED  BY <2>2, <3>2, <3>6, Zenon DEF Events
  <2>3. QED  BY <2>1, <2>2, Zenon
<1>3. Threads'  BY Zenon DEF IInv, Threads
<1>4. QED  BY <1>1, <1>2, <1>3, Zenon DEF IInv

(* The vCPU as a source leaves it that adds no request. *)
LEMMA SameVcpu ==
  ASSUME IInv, UNCHANGED vcpu
  PROVE  /\ IsVcpu(vcpu') /\ vcpu'.entry = vcpu.entry /\ SameQueue(vcpu', vcpu)
         /\ SameCpu(vcpu', vcpu) /\ SameWindows(vcpu', vcpu) /\ vcpu'.mp_state = vcpu.mp_state
         /\ vcpu'.requests = vcpu.requests
  BY Zenon DEF IInv, Types, SameQueue, SameCpu, SameWindows

(* A device that moves its line preserves the invariant. *)
LEMMA LineStep ==
  ASSUME IInv, NEW pin \in Pins, DevSetsLine(pin)
  PROVE  IInv'
<1> DEFINE p == kvm_pic_set_irq(pic, pin, Input(pin) \notin pic.chip[Chip(pin)].last_irr)
           x == IF p.wakeup_needed /\ bsp THEN "request" ELSE "idle"
<1>1. /\ sender["dev"] = "idle" /\ pic' = [p EXCEPT !.wakeup_needed = FALSE]
      /\ sender' = [sender EXCEPT !["dev"] = x]
      /\ UNCHANGED << vcpu, apf, run, lapic, scenario, owed, sipi_due >>
  BY Zenon DEF DevSetsLine
<1>2. Updates(pic, p)  BY SetIrqFacts, Zenon DEF IInv, Types
<1> HIDE DEF p
<1>3. /\ IsPic(pic') /\ pic'.output = p.output /\ pic'.stale = p.stale
      /\ Output(pic)' <=> Output(p)
  BY <1>1, <1>2, Unlocked, Zenon DEF Updates
<1>4. Outputs'  BY <1>2, <1>3, Zenon DEF Updates, Outputs
<1>5. "dev" \in Sources /\ "apf" \in Sources /\ "ipi" \in Sources  BY Zenon DEF Sources
<1>6. x \in {"idle", "request", "wake", "kick"}  BY Zenon
<1>7. p.wakeup_needed /\ bsp => x = "request"  BY Zenon
<1> HIDE DEF x
<1>8. /\ sender' \in [Sources -> {"idle", "request", "wake", "kick"}]
      /\ sender'["dev"] = x
      /\ \A t \in Sources : t # "dev" => sender'[t] = sender[t]
  BY <1>1, <1>5, <1>6, SenderMoves, Zenon
<1>9. kvm_cpu_has_interrupt' => kvm_cpu_has_interrupt \/ sender'["dev"] = "request"
  BY <1>1, <1>2, <1>3, <1>7, <1>8, Zenon
  DEF Updates, kvm_cpu_has_interrupt, kvm_cpu_has_extint, kvm_apic_has_interrupt, bsp
<1>10. sender'["apf"] = sender["apf"] /\ sender'["ipi"] = sender["ipi"]  BY <1>5, <1>8, Zenon
<1>11. Windows'
  BY <1>1, <1>9, <1>10, Zenon DEF IInv, Windows
<1>12. Kicks'
  BY <1>1, <1>8, Zenon DEF IInv, Kicks
<1>13. kvm_arch_vcpu_runnable' => kvm_arch_vcpu_runnable \/ sender'["dev"] = "request"
  BY <1>1, <1>9, Zenon DEF kvm_arch_vcpu_runnable, kvm_vcpu_running, kvm_vcpu_has_events
<1>14. kvm_cpu_has_pending_timer2' => kvm_cpu_has_pending_timer2
  BY <1>1, Zenon DEF kvm_cpu_has_pending_timer2
<1>15. Sleeps'
  <2> SUFFICES ASSUME run'.pc = "asleep", run'.onq,
                      (kvm_arch_vcpu_runnable \/ kvm_cpu_has_pending_timer2)'
               PROVE  \E s \in Sources : sender'[s] \in {"request", "wake"}
    BY Zenon DEF Sleeps
  <2>1. CASE sender'["dev"] = "request"  BY <1>5, <2>1, Zenon
  <2>2. CASE kvm_arch_vcpu_runnable \/ kvm_cpu_has_pending_timer2
    <3>1. PICK s \in Sources : sender[s] \in {"request", "wake"}
      BY <1>1, <2>2, Zenon DEF IInv, Sleeps
    <3>2. s # "dev"  BY <1>1, <3>1, Zenon
    <3>3. QED  BY <1>8, <3>1, <3>2, Zenon
  <2>3. QED  BY <1>13, <1>14, <2>1, <2>2, Zenon
<1>16. Timers' /\ Started'
  BY <1>1, <1>14, StartedStays, Zenon DEF IInv, Timers
<1>17. IsThread(run') /\ IsLapic(lapic') /\ sender["apf"] \in {"idle", "wake"}
  BY <1>1, Zenon DEF IInv, Types, Threads
<1>18. QED
  BY <1>1, <1>3, <1>4, <1>8, <1>10, <1>11, <1>12, <1>15, <1>16, <1>17, SameVcpu, SourceTurn, Zenon

(* What the controllers say while a source moves that does not use them. *)
LEMMA SourceControllers ==
  ASSUME IInv, UNCHANGED << pic, scenario >>, run'.pc = run.pc
  PROVE  /\ IsPic(pic') /\ Outputs' /\ (kvm_cpu_has_extint' => kvm_cpu_has_extint)
         /\ UNCHANGED lapic => /\ IsLapic(lapic')
                               /\ kvm_cpu_has_interrupt' => kvm_cpu_has_interrupt
                               /\ kvm_cpu_has_pending_timer2' => kvm_cpu_has_pending_timer2
<1>1. IsPic(pic') /\ IsLapic(lapic)  BY Zenon DEF IInv, Types
<1>2. Outputs'  BY Zenon DEF IInv, Outputs, Output
<1>3. kvm_cpu_has_extint' => kvm_cpu_has_extint  BY Zenon DEF kvm_cpu_has_extint, bsp
<1>4. UNCHANGED lapic => (kvm_cpu_has_interrupt' => kvm_cpu_has_interrupt)
  BY <1>3, Zenon DEF kvm_cpu_has_interrupt, kvm_apic_has_interrupt
<1>5. UNCHANGED lapic => (kvm_cpu_has_pending_timer2' => kvm_cpu_has_pending_timer2)
  BY Zenon DEF kvm_cpu_has_pending_timer2
<1>6. QED  BY <1>1, <1>2, <1>3, <1>4, <1>5, Zenon

(* Queueing an NMI preserves the invariant. *)
LEMMA NmiStep ==
  ASSUME IInv, kvm_inject_nmi
  PROVE  IInv'
<1>1. /\ sender["nmi"] = "idle" /\ sender' = [sender EXCEPT !["nmi"] = "request"]
      /\ vcpu' = [vcpu EXCEPT !.nmi_queued = @ + 1]
      /\ UNCHANGED << apf, pic, run, lapic, scenario, owed, sipi_due >>
  BY Zenon DEF kvm_inject_nmi
<1>2. vcpu.nmi_queued + 1 \in Nat  BY DEF IInv, Types, IsVcpu
<1>3. /\ IsVcpu(vcpu') /\ vcpu'.entry = vcpu.entry /\ SameQueue(vcpu', vcpu)
      /\ SameCpu(vcpu', vcpu) /\ SameWindows(vcpu', vcpu) /\ vcpu'.mp_state = vcpu.mp_state
      /\ vcpu'.requests = vcpu.requests
  BY <1>1, <1>2, Zenon DEF IInv, Types, IsVcpu, SameQueue, SameCpu, SameWindows
<1>4. "dev" \in Sources /\ "apf" \in Sources /\ "ipi" \in Sources /\ "nmi" \in Sources
  BY Zenon DEF Sources
<1>5. /\ sender' \in [Sources -> {"idle", "request", "wake", "kick"}]
      /\ sender'["nmi"] = "request"
      /\ \A t \in Sources : t # "nmi" => sender'[t] = sender[t]
  BY <1>1, <1>4, SenderMoves, Zenon
<1>6. /\ sender'["apf"] = sender["apf"] /\ sender'["ipi"] = sender["ipi"]
      /\ sender'["dev"] = sender["dev"]
  BY <1>4, <1>5, Zenon
<1>7. /\ IsPic(pic') /\ Outputs' /\ IsLapic(lapic')
      /\ kvm_cpu_has_interrupt' => kvm_cpu_has_interrupt
      /\ kvm_cpu_has_pending_timer2' => kvm_cpu_has_pending_timer2
  BY <1>1, SourceControllers, Zenon
<1>8. Windows'  BY <1>1, <1>3, <1>6, <1>7, Zenon DEF IInv, Windows, SameWindows
<1>9. Kicks'  BY <1>1, <1>3, <1>5, Zenon DEF IInv, Kicks
<1>10. Sleeps'  BY <1>4, <1>5, Zenon DEF Sleeps
<1>11. Timers' /\ Started'
  BY <1>1, <1>3, <1>7, StartedStays, Zenon DEF IInv, Timers
<1>12. IsThread(run') /\ sender["apf"] \in {"idle", "wake"}
  BY <1>1, Zenon DEF IInv, Types, Threads
<1>13. QED
  BY <1>1, <1>3, <1>5, <1>6, <1>7, <1>8, <1>9, <1>10, <1>11, <1>12, SourceTurn, Zenon

(* Accepting an IPI preserves the invariant. *)
LEMMA IpiStep ==
  ASSUME IInv, NEW mode \in {"INIT", "STARTUP", "FIXED"}, __apic_accept_irq(mode)
  PROVE  IInv'
<1>1. /\ sender["ipi"] = "idle" /\ sender' = [sender EXCEPT !["ipi"] = "request"]
      /\ UNCHANGED << vcpu, apf, pic, run, scenario, owed >>
  BY Zenon DEF __apic_accept_irq
<1>2. "dev" \in Sources /\ "apf" \in Sources /\ "ipi" \in Sources  BY Zenon DEF Sources
<1>3. /\ sender' \in [Sources -> {"idle", "request", "wake", "kick"}]
      /\ sender'["ipi"] = "request"
      /\ \A t \in Sources : t # "ipi" => sender'[t] = sender[t]
  BY <1>1, <1>2, SenderMoves, Zenon
<1>4. IsPic(pic') /\ Outputs'  BY <1>1, SourceControllers, Zenon
<1>5. Windows'  BY <1>1, <1>3, Zenon DEF IInv, Windows
<1>6. Kicks'  BY <1>1, <1>3, Zenon DEF IInv, Kicks
<1>7. Sleeps'  BY <1>2, <1>3, Zenon DEF Sleeps
<1>8. /\ IsLapic(lapic') /\ lapic'.lvtt = lapic.lvtt /\ lapic'.timer_pending = lapic.timer_pending
      /\ mode = "STARTUP" => lapic'.pending_events = lapic.pending_events \union {"SIPI"}
      /\ mode = "FIXED" => lapic'.pending_events = lapic.pending_events
  <2>1. IsLapic(lapic)  BY Zenon DEF IInv, Types
  <2>2. CASE mode = "INIT"
    <3>1. lapic' = [lapic EXCEPT !.pending_events = {"INIT"}]
      BY <2>2, Zenon DEF __apic_accept_irq
    <3>2. QED  BY <2>1, <2>2, <3>1, Zenon DEF IsLapic
  <2>3. CASE mode = "STARTUP"
    <3>1. lapic' = [lapic EXCEPT !.pending_events = @ \union {"SIPI"}]
      BY <2>3, Zenon DEF __apic_accept_irq
    <3>2. QED  BY <2>1, <2>3, <3>1, Zenon DEF IsLapic
  <2>4. CASE mode = "FIXED"
    <3>1. lapic' = [lapic EXCEPT !.irr = TRUE]
      BY <2>4, Zenon DEF __apic_accept_irq
    <3>2. QED  BY <2>1, <2>4, <3>1, Zenon DEF IsLapic
  <2>5. QED  BY <2>2, <2>3, <2>4, Zenon
<1>9. Timers'  BY <1>1, <1>8, Zenon DEF IInv, Timers, kvm_cpu_has_pending_timer2
<1>10. Started'
  <2>0. bsp' = bsp  BY <1>1, Zenon DEF bsp
  <2>1. CASE mode = "INIT"
    <3>1. ~sipi_due'  BY <2>1, Zenon DEF __apic_accept_irq
    <3>2. QED  BY <3>1, Zenon DEF Started
  <2>2. CASE mode = "STARTUP"
    <3>1. sipi_due' <=> \/ sipi_due \/ "INIT" \in lapic.pending_events
                        \/ vcpu.mp_state = "INIT_RECEIVED"
      BY <2>2, Zenon DEF __apic_accept_irq
    <3>2. QED  BY <1>1, <1>8, <2>0, <2>2, <3>1, Zenon DEF IInv, Started
  <2>3. CASE mode = "FIXED"
    <3>1. sipi_due' = sipi_due  BY <2>3, Zenon DEF __apic_accept_irq
    <3>2. QED  BY <1>1, <1>8, <2>0, <2>3, <3>1, Zenon DEF IInv, Started
  <2>4. QED  BY <2>1, <2>2, <2>3, Zenon
<1>11. IsThread(run') /\ sender["apf"] \in {"idle", "wake"} /\ sender'["apf"] = sender["apf"]
  BY <1>1, <1>2, <1>3, Zenon DEF IInv, Types, Threads
<1>12. QED
  BY <1>1, <1>3, <1>4, <1>5, <1>6, <1>7, <1>8, <1>9, <1>10, <1>11, SameVcpu, SourceTurn, Zenon

(* A source's request preserves the invariant. *)
LEMMA RequestStep ==
  ASSUME IInv, NEW s \in Sources, SenderRequests(s)
  PROVE  IInv'
<1> DEFINE r == IF s = "nmi" THEN "NMI" ELSE "EVENT"
<1>1. /\ sender[s] = "request" /\ vcpu' = kvm_make_request(vcpu, r)
      /\ sender' = [sender EXCEPT ![s] = "wake"]
      /\ UNCHANGED << apf, pic, run, lapic, scenario, owed, sipi_due >>
  BY Zenon DEF SenderRequests
<1>2. s \in {"dev", "ipi"} => r = "EVENT"  BY Zenon
<1> HIDE DEF r
<1>3. /\ IsVcpu(vcpu') /\ vcpu'.requests = vcpu.requests \union {r} /\ vcpu'.entry = vcpu.entry
      /\ SameQueue(vcpu', vcpu) /\ SameCpu(vcpu', vcpu) /\ SameWindows(vcpu', vcpu)
      /\ SameState(vcpu', vcpu)
  BY <1>1, Requested, Zenon DEF IInv, Types
<1>4. /\ sender' \in [Sources -> {"idle", "request", "wake", "kick"}]
      /\ sender'[s] = "wake"
      /\ \A t \in Sources : t # s => sender'[t] = sender[t]
  BY <1>1, SenderMoves, Zenon
<1>5. sender["apf"] \in {"idle", "wake"} /\ IsThread(run')  BY <1>1, Zenon DEF IInv, Threads, Types
<1>6. s # "apf" /\ "apf" \in Sources /\ "dev" \in Sources /\ "ipi" \in Sources
  BY <1>1, <1>5, Zenon DEF Sources
<1>7. /\ IsPic(pic') /\ Outputs' /\ IsLapic(lapic')
      /\ kvm_cpu_has_interrupt' => kvm_cpu_has_interrupt
      /\ kvm_cpu_has_pending_timer2' => kvm_cpu_has_pending_timer2
  BY <1>1, SourceControllers, Zenon
<1>8. Windows'
  <2>1. CASE s \in {"dev", "ipi"}
    <3>1. "EVENT" \in vcpu'.requests  BY <1>2, <1>3, <2>1, Zenon
    <3>2. QED  BY <3>1, Zenon DEF Windows
  <2>2. CASE s \notin {"dev", "ipi"}
    <3>1. sender'["dev"] = sender["dev"] /\ sender'["ipi"] = sender["ipi"]
      BY <1>4, <1>6, <2>2, Zenon
    <3>2. QED  BY <1>1, <1>3, <1>7, <3>1, Zenon DEF IInv, Windows, SameWindows
  <2>3. QED  BY <2>1, <2>2, Zenon
<1>9. Kicks' /\ Sleeps'  BY <1>4, <1>6, Zenon DEF Kicks, Sleeps
<1>10. Timers' /\ Started'
  BY <1>1, <1>3, <1>7, StartedStays, Zenon DEF IInv, Timers, SameState
<1>11. sender'["apf"] = sender["apf"]  BY <1>4, <1>6, Zenon
<1>12. QED
  BY <1>1, <1>3, <1>4, <1>5, <1>7, <1>8, <1>9, <1>10, <1>11, SourceTurn, Zenon DEF SameState

(* A source's wakeup preserves the invariant. *)
LEMMA WakeUpStep ==
  ASSUME IInv, NEW s \in Sources, kvm_vcpu_wake_up(s)
  PROVE  IInv'
<1> DEFINE x == IF run.onq \/ s = "apf" THEN "idle" ELSE "kick"
<1>1. /\ sender[s] = "wake" /\ run' = [run EXCEPT !.onq = FALSE]
      /\ sender' = [sender EXCEPT ![s] = x]
      /\ UNCHANGED << vcpu, apf, pic, lapic, scenario, owed, sipi_due >>
  BY Zenon DEF kvm_vcpu_wake_up
<1>2. x \in {"idle", "request", "wake", "kick"}  BY Zenon
<1>3. ~run.onq /\ s # "apf" => x = "kick"  BY Zenon
<1>4. s = "apf" => x = "idle"  BY Zenon
<1> HIDE DEF x
<1>5. /\ sender' \in [Sources -> {"idle", "request", "wake", "kick"}]
      /\ sender'[s] = x
      /\ \A t \in Sources : t # s => sender'[t] = sender[t]
  BY <1>1, <1>2, SenderMoves, Zenon
<1>6. "apf" \in Sources /\ "dev" \in Sources /\ "ipi" \in Sources  BY Zenon DEF Sources
<1>7. sender'["apf"] \in {"idle", "wake"}
  BY <1>4, <1>5, <1>6, Zenon DEF IInv, Threads
<1>8. IsThread(run') /\ run'.pc = run.pc /\ ~run'.onq /\ run'.mode = run.mode
  BY <1>1, Zenon DEF IInv, Types, IsThread
<1>9. /\ IsPic(pic') /\ Outputs' /\ IsLapic(lapic')
      /\ kvm_cpu_has_interrupt' => kvm_cpu_has_interrupt
      /\ kvm_cpu_has_pending_timer2' => kvm_cpu_has_pending_timer2
  BY <1>1, <1>8, SourceControllers, Zenon
<1>10. Windows'
  <2>1. /\ sender["dev"] = "request" => sender'["dev"] = "request"
        /\ sender["ipi"] = "request" => sender'["ipi"] = "request"
    BY <1>1, <1>5, <1>6, Zenon
  <2>2. QED  BY <1>1, <1>8, <1>9, <2>1, Zenon DEF IInv, Windows
<1>11. Sleeps'  BY <1>8, Zenon DEF Sleeps
<1>12. Kicks'
  <2> SUFFICES ASSUME run.pc = "guest", run.mode = "IN_GUEST", vcpu.requests # {}
               PROVE  \E t \in Sources \ {"apf"} : sender'[t] \in {"wake", "kick"}
    BY <1>1, <1>8, Zenon DEF Kicks
  <2>1. ~run.onq  BY Zenon DEF IInv, Threads
  <2>2. PICK t \in Sources \ {"apf"} : sender[t] \in {"wake", "kick"}  BY Zenon DEF IInv, Kicks
  <2>3. CASE t = s  BY <1>3, <1>5, <2>1, <2>2, <2>3, Zenon
  <2>4. CASE t # s  BY <1>5, <2>2, <2>4, Zenon
  <2>5. QED  BY <2>3, <2>4, Zenon
<1>13. Timers' /\ Started'
  BY <1>1, <1>8, <1>9, StartedStays, Zenon DEF IInv, Timers
<1>14. QED
  BY <1>1, <1>5, <1>7, <1>8, <1>9, <1>10, <1>11, <1>12, <1>13, SameVcpu, SourceTurn, Zenon

(* A source's kick preserves the invariant. *)
LEMMA KickStep ==
  ASSUME IInv, NEW s \in Sources, kvm_vcpu_kick(s)
  PROVE  IInv'
<1>1. /\ sender[s] = "kick" /\ sender' = [sender EXCEPT ![s] = "idle"]
      /\ run' = IF run.mode = "IN_GUEST" THEN [run EXCEPT !.mode = "EXITING", !.ipi = TRUE] ELSE run
      /\ UNCHANGED << vcpu, apf, pic, lapic, scenario, owed, sipi_due >>
  BY Zenon DEF kvm_vcpu_kick
<1>2. /\ sender' \in [Sources -> {"idle", "request", "wake", "kick"}]
      /\ sender'[s] = "idle"
      /\ \A t \in Sources : t # s => sender'[t] = sender[t]
  BY <1>1, SenderMoves, Zenon
<1>3. "apf" \in Sources /\ "dev" \in Sources /\ "ipi" \in Sources  BY Zenon DEF Sources
<1>4. sender'["apf"] \in {"idle", "wake"}
  BY <1>2, <1>3, Zenon DEF IInv, Threads
<1>5. IsThread(run') /\ run'.pc = run.pc /\ run'.onq = run.onq /\ run'.mode # "IN_GUEST"
  BY <1>1, Zenon DEF IInv, Types, IsThread
<1>6. /\ IsPic(pic') /\ Outputs' /\ IsLapic(lapic')
      /\ kvm_cpu_has_interrupt' => kvm_cpu_has_interrupt
      /\ kvm_cpu_has_pending_timer2' => kvm_cpu_has_pending_timer2
  BY <1>1, <1>5, SourceControllers, Zenon
<1>7. Windows'
  <2>1. /\ sender["dev"] = "request" => sender'["dev"] = "request"
        /\ sender["ipi"] = "request" => sender'["ipi"] = "request"
    BY <1>1, <1>2, <1>3, Zenon
  <2>2. QED  BY <1>1, <1>5, <1>6, <2>1, Zenon DEF IInv, Windows
<1>8. Kicks'  BY <1>5, Zenon DEF Kicks
<1>9. Sleeps'
  <2>1. kvm_arch_vcpu_runnable' => kvm_arch_vcpu_runnable
    BY <1>1, <1>6, Zenon DEF kvm_arch_vcpu_runnable, kvm_vcpu_running, kvm_vcpu_has_events
  <2> SUFFICES ASSUME run.pc = "asleep", run.onq, kvm_arch_vcpu_runnable \/ kvm_cpu_has_pending_timer2
               PROVE  \E t \in Sources : sender'[t] \in {"request", "wake"}
    BY <1>5, <1>6, <2>1, Zenon DEF Sleeps
  <2>2. PICK t \in Sources : sender[t] \in {"request", "wake"}  BY Zenon DEF IInv, Sleeps
  <2>3. t # s  BY <1>1, <2>2, Zenon
  <2>4. QED  BY <1>2, <2>2, <2>3, Zenon
<1>10. Timers' /\ Started'
  BY <1>1, <1>5, <1>6, StartedStays, Zenon DEF IInv, Timers
<1>11. QED
  BY <1>1, <1>2, <1>4, <1>5, <1>6, <1>7, <1>8, <1>9, <1>10, SameVcpu, SourceTurn, Zenon

(* The expiry of the APIC timer preserves the invariant. *)
LEMMA TimerStep ==
  ASSUME IInv, apic_timer_expired
  PROVE  IInv'
<1>1. /\ run.pc \notin {"armed", "guest"} /\ lapic' = [lapic EXCEPT !.timer_pending = TRUE]
      /\ vcpu' = kvm_make_request(vcpu, "PENDING_TIMER") /\ run' = [run EXCEPT !.onq = FALSE]
      /\ UNCHANGED << apf, pic, sender, scenario, owed, sipi_due >>
  BY Zenon DEF apic_timer_expired
<1>2. /\ IsVcpu(vcpu') /\ vcpu'.requests = vcpu.requests \union {"PENDING_TIMER"}
      /\ vcpu'.entry = vcpu.entry
      /\ SameQueue(vcpu', vcpu) /\ SameCpu(vcpu', vcpu) /\ SameWindows(vcpu', vcpu)
      /\ SameState(vcpu', vcpu)
  BY <1>1, Requested, Zenon DEF IInv, Types
<1>3. IsThread(run') /\ run'.pc = run.pc /\ ~run'.onq
  BY <1>1, Zenon DEF IInv, Types, IsThread
<1>4. /\ IsLapic(lapic') /\ lapic'.irr = lapic.irr /\ lapic'.isr = lapic.isr
      /\ lapic'.pending_events = lapic.pending_events
  BY <1>1, Zenon DEF IInv, Types, IsLapic
<1>5. IsPic(pic') /\ Outputs' /\ (kvm_cpu_has_extint' => kvm_cpu_has_extint)
  BY <1>1, <1>3, SourceControllers, Zenon
<1>6. kvm_cpu_has_interrupt' => kvm_cpu_has_interrupt
  BY <1>4, <1>5, Zenon DEF kvm_cpu_has_interrupt, kvm_apic_has_interrupt
<1>7. Windows'  BY <1>1, <1>2, <1>3, <1>6, Zenon DEF IInv, Windows, SameWindows
<1>8. Timers' /\ Kicks' /\ Sleeps'  BY <1>1, <1>2, <1>3, Zenon DEF Timers, Kicks, Sleeps
<1>9. Started'  BY <1>1, <1>2, <1>4, StartedStays, Zenon DEF IInv, SameState
<1>10. /\ sender' \in [Sources -> {"idle", "request", "wake", "kick"}]
       /\ sender'["apf"] \in {"idle", "wake"}
  BY <1>1, Zenon DEF IInv, Types, Threads
<1>11. QED
  BY <1>1, <1>2, <1>3, <1>4, <1>5, <1>7, <1>8, <1>9, <1>10, SourceTurn, Zenon DEF SameState

(* A worker that has fetched a page preserves the invariant. *)
LEMMA FetchedStep ==
  ASSUME IInv, NEW gfn, Fetched(gfn)
  PROVE  IInv'
<1>1. /\ sender["apf"] = "idle" /\ sender' = [sender EXCEPT !["apf"] = "wake"]
      /\ UNCHANGED << vcpu, pic, run, lapic, scenario, owed, sipi_due >>
  BY Zenon DEF Fetched
<1>2. "apf" \in Sources /\ "dev" \in Sources /\ "ipi" \in Sources  BY Zenon DEF Sources
<1>3. /\ sender' \in [Sources -> {"idle", "request", "wake", "kick"}]
      /\ sender'["apf"] = "wake"
      /\ \A t \in Sources : t # "apf" => sender'[t] = sender[t]
  BY <1>1, <1>2, SenderMoves, Zenon
<1>4. /\ IsPic(pic') /\ Outputs' /\ IsLapic(lapic')
      /\ kvm_cpu_has_interrupt' => kvm_cpu_has_interrupt
      /\ kvm_cpu_has_pending_timer2' => kvm_cpu_has_pending_timer2
  BY <1>1, SourceControllers, Zenon
<1>5. sender'["dev"] = sender["dev"] /\ sender'["ipi"] = sender["ipi"]  BY <1>2, <1>3, Zenon
<1>6. Windows'  BY <1>1, <1>4, <1>5, Zenon DEF IInv, Windows
<1>7. Kicks'  BY <1>1, <1>3, Zenon DEF IInv, Kicks
<1>8. Sleeps'  BY <1>2, <1>3, Zenon DEF Sleeps
<1>9. Timers' /\ Started'
  BY <1>1, <1>4, StartedStays, Zenon DEF IInv, Timers
<1>10. IsThread(run')  BY <1>1, Zenon DEF IInv, Types
<1>11. QED
  BY <1>1, <1>3, <1>4, <1>6, <1>7, <1>8, <1>9, <1>10, SameVcpu, SourceTurn, Zenon

(* A step that changes only what the invariant does not look at. *)
LEMMA Unmoved ==
  ASSUME IInv, IsThread(run'), run'.pc = run.pc, run'.onq = run.onq, run'.mode = run.mode,
         UNCHANGED << vcpu, apf, pic, lapic, sender, scenario, owed, sipi_due >>
  PROVE  IInv'
<1>1. /\ IsPic(pic') /\ Outputs' /\ IsLapic(lapic')
      /\ kvm_cpu_has_interrupt' => kvm_cpu_has_interrupt
      /\ kvm_cpu_has_pending_timer2' => kvm_cpu_has_pending_timer2
  BY SourceControllers, Zenon
<1>2. Windows' /\ Kicks' /\ Timers'  BY <1>1, Zenon DEF IInv, Windows, Kicks, Timers
<1>3. kvm_arch_vcpu_runnable' => kvm_arch_vcpu_runnable
  BY <1>1, Zenon DEF kvm_arch_vcpu_runnable, kvm_vcpu_running, kvm_vcpu_has_events
<1>4. Sleeps'  BY <1>1, <1>3, Zenon DEF IInv, Sleeps
<1>5. Started'  BY StartedStays, Zenon DEF IInv
<1>6. /\ sender' \in [Sources -> {"idle", "request", "wake", "kick"}]
      /\ sender'["apf"] \in {"idle", "wake"}
  BY Zenon DEF IInv, Types, Threads
<1>7. QED  BY <1>1, <1>2, <1>4, <1>5, <1>6, SameVcpu, SourceTurn, Zenon

(* A signal preserves the invariant. *)
LEMMA SignalStep ==
  ASSUME IInv, Signal
  PROVE  IInv'
<1>1. /\ IsThread(run') /\ run'.pc = run.pc /\ run'.onq = run.onq /\ run'.mode = run.mode
      /\ UNCHANGED << vcpu, apf, pic, lapic, sender, scenario, owed, sipi_due >>
  BY Zenon DEF Signal, IInv, Types, IsThread
<1>2. QED  BY <1>1, Unmoved, Zenon

-----------------------------------------------------------------------------
(* The invariant and the properties *)

(* The invariant holds initially. *)
LEMMA Starts ==
  ASSUME Init
  PROVE  IInv
<1>0. 0 \in Nat /\ 0 \in 0 .. 7 /\ ~(0 > 0)  OBVIOUS
<1>1. /\ IsVcpu(vcpu) /\ ~Queued(vcpu) /\ vcpu.entry = "none" /\ vcpu.requests = {}
      /\ vcpu.nmi_pending = 0
  BY <1>0, Zenon DEF Init, VcpuAtReset, IsVcpu, Queued
<1>2. /\ IsThread(run) /\ run.pc = "user" /\ ~run.onq
  BY Zenon DEF Init, IsThread
<1>3. /\ IsLapic(lapic) /\ ~lapic.irr /\ ~lapic.timer_pending
  BY Zenon DEF Init, IsLapic
<1>4. /\ IsPic(pic) /\ ~pic.output /\ pic.chip[0].irr = {} /\ pic.chip[0].imr = {}
  BY <1>0 DEF Init, kvm_pic_init, IsPic, IsChip
<1>5. /\ sender = [s \in Sources |-> "idle"] /\ owed = {} /\ ~sipi_due  BY Zenon DEF Init
<1>6. sender \in [Sources -> {"idle", "request", "wake", "kick"}] /\ sender["apf"] = "idle"
  BY <1>5 DEF Sources
<1>7. Types  BY <1>1, <1>2, <1>3, <1>4, <1>5, <1>6, Zenon DEF Types
<1>8. Queue(vcpu)  BY <1>1, <1>5, Zenon DEF Queue, OneQueued, Legal, Queued
<1>9. Events  BY <1>1, <1>2, <1>8, Zenon DEF Events, Entries
<1>10. Windows
  BY <1>0, <1>1, <1>3, <1>4, Zenon
  DEF Windows, kvm_cpu_has_interrupt, kvm_cpu_has_extint, kvm_apic_has_interrupt
<1>11. Kicks /\ Sleeps /\ Started  BY <1>2, <1>5, Zenon DEF Kicks, Sleeps, Started
<1>12. Timers  BY <1>3, Zenon DEF Timers, kvm_cpu_has_pending_timer2
<1>13. Threads  BY <1>2, <1>6, Zenon DEF Threads
<1>14. Outputs
  <2> DEFINE c == pic.chip[0]
             found == {k \in 0 .. 7 : ((k + c.priority_add) % 8) \in c.irr \ c.imr}
  <2>1. found = {}  BY <1>4
  <2>2. get_priority(c, c.irr \ c.imr) = 8  BY <2>1, Zenon DEF get_priority
  <2>3. \A mask : get_priority(c, mask) \in 0 .. 8  BY PriorityType, Zenon
  <2>4. \A g \in 0 .. 8 : ~(8 < g)  OBVIOUS
  <2>5. pic_get_irq(pic, 0) = -1  BY <2>2, <2>3, <2>4, Zenon DEF pic_get_irq
  <2>6. ~(-1 >= 0)  OBVIOUS
  <2>7. QED  BY <1>4, <2>5, <2>6, Zenon DEF Outputs, Output
<1>15. QED  BY <1>7, <1>9, <1>10, <1>11, <1>12, <1>13, <1>14, Zenon DEF IInv

(* Every step keeps the invariant. *)
LEMMA Keeps ==
  ASSUME IInv, [Next]_vars
  PROVE  IInv'
<1>1. CASE Sources_Next
  BY <1>1, LineStep, NmiStep, IpiStep, RequestStep, WakeUpStep, KickStep, TimerStep, FetchedStep,
     SignalStep, Zenon DEF Sources_Next
<1>2. CASE Guest_Next
  BY <1>2, InterruptWindowStep, NmiWindowStep, ExternalExitStep, FlagsStep, HaltStep, LapicEoiStep,
     PortStep, PollStep, EptStep, ExceptionStep, MsrStep, Zenon DEF Guest_Next
<1>3. CASE Vcpu_Next
  BY <1>3, IoctlRunStep, RunStep, RequestsStep, InjectStep, TakeStep, GuestModeStep, CancelStep,
     EnterStep, DeliveryStep, EoiUpdateStep, ClearTimerStep, TimerIrqStep, PresentStep, LoopAgainStep,
     HaltPollStep, CheckBlockStep, WakesStep, AfterBlockStep, UnhaltStep, SaveRestoreStep, Zenon
  DEF Vcpu_Next
<1>4. CASE UNCHANGED vars
  <2>1. /\ IsThread(run') /\ run'.pc = run.pc /\ run'.onq = run.onq /\ run'.mode = run.mode
        /\ UNCHANGED << vcpu, apf, pic, lapic, sender, scenario, owed, sipi_due >>
    BY <1>4, Zenon DEF vars, IInv, Types
  <2>2. QED  BY <2>1, Unmoved, Zenon
<1>5. QED  BY <1>1, <1>2, <1>3, <1>4, Zenon DEF Next

(* The inductive invariant of the vCPU thread and its sources: what is     *)
(* queued was asked for, what waits has a window, a request or a source    *)
(* on its way, and a sleeper with a reason to run is about to be woken.    *)
THEOREM VcpuRunInvariant == Spec => []IInv
<1>1. Init => IInv  BY Starts
<1>2. IInv /\ [Next]_vars => IInv'  BY Keeps
<1>3. QED  BY <1>1, <1>2, PTL DEF Spec

(* kvm_vcpu_block against its wakers: for every set of scenarios, lines    *)
(* and port writes, a thread that sleeps while no source is on its way has *)
(* no reason to run.                                                       *)
THEOREM WakeupsAreKept == Spec => []NoWakeupIsLost
<1>1. IInv => NoWakeupIsLost
  <2> SUFFICES ASSUME IInv, run.pc = "asleep", run.onq, \A s \in Sources : sender[s] = "idle"
               PROVE  /\ sipi_due /\ ~bsp => vcpu.mp_state \notin {"UNINITIALIZED", "INIT_RECEIVED"}
                      /\ ~kvm_arch_vcpu_runnable /\ ~kvm_cpu_has_pending_timer2
                      /\ bsp /\ vmx_interrupt_allowed(vcpu) /\ ~pic.stale => pic_get_irq(pic, 0) < 0
    BY Zenon DEF NoWakeupIsLost, Quiet
  <2>1. ~kvm_arch_vcpu_runnable /\ ~kvm_cpu_has_pending_timer2  BY Zenon DEF IInv, Sleeps
  <2>2. sipi_due /\ ~bsp => vcpu.mp_state \notin {"UNINITIALIZED", "INIT_RECEIVED"}
    BY <2>1, Zenon DEF IInv, Started, kvm_arch_vcpu_runnable, kvm_vcpu_has_events
  <2>3. ASSUME bsp, vmx_interrupt_allowed(vcpu), ~pic.stale
        PROVE  pic_get_irq(pic, 0) < 0
    <3>1. Output(pic)  BY <2>3, Zenon DEF IInv, Outputs
    <3>2. ~(pic_get_irq(pic, 0) >= 0)
      BY <2>1, <2>3, <3>1, Zenon DEF Output, kvm_arch_vcpu_runnable, kvm_vcpu_has_events,
         kvm_cpu_has_interrupt, kvm_cpu_has_extint
    <3>3. pic_get_irq(pic, 0) \in -1 .. 7  BY GetIrqType, Zenon DEF IInv, Types, IsPic
    <3>4. QED  BY <3>2, <3>3
  <2>4. QED  BY <2>1, <2>2, <2>3, Zenon
<1>2. QED  BY <1>1, VcpuRunInvariant, PTL

(* vcpu_enter_guest's order of mode, requests and entry: the guest never   *)
(* runs on with a request, an expired timer or a waiting event that has no *)
(* window exit, while no kick is on its way.                               *)
THEOREM GuestIsUpToDate == Spec => []GuestRunsUpToDate
<1>1. IInv => GuestRunsUpToDate
  <2> SUFFICES ASSUME IInv, run.pc = "guest", run.mode = "IN_GUEST",
                      \A s \in Sources : sender[s] = "idle"
               PROVE  /\ vcpu.requests = {} /\ ~kvm_cpu_has_pending_timer2
                      /\ kvm_cpu_has_interrupt => vcpu.irq_window
                      /\ vcpu.nmi_pending > 0 => vcpu.nmi_window \/ vcpu.irq_window
    BY Zenon DEF GuestRunsUpToDate, Quiet
  <2>1. vcpu.requests = {}  BY Zenon DEF IInv, Kicks
  <2>2. ~kvm_cpu_has_pending_timer2  BY <2>1, Zenon DEF IInv, Timers
  <2>3. sender["dev"] = "idle" /\ sender["ipi"] = "idle"  BY Zenon DEF Sources
  <2>4. /\ kvm_cpu_has_interrupt => vcpu.irq_window
        /\ vcpu.nmi_pending > 0 => vcpu.nmi_window \/ vcpu.irq_window
    BY <2>1, <2>3, Zenon DEF IInv, Windows
  <2>5. QED  BY <2>1, <2>2, <2>4, Zenon
<1>2. QED  BY <1>1, VcpuRunInvariant, PTL

(* The queues of x86.c and the entry field of vmx.c: an interrupt or NMI   *)
(* that was taken from its source is delivered exactly once, through       *)
(* cancelled entries, faulted deliveries and save and restore, and never   *)
(* by an entry the CPU would refuse.                                       *)
THEOREM DeliveredExactlyOnce == Spec => []EventsAreDeliveredOnce
<1>1. IInv => EventsAreDeliveredOnce
  <2> SUFFICES ASSUME IInv  PROVE EventsAreDeliveredOnce
    OBVIOUS
  <2>1. CASE run.pc = "guest"
    <3>1. owed = {} /\ ~vcpu.pending  BY <2>1, Zenon DEF IInv, Events, Entries
    <3>2. QED  BY <2>1, <3>1, Zenon DEF EventsAreDeliveredOnce, EntryIsLegal
  <2>2. CASE run.pc # "guest"
    <3>1. Queue(vcpu) /\ Entries(vcpu, run.pc)  BY <2>2, Zenon DEF IInv, Events
    <3>2. run.pc = "armed" => /\ vcpu.entry = "irq" => vmx_interrupt_allowed(vcpu)
                              /\ vcpu.entry = "nmi" => vmx_nmi_allowed(vcpu)
      BY <3>1, Zenon DEF Queue, Legal, Entries, EntryHolds
    <3>3. run.pc \in {"take", "arm", "armed"} => ~vcpu.pending
      BY <3>1, Zenon DEF Entries, EntryHolds, Queued
    <3>4. QED
      BY <2>2, <3>1, <3>2, <3>3, Zenon DEF EventsAreDeliveredOnce, EntryIsLegal, Queue, OneQueued
  <2>3. QED  BY <2>1, <2>2, Zenon
<1>2. QED  BY <1>1, VcpuRunInvariant, PTL
=============================================================================
