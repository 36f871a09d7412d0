------------------------------ MODULE ExecSync ------------------------------
(***************************************************************************)
(* One fuzzer thread driving one QEMU-PT instance.                         *)
(*                                                                         *)
(* The fuzzer (qemu_process.rs, lib.rs) and QEMU (synchronization.c,       *)
(* hypercall.c, auxiliary_buffer.c, kvm-all.c, all in qemu_pt.patch) share *)
(* the payload, bitmap and auxiliary buffers without any lock.  What keeps *)
(* them apart is a handshake of single bytes over a socket: QEMU's vCPU    *)
(* thread sends a PING and blocks on a condition variable; the fuzzer      *)
(* reads the PING, looks at the result section of the auxiliary buffer and *)
(* sends a byte back; QEMU's I/O thread turns that byte into a signal.     *)
(*                                                                         *)
(* The vCPU thread is a small state machine (vpc) around KVM_RUN; the      *)
(* guest agent's position in the fuzzing protocol is gpc.                  *)
(***************************************************************************)
EXTENDS Integers

CONSTANTS Tests,        \* payloads the fuzzer generates
          Pages,        \* code pages the decoder may miss, positive naturals
          MaxHprintf,   \* bound: hprintf hypercalls per execution
          MaxIntr,      \* bound: kicks and untimely timer expiries per submission
          DryRunFirst   \* TRUE: the dry-run byte is handled before the first PING

ASSUME TestsAssumption == "not_init" \notin Tests
ASSUME PagesAssumption == Pages \subseteq (Nat \ {0})
ASSUME BoundsAssumption == MaxHprintf \in Nat /\ MaxIntr \in Nat
ASSUME DryRunAssumption == DryRunFirst \in BOOLEAN

VARIABLES
  (* fuzzer thread *)
  fpc,          \* position in QemuProcess::new and send_payload
  mode,         \* the FuzzRunner call in progress (or the last one)
  payload,      \* content of the shared payload buffer
  old_address,  \* send_payload's local of that name
  exit,         \* ExitReason returned by the last run_test
  (* socket and auxiliary buffer *)
  toQemu, toFuzzer,   \* bytes in flight in either direction
  result,             \* auxilary_buffer.result
  config,             \* auxilary_buffer.configuration
  (* vCPU thread, guest, and QEMU's global state *)
  vpc,          \* position of the vCPU thread in kvm_cpu_exec
  caller,       \* the hypercall inside synchronization_lock
  gpc,          \* position of the guest agent in its protocol
  in_fuzzing_loop, in_reload_mode, redqueen, trace,
  dump_page, decoder_page_fault,   \* page address, 0 for none
  missing,      \* pages not in the page cache
  timeout_reload_pending, exit_request,
  timer,        \* timeout_detector
  (* history of the current execution *)
  ran,          \* payload it was started with
  seen,         \* what the guest did
  restored,     \* guest state is the snapshot's
  expiry,       \* when the timer last expired: this execution, the one before
  hprintfs, intrs

fuzzer  == <<fpc, mode, payload, old_address, exit>>
socket  == <<toQemu, toFuzzer>>
modes   == <<in_reload_mode, redqueen, trace>>
paging  == <<dump_page, decoder_page_fault, missing>>
kvm     == <<vpc, caller, gpc, in_fuzzing_loop, timeout_reload_pending,
             exit_request, timer>>
history == <<ran, seen, restored, expiry, hprintfs, intrs>>
vars    == <<fuzzer, socket, result, config, kvm, modes, paging, history>>

Modes   == {"run_test", "run_redqueen", "run_cfg"}
Reasons == {"Crash", "InvalidWriteToPayload", "Timeout", "Asan", "Normal", "FuzzerError"}
Events  == {"acquire", "release", "crash", "asan", "write", "cow", "hprintf",
            "fault", "dump"}

Results == [hprintf : BOOLEAN, success : BOOLEAN, crash_found : BOOLEAN,
            asan_found : BOOLEAN, timeout_found : BOOLEAN, payload_write : BOOLEAN,
            page : Pages \union {0}, state : {0, 2, 3}]
Configs == [changed : BOOLEAN, redqueen_mode : BOOLEAN, trace_mode : BOOLEAN,
            reload_mode : BOOLEAN, timeout : BOOLEAN, page : Pages \union {0}]
Timers  == [enabled : BOOLEAN, set : BOOLEAN, left : BOOLEAN]

(* Every variable has its type; the socket never owes a byte: wait_qemu only *)
(* takes one that was sent.                                                  *)
TypeOK ==
  /\ fpc \in {"new_wait", "new_check", "idle", "wait", "check"}
  /\ mode \in Modes
  /\ payload \in Tests \union {"not_init"}
  /\ ran \in Tests \union {"not_init"}
  /\ old_address \in Pages \union {0}
  /\ exit \in Reasons \union {"none"}
  /\ toQemu \in Nat /\ toFuzzer \in Nat
  /\ result \in Results /\ config \in Configs /\ timer \in Timers
  /\ vpc \in {"entry", "loop", "guest", "pinged", "waiting", "woken", "abort"}
  /\ caller \in {"none", "printf", "init", "next"}
  /\ gpc \in {"boot", "dryrun", "agent", "snap", "pre", "test"}
  /\ in_fuzzing_loop \in BOOLEAN /\ in_reload_mode \in BOOLEAN
  /\ redqueen \in BOOLEAN /\ trace \in BOOLEAN /\ restored \in BOOLEAN
  /\ timeout_reload_pending \in BOOLEAN /\ exit_request \in BOOLEAN
  /\ dump_page \in Pages \union {0} /\ decoder_page_fault \in Pages \union {0}
  /\ missing \subseteq Pages
  /\ seen \subseteq Events
  /\ expiry \in {"none", "before", "own"}
  /\ hprintfs \in 0 .. MaxHprintf /\ intrs \in 0 .. MaxIntr

NoResult == [hprintf |-> FALSE, success |-> FALSE, crash_found |-> FALSE,
             asan_found |-> FALSE, timeout_found |-> FALSE,
             payload_write |-> FALSE, page |-> 0, state |-> 0]

(* QemuProcess::new has just sent the dry-run byte; the guest boots. *)
Init ==
  /\ fpc = "new_wait" /\ mode = "run_test" /\ payload = "not_init"
  /\ old_address = 0 /\ exit = "none"
  /\ toQemu = 1 /\ toFuzzer = 0
  /\ result = NoResult
  /\ config = [changed |-> FALSE, redqueen_mode |-> FALSE, trace_mode |-> FALSE,
               reload_mode |-> FALSE, timeout |-> FALSE, page |-> 0]
  /\ vpc = "entry" /\ caller = "none" /\ gpc = "boot"
  /\ in_fuzzing_loop = FALSE /\ in_reload_mode = TRUE
  /\ redqueen = FALSE /\ trace = FALSE
  /\ dump_page = 0 /\ decoder_page_fault = 0 /\ missing = Pages
  /\ timeout_reload_pending = FALSE /\ exit_request = FALSE
  /\ timer = [enabled |-> FALSE, set |-> FALSE, left |-> FALSE]
  /\ ran = "not_init" /\ seen = {} /\ restored = FALSE /\ expiry = "none"
  /\ hprintfs = 0 /\ intrs = 0

-----------------------------------------------------------------------------
(* Definitions whose name has a suffix (X_What) are faulty variants of X: the  *)
(* properties are tried out on them.                                           *)

(* The timeout detector: left says that arm_timeout is not zero. *)

reset_timeout_detector_NoRefill(t) ==
  [t EXCEPT !.enabled = t.set]

reset_timeout_detector(t) ==
  IF t.set THEN [t EXCEPT !.left = TRUE, !.enabled = TRUE]
           ELSE [t EXCEPT !.enabled = FALSE]

update_itimer(t, nonzero) ==
  IF nonzero THEN [t EXCEPT !.set = TRUE, !.enabled = TRUE]
             ELSE [t EXCEPT !.enabled = FALSE]

(* After KVM_RUN: the rest of the budget is kept, a used-up one refilled. *)
disarm_sigprof_timer(t, expired) ==
  IF ~t.enabled THEN t
  ELSE IF expired THEN reset_timeout_detector(t)
  ELSE [t EXCEPT !.left = TRUE]

-----------------------------------------------------------------------------
(* vCPU thread: kvm_cpu_exec *)

(* pt_dump: a trace that leads into a page the cache lacks stops the decoder. *)
pt_dump ==
  IF /\ in_fuzzing_loop /\ ~redqueen /\ missing # {}
     /\ decoder_page_fault = 0 /\ dump_page = 0
  THEN {0} \union missing
  ELSE {decoder_page_fault}

(* pt_disable, fast_reload_restore if asked for, and leaving the loop: what *)
(* all the ways to end an execution share.  Restoring goes through vm_stop, *)
(* which asks the vCPU thread to leave kvm_cpu_exec.                        *)
EndExecution(reload, event) ==
  /\ \E f \in pt_dump :
       /\ decoder_page_fault' = f
       /\ seen' = seen \union event \union (IF f # 0 THEN {"fault"} ELSE {})
  /\ gpc' = "snap"
  /\ restored' = (reload \/ restored)
  /\ exit_request' = (reload \/ exit_request)
  /\ in_fuzzing_loop' = FALSE
  /\ UNCHANGED <<dump_page, missing, modes, ran, hprintfs>>

(* Entry of kvm_cpu_exec: a timeout noted on the way out is handled here. *)
synchronization_lock_timeout_found ==
  /\ result' = [result EXCEPT !.success = @ /\ in_fuzzing_loop, !.timeout_found = TRUE]
  /\ timer' = reset_timeout_detector(timer)
  /\ EndExecution(TRUE, {})

kvm_cpu_exec_InLoopOnly ==
  /\ vpc = "entry"
  /\ vpc' = "loop"
  /\ timeout_reload_pending' = (timeout_reload_pending /\ ~in_fuzzing_loop)
  /\ IF timeout_reload_pending /\ in_fuzzing_loop
       THEN synchronization_lock_timeout_found
       ELSE UNCHANGED <<result, timer, gpc, in_fuzzing_loop, exit_request, modes,
                        paging, ran, seen, restored, hprintfs>>
  /\ UNCHANGED <<fuzzer, socket, config, caller, expiry, intrs>>

kvm_cpu_exec ==
  /\ vpc = "entry"
  /\ vpc' = "loop"
  /\ timeout_reload_pending' = FALSE
  /\ IF timeout_reload_pending
       THEN synchronization_lock_timeout_found
       ELSE UNCHANGED <<result, timer, gpc, in_fuzzing_loop, exit_request, modes,
                        paging, ran, seen, restored, hprintfs>>
  /\ UNCHANGED <<fuzzer, socket, config, caller, expiry, intrs>>

(* arm_sigprof_timer and KVM_RUN; an exhausted budget is assert(false). *)
KvmRun ==
  /\ vpc = "loop"
  /\ vpc' = IF timer.enabled /\ ~timer.left THEN "abort" ELSE "guest"
  /\ UNCHANGED <<fuzzer, socket, result, config, caller, gpc, in_fuzzing_loop,
                 timeout_reload_pending, exit_request, timer, modes, paging, history>>

(* KVM_RUN returned; disarm_sigprof_timer found the timer expired or not. *)
KvmExit(expired) ==
  /\ vpc = "guest"
  /\ expired => timer.enabled
  /\ timeout_reload_pending' = (timeout_reload_pending \/ expired)
  /\ expiry' = IF expired THEN "own" ELSE expiry
  /\ UNCHANGED <<fuzzer, config, toQemu>>

(* EINTR leaves kvm_cpu_exec: an exit was requested, SIGALRM arrived, or     *)
(* another thread kicked the vCPU.  Kicks, and expiries outside the fuzzing  *)
(* loop, use up the budget of MaxIntr per submitted payload.                 *)
Interrupted(expired) ==
  /\ KvmExit(expired)
  /\ exit_request => ~expired
  /\ vpc' = "entry"
  /\ exit_request' = FALSE
  /\ IF exit_request \/ (expired /\ in_fuzzing_loop)
     THEN UNCHANGED intrs
     ELSE intrs < MaxIntr /\ intrs' = intrs + 1
  /\ timer' = disarm_sigprof_timer(timer, expired)
  /\ UNCHANGED <<toFuzzer, result, caller, gpc, in_fuzzing_loop, modes, paging,
                 ran, seen, restored, hprintfs>>

(* The guest left KVM_RUN for a reason that is handled inside the loop; the  *)
(* timer may have expired just then, which also takes from the budget.       *)
GuestExit(expired, positions) ==
  /\ KvmExit(expired)
  /\ ~exit_request
  /\ gpc \in positions
  /\ expired => intrs < MaxIntr
  /\ intrs' = IF expired THEN intrs + 1 ELSE intrs

-----------------------------------------------------------------------------
(* synchronization.c *)

PageResult_DumpCounts(res) ==
  [res EXCEPT !.page = IF decoder_page_fault # 0 THEN decoder_page_fault ELSE @,
              !.success = @ /\ decoder_page_fault = 0]

(* synchronization_check_page_not_found: a page fault of the decoder is       *)
(* reported; an execution started to dump a page is marked unsuccessful, too. *)
PageResult(res) ==
  [res EXCEPT !.page = IF decoder_page_fault # 0 THEN decoder_page_fault ELSE @,
              !.success = @ /\ decoder_page_fault = 0 /\ dump_page = 0]

(* First half, up to and including the PING, with the mutex held until the *)
(* second half.                                                            *)
synchronization_lock(who, res, expired) ==
  /\ DryRunFirst /\ gpc = "boot" => toQemu = 0
  /\ vpc' = "pinged" /\ caller' = who
  /\ timer' = reset_timeout_detector(disarm_sigprof_timer(timer, expired))
  /\ result' = PageResult(res)
  /\ decoder_page_fault' = 0 /\ dump_page' = 0
  /\ toFuzzer' = toFuzzer + 1
  /\ UNCHANGED <<in_fuzzing_loop, exit_request, modes, missing, ran, restored>>

(* pthread_cond_wait releases the mutex and blocks. *)
CondWait ==
  /\ vpc = "pinged"
  /\ vpc' = "waiting"
  /\ UNCHANGED <<fuzzer, socket, result, config, caller, gpc, in_fuzzing_loop,
                 timeout_reload_pending, exit_request, timer, modes, paging, history>>

(* I/O thread: a byte from the fuzzer signals the condition, under the mutex; *)
(* the signal is lost if nobody waits.                                        *)
synchronization_unlock ==
  /\ toQemu > 0
  /\ vpc # "pinged"
  /\ toQemu' = toQemu - 1
  /\ vpc' = IF vpc = "waiting" THEN "woken" ELSE vpc
  /\ UNCHANGED <<fuzzer, toFuzzer, result, config, caller, gpc, in_fuzzing_loop,
                 timeout_reload_pending, exit_request, timer, modes, paging, history>>

flush_auxiliary_result_buffer_KeepCrash(r) ==
  [NoResult EXCEPT !.success = r.success, !.state = r.state, !.crash_found = r.crash_found]

flush_auxiliary_result_buffer(r) ==
  [NoResult EXCEPT !.success = r.success, !.state = r.state]

check_auxiliary_config_buffer ==
  IF config.changed
  THEN /\ redqueen' = config.redqueen_mode
       /\ trace' = config.trace_mode
       /\ dump_page' = IF config.page # 0 THEN config.page ELSE dump_page
       /\ in_reload_mode' = config.reload_mode
       /\ config' = [config EXCEPT !.changed = FALSE, !.page = 0]
  ELSE UNCHANGED <<redqueen, trace, dump_page, in_reload_mode, config>>

(* Second half of synchronization_lock, then the rest of the hypercall that   *)
(* called it: only handle_hypercall_kafl_next_payload starts a new execution. *)
Resume ==
  /\ vpc = "woken"
  /\ vpc' = "loop"
  /\ result' = [flush_auxiliary_result_buffer(result) EXCEPT !.success = TRUE]
  /\ check_auxiliary_config_buffer
  /\ LET t == IF config.changed THEN update_itimer(timer, config.timeout) ELSE timer
     IN  IF caller = "next"
         THEN /\ timer' = reset_timeout_detector(t)
              /\ gpc' = "pre"
              /\ ran' = payload
              /\ seen' = IF dump_page' # 0 THEN {"dump"} ELSE {}
              /\ restored' = FALSE
              /\ expiry' = IF expiry = "own" THEN "before" ELSE "none"
              /\ hprintfs' = 0 /\ UNCHANGED intrs
         ELSE /\ timer' = t
              /\ UNCHANGED <<gpc, history>>
  /\ caller' = "none"
  /\ UNCHANGED <<fuzzer, socket, in_fuzzing_loop, timeout_reload_pending, exit_request,
                 decoder_page_fault, missing>>

-----------------------------------------------------------------------------
(* hypercall.c: the agent's protocol.  It boots, runs once without a fuzzer   *)
(* (init_state), takes the snapshot at its next request for a payload, and    *)
(* from then on is at the snapshot point whenever it was restored.            *)

handle_hypercall_kafl_printf(expired) ==
  /\ GuestExit(expired, {"boot", "dryrun", "agent", "pre", "test"})
  /\ hprintfs < MaxHprintf
  /\ hprintfs' = hprintfs + 1
  /\ synchronization_lock("printf", [result EXCEPT !.hprintf = TRUE], expired)
  /\ seen' = seen \union {"hprintf"}
  /\ UNCHANGED gpc

NextPayloadInit(expired) ==
  /\ GuestExit(expired, {"boot"})
  /\ synchronization_lock("init", [result EXCEPT !.state = 2], expired)
  /\ gpc' = "dryrun"
  /\ UNCHANGED <<seen, hprintfs>>

ReleaseInit(expired) ==
  /\ GuestExit(expired, {"dryrun"})
  /\ gpc' = "agent" /\ vpc' = "loop"
  /\ timer' = disarm_sigprof_timer(timer, expired)
  /\ UNCHANGED <<toFuzzer, result, caller, in_fuzzing_loop, exit_request, modes, paging,
                 ran, seen, restored, hprintfs>>

(* create_fast_snapshot, fast_reload_restore, in_fuzzing_mode, state 3 *)
NextPayloadSnapshot(expired) ==
  /\ GuestExit(expired, {"agent"})
  /\ gpc' = "snap" /\ vpc' = "loop"
  /\ result' = [result EXCEPT !.state = 3]
  /\ restored' = TRUE /\ exit_request' = TRUE
  /\ timer' = disarm_sigprof_timer(timer, expired)
  /\ UNCHANGED <<toFuzzer, caller, in_fuzzing_loop, modes, paging, ran, seen, hprintfs>>

NextPayload(expired) ==
  /\ GuestExit(expired, {"snap"})
  /\ synchronization_lock("next", result, expired)
  /\ UNCHANGED <<gpc, seen, hprintfs>>

handle_hypercall_kafl_acquire(expired) ==
  /\ GuestExit(expired, {"pre"})
  /\ gpc' = "test" /\ vpc' = "loop"
  /\ in_fuzzing_loop' = TRUE
  /\ seen' = seen \union {"acquire"}
  /\ timer' = reset_timeout_detector(disarm_sigprof_timer(timer, expired))
  /\ UNCHANGED <<toFuzzer, result, caller, exit_request, modes, paging,
                 ran, restored, hprintfs>>

(* A hypercall or exit of the running guest that ends its execution.  The     *)
(* vCPU thread goes on in the loop of kvm_cpu_exec or leaves it and comes back. *)
Ending(expired, to, reload, res, event) ==
  /\ GuestExit(expired, {"pre", "test"})
  /\ vpc' = to
  /\ timer' = disarm_sigprof_timer(timer, expired)
  /\ result' = res
  /\ EndExecution(reload, event)
  /\ UNCHANGED <<toFuzzer, caller>>

ReloadOnRelease == in_reload_mode \/ redqueen \/ dump_page # 0

(* Also what KVM_EXIT_SHUTDOWN and the system events call. *)
synchronization_disable_pt(expired) ==
  Ending(expired, "loop", ReloadOnRelease,
         [result EXCEPT !.success = @ /\ in_fuzzing_loop], {"release"})

(* handle_hypercall_kafl_panic and a requested shutdown or halted vCPU *)
synchronization_lock_crash_found(expired) ==
  Ending(expired, "loop", TRUE, [result EXCEPT !.crash_found = TRUE], {"crash"})

synchronization_lock_asan_found(expired) ==
  Ending(expired, "loop", TRUE, [result EXCEPT !.asan_found = TRUE, !.success = @ /\ in_fuzzing_loop],
         {"asan"})

synchronization_payload_buffer_write_detected(expired) ==
  Ending(expired, "entry", TRUE, [result EXCEPT !.payload_write = TRUE], {"write"})

synchronization_cow_full_detected(expired) ==
  Ending(expired, "loop", TRUE, result, {"cow"})

(* The trace buffer is full and is decoded early. *)
pt_handle_overflow(expired) ==
  /\ GuestExit(expired, {"test"})
  /\ vpc' = "loop"
  /\ timer' = disarm_sigprof_timer(timer, expired)
  /\ \E f \in pt_dump :
       /\ decoder_page_fault' = f
       /\ seen' = seen \union (IF f # 0 THEN {"fault"} ELSE {})
  /\ UNCHANGED <<toFuzzer, result, caller, gpc, in_fuzzing_loop, exit_request, modes,
                 dump_page, missing, ran, restored, hprintfs>>

(* The breakpoint on the page to dump was hit and the page could be read. *)
handle_hypercall_kafl_page_dump_bp(expired) ==
  /\ GuestExit(expired, {"test"})
  /\ dump_page \in missing
  /\ missing' = missing \ {dump_page}
  /\ vpc' = "loop"
  /\ timer' = disarm_sigprof_timer(timer, expired)
  /\ UNCHANGED <<toFuzzer, result, caller, gpc, in_fuzzing_loop, exit_request, modes,
                 dump_page, decoder_page_fault, ran, seen, restored, hprintfs>>

Vcpu ==
  \/ kvm_cpu_exec \/ KvmRun \/ CondWait \/ Resume
  \/ \E expired \in BOOLEAN :
       \/ Interrupted(expired)
       \/ handle_hypercall_kafl_printf(expired)
       \/ NextPayloadInit(expired) \/ ReleaseInit(expired)
       \/ NextPayloadSnapshot(expired) \/ NextPayload(expired)
       \/ handle_hypercall_kafl_acquire(expired)
       \/ synchronization_disable_pt(expired)
       \/ synchronization_lock_crash_found(expired)
       \/ synchronization_lock_asan_found(expired)
       \/ synchronization_payload_buffer_write_detected(expired)
       \/ synchronization_cow_full_detected(expired)
       \/ pt_handle_overflow(expired)
       \/ handle_hypercall_kafl_page_dump_bp(expired)

-----------------------------------------------------------------------------
(* Fuzzer thread *)

qemu == <<result, kvm, modes, paging, ran, seen, restored, expiry, hprintfs>>

execute_qemu_Twice == toQemu' = toQemu + 2

execute_qemu == toQemu' = toQemu + 1

(* wait_qemu returns with one byte. *)
wait_qemu ==
  /\ toFuzzer > 0
  /\ toFuzzer' = toFuzzer - 1
  /\ \/ fpc = "new_wait" /\ fpc' = "new_check"
     \/ fpc = "wait" /\ fpc' = "check"
  /\ UNCHANGED <<mode, payload, old_address, exit, toQemu, config, intrs, qemu>>

(* QemuProcess::new: poke QEMU until the snapshot exists, then configure it. *)
new ==
  /\ fpc = "new_check"
  /\ \/ /\ result.state = 3
        /\ fpc' = "idle"
        /\ config' = [config EXCEPT !.reload_mode = TRUE, !.timeout = TRUE, !.changed = TRUE]
        /\ UNCHANGED toQemu
     \/ /\ result.state # 3
        /\ fpc' = "new_wait"
        /\ execute_qemu
        /\ UNCHANGED config
  /\ UNCHANGED <<mode, payload, old_address, exit, toFuzzer, intrs, qemu>>

(* run_test, run_redqueen and run_cfg up to send_payload's first round. *)
Start ==
  /\ fpc = "idle"
  /\ \E t \in Tests, m \in Modes :
       /\ payload' = t /\ mode' = m
       /\ config' = [config EXCEPT !.redqueen_mode = @ \/ m = "run_redqueen",
                                   !.trace_mode = @ \/ m = "run_cfg",
                                   !.changed = @ \/ m # "run_test"]
  /\ old_address' = 0 /\ intrs' = 0
  /\ fpc' = "wait"
  /\ execute_qemu
  /\ UNCHANGED <<exit, toFuzzer, qemu>>

(* run_test's reading of the result buffer *)
ExitReason(r) ==
  CASE r.crash_found   -> "Crash"
    [] ~r.crash_found /\ r.payload_write -> "InvalidWriteToPayload"
    [] ~r.crash_found /\ ~r.payload_write /\ r.timeout_found -> "Timeout"
    [] ~r.crash_found /\ ~r.payload_write /\ ~r.timeout_found /\ r.asan_found -> "Asan"
    [] ~r.crash_found /\ ~r.payload_write /\ ~r.timeout_found /\ ~r.asan_found ->
         IF r.success THEN "Normal" ELSE "FuzzerError"

Finished_Hprintf(r) ==
  \/ r.success \/ r.crash_found \/ r.asan_found \/ r.payload_write
  \/ r.page # 0 /\ r.page = old_address


(* send_payload's conditions to break *)
Finished(r) ==
  /\ ~r.hprintf
  /\ \/ r.success \/ r.crash_found \/ r.asan_found \/ r.payload_write
     \/ r.page # 0 /\ r.page = old_address

DisableMode_Unnoticed(c) ==
  [c EXCEPT !.redqueen_mode = FALSE, !.trace_mode = FALSE]

(* What run_redqueen and run_cfg do after send_payload *)
DisableMode(c) ==
  [c EXCEPT !.redqueen_mode = @ /\ mode # "run_redqueen",
            !.trace_mode = @ /\ mode # "run_cfg",
            !.changed = TRUE]

(* send_payload breaks. *)
Return ==
  /\ fpc = "check"
  /\ Finished(result)
  /\ fpc' = "idle"
  /\ exit' = IF mode = "run_test" THEN ExitReason(result) ELSE "none"
  /\ config' = IF mode = "run_test" THEN config ELSE DisableMode(config)
  /\ UNCHANGED <<mode, payload, old_address, socket, intrs, qemu>>

(* send_payload goes round again, asking for a page dump if one is missing. *)
Again ==
  /\ fpc = "check"
  /\ ~Finished(result)
  /\ IF ~result.hprintf /\ result.page # 0
     THEN /\ old_address' = result.page
          /\ config' = [config EXCEPT !.page = result.page, !.changed = TRUE]
     ELSE UNCHANGED <<old_address, config>>
  /\ fpc' = "wait"
  /\ execute_qemu
  /\ UNCHANGED <<mode, payload, exit, toFuzzer, intrs, qemu>>

Fuzzer == wait_qemu \/ new \/ Start \/ Return \/ Again

Next == Vcpu \/ synchronization_unlock \/ Fuzzer

Spec == Init /\ [][Next]_vars

(* Every thread keeps running, and a guest that keeps returning to KVM_RUN    *)
(* uses up its time budget: disarm_sigprof_timer keeps what is left of it.    *)
(* The agent's code between the snapshot and its acquire is the same for all  *)
(* payloads, so restored over and over again it gets through once.            *)
Fairness ==
  /\ WF_vars(Vcpu) /\ WF_vars(synchronization_unlock) /\ WF_vars(Fuzzer)
  /\ SF_vars(Interrupted(TRUE))
  /\ SF_vars(handle_hypercall_kafl_acquire(FALSE))

FairSpec == Spec /\ Fairness

-----------------------------------------------------------------------------
(* The buffers are shared without a lock: whenever the fuzzer may touch them *)
(* (between reading a PING and sending the next byte) the vCPU thread is     *)
(* blocked in synchronization_lock and no byte is in flight.                 *)
BufferExclusion ==
  fpc \in {"new_check", "idle", "check"} =>
    /\ vpc \in {"pinged", "waiting"}
    /\ toQemu = 0 /\ toFuzzer = 0

(* What run_test returns was produced by an execution of the payload it was  *)
(* called with, and says what that execution did, whatever happened to       *)
(* earlier ones: crash, sanitizer report and payload write come from it, and *)
(* Normal is returned for neither of them.                                   *)
VerdictIsOwn ==
  fpc = "idle" /\ exit # "none" =>
    /\ ran = payload
    /\ (exit = "Crash") <=> ("crash" \in seen)
    /\ exit = "Asan" => "asan" \in seen
    /\ exit = "InvalidWriteToPayload" => "write" \in seen
    /\ exit = "Normal" => seen \intersect {"crash", "asan", "write"} = {}

(* A Timeout verdict goes back to a timer that expired in this execution or, *)
(* noted while the agent was already asking for the next payload, at the end *)
(* of the one before: timeout_reload_pending does not survive longer.        *)
TimeoutIsRecent ==
  fpc = "idle" /\ exit = "Timeout" => expiry \in {"own", "before"}

(* Normal means a usable bitmap: the guest reached acquire (or filled the    *)
(* block cache first), and unless hprintf rounds intervened the decoder      *)
(* missed no page and the run was not a page-dump rerun.                     *)
NormalIsComplete ==
  fpc = "idle" /\ exit = "Normal" =>
    /\ seen \intersect {"acquire", "cow"} # {}
    /\ "hprintf" \notin seen => seen \intersect {"fault", "dump"} = {}

(* Every execution starts from the snapshot: the agent never asks for the    *)
(* next payload in a guest that was not restored.                            *)
FreshStart == gpc = "snap" => restored

(* redqueen and trace instrumentation are on exactly for the executions of   *)
(* run_redqueen and run_cfg.                                                 *)
ModeIsOwn ==
  /\ gpc \in {"pre", "test"} /\ vpc \in {"entry", "loop", "guest"} =>
       /\ redqueen <=> (mode = "run_redqueen")
       /\ trace <=> (mode = "run_cfg")

(* An execution depends on its payload and mode alone: it starts from the    *)
(* snapshot, and with the instrumentation its own call asked for, whatever    *)
(* ended the one before.                                                      *)
ExecutionIsClean == FreshStart /\ ModeIsOwn

(* arm_sigprof_timer never finds an exhausted budget (kvm-all.c asserts it). *)
NeverAborts == vpc # "abort"

(* What the service's state is here *)
Service == INSTANCE TestService WITH
  status   <- CASE fpc \in {"new_wait", "new_check"} -> "starting"
                [] fpc = "idle" -> "idle"
                [] OTHER -> "busy",
  test     <- payload,
  executed <- ran,
  observed <- seen \intersect {"crash", "asan", "write"},
  verdict  <- exit

(* The handshake implements the service trait FuzzRunner promises: calls are  *)
(* answered one at a time, each from a complete execution of its own payload, *)
(* and with a verdict that execution allows.                                  *)
ImplementsService == Service!ServiceSpec

=============================================================================
