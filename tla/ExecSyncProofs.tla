--------------------------- MODULE ExecSyncProofs ---------------------------
(***************************************************************************)
(* Proofs about ExecSync, for every set of payloads and pages and every    *)
(* bound.  The invariants are proved in layers, each on top of the earlier *)
(* ones: types, the single token of the handshake, what each party knows   *)
(* of the other's position, then results, timer, and modes.                *)
(***************************************************************************)
EXTENDS ExecSync, TLAPS

(* Inside synchronization_lock *)
Blocked == vpc \in {"pinged", "waiting", "woken"}

Booting == fpc \in {"new_wait", "new_check"}

(* The fuzzer has submitted a payload that the vCPU thread has not taken yet. *)
Submitted == fpc = "wait" /\ caller = "next" /\ (toQemu = 1 \/ vpc = "woken")

(* One token goes round: it is with the vCPU thread, with the fuzzer, or a   *)
(* byte in flight between them.  At boot the dry-run byte is a second one,   *)
(* and no timeout can be under way that would end the boot before the byte   *)
(* was taken.                                                                *)
Handshake ==
  \/ /\ fpc \in {"new_check", "idle", "check"}
     /\ vpc \in {"pinged", "waiting"}
     /\ toQemu = 0 /\ toFuzzer = 0
  \/ /\ fpc \in {"new_wait", "wait"}
     /\ vpc \in {"pinged", "waiting"}
     /\ \/ toQemu = 1 /\ toFuzzer = 0
        \/ toQemu = 0 /\ toFuzzer = 1
  \/ /\ fpc \in {"new_wait", "wait"}
     /\ vpc \notin {"pinged", "waiting"}
     /\ toQemu = 0 /\ toFuzzer = 0
  \/ /\ fpc = "new_wait" /\ gpc = "boot"
     /\ vpc \notin {"pinged", "waiting", "woken"}
     /\ toQemu = 1 /\ toFuzzer = 0
     /\ ~timer.enabled /\ ~timeout_reload_pending

(* Until QemuProcess::new writes the configuration there are no timeouts. *)
Quiet ==
  Booting => ~timer.enabled /\ ~timer.set /\ ~timeout_reload_pending /\ ~config.changed

(* What the positions of the two threads say about each other. *)
Protocol ==
  /\ (caller # "none") <=> Blocked
  /\ result.hprintf <=> caller = "printf"
  /\ caller = "next" => gpc = "snap"
  /\ caller = "init" => gpc = "dryrun"
  /\ caller = "printf" => gpc # "snap"
  /\ result.state = 3 <=> gpc \in {"snap", "pre", "test"}
  /\ ~Booting => gpc \in {"snap", "pre", "test"}
  /\ Booting => gpc \notin {"pre", "test"}
  /\ fpc = "new_wait" /\ caller = "next" => toFuzzer = 1
  /\ fpc = "idle" => caller = "next"
  /\ in_fuzzing_loop <=> gpc = "test"

(* The result section speaks of the execution of the submitted payload. *)
Outcome ==
  /\ Booting => exit = "none"
  /\ Submitted \/ ran = payload
  /\ result.crash_found <=> "crash" \in seen
  /\ result.asan_found <=> "asan" \in seen
  /\ result.payload_write <=> "write" \in seen
  /\ gpc # "snap" => seen \intersect {"crash", "asan", "write"} = {}

(* The configuration is the one for the call in progress, and is in force    *)
(* once a submitted payload has been taken.                                  *)
Configured ==
  /\ in_reload_mode
  /\ ~Booting => config.reload_mode /\ config.timeout
  /\ ~config.changed => /\ redqueen <=> config.redqueen_mode
                        /\ trace <=> config.trace_mode
  /\ config.changed => Submitted \/ fpc = "idle"
  /\ config.redqueen_mode <=> (mode = "run_redqueen" /\ fpc \in {"wait", "check"})
  /\ config.trace_mode <=> (mode = "run_cfg" /\ fpc \in {"wait", "check"})
  /\ timer.enabled => timer.left
  /\ ~Booting /\ ~timer.left => config.changed
  /\ gpc = "snap" => restored
  /\ vpc # "abort"

(* A pending timeout is an expiry of this execution or, before the vCPU      *)
(* thread went through kvm_cpu_exec again, of the one before.                *)
Expiry ==
  /\ timeout_reload_pending => expiry \in {"own", "before"}
  /\ result.timeout_found => expiry \in {"own", "before"}
  /\ timeout_reload_pending /\ gpc = "snap" /\ ~exit_request /\ vpc # "entry" => expiry = "own"
  /\ Blocked => ~exit_request

-----------------------------------------------------------------------------
(* Types *)

(* The operations on the timer keep its type. *)
LEMMA TimerOps ==
  ASSUME NEW t \in Timers, NEW b \in BOOLEAN
  PROVE  /\ reset_timeout_detector(t) \in Timers
         /\ update_itimer(t, b) \in Timers
         /\ disarm_sigprof_timer(t, b) \in Timers
BY DEF Timers, reset_timeout_detector, update_itimer, disarm_sigprof_timer

(* The writers of the result section keep its type. *)
LEMMA ResultOps ==
  ASSUME NEW r \in Results, TypeOK
  PROVE  /\ PageResult(r) \in Results
         /\ [flush_auxiliary_result_buffer(r) EXCEPT !.success = TRUE] \in Results
BY DEF Results, TypeOK, PageResult, flush_auxiliary_result_buffer, NoResult

(* pt_dump reports a page of the guest or none. *)
LEMMA DumpTyped ==
  ASSUME TypeOK, NEW f \in pt_dump
  PROVE  f \in Pages \union {0}
BY DEF pt_dump, TypeOK

(* QEMU and fuzzer start with every variable in its type. *)
LEMMA TypeInit == Init => TypeOK
<1> SUFFICES ASSUME Init PROVE TypeOK
  OBVIOUS
<1>1. result \in Results /\ timer \in Timers /\ config \in Configs
  BY DEF Init, NoResult, Results, Timers, Configs
<1>2. hprintfs \in 0 .. MaxHprintf /\ intrs \in 0 .. MaxIntr
  BY BoundsAssumption DEF Init
<1>3. toQemu \in Nat /\ toFuzzer \in Nat
  BY DEF Init
<1> QED
  BY <1>1, <1>2, <1>3 DEF Init, TypeOK, Modes, Reasons, Events

(* The end of an execution keeps the types. *)
LEMMA EndTyped ==
  ASSUME TypeOK, NEW reload \in BOOLEAN, NEW event \in SUBSET Events, EndExecution(reload, event)
  PROVE  /\ decoder_page_fault' \in Pages \union {0} /\ seen' \subseteq Events
         /\ gpc' = "snap" /\ restored' \in BOOLEAN /\ exit_request' \in BOOLEAN
         /\ in_fuzzing_loop' \in BOOLEAN
         /\ UNCHANGED <<dump_page, missing, modes, ran, hprintfs>>
<1>1. PICK f \in pt_dump :
         /\ decoder_page_fault' = f
         /\ seen' = seen \union event \union (IF f # 0 THEN {"fault"} ELSE {})
  BY DEF EndExecution
<1>2. f \in Pages \union {0}
  BY DumpTyped
<1>3. seen' \subseteq Events
  BY <1>1 DEF TypeOK, Events
<1> QED
  BY <1>1, <1>2, <1>3 DEF EndExecution, TypeOK

(* So does an exit from KVM_RUN. *)
LEMMA ExitTyped ==
  ASSUME TypeOK, NEW expired \in BOOLEAN, NEW positions, GuestExit(expired, positions)
  PROVE  /\ intrs' \in 0 .. MaxIntr
         /\ timeout_reload_pending' \in BOOLEAN /\ expiry' \in {"none", "before", "own"}
         /\ disarm_sigprof_timer(timer, expired) \in Timers
         /\ reset_timeout_detector(disarm_sigprof_timer(timer, expired)) \in Timers
         /\ UNCHANGED <<fuzzer, config, toQemu>>
<1>1. intrs' \in 0 .. MaxIntr
  BY BoundsAssumption DEF GuestExit, TypeOK
<1>2. disarm_sigprof_timer(timer, expired) \in Timers
  BY TimerOps DEF TypeOK
<1>3. reset_timeout_detector(disarm_sigprof_timer(timer, expired)) \in Timers
  BY <1>2, TimerOps
<1> QED
  BY <1>1, <1>2, <1>3 DEF GuestExit, KvmExit, TypeOK

(* So does synchronization_lock. *)
LEMMA LockTyped ==
  ASSUME TypeOK, NEW expired \in BOOLEAN, NEW positions, GuestExit(expired, positions),
         NEW who \in {"printf", "init", "next"}, NEW r \in Results,
         synchronization_lock(who, r, expired)
  PROVE  /\ vpc' = "pinged" /\ caller' = who
         /\ timer' \in Timers /\ result' \in Results
         /\ toFuzzer' \in Nat
         /\ decoder_page_fault' = 0 /\ dump_page' = 0
         /\ UNCHANGED <<in_fuzzing_loop, exit_request, modes, missing, ran, restored>>
<1>1. timer' \in Timers
  BY ExitTyped DEF synchronization_lock
<1>2. result' \in Results
  BY ResultOps DEF synchronization_lock
<1>3. toFuzzer' \in Nat
  BY DEF synchronization_lock, TypeOK
<1> QED
  BY <1>1, <1>2, <1>3 DEF synchronization_lock

(* So does every step. *)
LEMMA TypeNext == TypeOK /\ [Next]_vars => TypeOK'
<1> SUFFICES ASSUME TypeOK, [Next]_vars PROVE TypeOK'
  OBVIOUS
<1> USE DEF fuzzer, socket, modes, paging, kvm, history, qemu
<1>1. CASE kvm_cpu_exec
  <2>1. CASE timeout_reload_pending
    <3>1. synchronization_lock_timeout_found
      BY <1>1, <2>1 DEF kvm_cpu_exec
    <3>2. result' \in Results
      BY <3>1 DEF synchronization_lock_timeout_found, TypeOK, Results
    <3>3. timer' \in Timers
      BY <3>1, TimerOps DEF synchronization_lock_timeout_found, TypeOK
    <3>4. EndExecution(TRUE, {}) /\ TRUE \in BOOLEAN /\ {} \in SUBSET Events
      BY <3>1 DEF synchronization_lock_timeout_found
    <3>5. /\ vpc' = "loop" /\ timeout_reload_pending' \in BOOLEAN
          /\ UNCHANGED <<fuzzer, socket, config, caller, expiry, intrs>>
      BY <1>1 DEF kvm_cpu_exec
    <3>6. /\ decoder_page_fault' \in Pages \union {0} /\ seen' \subseteq Events
          /\ gpc' = "snap" /\ restored' \in BOOLEAN /\ exit_request' \in BOOLEAN
          /\ in_fuzzing_loop' \in BOOLEAN
          /\ UNCHANGED <<dump_page, missing, modes, ran, hprintfs>>
      BY <3>4, EndTyped, Zenon
    <3> QED
      BY <3>2, <3>3, <3>5, <3>6 DEF TypeOK
  <2>2. CASE ~timeout_reload_pending
    <3>1. UNCHANGED <<result, timer, gpc, in_fuzzing_loop, exit_request, modes,
                      paging, ran, seen, restored, hprintfs>>
      BY <1>1, <2>2 DEF kvm_cpu_exec
    <3>2. /\ vpc' = "loop" /\ timeout_reload_pending' \in BOOLEAN
          /\ UNCHANGED <<fuzzer, socket, config, caller, expiry, intrs>>
      BY <1>1 DEF kvm_cpu_exec
    <3> QED
      BY <3>1, <3>2 DEF TypeOK
  <2> QED BY <2>1, <2>2
<1>2. CASE KvmRun
  BY <1>2 DEF KvmRun, TypeOK
<1>3. CASE CondWait
  BY <1>3 DEF CondWait, TypeOK
<1>4. CASE Resume
  <2>1. result' \in Results
    BY <1>4, ResultOps DEF Resume, TypeOK
  <2>2. config' \in Configs /\ redqueen' \in BOOLEAN /\ trace' \in BOOLEAN
        /\ in_reload_mode' \in BOOLEAN /\ dump_page' \in Pages \union {0}
    BY <1>4 DEF Resume, check_auxiliary_config_buffer, TypeOK, Configs
  <2>3. timer' \in Timers
    <3> DEFINE t == IF config.changed THEN update_itimer(timer, config.timeout) ELSE timer
    <3>1. config.timeout \in BOOLEAN
      BY DEF TypeOK, Configs
    <3>2. t \in Timers
      BY <3>1, TimerOps DEF TypeOK
    <3>3. reset_timeout_detector(t) \in Timers
      BY <3>2, TimerOps
    <3> QED
      BY <1>4, <3>2, <3>3 DEF Resume
  <2>4. gpc' \in {"boot", "dryrun", "agent", "snap", "pre", "test"}
        /\ ran' \in Tests \union {"not_init"} /\ seen' \subseteq Events
        /\ restored' \in BOOLEAN /\ expiry' \in {"none", "before", "own"}
        /\ hprintfs' \in 0 .. MaxHprintf /\ intrs' = intrs
    <3>1. CASE caller = "next"
      <4>1. /\ gpc' = "pre" /\ ran' = payload /\ restored' \in BOOLEAN
            /\ seen' = IF dump_page' # 0 THEN {"dump"} ELSE {}
            /\ expiry' = IF expiry = "own" THEN "before" ELSE "none"
            /\ hprintfs' = 0 /\ UNCHANGED intrs
        BY <1>4, <3>1 DEF Resume
      <4> QED
        BY <4>1, BoundsAssumption DEF TypeOK, Events
    <3>2. CASE caller # "next"
      <4>1. UNCHANGED <<gpc, history>>
        BY <1>4, <3>2 DEF Resume
      <4> QED
        BY <4>1 DEF TypeOK
    <3> QED BY <3>1, <3>2
  <2> QED
    BY <1>4, <2>1, <2>2, <2>3, <2>4 DEF Resume, TypeOK
<1>5. ASSUME NEW expired \in BOOLEAN, Interrupted(expired) PROVE TypeOK'
  <2>1. timer' \in Timers
    BY <1>5, TimerOps DEF Interrupted, TypeOK
  <2>2. intrs' \in 0 .. MaxIntr
    BY <1>5, BoundsAssumption DEF Interrupted, TypeOK
  <2>3. timeout_reload_pending' \in BOOLEAN /\ expiry' \in {"none", "before", "own"}
    BY <1>5 DEF Interrupted, KvmExit, TypeOK
  <2>4. /\ vpc' = "entry" /\ exit_request' \in BOOLEAN
        /\ UNCHANGED <<fuzzer, config, socket, result, caller, gpc, in_fuzzing_loop, modes,
                       paging, ran, seen, restored, hprintfs>>
    BY <1>5 DEF Interrupted, KvmExit
  <2> QED
    BY <2>1, <2>2, <2>3, <2>4 DEF TypeOK
<1>6. ASSUME NEW expired \in BOOLEAN, handle_hypercall_kafl_printf(expired) PROVE TypeOK'
  <2>1. [result EXCEPT !.hprintf = TRUE] \in Results
    BY DEF TypeOK, Results
  <2>2. hprintfs' \in 0 .. MaxHprintf
    BY <1>6, BoundsAssumption DEF handle_hypercall_kafl_printf, TypeOK
  <2>3. seen' \subseteq Events
    BY <1>6 DEF handle_hypercall_kafl_printf, TypeOK, Events
  <2> QED
    BY <1>6, <2>1, <2>2, <2>3, ExitTyped, LockTyped DEF handle_hypercall_kafl_printf, TypeOK
<1>7. ASSUME NEW expired \in BOOLEAN, NextPayloadInit(expired) PROVE TypeOK'
  <2>1. [result EXCEPT !.state = 2] \in Results
    BY DEF TypeOK, Results
  <2> QED
    BY <1>7, <2>1, ExitTyped, LockTyped DEF NextPayloadInit, TypeOK
<1>8. ASSUME NEW expired \in BOOLEAN, ReleaseInit(expired) PROVE TypeOK'
  BY <1>8, ExitTyped DEF ReleaseInit, TypeOK
<1>9. ASSUME NEW expired \in BOOLEAN, NextPayloadSnapshot(expired) PROVE TypeOK'
  <2>1. result' \in Results
    BY <1>9 DEF NextPayloadSnapshot, TypeOK, Results
  <2> QED
    BY <1>9, <2>1, ExitTyped DEF NextPayloadSnapshot, TypeOK
<1>10. ASSUME NEW expired \in BOOLEAN, NextPayload(expired) PROVE TypeOK'
  BY <1>10, ExitTyped, LockTyped DEF NextPayload, TypeOK
<1>11. ASSUME NEW expired \in BOOLEAN, handle_hypercall_kafl_acquire(expired) PROVE TypeOK'
  <2>1. seen' \subseteq Events
    BY <1>11 DEF handle_hypercall_kafl_acquire, TypeOK, Events
  <2> QED
    BY <1>11, <2>1, ExitTyped DEF handle_hypercall_kafl_acquire, TypeOK
<1>12. ASSUME NEW expired \in BOOLEAN, NEW to \in {"loop", "entry"}, NEW reload \in BOOLEAN, NEW res \in Results,
              NEW event \in SUBSET Events, Ending(expired, to, reload, res, event)
       PROVE  TypeOK'
  BY <1>12, ExitTyped, EndTyped DEF Ending, TypeOK
<1>13. ASSUME NEW expired \in BOOLEAN, synchronization_disable_pt(expired) PROVE TypeOK'
  <2>1. [result EXCEPT !.success = @ /\ in_fuzzing_loop] \in Results
    BY DEF TypeOK, Results
  <2>2. ReloadOnRelease \in BOOLEAN /\ {"release"} \in SUBSET Events
    BY DEF ReloadOnRelease, TypeOK, Events
  <2> QED
    BY <1>12, <1>13, <2>1, <2>2 DEF synchronization_disable_pt
<1>14. ASSUME NEW expired \in BOOLEAN, synchronization_lock_crash_found(expired) PROVE TypeOK'
  <2>1. [result EXCEPT !.crash_found = TRUE] \in Results /\ {"crash"} \in SUBSET Events
    BY DEF TypeOK, Results, Events
  <2> QED
    BY <1>12, <1>14, <2>1 DEF synchronization_lock_crash_found
<1>15. ASSUME NEW expired \in BOOLEAN, synchronization_lock_asan_found(expired) PROVE TypeOK'
  <2>1. [result EXCEPT !.asan_found = TRUE, !.success = @ /\ in_fuzzing_loop] \in Results
        /\ {"asan"} \in SUBSET Events
    BY DEF TypeOK, Results, Events
  <2> QED
    BY <1>12, <1>15, <2>1 DEF synchronization_lock_asan_found
<1>16. ASSUME NEW expired \in BOOLEAN, synchronization_payload_buffer_write_detected(expired)
       PROVE  TypeOK'
  <2>1. [result EXCEPT !.payload_write = TRUE] \in Results /\ {"write"} \in SUBSET Events
    BY DEF TypeOK, Results, Events
  <2> QED
    BY <1>12, <1>16, <2>1 DEF synchronization_payload_buffer_write_detected
<1>17. ASSUME NEW expired \in BOOLEAN, synchronization_cow_full_detected(expired) PROVE TypeOK'
  <2>1. result \in Results /\ {"cow"} \in SUBSET Events
    BY DEF TypeOK, Events
  <2> QED
    BY <1>12, <1>17, <2>1 DEF synchronization_cow_full_detected
<1>18. ASSUME NEW expired \in BOOLEAN, pt_handle_overflow(expired) PROVE TypeOK'
  <2>1. PICK f \in pt_dump :
          /\ decoder_page_fault' = f
          /\ seen' = seen \union (IF f # 0 THEN {"fault"} ELSE {})
    BY <1>18 DEF pt_handle_overflow
  <2>2. seen' \subseteq Events
    BY <2>1 DEF TypeOK, Events
  <2> QED
    BY <1>18, <2>1, <2>2, DumpTyped, ExitTyped DEF pt_handle_overflow, TypeOK
<1>19. ASSUME NEW expired \in BOOLEAN, handle_hypercall_kafl_page_dump_bp(expired) PROVE TypeOK'
  BY <1>19, ExitTyped DEF handle_hypercall_kafl_page_dump_bp, TypeOK
<1>20. CASE synchronization_unlock
  <2>1. toQemu' \in Nat
    BY <1>20 DEF synchronization_unlock, TypeOK
  <2> QED
    BY <1>20, <2>1 DEF synchronization_unlock, TypeOK
<1>21. CASE wait_qemu
  <2>1. toFuzzer' \in Nat
    BY <1>21 DEF wait_qemu, TypeOK
  <2> QED
    BY <1>21, <2>1 DEF wait_qemu, TypeOK
<1>22. CASE new
  <2>1. toQemu' \in Nat
    BY <1>22 DEF new, execute_qemu, TypeOK
  <2>2. config' \in Configs
    BY <1>22 DEF new, TypeOK, Configs
  <2> QED
    BY <1>22, <2>1, <2>2 DEF new, TypeOK
<1>23. CASE Start
  <2>1. toQemu' \in Nat
    BY <1>23 DEF Start, execute_qemu, TypeOK
  <2>2. config' \in Configs
    BY <1>23 DEF Start, TypeOK, Configs
  <2>3. intrs' \in 0 .. MaxIntr
    BY <1>23, BoundsAssumption DEF Start
  <2> QED
    BY <1>23, <2>1, <2>2, <2>3 DEF Start, TypeOK
<1>24. CASE Return
  <2>1. config' \in Configs
    BY <1>24 DEF Return, DisableMode, TypeOK, Configs
  <2>2. exit' \in Reasons \union {"none"}
    BY <1>24 DEF Return, ExitReason, Reasons
  <2> QED
    BY <1>24, <2>1, <2>2 DEF Return, TypeOK
<1>25. CASE Again
  <2>1. toQemu' \in Nat
    BY <1>25 DEF Again, execute_qemu, TypeOK
  <2>2. config' \in Configs /\ old_address' \in Pages \union {0}
    BY <1>25 DEF Again, TypeOK, Configs, Results
  <2> QED
    BY <1>25, <2>1, <2>2 DEF Again, TypeOK
<1>26. CASE UNCHANGED vars
  BY <1>26 DEF vars, TypeOK
<1> QED
  BY <1>1, <1>2, <1>3, <1>4, <1>5, <1>6, <1>7, <1>8, <1>9, <1>10, <1>11, <1>13, <1>14, <1>15,
     <1>16, <1>17, <1>18, <1>19, <1>20, <1>21, <1>22, <1>23, <1>24, <1>25, <1>26
  DEF Next, Vcpu, Fuzzer

(* The variables of fuzzer and QEMU keep their types; in particular neither   *)
(* side ever takes a byte from the socket that the other did not send.        *)
THEOREM TypeCorrect == Spec => []TypeOK
BY TypeInit, TypeNext, PTL DEF Spec

-----------------------------------------------------------------------------
(* The handshake *)

(* A guest exit of a guest that has booted finds no byte in flight. *)
LEMMA NoneInFlight ==
  ASSUME Handshake, NEW expired \in BOOLEAN, NEW positions, "boot" \notin positions,
         GuestExit(expired, positions)
  PROVE  /\ fpc \in {"new_wait", "wait"} /\ toQemu = 0 /\ toFuzzer = 0
         /\ fpc' = fpc /\ toQemu' = 0
BY DEF Handshake, GuestExit, KvmExit, fuzzer

(* So does synchronization_lock: at boot it waits for the dry-run byte. *)
LEMMA LockInFlight ==
  ASSUME DryRunFirst, Handshake, NEW expired \in BOOLEAN, NEW positions,
         GuestExit(expired, positions), NEW who, NEW r, synchronization_lock(who, r, expired)
  PROVE  Handshake'
<1>1. vpc = "guest" /\ toQemu' = toQemu /\ fpc' = fpc
  BY DEF GuestExit, KvmExit, fuzzer
<1>2. fpc \in {"new_wait", "wait"} /\ toQemu = 0 /\ toFuzzer = 0
  BY <1>1 DEF Handshake, synchronization_lock
<1>3. vpc' = "pinged" /\ toFuzzer' = 1
  BY <1>2 DEF synchronization_lock
<1> QED
  BY <1>1, <1>2, <1>3 DEF Handshake

(* Nobody has a byte to send before QEMU has started. *)
LEMMA HandshakeInit == Init => Handshake
BY DEF Init, Handshake

(* Each side sends and takes a byte only when it is its turn. *)
LEMMA HandshakeNext ==
  ASSUME DryRunFirst, TypeOK, Handshake, [Next]_vars
  PROVE  Handshake'
<1> USE DEF fuzzer, socket, modes, paging, kvm, history, qemu
<1>1. CASE kvm_cpu_exec
  <2>1. CASE timeout_reload_pending
    <3>1. fpc \in {"new_wait", "wait"} /\ toQemu = 0 /\ toFuzzer = 0
      BY <1>1, <2>1 DEF kvm_cpu_exec, Handshake
    <3>2. vpc' = "loop" /\ UNCHANGED <<fpc, toQemu, toFuzzer>>
      BY <1>1 DEF kvm_cpu_exec
    <3> QED
      BY <3>1, <3>2 DEF Handshake
  <2>2. CASE ~timeout_reload_pending
    <3>1. UNCHANGED <<gpc, timer>>
      BY <1>1, <2>2 DEF kvm_cpu_exec
    <3>2. /\ vpc = "entry" /\ vpc' = "loop" /\ ~timeout_reload_pending'
          /\ UNCHANGED <<fpc, toQemu, toFuzzer>>
      BY <1>1 DEF kvm_cpu_exec
    <3> QED
      BY <3>1, <3>2, <2>2 DEF Handshake
  <2> QED BY <2>1, <2>2
<1>2. CASE KvmRun
  BY <1>2 DEF KvmRun, Handshake
<1>3. CASE CondWait
  BY <1>3 DEF CondWait, Handshake
<1>4. CASE Resume
  BY <1>4 DEF Resume, Handshake
<1>5. ASSUME NEW expired \in BOOLEAN, Interrupted(expired) PROVE Handshake'
  <2>1. /\ vpc = "guest" /\ vpc' = "entry" /\ (expired => timer.enabled)
        /\ timeout_reload_pending' = (timeout_reload_pending \/ expired)
        /\ timer' = disarm_sigprof_timer(timer, expired)
        /\ UNCHANGED <<fpc, toQemu, toFuzzer, gpc>>
    BY <1>5 DEF Interrupted, KvmExit
  <2>2. CASE timer.enabled
    BY <2>1, <2>2 DEF Handshake
  <2>3. CASE ~timer.enabled
    <3>1. timer' = timer /\ (timeout_reload_pending' <=> timeout_reload_pending)
      BY <2>1, <2>3 DEF disarm_sigprof_timer
    <3> QED
      BY <2>1, <3>1 DEF Handshake
  <2> QED BY <2>2, <2>3
<1>6. ASSUME NEW expired \in BOOLEAN,
             \/ handle_hypercall_kafl_printf(expired)
             \/ NextPayloadInit(expired) \/ NextPayload(expired)
      PROVE  Handshake'
  BY <1>6, LockInFlight DEF handle_hypercall_kafl_printf, NextPayloadInit, NextPayload
<1>7. ASSUME NEW expired \in BOOLEAN, NEW positions, "boot" \notin positions,
             GuestExit(expired, positions), vpc' \in {"loop", "entry"}, toFuzzer' = toFuzzer
      PROVE  Handshake'
  BY <1>7, NoneInFlight DEF Handshake
<1>8. ASSUME NEW expired \in BOOLEAN,
             \/ ReleaseInit(expired) \/ NextPayloadSnapshot(expired)
             \/ handle_hypercall_kafl_acquire(expired)
             \/ pt_handle_overflow(expired) \/ handle_hypercall_kafl_page_dump_bp(expired)
      PROVE  Handshake'
  BY <1>7, <1>8 DEF ReleaseInit, NextPayloadSnapshot, handle_hypercall_kafl_acquire,
                    pt_handle_overflow, handle_hypercall_kafl_page_dump_bp
<1>9. ASSUME NEW expired \in BOOLEAN, NEW to \in {"loop", "entry"}, NEW reload, NEW res,
             NEW event,
             Ending(expired, to, reload, res, event)
      PROVE  Handshake'
  BY <1>7, <1>9 DEF Ending
<1>10. ASSUME NEW expired \in BOOLEAN,
              \/ synchronization_disable_pt(expired)
              \/ synchronization_lock_crash_found(expired)
              \/ synchronization_lock_asan_found(expired)
              \/ synchronization_payload_buffer_write_detected(expired)
              \/ synchronization_cow_full_detected(expired)
       PROVE  Handshake'
  BY <1>9, <1>10 DEF synchronization_disable_pt, synchronization_lock_crash_found,
       synchronization_lock_asan_found, synchronization_payload_buffer_write_detected,
       synchronization_cow_full_detected
<1>11. CASE synchronization_unlock
  BY <1>11 DEF synchronization_unlock, Handshake
<1>12. CASE wait_qemu
  BY <1>12 DEF wait_qemu, Handshake
<1>13. CASE new
  BY <1>13 DEF new, execute_qemu, Handshake
<1>14. CASE Start
  BY <1>14 DEF Start, execute_qemu, Handshake
<1>15. CASE Return
  BY <1>15 DEF Return, Handshake
<1>16. CASE Again
  BY <1>16 DEF Again, execute_qemu, Handshake
<1>17. CASE UNCHANGED vars
  BY <1>17 DEF vars, Handshake
<1> QED
  BY <1>1, <1>2, <1>3, <1>4, <1>5, <1>6, <1>8, <1>10, <1>11, <1>12, <1>13, <1>14, <1>15,
     <1>16, <1>17
  DEF Next, Vcpu, Fuzzer

(* When the dry-run byte comes first, the fuzzer never looks at or changes    *)
(* the shared buffers while the vCPU thread is outside synchronization_lock   *)
(* or could be woken by a byte in flight.                                     *)
THEOREM Exclusion == DryRunFirst => (Spec => []BufferExclusion)
<1> SUFFICES ASSUME DryRunFirst PROVE Spec => []BufferExclusion
  OBVIOUS
<1>1. Init => TypeOK /\ Handshake
  BY TypeInit, HandshakeInit
<1>2. TypeOK /\ Handshake /\ [Next]_vars => TypeOK' /\ Handshake'
  BY TypeNext, HandshakeNext
<1>3. Handshake => BufferExclusion
  BY DEF Handshake, BufferExclusion
<1> QED
  BY <1>1, <1>2, <1>3, PTL DEF Spec

-----------------------------------------------------------------------------
(* Fields of the result section *)

(* Reporting a page leaves the other flags alone. *)
LEMMA PageResultFields ==
  ASSUME NEW r \in Results
  PROVE  /\ PageResult(r).hprintf = r.hprintf /\ PageResult(r).state = r.state
         /\ PageResult(r).crash_found = r.crash_found /\ PageResult(r).asan_found = r.asan_found
         /\ PageResult(r).timeout_found = r.timeout_found
         /\ PageResult(r).payload_write = r.payload_write
BY DEF Results, PageResult

(* Flushing the result section clears every flag but the state. *)
LEMMA FlushFields ==
  ASSUME NEW r \in Results, NEW q, q = [flush_auxiliary_result_buffer(r) EXCEPT !.success = TRUE]
  PROVE  /\ ~q.hprintf /\ q.state = r.state /\ ~q.crash_found /\ ~q.asan_found
         /\ ~q.timeout_found /\ ~q.payload_write /\ q.success /\ q.page = 0
BY DEF Results, NoResult, flush_auxiliary_result_buffer

-----------------------------------------------------------------------------
(* Positions *)

(* Until the snapshot is taken there is no timer and no new configuration. *)
LEMMA QuietNext ==
  ASSUME TypeOK, Quiet, [Next]_vars
  PROVE  Quiet'
<1> SUFFICES ASSUME Booting' PROVE ~timer'.enabled /\ ~timer'.set /\ ~timeout_reload_pending'
                                   /\ ~config'.changed
  BY DEF Quiet
<1> USE DEF fuzzer, socket, modes, paging, kvm, history, qemu
<1>1. ASSUME Booting
      PROVE  /\ timer \in Timers /\ ~timer.enabled /\ ~timer.set
             /\ ~timeout_reload_pending /\ ~config.changed
             /\ reset_timeout_detector(timer) = timer
             /\ \A e \in BOOLEAN : disarm_sigprof_timer(timer, e) = timer
  BY <1>1 DEF Quiet, TypeOK, Timers, reset_timeout_detector, disarm_sigprof_timer
<1>2. CASE kvm_cpu_exec
  <2>1. Booting /\ ~timeout_reload_pending
    BY <1>1, <1>2 DEF kvm_cpu_exec, Booting
  <2>2. UNCHANGED timer
    BY <1>2, <2>1 DEF kvm_cpu_exec
  <2> QED
    BY <1>1, <1>2, <2>1, <2>2 DEF kvm_cpu_exec
<1>3. CASE KvmRun \/ CondWait \/ synchronization_unlock \/ wait_qemu
  BY <1>1, <1>3 DEF KvmRun, CondWait, synchronization_unlock, wait_qemu, Booting
<1>4. CASE Resume
  <2>1. Booting
    BY <1>4 DEF Resume, Booting
  <2>2. config' = config
    BY <1>1, <1>4, <2>1 DEF Resume, check_auxiliary_config_buffer
  <2>3. timer' = timer
    BY <1>1, <1>4, <2>1 DEF Resume
  <2> QED
    BY <1>1, <1>4, <2>1, <2>2, <2>3 DEF Resume
<1>5. ASSUME NEW expired \in BOOLEAN, KvmExit(expired),
             \/ timer' = disarm_sigprof_timer(timer, expired)
             \/ timer' = reset_timeout_detector(disarm_sigprof_timer(timer, expired))
      PROVE  ~timer'.enabled /\ ~timer'.set /\ ~timeout_reload_pending' /\ ~config'.changed
  <2>1. Booting
    BY <1>5 DEF KvmExit, Booting
  <2> QED
    BY <1>1, <1>5, <2>1 DEF KvmExit
<1>6. ASSUME NEW expired \in BOOLEAN, Interrupted(expired)
      PROVE  ~timer'.enabled /\ ~timer'.set /\ ~timeout_reload_pending' /\ ~config'.changed
  BY <1>5, <1>6 DEF Interrupted
<1>7. ASSUME NEW expired \in BOOLEAN,
             \/ handle_hypercall_kafl_printf(expired)
             \/ NextPayloadInit(expired) \/ NextPayload(expired)
      PROVE  ~timer'.enabled /\ ~timer'.set /\ ~timeout_reload_pending' /\ ~config'.changed
  BY <1>5, <1>7 DEF handle_hypercall_kafl_printf, NextPayloadInit, NextPayload,
                    GuestExit, synchronization_lock
<1>8. ASSUME NEW expired \in BOOLEAN,
             \/ ReleaseInit(expired) \/ NextPayloadSnapshot(expired)
             \/ handle_hypercall_kafl_acquire(expired)
             \/ pt_handle_overflow(expired) \/ handle_hypercall_kafl_page_dump_bp(expired)
      PROVE  ~timer'.enabled /\ ~timer'.set /\ ~timeout_reload_pending' /\ ~config'.changed
  BY <1>5, <1>8 DEF ReleaseInit, NextPayloadSnapshot, handle_hypercall_kafl_acquire,
                    pt_handle_overflow, handle_hypercall_kafl_page_dump_bp, GuestExit
<1>9. ASSUME NEW expired \in BOOLEAN, NEW to \in {"loop", "entry"}, NEW reload, NEW res,
             NEW event,
             Ending(expired, to, reload, res, event)
      PROVE  ~timer'.enabled /\ ~timer'.set /\ ~timeout_reload_pending' /\ ~config'.changed
  BY <1>5, <1>9 DEF Ending, GuestExit
<1>10. ASSUME NEW expired \in BOOLEAN,
              \/ synchronization_disable_pt(expired)
              \/ synchronization_lock_crash_found(expired)
              \/ synchronization_lock_asan_found(expired)
              \/ synchronization_payload_buffer_write_detected(expired)
              \/ synchronization_cow_full_detected(expired)
       PROVE  ~timer'.enabled /\ ~timer'.set /\ ~timeout_reload_pending' /\ ~config'.changed
  BY <1>9, <1>10 DEF synchronization_disable_pt, synchronization_lock_crash_found,
       synchronization_lock_asan_found, synchronization_payload_buffer_write_detected,
       synchronization_cow_full_detected
<1>11. CASE new
  BY <1>1, <1>11 DEF new, Booting
<1>12. CASE Start \/ Return \/ Again
  BY <1>12 DEF Start, Return, Again, Booting
<1>13. CASE UNCHANGED vars
  BY <1>1, <1>13 DEF vars, Booting
<1> QED
  BY <1>2, <1>3, <1>4, <1>6, <1>7, <1>8, <1>10, <1>11, <1>12, <1>13 DEF Next, Vcpu, Fuzzer

(* What the guest's hypercalls do to the positions *)
LEMMA LockPositions ==
  ASSUME TypeOK, Handshake, Protocol, NEW expired \in BOOLEAN, NEW positions,
         GuestExit(expired, positions), NEW who \in {"printf", "init", "next"}, NEW r \in Results,
         synchronization_lock(who, r, expired)
  PROVE  /\ vpc = "guest" /\ vpc' = "pinged" /\ caller' = who /\ caller = "none"
         /\ gpc \in positions /\ fpc' = fpc /\ fpc \in {"new_wait", "wait"}
         /\ toFuzzer' = toFuzzer + 1 /\ in_fuzzing_loop' = in_fuzzing_loop
         /\ result'.hprintf = r.hprintf /\ result'.state = r.state
<1>1. vpc = "guest" /\ gpc \in positions /\ fpc' = fpc
  BY DEF GuestExit, KvmExit, fuzzer
<1>2. caller = "none" /\ fpc \in {"new_wait", "wait"}
  BY <1>1 DEF Protocol, Blocked, Handshake
<1> QED
  BY <1>1, <1>2, PageResultFields DEF synchronization_lock

(* The guest starts booting, with an empty result section. *)
LEMMA ProtocolInit == Init => Protocol
BY DEF Init, Protocol, Blocked, Booting, NoResult

(* Every step keeps the protocol between guest, QEMU and fuzzer. *)
LEMMA ProtocolNext ==
  ASSUME DryRunFirst, TypeOK, Handshake, Handshake', Quiet, Protocol, [Next]_vars
  PROVE  Protocol'
<1> USE DEF fuzzer, socket, modes, paging, kvm, history, qemu
<1>1. CASE kvm_cpu_exec
  <2>1. /\ vpc = "entry" /\ vpc' = "loop"
        /\ UNCHANGED <<fpc, toFuzzer, caller>>
    BY <1>1 DEF kvm_cpu_exec
  <2>2. CASE timeout_reload_pending
    <3>1. ~Booting
      BY <2>2 DEF Quiet
    <3>2. gpc' = "snap" /\ ~in_fuzzing_loop'
      BY <1>1, <2>2 DEF kvm_cpu_exec, synchronization_lock_timeout_found, EndExecution
    <3>3. result'.hprintf = result.hprintf /\ result'.state = result.state
      BY <1>1, <2>2 DEF kvm_cpu_exec, synchronization_lock_timeout_found, TypeOK, Results
    <3> QED
      BY <2>1, <3>1, <3>2, <3>3 DEF Protocol, Blocked, Booting
  <2>3. CASE ~timeout_reload_pending
    <3>1. UNCHANGED <<result, gpc, in_fuzzing_loop>>
      BY <1>1, <2>3 DEF kvm_cpu_exec
    <3> QED
      BY <2>1, <3>1 DEF Protocol, Blocked, Booting
  <2> QED BY <2>2, <2>3
<1>2. CASE KvmRun
  BY <1>2 DEF KvmRun, Protocol, Blocked, Booting
<1>3. CASE CondWait
  BY <1>3 DEF CondWait, Protocol, Blocked, Booting
<1>4. CASE Resume
  <2>1. /\ vpc = "woken" /\ vpc' = "loop" /\ caller' = "none"
        /\ UNCHANGED <<fpc, toFuzzer, in_fuzzing_loop>>
    BY <1>4 DEF Resume
  <2>2. ~result'.hprintf /\ result'.state = result.state
    BY <1>4, FlushFields DEF Resume, TypeOK
  <2>3. CASE caller = "next"
    <3>1. gpc' = "pre"
      BY <1>4, <2>3 DEF Resume
    <3>2. fpc = "wait" /\ gpc = "snap"
      BY <2>1, <2>3 DEF Protocol, Handshake, Booting
    <3> QED
      BY <2>1, <2>2, <3>1, <3>2 DEF Protocol, Blocked, Booting
  <2>4. CASE caller # "next"
    <3>1. gpc' = gpc
      BY <1>4, <2>4 DEF Resume
    <3>2. fpc # "idle"
      BY <2>1 DEF Handshake
    <3> QED
      BY <2>1, <2>2, <3>1, <3>2 DEF Protocol, Blocked, Booting
  <2> QED BY <2>3, <2>4
<1>5. ASSUME NEW expired \in BOOLEAN, Interrupted(expired) PROVE Protocol'
  <2>1. /\ vpc = "guest" /\ vpc' = "entry"
        /\ UNCHANGED <<fpc, toFuzzer, caller, result, gpc, in_fuzzing_loop>>
    BY <1>5 DEF Interrupted, KvmExit
  <2> QED
    BY <2>1 DEF Protocol, Blocked, Booting
<1>6. ASSUME NEW expired \in BOOLEAN, handle_hypercall_kafl_printf(expired) PROVE Protocol'
  <2>1. [result EXCEPT !.hprintf = TRUE] \in Results
        /\ [result EXCEPT !.hprintf = TRUE].hprintf
        /\ [result EXCEPT !.hprintf = TRUE].state = result.state
    BY DEF TypeOK, Results
  <2>2. gpc \in {"boot", "dryrun", "agent", "pre", "test"} /\ gpc' = gpc
        /\ vpc' = "pinged" /\ caller' = "printf" /\ fpc' = fpc /\ fpc \in {"new_wait", "wait"}
        /\ in_fuzzing_loop' = in_fuzzing_loop /\ result'.hprintf /\ result'.state = result.state
    BY <1>6, <2>1, LockPositions DEF handle_hypercall_kafl_printf
  <2> QED
    BY <2>2 DEF Protocol, Blocked, Booting
<1>7. ASSUME NEW expired \in BOOLEAN, NextPayloadInit(expired) PROVE Protocol'
  <2>1. PICK r \in Results : r = [result EXCEPT !.state = 2]
    BY DEF TypeOK, Results
  <2>2. r.hprintf = result.hprintf /\ r.state = 2
    BY <2>1 DEF TypeOK, Results
  <2>3. GuestExit(expired, {"boot"}) /\ gpc' = "dryrun" /\ synchronization_lock("init", r, expired)
    BY <1>7, <2>1 DEF NextPayloadInit
  <2>4. /\ gpc \in {"boot"} /\ caller = "none" /\ in_fuzzing_loop' = in_fuzzing_loop
        /\ vpc' = "pinged" /\ caller' = "init" /\ fpc' = fpc /\ fpc \in {"new_wait", "wait"}
        /\ result'.hprintf = r.hprintf /\ result'.state = r.state
    BY <2>3, LockPositions
  <2> QED
    BY <2>2, <2>3, <2>4 DEF Protocol, Blocked, Booting
<1>8. ASSUME NEW expired \in BOOLEAN, NextPayload(expired) PROVE Protocol'
  <2>1. gpc = "snap" /\ gpc' = "snap" /\ caller = "none"
        /\ vpc' = "pinged" /\ caller' = "next" /\ fpc' = fpc /\ fpc \in {"new_wait", "wait"}
        /\ in_fuzzing_loop' = in_fuzzing_loop
        /\ result'.hprintf = result.hprintf /\ result'.state = result.state
        /\ toFuzzer' = toFuzzer + 1
    BY <1>8, LockPositions DEF NextPayload, TypeOK
  <2>2. toFuzzer' = 1
    BY <2>1 DEF Handshake
  <2> QED
    BY <2>1, <2>2 DEF Protocol, Blocked, Booting
<1>9. ASSUME NEW expired \in BOOLEAN, NEW positions, GuestExit(expired, positions)
      PROVE  /\ vpc = "guest" /\ gpc \in positions /\ fpc' = fpc
             /\ fpc \in {"new_wait", "wait"} /\ caller = "none" /\ ~result.hprintf
  BY <1>9 DEF GuestExit, KvmExit, Handshake, Protocol, Blocked
<1>10. ASSUME NEW expired \in BOOLEAN, ReleaseInit(expired) PROVE Protocol'
  BY <1>9, <1>10 DEF ReleaseInit, Protocol, Blocked, Booting
<1>11. ASSUME NEW expired \in BOOLEAN, NextPayloadSnapshot(expired) PROVE Protocol'
  <2>1. result'.hprintf = result.hprintf /\ result'.state = 3
    BY <1>11 DEF NextPayloadSnapshot, TypeOK, Results
  <2> QED
    BY <1>9, <1>11, <2>1 DEF NextPayloadSnapshot, Protocol, Blocked, Booting
<1>12. ASSUME NEW expired \in BOOLEAN, handle_hypercall_kafl_acquire(expired) PROVE Protocol'
  BY <1>9, <1>12 DEF handle_hypercall_kafl_acquire, Protocol, Blocked, Booting
<1>13. ASSUME NEW expired \in BOOLEAN,
              pt_handle_overflow(expired) \/ handle_hypercall_kafl_page_dump_bp(expired)
       PROVE  Protocol'
  BY <1>9, <1>13 DEF pt_handle_overflow, handle_hypercall_kafl_page_dump_bp, Protocol, Blocked,
                     Booting
<1>14. ASSUME NEW expired \in BOOLEAN, NEW to \in {"loop", "entry"}, NEW reload, NEW res,
             NEW event,
              Ending(expired, to, reload, res, event),
              res.hprintf = result.hprintf, res.state = result.state
       PROVE  Protocol'
  BY <1>9, <1>14 DEF Ending, EndExecution, Protocol, Blocked, Booting
<1>15. ASSUME NEW expired \in BOOLEAN,
              \/ synchronization_disable_pt(expired)
              \/ synchronization_lock_crash_found(expired)
              \/ synchronization_lock_asan_found(expired)
              \/ synchronization_payload_buffer_write_detected(expired)
              \/ synchronization_cow_full_detected(expired)
       PROVE  Protocol'
  <2>1. PICK to \in {"loop", "entry"} : \E reload, res, event :
          /\ Ending(expired, to, reload, res, event)
          /\ \/ res = [result EXCEPT !.success = @ /\ in_fuzzing_loop]
             \/ res = [result EXCEPT !.crash_found = TRUE]
             \/ res = [result EXCEPT !.asan_found = TRUE, !.success = @ /\ in_fuzzing_loop]
             \/ res = [result EXCEPT !.payload_write = TRUE]
             \/ res = result
    BY <1>15, Zenon DEF synchronization_disable_pt, synchronization_lock_crash_found,
       synchronization_lock_asan_found, synchronization_payload_buffer_write_detected,
       synchronization_cow_full_detected
  <2>2. PICK reload, res, event :
          /\ Ending(expired, to, reload, res, event)
          /\ \/ res = [result EXCEPT !.success = @ /\ in_fuzzing_loop]
             \/ res = [result EXCEPT !.crash_found = TRUE]
             \/ res = [result EXCEPT !.asan_found = TRUE, !.success = @ /\ in_fuzzing_loop]
             \/ res = [result EXCEPT !.payload_write = TRUE]
             \/ res = result
    BY <2>1, Zenon
  <2>3. res.hprintf = result.hprintf /\ res.state = result.state
    BY <2>2 DEF TypeOK, Results
  <2> QED
    BY <1>14, <2>2, <2>3
<1>16. CASE synchronization_unlock
  BY <1>16 DEF synchronization_unlock, Handshake, Protocol, Blocked, Booting
<1>17. CASE wait_qemu
  BY <1>17 DEF wait_qemu, Handshake, Protocol, Blocked, Booting
<1>18. CASE new
  <2>1. vpc \in {"pinged", "waiting"} /\ toFuzzer = 0 /\ fpc = "new_check"
    BY <1>18 DEF new, Handshake
  <2>2. result.state = 3 => caller = "next"
    BY <2>1 DEF TypeOK, Protocol, Blocked, Booting
  <2>3. result.state # 3 => caller # "next"
    BY DEF Protocol
  <2> QED
    BY <1>18, <2>1, <2>2, <2>3 DEF new, Protocol, Blocked, Booting
<1>19. CASE Start
  BY <1>19 DEF Start, Handshake, Protocol, Blocked, Booting
<1>20. CASE Return
  <2>1. vpc \in {"pinged", "waiting"} /\ fpc = "check" /\ ~result.hprintf
    BY <1>20 DEF Return, Finished, Handshake
  <2>2. caller = "next"
    BY <2>1 DEF TypeOK, Protocol, Blocked, Booting
  <2> QED
    BY <1>20, <2>1, <2>2 DEF Return, Protocol, Blocked, Booting
<1>21. CASE Again
  BY <1>21 DEF Again, Handshake, Protocol, Blocked, Booting
<1>22. CASE UNCHANGED vars
  BY <1>22 DEF vars, Protocol, Blocked, Booting
<1> QED
  BY <1>1, <1>2, <1>3, <1>4, <1>5, <1>6, <1>7, <1>8, <1>10, <1>11, <1>12, <1>13, <1>15, <1>16,
     <1>17, <1>18, <1>19, <1>20, <1>21, <1>22
  DEF Next, Vcpu, Fuzzer

-----------------------------------------------------------------------------
(* Verdicts *)

Flags(r) == <<r.crash_found, r.asan_found, r.payload_write>>

(* Nothing is reported before the first execution. *)
LEMMA OutcomeInit == Init => Outcome
BY DEF Init, Outcome, NoResult

(* A step of the running guest that makes no observation of its own keeps     *)
(* Outcome, as long as the result section keeps its flags.                    *)
LEMMA OutcomeKept ==
  ASSUME Outcome, Handshake, vpc \in {"entry", "loop", "guest"},
         UNCHANGED <<fpc, exit, payload, ran>>,
         Flags(result') = Flags(result),
         seen' \intersect {"crash", "asan", "write"} = seen \intersect {"crash", "asan", "write"},
         gpc = "snap" => gpc' = "snap"
  PROVE  Outcome'
<1>1. Submitted => FALSE
  BY DEF Handshake, Submitted
<1>2. ran' = payload'
  BY <1>1 DEF Outcome
<1>3. /\ result'.crash_found <=> "crash" \in seen'
      /\ result'.asan_found <=> "asan" \in seen'
      /\ result'.payload_write <=> "write" \in seen'
  <2>1. /\ result'.crash_found = result.crash_found /\ result'.asan_found = result.asan_found
        /\ result'.payload_write = result.payload_write
    BY DEF Flags
  <2>2. \A e \in {"crash", "asan", "write"} : e \in seen' <=> e \in seen
    OBVIOUS
  <2> QED
    BY <2>1, <2>2 DEF Outcome
<1>4. gpc' # "snap" => seen' \intersect {"crash", "asan", "write"} = {}
  BY DEF Outcome
<1> QED
  BY <1>2, <1>3, <1>4 DEF Outcome, Booting

(* synchronization_lock keeps the flags. *)
LEMMA OutcomeLock ==
  ASSUME TypeOK, Outcome, Handshake, NEW expired \in BOOLEAN, NEW positions,
         GuestExit(expired, positions), NEW who, NEW r \in Results,
         synchronization_lock(who, r, expired), Flags(r) = Flags(result),
         seen' \subseteq seen \union {"hprintf"}, seen \subseteq seen', gpc = "snap" => gpc' = "snap"
  PROVE  Outcome'
<1>1. vpc = "guest" /\ UNCHANGED <<fpc, exit, payload, ran>>
  BY DEF GuestExit, KvmExit, synchronization_lock, fuzzer
<1>2. Flags(result') = Flags(result)
  BY PageResultFields DEF synchronization_lock, Flags
<1>3. seen' \intersect {"crash", "asan", "write"} = seen \intersect {"crash", "asan", "write"}
  OBVIOUS
<1> QED
  BY <1>1, <1>2, <1>3, OutcomeKept

(* Every step keeps the flags true to what the guest did. *)
LEMMA OutcomeNext ==
  ASSUME DryRunFirst, TypeOK, Handshake, Protocol, Outcome, [Next]_vars
  PROVE  Outcome'
<1> USE DEF fuzzer, socket, modes, paging, kvm, history, qemu
<1>1. ASSUME NEW f \in pt_dump, NEW event,
             seen' = seen \union event \union (IF f # 0 THEN {"fault"} ELSE {})
      PROVE  \A e \in {"crash", "asan", "write"} : e \in seen' <=> e \in seen \/ e \in event
  BY <1>1
<1>2. CASE kvm_cpu_exec
  <2>1. vpc = "entry" /\ UNCHANGED <<fpc, exit, payload>>
    BY <1>2 DEF kvm_cpu_exec
  <2>2. CASE timeout_reload_pending
    <3>1. synchronization_lock_timeout_found
      BY <1>2, <2>2 DEF kvm_cpu_exec
    <3>2. Flags(result') = Flags(result)
      BY <3>1 DEF synchronization_lock_timeout_found, Flags, TypeOK, Results
    <3>3. \A e \in {"crash", "asan", "write"} : e \in seen' <=> e \in seen
      BY <1>1, <3>1 DEF synchronization_lock_timeout_found, EndExecution
    <3>4. gpc' = "snap" /\ ran' = ran
      BY <3>1 DEF synchronization_lock_timeout_found, EndExecution
    <3> QED
      BY <2>1, <3>2, <3>3, <3>4, OutcomeKept
  <2>3. CASE ~timeout_reload_pending
    <3>1. UNCHANGED <<result, seen, gpc, ran>>
      BY <1>2, <2>3 DEF kvm_cpu_exec
    <3> QED
      BY <2>1, <3>1, OutcomeKept
  <2> QED BY <2>2, <2>3
<1>3. CASE KvmRun
  BY <1>3, OutcomeKept DEF KvmRun
<1>4. CASE CondWait \/ synchronization_unlock
  <2>1. UNCHANGED <<fpc, exit, payload, ran, result, seen, gpc, caller>>
    BY <1>4 DEF CondWait, synchronization_unlock
  <2>2. Submitted => Submitted'
    BY <1>4, <2>1 DEF CondWait, synchronization_unlock, Submitted, Handshake
  <2> QED
    BY <2>1, <2>2 DEF Outcome, Booting
<1>5. CASE Resume
  <2>1. ~result'.crash_found /\ ~result'.asan_found /\ ~result'.payload_write
    BY <1>5, FlushFields DEF Resume, TypeOK
  <2>2. UNCHANGED <<fpc, exit, payload>>
    BY <1>5 DEF Resume
  <2>3. CASE caller = "next"
    <3>1. ran' = payload /\ seen' \in {{"dump"}, {}}
      BY <1>5, <2>3 DEF Resume
    <3> QED
      BY <2>1, <2>2, <3>1 DEF Outcome, Booting
  <2>4. CASE caller # "next"
    <3>1. UNCHANGED <<ran, seen, gpc>>
      BY <1>5, <2>4 DEF Resume
    <3>2. caller \in {"init", "printf"} /\ ~Submitted
      BY <1>5, <2>4 DEF Resume, TypeOK, Protocol, Blocked, Submitted
    <3>3. seen \intersect {"crash", "asan", "write"} = {}
      BY <3>2 DEF Protocol, Outcome
    <3> QED
      BY <2>1, <2>2, <3>1, <3>2, <3>3 DEF Outcome, Booting
  <2> QED BY <2>3, <2>4
<1>6. ASSUME NEW expired \in BOOLEAN, Interrupted(expired) PROVE Outcome'
  <2>1. vpc = "guest" /\ UNCHANGED <<fpc, exit, payload, ran, result, seen, gpc>>
    BY <1>6 DEF Interrupted, KvmExit
  <2> QED
    BY <2>1, OutcomeKept
<1>7. ASSUME NEW expired \in BOOLEAN, handle_hypercall_kafl_printf(expired) PROVE Outcome'
  <2>1. PICK r \in Results : r = [result EXCEPT !.hprintf = TRUE]
    BY DEF TypeOK, Results
  <2>2. Flags(r) = Flags(result)
    BY <2>1 DEF Flags, TypeOK, Results
  <2> QED
    BY <1>7, <2>1, <2>2, OutcomeLock DEF handle_hypercall_kafl_printf
<1>8. ASSUME NEW expired \in BOOLEAN, NextPayloadInit(expired) PROVE Outcome'
  <2>1. PICK r \in Results : r = [result EXCEPT !.state = 2]
    BY DEF TypeOK, Results
  <2>2. Flags(r) = Flags(result)
    BY <2>1 DEF Flags, TypeOK, Results
  <2>3. GuestExit(expired, {"boot"}) /\ synchronization_lock("init", r, expired)
        /\ gpc = "boot" /\ seen' = seen
    BY <1>8, <2>1 DEF NextPayloadInit, GuestExit
  <2> QED
    BY <2>2, <2>3, OutcomeLock
<1>9. ASSUME NEW expired \in BOOLEAN, NextPayload(expired) PROVE Outcome'
  BY <1>9, OutcomeLock DEF NextPayload, TypeOK
<1>10. ASSUME NEW expired \in BOOLEAN, ReleaseInit(expired) \/ handle_hypercall_kafl_page_dump_bp(expired)
       PROVE  Outcome'
  <2>1. vpc = "guest" /\ gpc # "snap" /\ UNCHANGED <<fpc, exit, payload, ran, result, seen>>
    BY <1>10 DEF ReleaseInit, handle_hypercall_kafl_page_dump_bp, GuestExit, KvmExit
  <2> QED
    BY <2>1, OutcomeKept
<1>11. ASSUME NEW expired \in BOOLEAN, NextPayloadSnapshot(expired) PROVE Outcome'
  <2>1. vpc = "guest" /\ gpc # "snap" /\ UNCHANGED <<fpc, exit, payload, ran, seen>>
    BY <1>11 DEF NextPayloadSnapshot, GuestExit, KvmExit
  <2>2. Flags(result') = Flags(result)
    BY <1>11 DEF NextPayloadSnapshot, Flags, TypeOK, Results
  <2> QED
    BY <2>1, <2>2, OutcomeKept
<1>12. ASSUME NEW expired \in BOOLEAN, handle_hypercall_kafl_acquire(expired) PROVE Outcome'
  <2>1. vpc = "guest" /\ gpc # "snap" /\ UNCHANGED <<fpc, exit, payload, ran, result>>
    BY <1>12 DEF handle_hypercall_kafl_acquire, GuestExit, KvmExit
  <2>2. \A e \in {"crash", "asan", "write"} : e \in seen' <=> e \in seen
    BY <1>12 DEF handle_hypercall_kafl_acquire
  <2> QED
    BY <2>1, <2>2, OutcomeKept
<1>13. ASSUME NEW expired \in BOOLEAN, pt_handle_overflow(expired) PROVE Outcome'
  <2>1. vpc = "guest" /\ gpc # "snap" /\ UNCHANGED <<fpc, exit, payload, ran, result>>
    BY <1>13 DEF pt_handle_overflow, GuestExit, KvmExit
  <2>2. \A e \in {"crash", "asan", "write"} : e \in seen' <=> e \in seen
    BY <1>13 DEF pt_handle_overflow
  <2> QED
    BY <2>1, <2>2, OutcomeKept
<1>14. ASSUME NEW expired \in BOOLEAN, NEW to \in {"loop", "entry"}, NEW reload, NEW res,
             NEW event,
              Ending(expired, to, reload, res, event),
              res.crash_found <=> result.crash_found \/ "crash" \in event,
              res.asan_found <=> result.asan_found \/ "asan" \in event,
              res.payload_write <=> result.payload_write \/ "write" \in event
       PROVE  Outcome'
  <2>1. vpc = "guest" /\ gpc' = "snap" /\ UNCHANGED <<fpc, exit, payload, ran>> /\ result' = res
    BY <1>14 DEF Ending, EndExecution, GuestExit, KvmExit
  <2>2. \A e \in {"crash", "asan", "write"} : e \in seen' <=> e \in seen \/ e \in event
    BY <1>1, <1>14 DEF Ending, EndExecution
  <2>3. ~Submitted
    BY <2>1 DEF Handshake, Submitted
  <2> QED
    BY <1>14, <2>1, <2>2, <2>3 DEF Outcome, Booting
<1>15. ASSUME NEW expired \in BOOLEAN, synchronization_disable_pt(expired) PROVE Outcome'
  <2>1. PICK r : r = [result EXCEPT !.success = @ /\ in_fuzzing_loop]
    OBVIOUS
  <2>2. Flags(r) = Flags(result)
    BY <2>1 DEF Flags, TypeOK, Results
  <2> QED
    BY <1>14, <1>15, <2>1, <2>2 DEF synchronization_disable_pt, Flags
<1>16. ASSUME NEW expired \in BOOLEAN, synchronization_lock_crash_found(expired) PROVE Outcome'
  <2>1. PICK r : r = [result EXCEPT !.crash_found = TRUE]
    OBVIOUS
  <2>2. r.crash_found /\ r.asan_found = result.asan_found /\ r.payload_write = result.payload_write
    BY <2>1 DEF TypeOK, Results
  <2> QED
    BY <1>14, <1>16, <2>1, <2>2 DEF synchronization_lock_crash_found
<1>17. ASSUME NEW expired \in BOOLEAN, synchronization_lock_asan_found(expired) PROVE Outcome'
  <2>1. PICK r : r = [result EXCEPT !.asan_found = TRUE, !.success = @ /\ in_fuzzing_loop]
    OBVIOUS
  <2>2. r.asan_found /\ r.crash_found = result.crash_found /\ r.payload_write = result.payload_write
    BY <2>1 DEF TypeOK, Results
  <2> QED
    BY <1>14, <1>17, <2>1, <2>2 DEF synchronization_lock_asan_found
<1>18. ASSUME NEW expired \in BOOLEAN, synchronization_payload_buffer_write_detected(expired)
       PROVE  Outcome'
  <2>1. PICK r : r = [result EXCEPT !.payload_write = TRUE]
    OBVIOUS
  <2>2. r.payload_write /\ r.crash_found = result.crash_found /\ r.asan_found = result.asan_found
    BY <2>1 DEF TypeOK, Results
  <2> QED
    BY <1>14, <1>18, <2>1, <2>2 DEF synchronization_payload_buffer_write_detected
<1>19. ASSUME NEW expired \in BOOLEAN, synchronization_cow_full_detected(expired) PROVE Outcome'
  BY <1>14, <1>19 DEF synchronization_cow_full_detected
<1>20. CASE wait_qemu
  <2>1. ~Submitted
    BY <1>20 DEF wait_qemu, Handshake, Submitted
  <2> QED
    BY <1>20, <2>1 DEF wait_qemu, Outcome, Booting
<1>21. CASE new
  BY <1>21 DEF new, Outcome, Booting, Submitted
<1>22. CASE Start
  <2>1. Submitted'
    BY <1>22 DEF Start, execute_qemu, Handshake, Protocol, Submitted
  <2> QED
    BY <1>22, <2>1 DEF Start, Outcome, Booting
<1>23. CASE Return \/ Again
  BY <1>23 DEF Return, Again, Outcome, Booting, Submitted
<1>24. CASE UNCHANGED vars
  BY <1>24 DEF vars, Outcome, Booting, Submitted
<1> QED
  BY <1>2, <1>3, <1>4, <1>5, <1>6, <1>7, <1>8, <1>9, <1>10, <1>11, <1>12, <1>13, <1>15, <1>16,
     <1>17, <1>18, <1>19, <1>20, <1>21, <1>22, <1>23, <1>24
  DEF Next, Vcpu, Fuzzer

(* Between two calls QEMU stands still: only pthread_cond_wait is still to be *)
(* entered.                                                                   *)
LEMMA IdleSteps ==
  ASSUME Handshake, [Next]_vars, fpc = "idle"
  PROVE  CondWait \/ Start \/ UNCHANGED vars
<1>1. vpc \in {"pinged", "waiting"} /\ toQemu = 0
  BY DEF Handshake
<1>2. Vcpu => CondWait
  BY <1>1 DEF Vcpu, kvm_cpu_exec, KvmRun, Resume, Interrupted, handle_hypercall_kafl_printf,
     NextPayloadInit, ReleaseInit, NextPayloadSnapshot, NextPayload, handle_hypercall_kafl_acquire,
     synchronization_disable_pt, synchronization_lock_crash_found, synchronization_lock_asan_found,
     synchronization_payload_buffer_write_detected, synchronization_cow_full_detected,
     pt_handle_overflow, handle_hypercall_kafl_page_dump_bp, Ending, GuestExit, KvmExit
<1>3. Fuzzer => Start
  BY DEF Fuzzer, wait_qemu, new, Return, Again
<1> QED
  BY <1>1, <1>2, <1>3 DEF Next, synchronization_unlock

(* Only QemuProcess::new and the end of a call lead there. *)
LEMMA IdleEntry ==
  ASSUME [Next]_vars, fpc # "idle", fpc' = "idle"
  PROVE  new \/ Return
<1> USE DEF fuzzer
<1>1. Vcpu => fpc' = fpc
  BY DEF Vcpu, kvm_cpu_exec, KvmRun, CondWait, Resume, Interrupted, handle_hypercall_kafl_printf,
     NextPayloadInit, ReleaseInit, NextPayloadSnapshot, NextPayload, handle_hypercall_kafl_acquire,
     synchronization_disable_pt, synchronization_lock_crash_found, synchronization_lock_asan_found,
     synchronization_payload_buffer_write_detected, synchronization_cow_full_detected,
     pt_handle_overflow, handle_hypercall_kafl_page_dump_bp, Ending, GuestExit, KvmExit
<1>2. synchronization_unlock => fpc' = fpc
  BY DEF synchronization_unlock
<1>3. Fuzzer => new \/ Return
  BY DEF Fuzzer, wait_qemu, Start, Again
<1> QED
  BY <1>1, <1>2, <1>3 DEF Next, vars

(* What the fuzzer reads out of the result section. *)
LEMMA ExitReasonMeaning ==
  ASSUME NEW r \in Results
  PROVE  /\ ExitReason(r) = "Crash" <=> r.crash_found
         /\ ExitReason(r) = "Asan" => r.asan_found
         /\ ExitReason(r) = "InvalidWriteToPayload" => r.payload_write
         /\ ExitReason(r) = "Timeout" => r.timeout_found
         /\ ExitReason(r) = "Normal" => /\ ~r.crash_found /\ ~r.asan_found
                                        /\ ~r.payload_write /\ r.success
BY DEF ExitReason, Results

(* So the fuzzer's verdict stays the one of its own execution. *)
LEMMA VerdictNext ==
  ASSUME TypeOK, Handshake, Outcome, VerdictIsOwn, [Next]_vars
  PROVE  VerdictIsOwn'
<1> SUFFICES ASSUME fpc' = "idle", exit' # "none"
             PROVE  VerdictIsOwn'
  BY DEF VerdictIsOwn
<1> USE DEF fuzzer, socket, modes, paging, kvm, history, qemu
<1>1. CASE fpc = "idle"
  <2>1. UNCHANGED <<fpc, exit, ran, payload, seen>>
    BY <1>1, IdleSteps DEF CondWait, Start, vars
  <2> QED
    BY <1>1, <2>1 DEF VerdictIsOwn
<1>2. CASE new
  BY <1>2 DEF new, Outcome, Booting
<1>3. CASE Return
  <2>1. exit' = ExitReason(result) /\ UNCHANGED <<ran, payload, seen>>
    BY <1>3 DEF Return
  <2>2. ran = payload
    BY <1>3 DEF Return, Outcome, Submitted
  <2>3. /\ (exit' = "Crash") <=> ("crash" \in seen)
        /\ exit' = "Asan" => "asan" \in seen
        /\ exit' = "InvalidWriteToPayload" => "write" \in seen
        /\ exit' = "Normal" => seen \intersect {"crash", "asan", "write"} = {}
    BY <2>1, ExitReasonMeaning DEF Outcome, TypeOK
  <2> QED
    BY <2>1, <2>2, <2>3 DEF VerdictIsOwn
<1> QED
  BY <1>1, <1>2, <1>3, IdleEntry

(* The positions, results and verdicts of a handshake that starts with the    *)
(* dry-run byte.                                                              *)
Core == TypeOK /\ Handshake /\ Quiet /\ Protocol /\ Outcome /\ VerdictIsOwn

(* The layers so far always hold. *)
LEMMA CoreInvariant == DryRunFirst => (Spec => []Core)
<1> SUFFICES ASSUME DryRunFirst PROVE Spec => []Core
  OBVIOUS
<1>1. Init => Core
  <2>1. Init => Quiet /\ VerdictIsOwn
    BY DEF Init, Quiet, VerdictIsOwn
  <2> QED
    BY <2>1, TypeInit, HandshakeInit, ProtocolInit, OutcomeInit DEF Core
<1>2. Core /\ [Next]_vars => Core'
  <2> SUFFICES ASSUME Core, [Next]_vars PROVE Core'
    OBVIOUS
  <2>1. TypeOK' /\ Handshake' /\ Quiet'
    BY TypeNext, HandshakeNext, QuietNext DEF Core
  <2>2. Protocol'
    BY <2>1, ProtocolNext DEF Core
  <2>3. Outcome' /\ VerdictIsOwn'
    BY OutcomeNext, VerdictNext DEF Core
  <2> QED
    BY <2>1, <2>2, <2>3 DEF Core
<1> QED
  BY <1>1, <1>2, PTL DEF Spec

(* Whatever the guest, the timer and the other threads do, run_test answers   *)
(* from an execution of the payload it was called with: crash, sanitizer      *)
(* report and payload write are that execution's, and Normal means none.      *)
THEOREM Verdicts == DryRunFirst => (Spec => []VerdictIsOwn)
<1>1. Core => VerdictIsOwn
  BY DEF Core
<1> QED
  BY <1>1, CoreInvariant, PTL

-----------------------------------------------------------------------------
(* Configuration, timer and snapshot *)

Funded(t) == t.enabled => t.left

(* A funded timer stays funded under the timer's operations. *)
LEMMA TimerFacts ==
  ASSUME NEW t \in Timers, Funded(t), NEW b \in BOOLEAN
  PROVE  /\ Funded(reset_timeout_detector(t)) /\ (t.left => reset_timeout_detector(t).left)
         /\ Funded(disarm_sigprof_timer(t, b)) /\ (t.left => disarm_sigprof_timer(t, b).left)
         /\ Funded(reset_timeout_detector(update_itimer(t, TRUE)))
         /\ reset_timeout_detector(update_itimer(t, TRUE)).left
         /\ Funded(reset_timeout_detector(disarm_sigprof_timer(t, b)))
         /\ (t.left => reset_timeout_detector(disarm_sigprof_timer(t, b)).left)
BY DEF Timers, Funded, reset_timeout_detector, update_itimer, disarm_sigprof_timer

(* Nothing is configured while the guest boots. *)
LEMMA ConfiguredInit == Init => Configured
BY DEF Init, Configured, Booting

(* A step of the running vCPU thread leaves the configuration alone. *)
LEMMA ConfiguredKept ==
  ASSUME Handshake, Configured, vpc \in {"entry", "loop", "guest"}, vpc' # "abort",
         UNCHANGED <<fpc, mode, config, in_reload_mode, redqueen, trace>>,
         Funded(timer'), timer.left => timer'.left, gpc' = "snap" => restored'
  PROVE  Configured'
<1>1. ~config.changed
  BY DEF Handshake, Configured, Submitted
<1> QED
  BY <1>1 DEF Configured, Booting, Funded

(* Every step keeps the guest's configuration that of the call. *)
LEMMA ConfiguredNext ==
  ASSUME TypeOK, Handshake, Protocol, Quiet, Configured, [Next]_vars
  PROVE  Configured'
<1> USE DEF fuzzer, socket, modes, paging, kvm, history, qemu
<1>1. timer \in Timers /\ Funded(timer)
  BY DEF TypeOK, Configured, Funded
<1>2. CASE kvm_cpu_exec
  <2>1. vpc = "entry" /\ vpc' = "loop" /\ UNCHANGED <<fpc, mode, config>>
    BY <1>2 DEF kvm_cpu_exec
  <2>2. CASE timeout_reload_pending
    <3>1. /\ timer' = reset_timeout_detector(timer) /\ restored'
          /\ UNCHANGED <<in_reload_mode, redqueen, trace>>
      BY <1>2, <2>2 DEF kvm_cpu_exec, synchronization_lock_timeout_found, EndExecution
    <3>2. Funded(timer') /\ (timer.left => timer'.left)
      BY <1>1, <3>1, TimerFacts
    <3> QED
      BY <2>1, <3>1, <3>2, ConfiguredKept
  <2>3. CASE ~timeout_reload_pending
    <3>1. UNCHANGED <<timer, gpc, restored, in_reload_mode, redqueen, trace>>
      BY <1>2, <2>3 DEF kvm_cpu_exec
    <3>2. gpc' = "snap" => restored'
      BY <3>1 DEF Configured
    <3> QED
      BY <1>1, <2>1, <3>1, <3>2, ConfiguredKept
  <2> QED BY <2>2, <2>3
<1>3. CASE KvmRun
  <2>1. vpc' # "abort" /\ vpc = "loop"
    BY <1>1, <1>3 DEF KvmRun, Funded
  <2>2. gpc' = "snap" => restored'
    BY <1>3 DEF KvmRun, Configured
  <2> QED
    BY <1>1, <1>3, <2>1, <2>2, ConfiguredKept DEF KvmRun
<1>4. CASE CondWait \/ synchronization_unlock
  <2>1. UNCHANGED <<fpc, mode, config, in_reload_mode, redqueen, trace, timer, gpc, restored, caller>>
    BY <1>4 DEF CondWait, synchronization_unlock
  <2>2. Submitted => Submitted'
    BY <1>4, <2>1 DEF CondWait, synchronization_unlock, Submitted, Handshake
  <2>3. vpc' # "abort"
    BY <1>4 DEF CondWait, synchronization_unlock, Configured
  <2> QED
    BY <2>1, <2>2, <2>3 DEF Configured, Booting
<1>5. CASE Resume
  <2>1. /\ vpc = "woken" /\ vpc' = "loop" /\ UNCHANGED <<fpc, mode>>
        /\ fpc \in {"new_wait", "wait"}
    BY <1>5 DEF Resume, Handshake
  <2>2. CASE config.changed
    <3>1. ~Booting /\ caller = "next" /\ config.timeout /\ config.reload_mode
      BY <2>1, <2>2 DEF Quiet, Configured, Submitted
    <3>2. /\ redqueen' = config.redqueen_mode /\ trace' = config.trace_mode
          /\ in_reload_mode' = config.reload_mode
          /\ config' = [config EXCEPT !.changed = FALSE, !.page = 0]
      BY <1>5, <2>2 DEF Resume, check_auxiliary_config_buffer
    <3>3. /\ ~config'.changed /\ config'.redqueen_mode = config.redqueen_mode
          /\ config'.trace_mode = config.trace_mode /\ config'.timeout = config.timeout
          /\ config'.reload_mode = config.reload_mode
      BY <3>2 DEF TypeOK, Configs
    <3>4. config.timeout = TRUE
      BY <3>1 DEF TypeOK, Configs
    <3>5. timer' = reset_timeout_detector(update_itimer(timer, TRUE)) /\ gpc' = "pre"
      BY <1>5, <2>2, <3>1, <3>4 DEF Resume
    <3>6. Funded(timer') /\ timer'.left
      BY <1>1, <3>5, TimerFacts
    <3> QED
      BY <2>1, <3>1, <3>2, <3>3, <3>5, <3>6 DEF Configured, Booting, Funded
  <2>3. CASE ~config.changed
    <3>1. UNCHANGED <<config, redqueen, trace, in_reload_mode>>
      BY <1>5, <2>3 DEF Resume, check_auxiliary_config_buffer
    <3>2. /\ timer' \in {timer, reset_timeout_detector(timer)}
          /\ gpc' = "pre" \/ UNCHANGED <<gpc, restored>>
      BY <1>5, <2>3 DEF Resume
    <3>3. Funded(timer') /\ (timer.left => timer'.left)
      BY <1>1, <3>2, TimerFacts
    <3> QED
      BY <2>1, <2>3, <3>1, <3>2, <3>3 DEF Configured, Booting, Funded
  <2> QED BY <2>2, <2>3
<1>6. ASSUME NEW expired \in BOOLEAN, KvmExit(expired), vpc' # "abort",
             \/ timer' = disarm_sigprof_timer(timer, expired)
             \/ timer' = reset_timeout_detector(disarm_sigprof_timer(timer, expired)),
             UNCHANGED modes, gpc' = "snap" => restored' \/ (gpc = "snap" /\ restored' = restored)
      PROVE  Configured'
  <2>1. Funded(timer') /\ (timer.left => timer'.left)
    BY <1>1, <1>6, TimerFacts
  <2>2. gpc' = "snap" => restored'
    BY <1>6 DEF Configured
  <2> QED
    BY <1>6, <2>1, <2>2, ConfiguredKept DEF KvmExit
<1>7. ASSUME NEW expired \in BOOLEAN, Interrupted(expired) PROVE Configured'
  BY <1>6, <1>7 DEF Interrupted
<1>8. ASSUME NEW expired \in BOOLEAN,
             \/ handle_hypercall_kafl_printf(expired)
             \/ NextPayloadInit(expired) \/ NextPayload(expired)
      PROVE  Configured'
  BY <1>6, <1>8 DEF handle_hypercall_kafl_printf, NextPayloadInit, NextPayload,
                    GuestExit, synchronization_lock
<1>9. ASSUME NEW expired \in BOOLEAN,
             \/ ReleaseInit(expired) \/ NextPayloadSnapshot(expired)
             \/ handle_hypercall_kafl_acquire(expired)
             \/ pt_handle_overflow(expired) \/ handle_hypercall_kafl_page_dump_bp(expired)
      PROVE  Configured'
  <2>1. KvmExit(expired) /\ vpc' # "abort" /\ UNCHANGED modes
    BY <1>9 DEF ReleaseInit, NextPayloadSnapshot, handle_hypercall_kafl_acquire,
                pt_handle_overflow, handle_hypercall_kafl_page_dump_bp, GuestExit
  <2>2. \/ timer' = disarm_sigprof_timer(timer, expired)
        \/ timer' = reset_timeout_detector(disarm_sigprof_timer(timer, expired))
    BY <1>9 DEF ReleaseInit, NextPayloadSnapshot, handle_hypercall_kafl_acquire,
                pt_handle_overflow, handle_hypercall_kafl_page_dump_bp
  <2>3. gpc' = "snap" => restored'
    BY <1>9 DEF ReleaseInit, NextPayloadSnapshot, handle_hypercall_kafl_acquire,
                pt_handle_overflow, handle_hypercall_kafl_page_dump_bp, GuestExit
  <2> QED
    BY <1>6, <2>1, <2>2, <2>3
<1>10. ASSUME NEW expired \in BOOLEAN, NEW to \in {"loop", "entry"}, NEW res, NEW event,
              Ending(expired, to, TRUE, res, event)
       PROVE  Configured'
  <2>1. /\ KvmExit(expired) /\ vpc' # "abort" /\ UNCHANGED modes
        /\ timer' = disarm_sigprof_timer(timer, expired) /\ restored'
    BY <1>10 DEF Ending, EndExecution, GuestExit
  <2> QED
    BY <1>6, <2>1
<1>11. ASSUME NEW expired \in BOOLEAN, synchronization_disable_pt(expired) PROVE Configured'
  <2>1. ReloadOnRelease = TRUE
    BY DEF ReloadOnRelease, Configured
  <2> QED
    BY <1>10, <1>11, <2>1 DEF synchronization_disable_pt
<1>12. ASSUME NEW expired \in BOOLEAN,
              \/ synchronization_lock_crash_found(expired)
              \/ synchronization_lock_asan_found(expired)
              \/ synchronization_payload_buffer_write_detected(expired)
              \/ synchronization_cow_full_detected(expired)
       PROVE  Configured'
  BY <1>10, <1>12 DEF synchronization_lock_crash_found, synchronization_lock_asan_found,
       synchronization_payload_buffer_write_detected, synchronization_cow_full_detected
<1>13. CASE wait_qemu
  <2>1. ~Submitted
    BY <1>13 DEF wait_qemu, Handshake, Submitted
  <2> QED
    BY <1>13, <2>1 DEF wait_qemu, Configured, Booting
<1>14. CASE new
  <2>1. CASE result.state = 3
    <3>1. /\ fpc = "new_check" /\ fpc' = "idle"
          /\ config' = [config EXCEPT !.reload_mode = TRUE, !.timeout = TRUE, !.changed = TRUE]
          /\ UNCHANGED <<mode, in_reload_mode, redqueen, trace, timer, gpc, restored, vpc>>
      BY <1>14, <2>1 DEF new
    <3>2. /\ config'.changed /\ config'.reload_mode /\ config'.timeout
          /\ config'.redqueen_mode = config.redqueen_mode /\ config'.trace_mode = config.trace_mode
      BY <3>1 DEF TypeOK, Configs
    <3> QED
      BY <3>1, <3>2 DEF Configured, Booting
  <2>2. CASE result.state # 3
    BY <1>14, <2>2 DEF new, Configured, Booting, Quiet
  <2> QED BY <2>1, <2>2
<1>15. CASE Start
  <2>1. PICK m \in Modes :
          /\ mode' = m
          /\ config' = [config EXCEPT !.redqueen_mode = @ \/ m = "run_redqueen",
                                      !.trace_mode = @ \/ m = "run_cfg",
                                      !.changed = @ \/ m # "run_test"]
    BY <1>15 DEF Start
  <2>2. /\ fpc = "idle" /\ fpc' = "wait"
        /\ UNCHANGED <<in_reload_mode, redqueen, trace, timer, gpc, restored, vpc>>
    BY <1>15 DEF Start
  <2>3. /\ config'.reload_mode = config.reload_mode /\ config'.timeout = config.timeout
        /\ config'.redqueen_mode <=> config.redqueen_mode \/ m = "run_redqueen"
        /\ config'.trace_mode <=> config.trace_mode \/ m = "run_cfg"
        /\ config'.changed <=> config.changed \/ m # "run_test"
    BY <2>1 DEF TypeOK, Configs
  <2>4. Submitted'
    BY <1>15 DEF Start, execute_qemu, Handshake, Protocol, Submitted
  <2> QED
    BY <2>1, <2>2, <2>3, <2>4 DEF Configured, Booting, Modes
<1>16. CASE Return
  <2>1. /\ fpc = "check" /\ fpc' = "idle"
        /\ UNCHANGED <<mode, in_reload_mode, redqueen, trace, timer, gpc, restored, vpc>>
    BY <1>16 DEF Return
  <2>2. CASE mode = "run_test"
    BY <1>16, <2>1, <2>2 DEF Return, Configured, Booting
  <2>3. CASE mode # "run_test"
    <3>1. /\ config'.changed /\ config'.reload_mode = config.reload_mode
          /\ config'.timeout = config.timeout
          /\ config'.redqueen_mode <=> config.redqueen_mode /\ mode # "run_redqueen"
          /\ config'.trace_mode <=> config.trace_mode /\ mode # "run_cfg"
      BY <1>16, <2>3 DEF Return, DisableMode, TypeOK, Configs
    <3> QED
      BY <2>1, <3>1 DEF Configured, Booting
  <2> QED BY <2>2, <2>3
<1>17. CASE Again
  <2>1. /\ fpc = "check" /\ fpc' = "wait" /\ toQemu' = toQemu + 1 /\ caller' = caller
        /\ UNCHANGED <<mode, in_reload_mode, redqueen, trace, timer, gpc, restored, vpc>>
    BY <1>17 DEF Again, execute_qemu
  <2>2. vpc \in {"pinged", "waiting"} /\ toQemu = 0
    BY <2>1 DEF Handshake
  <2>3. CASE ~result.hprintf /\ result.page # 0
    <3>1. config' = [config EXCEPT !.page = result.page, !.changed = TRUE]
      BY <1>17, <2>3 DEF Again
    <3>2. /\ config'.reload_mode = config.reload_mode /\ config'.timeout = config.timeout
          /\ config'.redqueen_mode = config.redqueen_mode /\ config'.trace_mode = config.trace_mode
          /\ config'.changed
      BY <3>1 DEF TypeOK, Configs
    <3>3. caller = "next"
      BY <2>1, <2>2, <2>3 DEF TypeOK, Protocol, Blocked, Booting
    <3>4. Submitted'
      BY <2>1, <2>2, <3>3 DEF Submitted
    <3> QED
      BY <2>1, <3>2, <3>4 DEF Configured, Booting
  <2>4. CASE ~(~result.hprintf /\ result.page # 0)
    <3>1. config' = config
      BY <1>17, <2>4 DEF Again
    <3> QED
      BY <2>1, <3>1 DEF Configured, Booting, Submitted
  <2> QED BY <2>3, <2>4
<1>18. CASE UNCHANGED vars
  BY <1>18 DEF vars, Configured, Booting, Submitted
<1> QED
  BY <1>2, <1>3, <1>4, <1>5, <1>7, <1>8, <1>9, <1>11, <1>12, <1>13, <1>14, <1>15, <1>16, <1>17,
     <1>18
  DEF Next, Vcpu, Fuzzer

-----------------------------------------------------------------------------
(* Timeouts *)

(* No timer has expired at the start. *)
LEMMA ExpiryInit == Init => Expiry
BY DEF Init, Expiry, Blocked, NoResult

(* KVM_RUN returns and the guest is not newly at the snapshot, or was just    *)
(* restored, which requests an exit.                                          *)
LEMMA ExpiryExit ==
  ASSUME TypeOK, Expiry, NEW expired \in BOOLEAN, KvmExit(expired),
         result'.timeout_found = result.timeout_found,
         \/ vpc' = "entry"
         \/ vpc' = "loop" /\ exit_request'
         \/ vpc' \in {"loop", "pinged"} /\ ~exit_request /\ ~exit_request'
             /\ (gpc' = "snap" => gpc = "snap")
  PROVE  Expiry'
<1>1. /\ vpc = "guest" /\ (timeout_reload_pending' <=> timeout_reload_pending \/ expired)
      /\ expiry' = IF expired THEN "own" ELSE expiry
  BY DEF KvmExit
<1>2. CASE expired
  BY <1>1, <1>2 DEF Expiry, Blocked
<1>3. CASE ~expired
  BY <1>1, <1>3 DEF Expiry, Blocked
<1> QED BY <1>2, <1>3

(* Every step keeps an expiry attributed to its execution. *)
LEMMA ExpiryNext ==
  ASSUME TypeOK, Protocol, Configured, Expiry, [Next]_vars
  PROVE  Expiry'
<1> USE DEF fuzzer, socket, modes, paging, kvm, history, qemu
<1>1. CASE kvm_cpu_exec
  <2>1. vpc = "entry" /\ vpc' = "loop" /\ ~timeout_reload_pending' /\ expiry' = expiry
    BY <1>1 DEF kvm_cpu_exec
  <2>2. CASE timeout_reload_pending
    BY <2>1, <2>2 DEF Expiry, Blocked
  <2>3. CASE ~timeout_reload_pending
    <3>1. result' = result
      BY <1>1, <2>3 DEF kvm_cpu_exec
    <3> QED
      BY <2>1, <3>1 DEF Expiry, Blocked
  <2> QED BY <2>2, <2>3
<1>2. CASE KvmRun
  BY <1>2 DEF KvmRun, Expiry, Blocked
<1>3. CASE CondWait \/ synchronization_unlock
  <2>1. UNCHANGED <<timeout_reload_pending, expiry, result, gpc, exit_request>>
    BY <1>3 DEF CondWait, synchronization_unlock
  <2>2. (Blocked' => Blocked) /\ (vpc' # "entry" => vpc # "entry")
    BY <1>3 DEF CondWait, synchronization_unlock, Blocked
  <2> QED
    BY <2>1, <2>2 DEF Expiry
<1>4. CASE Resume
  <2>1. ~result'.timeout_found
    BY <1>4, FlushFields DEF Resume, TypeOK
  <2>2. vpc = "woken" /\ vpc' = "loop" /\ UNCHANGED <<timeout_reload_pending, exit_request>>
    BY <1>4 DEF Resume
  <2>3. CASE caller = "next"
    <3>1. gpc' = "pre" /\ expiry' = IF expiry = "own" THEN "before" ELSE "none"
      BY <1>4, <2>3 DEF Resume
    <3>2. timeout_reload_pending => expiry = "own"
      BY <2>2, <2>3 DEF Expiry, Blocked, Protocol
    <3> QED
      BY <2>1, <2>2, <3>1, <3>2 DEF Expiry, Blocked
  <2>4. CASE caller # "next"
    <3>1. UNCHANGED <<gpc, expiry>>
      BY <1>4, <2>4 DEF Resume
    <3> QED
      BY <2>1, <2>2, <3>1 DEF Expiry, Blocked
  <2> QED BY <2>3, <2>4
<1>5. ASSUME NEW expired \in BOOLEAN, Interrupted(expired) PROVE Expiry'
  BY <1>5, ExpiryExit DEF Interrupted
<1>6. ASSUME NEW expired \in BOOLEAN, NEW positions, GuestExit(expired, positions),
             NEW who, NEW r \in Results, synchronization_lock(who, r, expired),
             r.timeout_found = result.timeout_found, gpc' = "snap" => gpc = "snap"
      PROVE  Expiry'
  <2>1. /\ KvmExit(expired) /\ vpc' = "pinged" /\ ~exit_request /\ ~exit_request'
        /\ result' = PageResult(r)
    BY <1>6 DEF GuestExit, synchronization_lock
  <2>2. result'.timeout_found = result.timeout_found
    BY <1>6, <2>1, PageResultFields
  <2> QED
    BY <1>6, <2>1, <2>2, ExpiryExit
<1>7. ASSUME NEW expired \in BOOLEAN, handle_hypercall_kafl_printf(expired) PROVE Expiry'
  <2>1. PICK r \in Results : r = [result EXCEPT !.hprintf = TRUE]
    BY DEF TypeOK, Results
  <2>2. r.timeout_found = result.timeout_found
    BY <2>1 DEF TypeOK, Results
  <2> QED
    BY <1>6, <1>7, <2>1, <2>2 DEF handle_hypercall_kafl_printf
<1>8. ASSUME NEW expired \in BOOLEAN, NextPayloadInit(expired) PROVE Expiry'
  <2>1. PICK r \in Results : r = [result EXCEPT !.state = 2]
    BY DEF TypeOK, Results
  <2>2. r.timeout_found = result.timeout_found
    BY <2>1 DEF TypeOK, Results
  <2>3. GuestExit(expired, {"boot"}) /\ synchronization_lock("init", r, expired) /\ gpc' = "dryrun"
    BY <1>8, <2>1 DEF NextPayloadInit
  <2> QED
    BY <1>6, <2>2, <2>3
<1>9. ASSUME NEW expired \in BOOLEAN, NextPayload(expired) PROVE Expiry'
  <2>1. GuestExit(expired, {"snap"}) /\ synchronization_lock("next", result, expired) /\ gpc' = gpc
    BY <1>9 DEF NextPayload
  <2>2. result \in Results
    BY DEF TypeOK
  <2> QED
    BY <1>6, <2>1, <2>2
<1>10. ASSUME NEW expired \in BOOLEAN,
              \/ ReleaseInit(expired) \/ handle_hypercall_kafl_acquire(expired)
              \/ pt_handle_overflow(expired) \/ handle_hypercall_kafl_page_dump_bp(expired)
       PROVE  Expiry'
  <2>1. /\ KvmExit(expired) /\ vpc' = "loop" /\ ~exit_request /\ ~exit_request'
        /\ result' = result /\ gpc' # "snap"
    BY <1>10 DEF ReleaseInit, handle_hypercall_kafl_acquire, pt_handle_overflow,
                 handle_hypercall_kafl_page_dump_bp, GuestExit
  <2> QED
    BY <2>1, ExpiryExit
<1>11. ASSUME NEW expired \in BOOLEAN, NextPayloadSnapshot(expired) PROVE Expiry'
  <2>1. KvmExit(expired) /\ vpc' = "loop" /\ exit_request'
    BY <1>11 DEF NextPayloadSnapshot, GuestExit
  <2>2. result'.timeout_found = result.timeout_found
    BY <1>11 DEF NextPayloadSnapshot, TypeOK, Results
  <2> QED
    BY <2>1, <2>2, ExpiryExit
<1>12. ASSUME NEW expired \in BOOLEAN, NEW to \in {"loop", "entry"}, NEW res, NEW event,
              Ending(expired, to, TRUE, res, event),
              res.timeout_found = result.timeout_found
       PROVE  Expiry'
  <2>1. KvmExit(expired) /\ vpc' \in {"loop", "entry"} /\ exit_request' /\ result' = res
    BY <1>12 DEF Ending, EndExecution, GuestExit
  <2> QED
    BY <1>12, <2>1, ExpiryExit
<1>13. ASSUME NEW expired \in BOOLEAN,
              \/ synchronization_disable_pt(expired)
              \/ synchronization_lock_crash_found(expired)
              \/ synchronization_lock_asan_found(expired)
              \/ synchronization_payload_buffer_write_detected(expired)
              \/ synchronization_cow_full_detected(expired)
       PROVE  Expiry'
  <2>1. ReloadOnRelease = TRUE
    BY DEF ReloadOnRelease, Configured
  <2>2. PICK to \in {"loop", "entry"} : \E res, event :
          /\ Ending(expired, to, TRUE, res, event)
          /\ \/ res = [result EXCEPT !.success = @ /\ in_fuzzing_loop]
             \/ res = [result EXCEPT !.crash_found = TRUE]
             \/ res = [result EXCEPT !.asan_found = TRUE, !.success = @ /\ in_fuzzing_loop]
             \/ res = [result EXCEPT !.payload_write = TRUE]
             \/ res = result
    BY <1>13, <2>1, Zenon DEF synchronization_disable_pt, synchronization_lock_crash_found,
       synchronization_lock_asan_found, synchronization_payload_buffer_write_detected,
       synchronization_cow_full_detected
  <2>3. PICK res, event :
          /\ Ending(expired, to, TRUE, res, event)
          /\ \/ res = [result EXCEPT !.success = @ /\ in_fuzzing_loop]
             \/ res = [result EXCEPT !.crash_found = TRUE]
             \/ res = [result EXCEPT !.asan_found = TRUE, !.success = @ /\ in_fuzzing_loop]
             \/ res = [result EXCEPT !.payload_write = TRUE]
             \/ res = result
    BY <2>2, Zenon
  <2>4. res.timeout_found = result.timeout_found
    BY <2>3 DEF TypeOK, Results
  <2> QED
    BY <1>12, <2>3, <2>4
<1>14. CASE Fuzzer
  <2>1. UNCHANGED <<timeout_reload_pending, expiry, result, gpc, exit_request, vpc>>
    BY <1>14 DEF Fuzzer, wait_qemu, new, Start, Return, Again
  <2> QED
    BY <2>1 DEF Expiry, Blocked
<1>15. CASE UNCHANGED vars
  BY <1>15 DEF vars, Expiry, Blocked
<1> QED
  BY <1>1, <1>2, <1>3, <1>4, <1>5, <1>7, <1>8, <1>9, <1>10, <1>11, <1>13, <1>14, <1>15
  DEF Next, Vcpu

(* So a Timeout verdict stays recent. *)
LEMMA RecentNext ==
  ASSUME TypeOK, Handshake, Outcome, Expiry, TimeoutIsRecent, [Next]_vars
  PROVE  TimeoutIsRecent'
<1> SUFFICES ASSUME fpc' = "idle", exit' = "Timeout" PROVE expiry' \in {"own", "before"}
  BY DEF TimeoutIsRecent
<1> USE DEF fuzzer, socket, modes, paging, kvm, history, qemu
<1>1. CASE fpc = "idle"
  <2>1. UNCHANGED <<fpc, exit, expiry>>
    BY <1>1, IdleSteps DEF CondWait, Start, vars
  <2> QED
    BY <1>1, <2>1 DEF TimeoutIsRecent
<1>2. CASE new
  BY <1>2 DEF new, Outcome, Booting
<1>3. CASE Return
  <2>1. exit' = ExitReason(result) /\ UNCHANGED expiry
    BY <1>3 DEF Return
  <2> QED
    BY <2>1, ExitReasonMeaning DEF Expiry, TypeOK
<1> QED
  BY <1>1, <1>2, <1>3, IdleEntry

Settings == Configured /\ Expiry /\ TimeoutIsRecent

(* The layers on settings and expiries always hold. *)
LEMMA SettingsInvariant == DryRunFirst => (Spec => [](Core /\ Settings))
<1> SUFFICES ASSUME DryRunFirst PROVE Spec => [](Core /\ Settings)
  OBVIOUS
<1>1. Init => Settings
  <2>1. Init => TimeoutIsRecent
    BY DEF Init, TimeoutIsRecent
  <2> QED
    BY <2>1, ConfiguredInit, ExpiryInit DEF Settings
<1>2. Core /\ Settings /\ [Next]_vars => Settings'
  BY ConfiguredNext, ExpiryNext, RecentNext DEF Core, Settings
<1> QED
  BY <1>1, <1>2, CoreInvariant, PTL DEF Spec

(* A Timeout verdict is never older than the end of the execution before. *)
THEOREM Timeouts == DryRunFirst => (Spec => []TimeoutIsRecent)
<1>1. Core /\ Settings => TimeoutIsRecent
  BY DEF Settings
<1> QED
  BY <1>1, SettingsInvariant, PTL

(* Every execution starts in a restored guest. *)
THEOREM Snapshots == DryRunFirst => (Spec => []FreshStart)
<1>1. Core /\ Settings => FreshStart
  BY DEF Settings, Configured, FreshStart
<1> QED
  BY <1>1, SettingsInvariant, PTL

(* redqueen and trace mode are on exactly for the calls that ask for them. *)
THEOREM Instrumentation == DryRunFirst => (Spec => []ModeIsOwn)
<1>1. Core /\ Settings => ModeIsOwn
  <2> SUFFICES ASSUME Core, Settings, gpc \in {"pre", "test"}, vpc \in {"entry", "loop", "guest"}
               PROVE  (redqueen <=> mode = "run_redqueen") /\ (trace <=> mode = "run_cfg")
    BY DEF ModeIsOwn
  <2>1. fpc = "wait" /\ ~Submitted
    BY DEF Core, Protocol, Handshake, Booting, Submitted
  <2> QED
    BY <2>1 DEF Settings, Configured
<1> QED
  BY <1>1, SettingsInvariant, PTL

(* What ended one execution does not show in the next. *)
THEOREM CleanExecutions == DryRunFirst => (Spec => []ExecutionIsClean)
<1>1. FreshStart /\ ModeIsOwn => ExecutionIsClean
  BY DEF ExecutionIsClean
<1> QED
  BY <1>1, Snapshots, Instrumentation, PTL

(* The assertion on arm_sigprof_timer in kvm_cpu_exec holds. *)
THEOREM NoAbort == DryRunFirst => (Spec => []NeverAborts)
<1>1. Core /\ Settings => NeverAborts
  BY DEF Settings, Configured, NeverAborts
<1> QED
  BY <1>1, SettingsInvariant, PTL

-----------------------------------------------------------------------------
(* Complete executions *)

(* Nothing in the result section speaks against the execution. *)
Unflagged(r) ==
  r.success /\ ~r.crash_found /\ ~r.asan_found /\ ~r.payload_write /\ ~r.timeout_found

Missed == seen \intersect {"fault", "dump"}

(* An execution that ended without a complaint reached acquire or filled the  *)
(* block cache; and a page that the decoder missed, or that is to be dumped,  *)
(* is not forgotten before synchronization_check_page_not_found has taken the *)
(* success away, unless an hprintf round took it first.                       *)
Complete ==
  /\ gpc = "test" => "acquire" \in seen
  /\ gpc = "snap" /\ fpc \in {"wait", "check"} /\ ~Submitted /\ Unflagged(result) =>
       seen \intersect {"acquire", "cow"} # {}
  /\ gpc \in {"boot", "dryrun", "agent"} => Missed = {}
  /\ "hprintf" \notin seen /\ Missed # {} =>
       \/ caller # "next" /\ (decoder_page_fault # 0 \/ dump_page # 0)
       \/ caller = "next" /\ ~result.success

(* A step of the running guest that leaves the execution as it is. *)
LEMMA CompleteKept ==
  ASSUME Complete, Protocol, vpc \in {"entry", "loop", "guest"},
         UNCHANGED <<fpc, caller, seen, decoder_page_fault, dump_page>>,
         Unflagged(result') => Unflagged(result),
         \/ gpc' = gpc
         \/ gpc \in {"boot", "dryrun", "agent"} /\ gpc' \in {"boot", "dryrun", "agent"}
         \/ Booting /\ gpc' = "snap"
  PROVE  Complete'
<1>1. caller = "none" /\ ~Submitted
  BY DEF Protocol, Blocked, Submitted
<1>2. Missed' = Missed
  BY DEF Missed
<1> QED
  BY <1>1, <1>2 DEF Complete, Booting

(* The trace that ends an execution may lead into a missing page. *)
LEMMA DumpMissed ==
  ASSUME NEW f \in pt_dump, NEW event, event \intersect {"fault", "dump"} = {},
         seen' = seen \union event \union (IF f # 0 THEN {"fault"} ELSE {})
  PROVE  /\ decoder_page_fault # 0 => f # 0
         /\ f = 0 => Missed' = Missed
         /\ \A e \in {"acquire", "cow", "hprintf"} : e \in seen \/ e \in event => e \in seen'
         /\ "hprintf" \in seen => "hprintf" \in seen'
<1>1. decoder_page_fault # 0 => f # 0
  BY DEF pt_dump
<1>2. f = 0 => Missed' = Missed
  BY DEF Missed
<1> QED
  BY <1>1, <1>2

(* An execution ends: with a flag, or after acquire, or with the cache full. *)
LEMMA CompleteEnd ==
  ASSUME Complete, Protocol, vpc \in {"entry", "loop", "guest"}, UNCHANGED <<fpc, caller>>,
         NEW reload, NEW event, event \intersect {"fault", "dump"} = {},
         EndExecution(reload, event),
         Unflagged(result') => gpc = "test" \/ "cow" \in event
  PROVE  Complete'
<1>1. PICK f \in pt_dump :
        /\ decoder_page_fault' = f
        /\ seen' = seen \union event \union (IF f # 0 THEN {"fault"} ELSE {})
  BY DEF EndExecution
<1>2. gpc' = "snap" /\ dump_page' = dump_page
  BY DEF EndExecution
<1>3. caller = "none"
  BY DEF Protocol, Blocked
<1>4. /\ decoder_page_fault # 0 => f # 0
      /\ f = 0 => Missed' = Missed
      /\ \A e \in {"acquire", "cow", "hprintf"} : e \in seen \/ e \in event => e \in seen'
  BY <1>1, DumpMissed
<1>5. Unflagged(result') => seen' \intersect {"acquire", "cow"} # {}
  BY <1>4 DEF Complete
<1>6. "hprintf" \notin seen' /\ Missed' # {} => decoder_page_fault' # 0 \/ dump_page' # 0
  BY <1>1, <1>2, <1>3, <1>4 DEF Complete
<1> QED
  BY <1>2, <1>3, <1>5, <1>6 DEF Complete

(* No payload is given out at the start. *)
LEMMA CompleteInit == Init => Complete
BY DEF Init, Complete, Missed

(* What synchronization_lock writes to the result section *)
LEMMA LockedResult ==
  ASSUME TypeOK, NEW r \in Results
  PROVE  /\ PageResult(r).success => r.success /\ decoder_page_fault = 0 /\ dump_page = 0
         /\ Unflagged(PageResult(r)) => Unflagged(r)
BY DEF TypeOK, Results, PageResult, Unflagged

(* Every step keeps track of an execution cut short. *)
LEMMA CompleteNext ==
  ASSUME DryRunFirst, TypeOK, Handshake, Protocol, Complete, [Next]_vars
  PROVE  Complete'
<1> USE DEF fuzzer, socket, modes, paging, kvm, history, qemu
<1>1. CASE kvm_cpu_exec
  <2>1. vpc = "entry" /\ UNCHANGED <<fpc, caller>>
    BY <1>1 DEF kvm_cpu_exec
  <2>2. CASE timeout_reload_pending
    <3>1. synchronization_lock_timeout_found
      BY <1>1, <2>2 DEF kvm_cpu_exec
    <3>2. ~Unflagged(result')
      BY <3>1 DEF synchronization_lock_timeout_found, Unflagged, TypeOK, Results
    <3>3. EndExecution(TRUE, {}) /\ {} \intersect {"fault", "dump"} = {}
      BY <3>1 DEF synchronization_lock_timeout_found
    <3> QED
      BY <2>1, <3>2, <3>3, CompleteEnd
  <2>3. CASE ~timeout_reload_pending
    <3>1. UNCHANGED <<result, seen, gpc, decoder_page_fault, dump_page>>
      BY <1>1, <2>3 DEF kvm_cpu_exec
    <3> QED
      BY <2>1, <3>1, CompleteKept
  <2> QED BY <2>2, <2>3
<1>2. CASE KvmRun
  BY <1>2, CompleteKept DEF KvmRun
<1>3. CASE CondWait \/ synchronization_unlock
  <2>1. UNCHANGED <<fpc, result, seen, gpc, caller, decoder_page_fault, dump_page>>
    BY <1>3 DEF CondWait, synchronization_unlock
  <2>2. Submitted => Submitted'
    BY <1>3, <2>1 DEF CondWait, synchronization_unlock, Submitted, Handshake
  <2> QED
    BY <2>1, <2>2 DEF Complete, Missed
<1>4. CASE Resume
  <2>1. CASE caller = "next"
    <3>1. /\ gpc' = "pre" /\ caller' = "none" /\ seen' = IF dump_page' # 0 THEN {"dump"} ELSE {}
      BY <1>4, <2>1 DEF Resume
    <3> QED
      BY <3>1 DEF Complete, Missed
  <2>2. CASE caller # "next"
    <3>1. UNCHANGED <<gpc, seen, decoder_page_fault>> /\ caller' = "none" /\ (dump_page # 0 => dump_page' # 0)
      BY <1>4, <2>2 DEF Resume, check_auxiliary_config_buffer
    <3>2. gpc # "snap"
      BY <1>4, <2>2 DEF Resume, Protocol, Blocked, TypeOK
    <3> QED
      BY <2>2, <3>1, <3>2 DEF Complete, Missed
  <2> QED BY <2>1, <2>2
<1>5. ASSUME NEW expired \in BOOLEAN, Interrupted(expired) PROVE Complete'
  <2>1. vpc = "guest" /\ UNCHANGED <<fpc, caller, seen, gpc, result, decoder_page_fault, dump_page>>
    BY <1>5 DEF Interrupted, KvmExit
  <2> QED
    BY <2>1, CompleteKept
<1>6. ASSUME NEW expired \in BOOLEAN, handle_hypercall_kafl_printf(expired) PROVE Complete'
  <2>1. gpc' = gpc /\ gpc # "snap" /\ seen' = seen \union {"hprintf"}
    BY <1>6 DEF handle_hypercall_kafl_printf, GuestExit
  <2> QED
    BY <2>1 DEF Complete, Missed
<1>7. ASSUME NEW expired \in BOOLEAN, NextPayloadInit(expired) PROVE Complete'
  <2>1. gpc = "boot" /\ gpc' = "dryrun" /\ seen' = seen
    BY <1>7 DEF NextPayloadInit, GuestExit
  <2> QED
    BY <2>1 DEF Complete, Missed
<1>8. ASSUME NEW expired \in BOOLEAN, ReleaseInit(expired) PROVE Complete'
  <2>1. /\ vpc = "guest" /\ gpc = "dryrun" /\ gpc' = "agent"
        /\ UNCHANGED <<fpc, caller, seen, result, decoder_page_fault, dump_page>>
    BY <1>8 DEF ReleaseInit, GuestExit, KvmExit
  <2> QED
    BY <2>1, CompleteKept
<1>9. ASSUME NEW expired \in BOOLEAN, NextPayloadSnapshot(expired) PROVE Complete'
  <2>1. /\ vpc = "guest" /\ gpc = "agent" /\ gpc' = "snap"
        /\ UNCHANGED <<fpc, caller, seen, decoder_page_fault, dump_page>>
        /\ result' = [result EXCEPT !.state = 3]
    BY <1>9 DEF NextPayloadSnapshot, GuestExit, KvmExit
  <2>2. Booting
    BY <2>1 DEF Protocol
  <2>3. Unflagged(result') => Unflagged(result)
    BY <2>1 DEF Unflagged, TypeOK, Results
  <2> QED
    BY <2>1, <2>2, <2>3, CompleteKept
<1>10. ASSUME NEW expired \in BOOLEAN, NextPayload(expired) PROVE Complete'
  <2>1. /\ vpc = "guest" /\ gpc = "snap" /\ gpc' = "snap" /\ UNCHANGED <<fpc, seen>>
        /\ result' = PageResult(result) /\ caller' = "next"
    BY <1>10 DEF NextPayload, GuestExit, KvmExit, synchronization_lock
  <2>2. /\ result'.success => decoder_page_fault = 0 /\ dump_page = 0
        /\ Unflagged(result') => Unflagged(result)
    BY <2>1, LockedResult DEF TypeOK
  <2>3. caller = "none" /\ ~Submitted
    BY <2>1 DEF Protocol, Blocked, Submitted
  <2> QED
    BY <2>1, <2>2, <2>3 DEF Complete, Missed
<1>11. ASSUME NEW expired \in BOOLEAN, handle_hypercall_kafl_acquire(expired) PROVE Complete'
  <2>1. /\ vpc = "guest" /\ gpc' = "test" /\ seen' = seen \union {"acquire"}
        /\ UNCHANGED <<caller, decoder_page_fault, dump_page>>
    BY <1>11 DEF handle_hypercall_kafl_acquire, GuestExit, KvmExit
  <2>2. caller = "none"
    BY <2>1 DEF Protocol, Blocked
  <2> QED
    BY <2>1, <2>2 DEF Complete, Missed
<1>12. ASSUME NEW expired \in BOOLEAN, NEW to, NEW reload, NEW res,
              NEW event, event \intersect {"fault", "dump"} = {},
              Ending(expired, to, reload, res, event),
              Unflagged(res) => gpc = "test" \/ "cow" \in event
       PROVE  Complete'
  <2>1. vpc = "guest" /\ UNCHANGED <<fpc, caller>> /\ result' = res /\ EndExecution(reload, event)
    BY <1>12 DEF Ending, GuestExit, KvmExit
  <2> QED
    BY <1>12, <2>1, CompleteEnd
<1>13. ASSUME NEW expired \in BOOLEAN, synchronization_disable_pt(expired) PROVE Complete'
  <2>1. Unflagged([result EXCEPT !.success = @ /\ in_fuzzing_loop]) => gpc = "test"
    BY DEF Unflagged, TypeOK, Results, Protocol
  <2> QED
    BY <1>12, <1>13, <2>1 DEF synchronization_disable_pt
<1>14. ASSUME NEW expired \in BOOLEAN, synchronization_lock_crash_found(expired) PROVE Complete'
  <2>1. ~Unflagged([result EXCEPT !.crash_found = TRUE])
    BY DEF Unflagged, TypeOK, Results
  <2> QED
    BY <1>12, <1>14, <2>1 DEF synchronization_lock_crash_found
<1>15. ASSUME NEW expired \in BOOLEAN, synchronization_lock_asan_found(expired) PROVE Complete'
  <2>1. ~Unflagged([result EXCEPT !.asan_found = TRUE, !.success = @ /\ in_fuzzing_loop])
    BY DEF Unflagged, TypeOK, Results
  <2> QED
    BY <1>12, <1>15, <2>1 DEF synchronization_lock_asan_found
<1>16. ASSUME NEW expired \in BOOLEAN, synchronization_payload_buffer_write_detected(expired)
       PROVE  Complete'
  <2>1. ~Unflagged([result EXCEPT !.payload_write = TRUE])
    BY DEF Unflagged, TypeOK, Results
  <2> QED
    BY <1>12, <1>16, <2>1 DEF synchronization_payload_buffer_write_detected
<1>17. ASSUME NEW expired \in BOOLEAN, synchronization_cow_full_detected(expired) PROVE Complete'
  BY <1>12, <1>17 DEF synchronization_cow_full_detected
<1>18. ASSUME NEW expired \in BOOLEAN, pt_handle_overflow(expired) PROVE Complete'
  <2>1. /\ vpc = "guest" /\ gpc = "test" /\ gpc' = "test" /\ UNCHANGED <<dump_page, caller>>
    BY <1>18 DEF pt_handle_overflow, GuestExit, KvmExit
  <2>2. PICK f \in pt_dump :
          /\ decoder_page_fault' = f
          /\ seen' = seen \union (IF f # 0 THEN {"fault"} ELSE {})
    BY <1>18 DEF pt_handle_overflow
  <2> DEFINE none == {}
  <2>3. /\ seen' = seen \union none \union (IF f # 0 THEN {"fault"} ELSE {})
        /\ none \intersect {"fault", "dump"} = {}
    BY <2>2
  <2> HIDE DEF none
  <2>4. /\ decoder_page_fault # 0 => f # 0
        /\ f = 0 => Missed' = Missed
        /\ \A e \in {"acquire", "cow", "hprintf"} : e \in seen \/ e \in none => e \in seen'
    BY <2>2, <2>3, DumpMissed
  <2>5. caller = "none"
    BY <2>1 DEF Protocol, Blocked
  <2> QED
    BY <2>1, <2>2, <2>4, <2>5 DEF Complete
<1>19. ASSUME NEW expired \in BOOLEAN, handle_hypercall_kafl_page_dump_bp(expired) PROVE Complete'
  <2>1. vpc = "guest" /\ UNCHANGED <<fpc, caller, seen, gpc, result, decoder_page_fault, dump_page>>
    BY <1>19 DEF handle_hypercall_kafl_page_dump_bp, GuestExit, KvmExit
  <2> QED
    BY <2>1, CompleteKept
<1>20. CASE Fuzzer
  <2>1. UNCHANGED <<result, gpc, vpc, caller, seen, decoder_page_fault, dump_page>>
    BY <1>20 DEF Fuzzer, wait_qemu, new, Start, Return, Again
  <2>2. ASSUME gpc = "snap", fpc' \in {"wait", "check"}, ~Submitted'
        PROVE  fpc \in {"wait", "check"} /\ ~Submitted
    <3>1. CASE wait_qemu
      BY <2>2, <3>1 DEF wait_qemu, Submitted, Handshake
    <3>2. CASE new \/ Return
      BY <2>2, <3>2 DEF new, Return
    <3>3. CASE Start
      BY <2>1, <2>2, <3>3 DEF Start, Protocol, Submitted, execute_qemu, Handshake
    <3>4. CASE Again
      <4>1. caller = "next"
        BY <2>2, <3>4 DEF Again, Handshake, Protocol, Blocked, TypeOK
      <4> QED
        BY <2>1, <2>2, <3>4, <4>1 DEF Again, Submitted, execute_qemu, Handshake
    <3> QED
      BY <1>20, <3>1, <3>2, <3>3, <3>4 DEF Fuzzer
  <2> QED
    BY <2>1, <2>2 DEF Complete, Missed
<1>21. CASE UNCHANGED vars
  BY <1>21 DEF vars, Complete, Missed, Submitted
<1> QED
  BY <1>1, <1>2, <1>3, <1>4, <1>5, <1>6, <1>7, <1>8, <1>9, <1>10, <1>11, <1>13, <1>14, <1>15,
     <1>16, <1>17, <1>18, <1>19, <1>20, <1>21
  DEF Next, Vcpu

(* So a Normal verdict stays that of a complete execution. *)
LEMMA NormalNext ==
  ASSUME TypeOK, Handshake, Protocol, Outcome, Complete, NormalIsComplete, [Next]_vars
  PROVE  NormalIsComplete'
<1> SUFFICES ASSUME fpc' = "idle", exit' = "Normal" PROVE NormalIsComplete'
  BY DEF NormalIsComplete
<1> USE DEF fuzzer, socket, modes, paging, kvm, history, qemu
<1>1. CASE fpc = "idle"
  <2>1. UNCHANGED <<fpc, exit, seen>>
    BY <1>1, IdleSteps DEF CondWait, Start, vars
  <2> QED
    BY <1>1, <2>1 DEF NormalIsComplete
<1>2. CASE new
  BY <1>2 DEF new, Outcome, Booting
<1>3. CASE Return
  <2>1. exit' = ExitReason(result) /\ UNCHANGED seen /\ fpc = "check" /\ ~result.hprintf
    BY <1>3 DEF Return, Finished
  <2>2. Unflagged(result)
    BY <2>1 DEF ExitReason, Unflagged, TypeOK, Results
  <2>3. caller = "next" /\ gpc = "snap" /\ ~Submitted
    BY <2>1 DEF Handshake, Protocol, Blocked, Booting, Submitted, TypeOK
  <2> QED
    BY <2>1, <2>2, <2>3 DEF Complete, Missed, NormalIsComplete, Unflagged
<1> QED
  BY <1>1, <1>2, <1>3, IdleEntry

(* Normal is the answer for an execution that got as far as acquire or as a   *)
(* full block cache and, without hprintf rounds, for one whose trace was      *)
(* decoded without a missing page and that was not a rerun to dump one.       *)
THEOREM NormalRuns == DryRunFirst => (Spec => []NormalIsComplete)
<1> SUFFICES ASSUME DryRunFirst PROVE Spec => []NormalIsComplete
  OBVIOUS
<1>1. Init => Complete /\ NormalIsComplete
  BY CompleteInit DEF Init, NormalIsComplete
<1>2. Core /\ Complete /\ NormalIsComplete /\ [Next]_vars => Complete' /\ NormalIsComplete'
  BY CompleteNext, NormalNext DEF Core
<1> QED
  BY <1>1, <1>2, CoreInvariant, PTL DEF Spec

-----------------------------------------------------------------------------
(* Refinement *)

Observed(s) == s \intersect {"crash", "asan", "write"}

(* An execution is ended by the first thing there is to tell of it. *)
AtMostOne == \A a, b \in Observed(seen) : a = b

(* The step leaves alone what the service's state is made of. *)
Hidden == fpc' = fpc /\ payload' = payload /\ ran' = ran /\ exit' = exit /\ Observed(seen') = Observed(seen)

(* It then is a stuttering step of the service. *)
LEMMA HiddenStep == Hidden => [Service!ServiceNext]_(Service!svars)
BY DEF Hidden, Observed, Service!svars

(* An execution ends with something to tell. *)
LEMMA ObservingStep ==
  ASSUME Core, NEW expired \in BOOLEAN, NEW to, NEW reload, NEW res,
         NEW o \in {"crash", "asan", "write"}, Ending(expired, to, reload, res, {o})
  PROVE  Service!Observe
<1> USE DEF fuzzer, socket, modes, paging, kvm, history
<1>1. /\ vpc = "guest" /\ gpc \in {"pre", "test"}
      /\ UNCHANGED <<fpc, payload, exit, ran>>
  BY DEF Ending, GuestExit, KvmExit, EndExecution
<1>2. fpc = "wait" /\ ~Submitted
  BY <1>1 DEF Core, Handshake, Protocol, Booting, Submitted, TypeOK
<1>3. ran = payload /\ Observed(seen) = {}
  BY <1>1, <1>2 DEF Core, Outcome, Observed
<1>4. Observed(seen') = {o}
  <2>1. PICK f \in pt_dump : seen' = seen \union {o} \union (IF f # 0 THEN {"fault"} ELSE {})
    BY DEF Ending, EndExecution
  <2> QED
    BY <1>3, <2>1 DEF Observed
<1> QED
  BY <1>1, <1>2, <1>3, <1>4 DEF Service!Observe, Service!Observations, Observed

(* Every step of the handshake is a step of the service or hidden from it:    *)
(* only Resume after the fuzzer's byte begins an execution, only the three    *)
(* observations of the guest make one, and only Return answers.               *)
LEMMA ServiceStep ==
  ASSUME Core, AtMostOne, [Next]_vars
  PROVE  [Service!ServiceNext]_(Service!svars)
<1> USE DEF fuzzer, socket, modes, paging, kvm, history, qemu
<1>1. CASE kvm_cpu_exec
  <2>1. UNCHANGED <<fpc, payload, exit>>
    BY <1>1 DEF kvm_cpu_exec
  <2>2. ran' = ran /\ Observed(seen') = Observed(seen)
    <3>1. CASE timeout_reload_pending
      <4>1. EndExecution(TRUE, {})
        BY <1>1, <3>1 DEF kvm_cpu_exec, synchronization_lock_timeout_found
      <4>2. PICK f \in pt_dump : seen' = seen \union {} \union (IF f # 0 THEN {"fault"} ELSE {})
        BY <4>1 DEF EndExecution
      <4> QED
        BY <4>1, <4>2 DEF EndExecution, Observed
    <3>2. CASE ~timeout_reload_pending
      BY <1>1, <3>2 DEF kvm_cpu_exec
    <3> QED BY <3>1, <3>2
  <2> QED
    BY <2>1, <2>2, HiddenStep DEF Hidden
<1>2. CASE KvmRun \/ CondWait \/ synchronization_unlock
  BY <1>2, HiddenStep DEF KvmRun, CondWait, synchronization_unlock, Hidden
<1>3. CASE Resume
  <2>1. UNCHANGED <<fpc, payload, exit>> /\ vpc = "woken"
    BY <1>3 DEF Resume
  <2>2. CASE caller = "next"
    <3>1. fpc = "wait"
      BY <2>1, <2>2 DEF Core, Handshake, Protocol
    <3>2. ran' = payload /\ seen' \subseteq {"dump"}
      BY <1>3, <2>2 DEF Resume
    <3>3. Observed(seen') = {}
      BY <3>2 DEF Observed
    <3>4. Service!Begin
      BY <2>1, <3>1, <3>2, <3>3 DEF Service!Begin, Observed
    <3> QED
      BY <3>4 DEF Service!ServiceNext
  <2>3. CASE caller # "next"
    BY <1>3, <2>1, <2>3, HiddenStep DEF Resume, Hidden
  <2> QED BY <2>2, <2>3
<1>4. ASSUME NEW expired \in BOOLEAN,
             \/ Interrupted(expired) \/ NextPayloadInit(expired) \/ ReleaseInit(expired)
             \/ NextPayloadSnapshot(expired) \/ NextPayload(expired)
             \/ handle_hypercall_kafl_page_dump_bp(expired)
      PROVE  [Service!ServiceNext]_(Service!svars)
  BY <1>4, HiddenStep
  DEF Interrupted, NextPayloadInit, ReleaseInit, NextPayloadSnapshot, NextPayload,
      handle_hypercall_kafl_page_dump_bp, GuestExit, KvmExit, synchronization_lock, Hidden
<1>5. ASSUME NEW expired \in BOOLEAN,
             handle_hypercall_kafl_printf(expired) \/ handle_hypercall_kafl_acquire(expired)
      PROVE  [Service!ServiceNext]_(Service!svars)
  <2>1. /\ UNCHANGED <<fpc, payload, exit, ran>>
        /\ seen' = seen \union {"hprintf"} \/ seen' = seen \union {"acquire"}
    BY <1>5 DEF handle_hypercall_kafl_printf, handle_hypercall_kafl_acquire, GuestExit, KvmExit,
                synchronization_lock
  <2>2. Observed(seen') = Observed(seen)
    BY <2>1 DEF Observed
  <2> QED
    BY <2>1, <2>2, HiddenStep DEF Hidden
<1>6. ASSUME NEW expired \in BOOLEAN,
             \/ synchronization_disable_pt(expired) \/ synchronization_cow_full_detected(expired)
             \/ pt_handle_overflow(expired)
      PROVE  [Service!ServiceNext]_(Service!svars)
  <2>1. /\ UNCHANGED <<fpc, payload, exit, ran>>
        /\ \E f \in pt_dump, event \in {{}, {"release"}, {"cow"}} :
             seen' = seen \union event \union (IF f # 0 THEN {"fault"} ELSE {})
    BY <1>6 DEF synchronization_disable_pt, synchronization_cow_full_detected, pt_handle_overflow,
                Ending, EndExecution, GuestExit, KvmExit
  <2>2. Observed(seen') = Observed(seen)
    BY <2>1 DEF Observed
  <2> QED
    BY <2>1, <2>2, HiddenStep DEF Hidden
<1>7. ASSUME NEW expired \in BOOLEAN,
             \/ synchronization_lock_crash_found(expired) \/ synchronization_lock_asan_found(expired)
             \/ synchronization_payload_buffer_write_detected(expired)
      PROVE  [Service!ServiceNext]_(Service!svars)
  <2>1. Service!Observe
    BY <1>7, ObservingStep
    DEF synchronization_lock_crash_found, synchronization_lock_asan_found,
        synchronization_payload_buffer_write_detected
  <2> QED
    BY <2>1 DEF Service!ServiceNext
<1>8. CASE wait_qemu \/ Again
  <2>1. /\ UNCHANGED <<payload, exit, ran, seen>>
        /\ \/ fpc = "new_wait" /\ fpc' = "new_check"
           \/ fpc \in {"wait", "check"} /\ fpc' \in {"wait", "check"}
    BY <1>8 DEF wait_qemu, Again
  <2> QED
    BY <2>1 DEF Service!svars
<1>9. CASE new
  <2>1. /\ UNCHANGED <<payload, exit, ran, seen>> /\ fpc = "new_check"
        /\ fpc' = "idle" \/ fpc' = "new_wait"
    BY <1>9 DEF new
  <2>2. CASE fpc' = "idle"
    <3>1. Service!Ready
      BY <2>1, <2>2 DEF Service!Ready
    <3> QED
      BY <3>1 DEF Service!ServiceNext
  <2>3. CASE fpc' = "new_wait"
    BY <2>1, <2>3 DEF Service!svars
  <2> QED BY <2>1, <2>2, <2>3
<1>10. CASE Start
  <2>1. /\ UNCHANGED <<exit, ran, seen>> /\ fpc = "idle" /\ fpc' = "wait" /\ payload' \in Tests
    BY <1>10 DEF Start
  <2>2. Service!Submit
    BY <2>1 DEF Service!Submit
  <2> QED
    BY <2>2 DEF Service!ServiceNext
<1>11. CASE Return
  <2>1. /\ UNCHANGED <<payload, ran, seen>> /\ fpc = "check" /\ fpc' = "idle"
        /\ exit' \in {ExitReason(result), "none"}
    BY <1>11 DEF Return
  <2>2. ran = payload
    BY <2>1 DEF Core, Outcome, Submitted
  <2>3. /\ result.crash_found <=> "crash" \in Observed(seen)
        /\ result.asan_found <=> "asan" \in Observed(seen)
        /\ result.payload_write <=> "write" \in Observed(seen)
    BY DEF Core, Outcome, Observed
  <2>4. ExitReason(result) \in Service!Allowed(Observed(seen))
    <3>1. CASE result.crash_found
      <4>1. Observed(seen) = {"crash"}
        BY <2>3, <3>1 DEF AtMostOne
      <4> QED
        BY <3>1, <4>1 DEF ExitReason, Service!Allowed
    <3>2. CASE ~result.crash_found /\ result.payload_write
      <4>1. Observed(seen) = {"write"}
        BY <2>3, <3>2 DEF AtMostOne
      <4> QED
        BY <3>2, <4>1 DEF ExitReason, Service!Allowed
    <3>3. CASE ~result.crash_found /\ ~result.payload_write
      BY <2>3, <3>3 DEF ExitReason, Service!Allowed, Core, TypeOK, Results
    <3> QED BY <3>1, <3>2, <3>3
  <2>5. Service!Reply
    BY <2>1, <2>2, <2>4 DEF Service!Reply, Observed
  <2> QED
    BY <2>5 DEF Service!ServiceNext
<1>12. CASE UNCHANGED vars
  BY <1>12, HiddenStep DEF vars, Hidden
<1> QED
  BY <1>1, <1>2, <1>3, <1>4, <1>5, <1>6, <1>7, <1>8, <1>9, <1>10, <1>11, <1>12
  DEF Next, Vcpu, Fuzzer

(* The two processes, their threads and the shared buffers implement what     *)
(* trait FuzzRunner promises: one call at a time, answered from an execution  *)
(* of its own payload with a verdict that execution allows.                   *)
THEOREM Refinement == DryRunFirst => (Spec => ImplementsService)
<1> SUFFICES ASSUME DryRunFirst PROVE Spec => ImplementsService
  OBVIOUS
<1>1. Init => Service!ServiceInit /\ AtMostOne
  BY DEF Init, Service!ServiceInit, AtMostOne, Observed
<1>2. Core /\ AtMostOne /\ [Next]_vars => [Service!ServiceNext]_(Service!svars)
  BY ServiceStep
<1>3. AtMostOne /\ [Service!ServiceNext]_(Service!svars) => AtMostOne'
  <2> SUFFICES ASSUME AtMostOne, [Service!ServiceNext]_(Service!svars) PROVE AtMostOne'
    OBVIOUS
  <2>1. \/ Observed(seen') = Observed(seen) \/ Observed(seen') = {}
        \/ \E o \in {"crash", "asan", "write"} : Observed(seen') = {o}
    BY DEF Service!ServiceNext, Service!Ready, Service!Submit, Service!Begin, Service!Observe,
           Service!Reply, Service!Observations, Service!svars, Observed
  <2> QED
    BY <2>1 DEF AtMostOne
<1> QED
  BY <1>1, <1>2, <1>3, CoreInvariant, PTL DEF Spec, ImplementsService, Service!ServiceSpec
=============================================================================
