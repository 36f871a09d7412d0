----------------------------- MODULE PtControl -----------------------------
(***************************************************************************)
(* QEMU-PT's control of Intel PT (pt.c and its callers in                  *)
(* synchronization.c, hypercall.c and kvm-all.c) over KVM-PT's (VmxPt).    *)
(*                                                                         *)
(* Everything runs on the vCPU thread: vpc is its position in              *)
(* kvm_cpu_exec and, inside KVM_RUN, in the kernel's loop around the       *)
(* guest.  QEMU keeps its own idea of whether tracing is on (pt_enabled)   *)
(* and of the filters, and never asks the kernel.                          *)
(*                                                                         *)
(* Trace data is counted in units.  A unit is "own" if the guest wrote it  *)
(* inside the fuzzing loop of the current execution and "other" if it was  *)
(* written outside the loop or by an earlier execution.                    *)
(***************************************************************************)
EXTENDS Integers, Sequences, FiniteSets

CONSTANTS Main, Fallback, CR3s, Addrs, supported_addrn,
          MaxUnits     \* bound: units written per execution, and between two

ASSUME MaxUnitsAssumption == MaxUnits \in Nat \ {0}
ASSUME PtAssumption ==
  /\ Main \in Nat \ {0} /\ Fallback \in Nat /\ CR3s \subseteq Nat \ {0}
  /\ Addrs \subseteq 0 .. 3 /\ supported_addrn \in 0 .. 4

VARIABLES
  pt,                  \* struct vcpu_vmx_pt in the kernel
  vpc,                 \* position of the vCPU thread
  exit,                \* why KVM_RUN returned
  gpc,                 \* position of the guest agent
  pt_enabled, pt_c3_filter, pt_ip_filter_enabled,
  range,               \* the submitted IP ranges
  decoder_page_fault, no_decoding,   \* no_decoding: dump_page or redqueen intercept
  in_fuzzing_loop, timeout_reload_pending,
  (* history *)
  bitmap,              \* units of either kind decoded into the bitmap
  made,                \* units of either kind written since the last acquire
  skipped,             \* data of this execution was not decoded
  unstarted,           \* the last execution ended before the guest was entered
  stale                \* unstarted, as of the last acquire

kernel  == <<pt>>
qemu    == <<pt_enabled, pt_c3_filter, pt_ip_filter_enabled, range>>
decoder == <<decoder_page_fault, bitmap, skipped>>
loop    == <<gpc, in_fuzzing_loop>>
past    == <<unstarted, stale>>
vars    == <<kernel, vpc, exit, qemu, no_decoding, decoder, loop, made, past,
             timeout_reload_pending>>

running == vpc = "guest"
Kinds   == {"own", "other"}
vmx     == INSTANCE VmxPt WITH Units <- Kinds

Exits == {"eintr", "full", "other", "printf", "range", "next", "fast", "cr3", "acquire",
          "end", "write"}

(* Every variable has its type. *)
TypeOK ==
  /\ vmx!TypeOK
  /\ vpc \in {"entry", "loop", "kvm", "guest", "post", "handle", "cr3", "acquire", "tail"}
  /\ exit \in Exits
  /\ gpc \in {"agent", "snap", "pre", "test"}
  /\ pt_enabled \in BOOLEAN /\ in_fuzzing_loop \in BOOLEAN
  /\ pt_c3_filter \in CR3s \union {0}
  /\ pt_ip_filter_enabled \in SUBSET Addrs
  /\ range \in [Addrs -> {"none", "valid", "empty", "inverted"}]
  /\ decoder_page_fault \in BOOLEAN /\ no_decoding \in BOOLEAN
  /\ timeout_reload_pending \in BOOLEAN
  /\ bitmap \in [Kinds -> Nat] /\ made \in [Kinds -> 0 .. MaxUnits]
  /\ skipped \in BOOLEAN /\ unstarted \in BOOLEAN /\ stale \in BOOLEAN

(* pt_kvm_init and state_init_global; the agent has booted and has had its *)
(* first run without a fuzzer, in which none of this is used.              *)
Init ==
  /\ pt = vmx!vmx_pt_setup
  /\ vpc = "entry" /\ exit = "other" /\ gpc = "agent"
  /\ pt_enabled = FALSE /\ pt_c3_filter = 0 /\ pt_ip_filter_enabled = {}
  /\ range = [n \in Addrs |-> "none"]
  /\ decoder_page_fault = FALSE /\ no_decoding = FALSE
  /\ in_fuzzing_loop = FALSE /\ timeout_reload_pending = FALSE
  /\ bitmap = [t \in Kinds |-> 0] /\ made = [t \in Kinds |-> 0]
  /\ skipped = FALSE /\ unstarted = FALSE /\ stale = FALSE

-----------------------------------------------------------------------------
(* pt.c *)

Count(topa) == [t \in Kinds |-> Cardinality({i \in 1 .. Len(topa) : topa[i] = t})]

(* pt_dump: the trace goes to the decoder, which may stop at a page it lacks. *)
(* The decoder is bypassed once it did, and in the modes that do not need it. *)
pt_dump(topa) ==
  \/ /\ ~decoder_page_fault /\ ~no_decoding
     /\ bitmap' = [t \in Kinds |-> bitmap[t] + Count(topa)[t]]
     /\ UNCHANGED <<decoder_page_fault, skipped>>
  \/ /\ ~decoder_page_fault /\ ~no_decoding
     /\ decoder_page_fault' = TRUE /\ skipped' = TRUE
     /\ UNCHANGED bitmap
  \/ /\ decoder_page_fault \/ no_decoding
     /\ skipped' = TRUE
     /\ UNCHANGED <<decoder_page_fault, bitmap>>

(* A DISABLE that yields no data leaves pt_enabled alone. *)
pt_disable ==
  LET new == vmx!DISABLE(pt)
  IN  /\ pt' = new.pt
      /\ IF new.r > 0
         THEN pt_dump(pt.topa) /\ pt_enabled' = FALSE
         ELSE UNCHANGED <<decoder, pt_enabled>>

pt_enable_IfOff ==
  LET new == IF pt_enabled THEN vmx!Returns(pt, 0) ELSE vmx!ENABLE(pt)
  IN  /\ pt' = [new.pt EXCEPT !.topa = [i \in DOMAIN @ |-> "other"]]
      /\ pt_enabled' = TRUE
      /\ bitmap' = [t \in Kinds |-> 0]

(* ENABLE, preceded by a CHECK_TOPA_OVERFLOW whose result is ignored.  A new *)
(* execution begins here: trace data that is still in the buffer is not its  *)
(* own.                                                                      *)
pt_enable ==
  LET new == vmx!ENABLE(vmx!CHECK_TOPA_OVERFLOW(pt).pt)
  IN  /\ pt' = [new.pt EXCEPT !.topa = [i \in DOMAIN @ |-> "other"]]
      /\ pt_enabled' = (new.r = 0 \/ pt_enabled)
      /\ bitmap' = [t \in Kinds |-> 0]

pt_handle_overflow_Peek ==
  IF vmx!topa_full(pt) THEN pt_dump(pt.topa) /\ UNCHANGED pt
                       ELSE UNCHANGED <<pt, decoder>>

pt_handle_overflow ==
  LET new == vmx!CHECK_TOPA_OVERFLOW(pt)
  IN  /\ pt' = new.pt
      /\ IF new.r > 0 THEN pt_dump(pt.topa) ELSE UNCHANGED decoder

pt_set_cr3_AlsoEnabled(val) ==
  /\ pt_c3_filter' = val
  /\ pt' = vmx!ENABLE_CR3(vmx!CONFIGURE_CR3(pt, val).pt).pt

(* The filter is remembered whatever the two ioctls return. *)
pt_set_cr3(val) ==
  IF val = pt_c3_filter \/ pt_enabled
  THEN UNCHANGED <<pt, pt_c3_filter>>
  ELSE /\ pt_c3_filter' = val
       /\ pt' = vmx!ENABLE_CR3(vmx!CONFIGURE_CR3(pt, val).pt).pt

(* pt_enable_ip_filtering for every configured range, none of which is       *)
(* enabled yet.  An inverted range is refused here, an empty one by the      *)
(* kernel's range_check, which goes unnoticed.                               *)
pt_enable_ip_filtering ==
  LET asked == {n \in Addrs : range[n] \in {"valid", "empty"}}
      taken == {n \in asked : vmx!CONFIGURE_ADDR(pt, n, range[n] = "valid").r = 0}
      conf  == [pt EXCEPT !.ranges = @ \union taken]
      on    == {n \in asked : vmx!ENABLE_ADDR(conf, n).r = 0}
  IN  IF pt_enabled
      THEN UNCHANGED <<pt, pt_ip_filter_enabled>>
      ELSE /\ pt' = [conf EXCEPT !.addr_en = @ \union on]
           /\ pt_ip_filter_enabled' = asked

-----------------------------------------------------------------------------
(* synchronization.c: all the ways an execution ends start with pt_disable   *)
(* and, except for some releases, restore the snapshot.                      *)

EndExecution ==
  /\ pt_disable
  /\ in_fuzzing_loop' = FALSE
  /\ gpc' = "snap"
  /\ unstarted' = ((pt.state_change_pending /\ pt.state) \/ (unstarted /\ ~in_fuzzing_loop))
  /\ UNCHANGED <<exit, pt_c3_filter, pt_ip_filter_enabled, range, no_decoding, made, stale>>

(* Entry of kvm_cpu_exec: a timeout noted on the way out is handled here. *)
kvm_cpu_exec ==
  /\ vpc = "entry"
  /\ vpc' = "loop"
  /\ timeout_reload_pending' = FALSE
  /\ IF timeout_reload_pending
     THEN EndExecution
     ELSE UNCHANGED <<kernel, exit, qemu, no_decoding, decoder, loop, made, past>>

-----------------------------------------------------------------------------
(* KVM_RUN *)

pt_pre_kvm_run ==
  /\ vpc = "loop"
  /\ vpc' = "kvm"
  /\ UNCHANGED <<kernel, exit, qemu, no_decoding, decoder, loop, made, past,
                 timeout_reload_pending>>

(* The timer is armed once the fuzzer has set a timeout, after the snapshot. *)
TimerMayExpire == gpc # "agent" \/ timeout_reload_pending

(* The kernel's loop returns without entering the guest: a signal is pending, *)
(* maybe from the timer, or the buffer is full.                               *)
KvmReturns ==
  /\ vpc = "kvm"
  /\ vpc' = "post"
  /\ \/ exit' = "eintr" /\ timeout_reload_pending' \in {timeout_reload_pending, TimerMayExpire}
     \/ vmx!topa_full(pt) /\ exit' = "full" /\ UNCHANGED timeout_reload_pending
  /\ UNCHANGED <<kernel, qemu, no_decoding, decoder, loop, made, past>>

VmEntry ==
  /\ vpc = "kvm"
  /\ ~vmx!topa_full(pt)
  /\ pt' = vmx!vmx_pt_vmentry(pt)
  /\ vpc' = "guest"
  /\ UNCHANGED <<exit, qemu, no_decoding, decoder, loop, made, past, timeout_reload_pending>>

(* What the agent can be about to do, by its position. *)
Hypercalls(g) ==
  CASE g = "agent" -> {"printf", "range", "next", "fast", "cr3"}
    [] g = "snap"  -> {"next", "fast", "cr3", "end", "write"}
    [] g = "pre"   -> {"printf", "cr3", "acquire", "end", "write"}
    [] g = "test"  -> {"printf", "cr3", "end", "write"}

(* A VM exit: the kernel deals with it and goes on, or KVM_RUN returns. *)
VmExit ==
  /\ vpc = "guest"
  /\ LET kind == IF in_fuzzing_loop THEN "own" ELSE "other"
     IN  \E w \in vmx!Written(pt, kind, MaxUnits - made[kind]) :
           /\ pt' = vmx!vmx_pt_vmexit(pt, w)
           /\ made' = [made EXCEPT ![kind] = @ + Len(w)]
  /\ \/ vpc' = "kvm" /\ UNCHANGED <<exit, timeout_reload_pending>>
     \/ /\ vpc' = "post"
        /\ exit' \in {"eintr", "other"} \union Hypercalls(gpc)
        /\ timeout_reload_pending' \in {timeout_reload_pending, TimerMayExpire}
  /\ UNCHANGED <<qemu, no_decoding, decoder, loop, past>>

(* EINTR leaves kvm_cpu_exec; any other exit is handled. *)
pt_post_kvm_run ==
  /\ vpc = "post"
  /\ vpc' = IF exit = "eintr" THEN "entry" ELSE "handle"
  /\ pt_handle_overflow
  /\ UNCHANGED <<exit, qemu, no_decoding, loop, made, past, timeout_reload_pending>>

-----------------------------------------------------------------------------
(* The exits handled by QEMU *)

(* KVM_EXIT_KAFL_TOPA_MAIN_FULL *)
TopaMainFull ==
  /\ vpc = "handle" /\ exit = "full"
  /\ vpc' = "tail"
  /\ pt_handle_overflow
  /\ UNCHANGED <<exit, qemu, no_decoding, loop, made, past, timeout_reload_pending>>

OtherExit ==
  /\ vpc = "handle" /\ exit = "other"
  /\ vpc' = "tail"
  /\ UNCHANGED <<kernel, exit, qemu, no_decoding, decoder, loop, made, past,
                 timeout_reload_pending>>

(* An hprintf goes through synchronization_lock as well. *)
handle_hypercall_kafl_printf ==
  /\ vpc = "handle" /\ exit = "printf"
  /\ vpc' = "tail"
  /\ decoder_page_fault' = FALSE
  /\ no_decoding' \in BOOLEAN
  /\ UNCHANGED <<kernel, exit, qemu, bitmap, skipped, loop, made, past, timeout_reload_pending>>

(* A range is taken once. *)
handle_hypercall_kafl_range_submit ==
  /\ vpc = "handle" /\ exit = "range"
  /\ vpc' = "tail"
  /\ \E n \in Addrs, r \in {"valid", "empty", "inverted"} :
       range' = [range EXCEPT ![n] = IF @ = "none" THEN r ELSE @]
  /\ UNCHANGED <<kernel, exit, pt_enabled, pt_c3_filter, pt_ip_filter_enabled, no_decoding,
                 decoder, loop, made, past, timeout_reload_pending>>

(* The first request takes the snapshot, after which the filters are set up. *)
NextPayloadSnapshot ==
  /\ vpc = "handle" /\ exit \in {"next", "fast"} /\ gpc = "agent"
  /\ vpc' = "tail"
  /\ gpc' = "snap"
  /\ bitmap' = [t \in Kinds |-> 0]
  /\ pt_enable_ip_filtering
  /\ UNCHANGED <<exit, pt_enabled, pt_c3_filter, range, no_decoding, decoder_page_fault,
                 skipped, in_fuzzing_loop, made, past, timeout_reload_pending>>

(* Later ones go through synchronization_lock, which reports the decoder's   *)
(* page fault and brings the fuzzer's choice of mode.                        *)
NextPayload ==
  /\ vpc = "handle" /\ exit \in {"next", "fast"} /\ gpc = "snap"
  /\ vpc' = IF exit = "fast" THEN "cr3" ELSE "tail"
  /\ gpc' = "pre"
  /\ decoder_page_fault' = FALSE
  /\ no_decoding' \in BOOLEAN
  /\ UNCHANGED <<kernel, exit, qemu, bitmap, skipped, in_fuzzing_loop, made, past,
                 timeout_reload_pending>>

handle_hypercall_kafl_cr3 ==
  /\ vpc = "cr3" \/ (vpc = "handle" /\ exit = "cr3")
  /\ vpc' = IF vpc = "cr3" THEN "acquire" ELSE "tail"
  /\ \E c \in CR3s : pt_set_cr3(c)
  /\ UNCHANGED <<exit, pt_enabled, pt_ip_filter_enabled, range, no_decoding, decoder, loop,
                 made, past, timeout_reload_pending>>

(* synchronization_enter_fuzzing_loop *)
handle_hypercall_kafl_acquire ==
  /\ vpc = "acquire" \/ (vpc = "handle" /\ exit = "acquire")
  /\ vpc' = "tail"
  /\ pt_enable
  /\ in_fuzzing_loop' = TRUE
  /\ gpc' = "test"
  /\ made' = [t \in Kinds |-> 0]
  /\ skipped' = FALSE
  /\ stale' = unstarted
  /\ UNCHANGED <<exit, pt_c3_filter, pt_ip_filter_enabled, range, no_decoding,
                 decoder_page_fault, unstarted, timeout_reload_pending>>

(* Release, crash, ASan report, shutdown; and a write to the payload buffer,  *)
(* which leaves kvm_cpu_exec.                                                 *)
EndOfExecution ==
  /\ vpc = "handle" /\ exit \in {"end", "write"}
  /\ vpc' = IF exit = "write" THEN "entry" ELSE "tail"
  /\ EndExecution
  /\ UNCHANGED timeout_reload_pending

(* End of kvm_cpu_exec's loop: a full block cache or a requested shutdown *)
(* ends the execution, too.                                               *)
LoopTail ==
  /\ vpc = "tail"
  /\ vpc' = "loop"
  /\ \/ UNCHANGED <<kernel, exit, qemu, no_decoding, decoder, loop, made, past>>
     \/ gpc # "agent" /\ EndExecution
  /\ UNCHANGED timeout_reload_pending

Next ==
  \/ kvm_cpu_exec \/ pt_pre_kvm_run \/ KvmReturns \/ VmEntry \/ VmExit
  \/ pt_post_kvm_run \/ TopaMainFull \/ OtherExit \/ handle_hypercall_kafl_printf
  \/ handle_hypercall_kafl_range_submit \/ NextPayloadSnapshot \/ NextPayload
  \/ handle_hypercall_kafl_cr3 \/ handle_hypercall_kafl_acquire
  \/ EndOfExecution \/ LoopTail

Spec == Init /\ [][Next]_vars /\ WF_vars(Next)

-----------------------------------------------------------------------------
(* Properties *)

(* QEMU knows whether the guest is traced.  Inside the fuzzing loop the guest *)
(* never runs untraced, although ENABLE may be ignored by the kernel and      *)
(* reports success all the same: whenever an acquire's ENABLE is ignored,     *)
(* tracing is on or about to be.  And no guest is traced while QEMU believes  *)
(* tracing to be off (pt_enabled): its filter changes would be refused by the *)
(* kernel unnoticed.                                                          *)
LoopIsTraced ==
  running => /\ in_fuzzing_loop => pt.guest_ctl.trace
             /\ ~pt_enabled => ~pt.guest_ctl.trace

(* The filters QEMU remembers are those of the kernel, although QEMU ignores *)
(* what the filter ioctls return: the CR3 filter exactly; of the IP ranges   *)
(* those that are not empty and that the CPU supports.                       *)
FiltersAgree ==
  /\ pt.cr3_match = pt_c3_filter
  /\ pt.cr3_filter = (pt_c3_filter # 0)
  /\ pt.addr_en = {n \in pt_ip_filter_enabled : range[n] = "valid" /\ supported_addrn > n}

(* The bitmap the fuzzer gets is that of the execution.  All its trace data   *)
(* is decoded, and none of it twice, unless the decoder was bypassed or       *)
(* lacked a page: pt_disable's size ioctl leaves the buffer as it is,         *)
(* overflows are taken out by three different callers.  And nothing the guest *)
(* did outside an execution is decoded, unless this execution or the one      *)
(* before ended before the guest was entered: the kernel then still has an    *)
(* ENABLE pending, which DISABLE does not cancel.                             *)
BitmapIsExact ==
  /\ ~in_fuzzing_loop /\ ~skipped => bitmap["own"] = made["own"]
  /\ bitmap["other"] > 0 => stale \/ unstarted

(* A full buffer keeps the kernel from entering the guest.  It is always     *)
(* emptied again.                                                            *)
FullIsDrained == vmx!topa_full(pt) ~> ~vmx!topa_full(pt)

=============================================================================
