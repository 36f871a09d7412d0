-------------------------- MODULE PtControlProofs --------------------------
(***************************************************************************)
(* Proofs about PtControl, for any buffer sizes, filters and amounts of    *)
(* trace data.                                                             *)
(***************************************************************************)
EXTENDS PtControl, FiniteSetTheorems, TLAPS

(* TypeOK, without the kernel's view of the thread's position. *)
KernelType == pt \in vmx!VcpuVmxPt /\ Len(pt.topa) <= Main + Fallback

ThreadType ==
  /\ vpc \in {"entry", "loop", "kvm", "guest", "post", "handle", "cr3", "acquire", "tail"}
  /\ exit \in Exits
  /\ gpc \in {"agent", "snap", "pre", "test"}
  /\ in_fuzzing_loop \in BOOLEAN /\ timeout_reload_pending \in BOOLEAN

FilterType ==
  /\ pt_enabled \in BOOLEAN
  /\ pt_c3_filter \in CR3s \union {0}
  /\ pt_ip_filter_enabled \in SUBSET Addrs
  /\ range \in [Addrs -> {"none", "valid", "empty", "inverted"}]

HistoryType ==
  /\ decoder_page_fault \in BOOLEAN /\ no_decoding \in BOOLEAN
  /\ bitmap \in [Kinds -> Nat] /\ made \in [Kinds -> 0 .. MaxUnits]
  /\ skipped \in BOOLEAN /\ unstarted \in BOOLEAN /\ stale \in BOOLEAN

EnablePending  == pt.state_change_pending /\ pt.state
DisablePending == pt.state_change_pending /\ ~pt.state
TracingOn      == pt.configured /\ ~pt.state_change_pending

(* Where the thread is and what it was told: an exit that is handled was      *)
(* raised by the guest at its current position.                               *)
Position ==
  /\ vpc \in {"post", "handle"} => exit \in {"eintr", "full", "other"} \union Hypercalls(gpc)
  /\ vpc \in {"cr3", "acquire"} => gpc = "pre"
  /\ in_fuzzing_loop = (gpc = "test")
  /\ gpc = "agent" => ~timeout_reload_pending /\ ~pt_enabled /\ pt_ip_filter_enabled = {}
                      /\ pt.ranges = {} /\ ~pt.configured /\ ~pt.state_change_pending

(* The kernel's request and its state, and where a request cannot be pending  *)
(* because the guest has just run.                                            *)
Requests ==
  /\ pt.guest_ctl.trace = pt.configured
  /\ pt.state_change_pending => pt.configured = ~pt.state
  /\ ~pt.multi_cr3_enabled
  /\ \/ vpc \in {"guest", "cr3", "acquire"}
     \/ vpc \in {"post", "handle"} /\ exit \notin {"eintr", "full"}
     => ~pt.state_change_pending

(* What QEMU believes of tracing, and what the loop relies on. *)
Belief ==
  /\ in_fuzzing_loop => TracingOn \/ EnablePending
  /\ ~pt_enabled => ~TracingOn /\ ~EnablePending

(* The buffer is full only between a VM exit and pt_post_kvm_run, and empty   *)
(* while tracing is off.                                                      *)
Buffer ==
  /\ ~pt.configured => pt.topa = << >>
  /\ vmx!topa_full(pt) => vpc \in {"kvm", "post"} /\ ~pt.state_change_pending

Has(t) == \E i \in 1 .. Len(pt.topa) : pt.topa[i] = t

(* Every unit of the execution is in the bitmap or, unless the buffer has     *)
(* been handed out by a DISABLE, still in the buffer.                         *)
OwnUnits ==
  /\ ~skipped => bitmap["own"] + (IF DisablePending THEN 0 ELSE Count(pt.topa)["own"])
                   = made["own"]
  /\ ~in_fuzzing_loop /\ ~DisablePending => ~Has("own")
  /\ gpc = "agent" => made["own"] = 0

(* Units of nobody's execution are there only after an execution that ended   *)
(* before the guest was entered.                                              *)
OtherUnits ==
  /\ ~in_fuzzing_loop /\ (TracingOn \/ EnablePending) => unstarted
  /\ Has("other") /\ ~DisablePending => IF in_fuzzing_loop THEN stale ELSE unstarted
  /\ bitmap["other"] > 0 => IF in_fuzzing_loop THEN stale ELSE stale \/ unstarted

Types == KernelType /\ ThreadType /\ FilterType /\ HistoryType

IInv == Types /\ Position /\ Requests /\ Belief /\ Buffer /\ FiltersAgree
        /\ OwnUnits /\ OtherUnits

-----------------------------------------------------------------------------
(* Counting the units of a trace *)

(* A trace has a number of units of either kind, none if it is empty, and some *)
(* of a kind exactly if a unit of that kind is in it.                          *)
LEMMA Counting ==
  ASSUME NEW s \in Seq(Kinds), NEW t \in Kinds
  PROVE  /\ Count(s)[t] \in Nat
         /\ (Count(s)[t] = 0) <=> (\A i \in 1 .. Len(s) : s[i] # t)
<1> DEFINE S == {i \in 1 .. Len(s) : s[i] = t}
<1>1. IsFiniteSet(1 .. Len(s)) /\ S \subseteq 1 .. Len(s)  BY FS_Interval
<1>2. IsFiniteSet(S)  BY <1>1, FS_Subset
<1>3. Cardinality(S) \in Nat  BY <1>2, FS_CardinalityType
<1>4. (Cardinality(S) = 0) <=> (S = {})  BY <1>2, FS_EmptySet
<1>5. Count(s)[t] = Cardinality(S)  BY DEF Count
<1>6. (S = {}) <=> (\A i \in 1 .. Len(s) : s[i] # t)  OBVIOUS
<1>7. QED  BY <1>3, <1>4, <1>5, <1>6

(* What the CPU appends at a VM exit is of one kind, and adds to its count only. *)
LEMMA Appending ==
  ASSUME NEW s \in Seq(Kinds), NEW kind \in Kinds, NEW n \in Nat, NEW t \in Kinds
  PROVE  Count(s \o [i \in 1 .. n |-> kind])[t]
           = Count(s)[t] + (IF t = kind THEN n ELSE 0)
<1> DEFINE w == [i \in 1 .. n |-> kind]
           S == {i \in 1 .. Len(s) : s[i] = t}
           W == (Len(s) + 1) .. (Len(s) + n)
           T == {i \in 1 .. Len(s \o w) : (s \o w)[i] = t}
<1>1. w \in Seq(Kinds) /\ Len(w) = n /\ Len(s) \in Nat  OBVIOUS
<1>2. Len(s \o w) = Len(s) + n
      /\ \A i \in 1 .. (Len(s) + n) : (s \o w)[i] = IF i <= Len(s) THEN s[i] ELSE w[i - Len(s)]
  BY <1>1
<1>3. \A i \in W : w[i - Len(s)] = kind  BY <1>1
<1>4. T = IF t = kind THEN S \union W ELSE S
  BY <1>1, <1>2, <1>3
<1>5. IsFiniteSet(S)
  <2>1. IsFiniteSet(1 .. Len(s)) /\ S \subseteq 1 .. Len(s)  BY <1>1, FS_Interval
  <2>2. QED  BY <2>1, FS_Subset
<1>6. IsFiniteSet(W) /\ Cardinality(W) = n
  <2> DEFINE a == Len(s) + 1  b == Len(s) + n
  <2>1. a \in Int /\ b \in Int /\ W = a .. b  BY <1>1
  <2>2. (a > b <=> n = 0) /\ b - a + 1 = n  BY <1>1
  <2> HIDE DEF a, b, W
  <2>3. IsFiniteSet(W) /\ Cardinality(W) = IF a > b THEN 0 ELSE b - a + 1
    BY <2>1, FS_Interval
  <2>4. QED  BY <2>2, <2>3
<1>7. S \intersect W = {}  BY <1>1
<1>C. Count(s)[t] = Cardinality(S) /\ Count(s \o w)[t] = Cardinality(T)  BY DEF Count
<1> SUFFICES Count(s \o w)[t] = Count(s)[t] + (IF t = kind THEN n ELSE 0)  OBVIOUS
<1> HIDE DEF S, T, W, w
<1>8. Cardinality(S \union W) = Cardinality(S) + Cardinality(W) - Cardinality({})
  <2>1. Cardinality(S \union W)
          = Cardinality(S) + Cardinality(W) - Cardinality(S \intersect W)
    BY <1>5, <1>6, FS_Union
  <2>2. QED  BY <2>1, <1>7
<1>9. Cardinality(S) \in Nat /\ Cardinality({}) = 0
  BY <1>5, FS_CardinalityType, FS_EmptySet
<1> QED  BY <1>4, <1>6, <1>8, <1>9, <1>C

(* At an acquire all that is left in the buffer becomes data of nobody's execution. *)
LEMMA Relabelling ==
  ASSUME NEW s \in Seq(Kinds)
  PROVE  LET new == [i \in DOMAIN s |-> "other"]
         IN  /\ new \in Seq(Kinds) /\ Len(new) = Len(s)
             /\ \A i \in 1 .. Len(new) : new[i] = "other"
             /\ s = << >> => new = << >>
BY DEF Kinds

(* An empty buffer holds no units. *)
LEMMA NoUnits ==
  /\ << >> \in Seq(Kinds) /\ Len(<< >>) = 0
  /\ Count(<< >>)["own"] = 0 /\ Count(<< >>)["other"] = 0
<1>1. << >> \in Seq(Kinds) /\ Len(<< >>) = 0 /\ {"own", "other"} = Kinds  BY DEF Kinds
<1>2. ASSUME NEW t \in Kinds PROVE Count(<< >>)[t] = 0
  <2>1. \A i \in 1 .. Len(<< >>) : << >>[i] # t  BY <1>1
  <2>2. QED  BY <1>1, <2>1, Counting
<1>3. QED  BY <1>1, <1>2

(* A record that differs in its trace only. *)
OnlyTopa(new, k) ==
  /\ new \in vmx!VcpuVmxPt
  /\ new.configured = k.configured /\ new.state = k.state
  /\ new.state_change_pending = k.state_change_pending
  /\ new.multi_cr3_enabled = k.multi_cr3_enabled
  /\ new.cr3_match = k.cr3_match /\ new.cr3_filter = k.cr3_filter
  /\ new.ranges = k.ranges /\ new.addr_en = k.addr_en
  /\ new.guest_ctl = k.guest_ctl

(* A new trace changes nothing else. *)
LEMMA NewTopa ==
  ASSUME NEW k \in vmx!VcpuVmxPt, NEW s \in Seq(Kinds)
  PROVE  OnlyTopa([k EXCEPT !.topa = s], k) /\ [k EXCEPT !.topa = s].topa = s
<1>1. [k EXCEPT !.topa = s] \in vmx!VcpuVmxPt  BY DEF vmx!VcpuVmxPt
<1>2. QED  BY <1>1 DEF vmx!VcpuVmxPt, OnlyTopa

-----------------------------------------------------------------------------
(* The initial state *)

(* Before the first request nothing is traced, filtered or pending. *)
LEMMA InitInv == Init => IInv
<1> SUFFICES ASSUME Init PROVE IInv  OBVIOUS
<1>1. pt \in vmx!VcpuVmxPt
  BY DEF Init, vmx!vmx_pt_setup, vmx!VcpuVmxPt, vmx!Control
<1>2. /\ pt.topa = << >> /\ pt.configured = FALSE /\ pt.state_change_pending = FALSE
      /\ pt.multi_cr3_enabled = FALSE /\ pt.cr3_match = 0 /\ pt.cr3_filter = FALSE
      /\ pt.ranges = {} /\ pt.addr_en = {} /\ pt.guest_ctl.trace = FALSE
  BY DEF Init, vmx!vmx_pt_setup
<1>3. Types
  <2>1. KernelType  BY <1>1, <1>2, PtAssumption DEF KernelType
  <2>2. ThreadType /\ FilterType  BY DEF Init, ThreadType, FilterType, Exits
  <2>3. HistoryType
    <3>1. bitmap \in [Kinds -> Nat]  BY DEF Init
    <3>2. made \in [Kinds -> 0 .. MaxUnits]  BY MaxUnitsAssumption DEF Init
    <3>3. QED  BY <3>1, <3>2 DEF Init, HistoryType
  <2>4. QED  BY <2>1, <2>2, <2>3 DEF Types
<1>4. Position /\ Requests /\ Belief
  BY <1>2 DEF Init, Position, Requests, Belief, TracingOn, EnablePending
<1>5. Buffer
  BY <1>2, PtAssumption DEF Init, Buffer, vmx!topa_full, vmx!vmx_pt_get_data_size
<1>6. FiltersAgree  BY <1>2 DEF Init, FiltersAgree
<1>7. OwnUnits /\ OtherUnits
  BY <1>2, NoUnits DEF Init, OwnUnits, OtherUnits, Has, DisablePending, EnablePending, TracingOn, Kinds
<1>8. QED  BY <1>3, <1>4, <1>5, <1>6, <1>7 DEF IInv

-----------------------------------------------------------------------------
(* Steps that leave the kernel alone *)

(* The invariant depends on the position only where a request or a full       *)
(* buffer may be; a step between two other positions keeps all the rest.      *)
LEMMA QuietStep ==
  ASSUME IInv, \/ pt_pre_kvm_run \/ OtherExit \/ handle_hypercall_kafl_printf \/ NextPayload
               \/ KvmReturns
  PROVE  IInv'
<1> USE DEF pt_pre_kvm_run, OtherExit, handle_hypercall_kafl_printf, NextPayload, KvmReturns,
            kernel, qemu, decoder, loop, past
<1>1. pt' = pt /\ made' = made /\ bitmap' = bitmap /\ skipped' = skipped
      /\ unstarted' = unstarted /\ stale' = stale /\ in_fuzzing_loop' = in_fuzzing_loop
  OBVIOUS
<1>2. pt_enabled' = pt_enabled /\ pt_c3_filter' = pt_c3_filter
      /\ pt_ip_filter_enabled' = pt_ip_filter_enabled /\ range' = range
  OBVIOUS
<1>3. KernelType' /\ FilterType' /\ FiltersAgree'
  BY <1>1, <1>2 DEF IInv, Types, KernelType, FilterType, FiltersAgree
<1>4. HistoryType'
  BY <1>1 DEF IInv, Types, HistoryType
<1>5. ThreadType'
  BY <1>1 DEF IInv, Types, ThreadType, Exits, TimerMayExpire
<1>6. Belief' /\ OwnUnits' /\ OtherUnits'
  BY <1>1, <1>2 DEF IInv, Belief, OwnUnits, OtherUnits, TracingOn, EnablePending,
     DisablePending, Has, Count
<1>7. Position'
  BY <1>1, <1>2 DEF IInv, Types, ThreadType, Position, Hypercalls, TimerMayExpire
<1>8. Requests'
  BY <1>1 DEF IInv, Types, ThreadType, Position, Requests, Hypercalls
<1>9. Buffer'
  BY <1>1 DEF IInv, Buffer, vmx!topa_full, vmx!vmx_pt_get_data_size
<1>10. QED
  BY <1>3, <1>4, <1>5, <1>6, <1>7, <1>8, <1>9 DEF IInv, Types

(* kvm_cpu_exec's loop begins anew: nothing changes but the position. *)
LEMMA LoopStep ==
  ASSUME IInv, UNCHANGED <<kernel, exit, qemu, no_decoding, decoder, loop, made, past>>,
         vpc \in {"entry", "tail"}, vpc' = "loop",
         timeout_reload_pending' \in BOOLEAN,
         ~timeout_reload_pending => ~timeout_reload_pending'
  PROVE  IInv'
<1>1. /\ made' = made /\ bitmap' = bitmap /\ skipped' = skipped /\ pt' = pt
      /\ unstarted' = unstarted /\ stale' = stale /\ in_fuzzing_loop' = in_fuzzing_loop
      /\ gpc' = gpc /\ exit' = exit /\ timeout_reload_pending' \in BOOLEAN
      /\ ~timeout_reload_pending => ~timeout_reload_pending'
      /\ no_decoding' = no_decoding /\ decoder_page_fault' = decoder_page_fault
      /\ pt_enabled' = pt_enabled /\ pt_c3_filter' = pt_c3_filter
      /\ pt_ip_filter_enabled' = pt_ip_filter_enabled /\ range' = range
      /\ vpc \in {"entry", "tail"} /\ vpc' = "loop"
  BY DEF kernel, qemu, decoder, loop, past
<1>2. KernelType' /\ FilterType' /\ FiltersAgree' /\ ThreadType' /\ HistoryType'
  BY <1>1
  DEF IInv, Types, KernelType, FilterType, FiltersAgree, ThreadType, HistoryType
<1>3. Position' /\ Requests' /\ Belief'
  BY <1>1 DEF IInv, Position, Requests, Belief, TracingOn, EnablePending
<1>4. Buffer'
  BY <1>1 DEF IInv, Buffer, vmx!topa_full, vmx!vmx_pt_get_data_size
<1>5. OwnUnits' /\ OtherUnits'
  BY <1>1 DEF IInv, OwnUnits, OtherUnits, TracingOn, EnablePending,
     DisablePending, Has, Count
<1>6. QED  BY <1>2, <1>3, <1>4, <1>5 DEF IInv, Types

(* A range is submitted before the snapshot, when no filter is set up. *)
LEMMA RangeStep == IInv /\ handle_hypercall_kafl_range_submit => IInv'
<1> SUFFICES ASSUME IInv, handle_hypercall_kafl_range_submit PROVE IInv'  OBVIOUS
<1> USE DEF handle_hypercall_kafl_range_submit, kernel, decoder, loop, past
<1>1. pt' = pt /\ made' = made /\ bitmap' = bitmap /\ skipped' = skipped
      /\ unstarted' = unstarted /\ stale' = stale /\ in_fuzzing_loop' = in_fuzzing_loop
      /\ gpc' = gpc /\ exit' = exit /\ timeout_reload_pending' = timeout_reload_pending
      /\ pt_enabled' = pt_enabled /\ vpc = "handle" /\ vpc' = "tail"
  OBVIOUS
<1>2. gpc = "agent"
  BY DEF IInv, Types, ThreadType, Position, Hypercalls
<1>3. pt_ip_filter_enabled = {}
  BY <1>2 DEF IInv, Position
<1>4. KernelType' /\ FilterType' /\ FiltersAgree' /\ ThreadType'
  BY <1>1, <1>3 DEF IInv, Types, KernelType, FilterType, FiltersAgree, ThreadType
<1>5. HistoryType'
  BY <1>1 DEF IInv, Types, HistoryType
<1>6. Belief' /\ OwnUnits' /\ OtherUnits'
  BY <1>1 DEF IInv, Belief, OwnUnits, OtherUnits, TracingOn, EnablePending,
     DisablePending, Has, Count
<1>7. Position' /\ Requests'
  BY <1>1 DEF IInv, Position, Requests
<1>8. Buffer'
  BY <1>1 DEF IInv, Buffer, vmx!topa_full, vmx!vmx_pt_get_data_size
<1>9. QED
  BY <1>4, <1>5, <1>6, <1>7, <1>8 DEF IInv, Types

-----------------------------------------------------------------------------
(* Emptying the buffer *)

(* pt_dump adds what was in the buffer to the bitmap, or marks the execution. *)
LEMMA Dumped ==
  ASSUME Types, pt_dump(pt.topa)
  PROVE  /\ bitmap' \in [Kinds -> Nat]
         /\ decoder_page_fault' \in BOOLEAN /\ skipped' \in BOOLEAN
         /\ skipped => skipped'
         /\ ~skipped' => bitmap'["own"] = bitmap["own"] + Count(pt.topa)["own"]
         /\ bitmap'["other"] > 0 => bitmap["other"] > 0 \/ Has("other")
<1>1. pt.topa \in Seq(Kinds)  BY DEF Types, KernelType, vmx!VcpuVmxPt
<1>2. Count(pt.topa)["own"] \in Nat /\ Count(pt.topa)["other"] \in Nat
      /\ (Count(pt.topa)["other"] = 0 <=> ~Has("other"))
  BY <1>1, Counting DEF Kinds, Has
<1>3. Kinds = {"own", "other"}  BY DEF Kinds
<1>4. CASE /\ bitmap' = [t \in Kinds |-> bitmap[t] + Count(pt.topa)[t]]
           /\ decoder_page_fault' = decoder_page_fault /\ skipped' = skipped
  <2>1. bitmap'["own"] = bitmap["own"] + Count(pt.topa)["own"]
        /\ bitmap'["other"] = bitmap["other"] + Count(pt.topa)["other"]
    BY <1>3, <1>4
  <2>2. bitmap["own"] \in Nat /\ bitmap["other"] \in Nat
    BY <1>3 DEF Types, HistoryType
  <2>3. \A t \in Kinds : bitmap[t] + Count(pt.topa)[t] \in Nat
    BY <1>2, <1>3, <2>2
  <2>4. bitmap' \in [Kinds -> Nat]  BY <1>4, <2>3
  <2>5. QED  BY <1>2, <1>4, <2>1, <2>2, <2>4 DEF Types, HistoryType
<1>5. CASE bitmap' = bitmap /\ skipped' = TRUE
           /\ decoder_page_fault' \in {decoder_page_fault, TRUE}
  BY <1>5 DEF Types, HistoryType
<1>6. QED  BY <1>4, <1>5 DEF pt_dump

(* pt_handle_overflow finds the buffer full only right after the guest ran. *)
LEMMA OverflowStep ==
  ASSUME IInv, pt_post_kvm_run \/ TopaMainFull
  PROVE  IInv'
<1> USE DEF pt_post_kvm_run, TopaMainFull, qemu, loop, past
<1>1. /\ made' = made /\ unstarted' = unstarted /\ stale' = stale
      /\ in_fuzzing_loop' = in_fuzzing_loop /\ gpc' = gpc /\ exit' = exit
      /\ timeout_reload_pending' = timeout_reload_pending /\ no_decoding' = no_decoding
      /\ pt_enabled' = pt_enabled /\ pt_c3_filter' = pt_c3_filter
      /\ pt_ip_filter_enabled' = pt_ip_filter_enabled /\ range' = range
      /\ pt_handle_overflow
      /\ vpc \in {"post", "handle"} /\ vpc' \in {"entry", "handle", "tail"}
      /\ vpc' = "handle" => vpc = "post" /\ exit # "eintr"
  OBVIOUS
<1>2. CASE vmx!topa_full(pt)
  <2>1. pt' = [pt EXCEPT !.topa = << >>] /\ pt_dump(pt.topa)
    BY <1>1, <1>2, PtAssumption DEF pt_handle_overflow, vmx!CHECK_TOPA_OVERFLOW, vmx!Returns,
       vmx!topa_reset, vmx!topa_full, vmx!vmx_pt_get_data_size, IInv, Types, KernelType,
       vmx!VcpuVmxPt
  <2>2. /\ pt \in vmx!VcpuVmxPt
        /\ vpc = "post" /\ ~pt.state_change_pending
    BY <1>1, <1>2 DEF IInv, Types, KernelType, Buffer
  <2>3. pt'.topa = << >> /\ OnlyTopa(pt', pt)
    BY <2>1, <2>2, NoUnits, NewTopa
  <2>4. << >> \in Seq(Kinds) /\ Len(<< >>) = 0 /\ "own" \in Kinds  BY DEF Kinds
  <2>5. KernelType' /\ FilterType' /\ FiltersAgree' /\ ThreadType'
    BY <1>1, <2>3, <2>4, PtAssumption
    DEF OnlyTopa, IInv, Types, KernelType, FilterType, FiltersAgree, ThreadType
  <2>6. HistoryType'
    BY <1>1, <2>1, Dumped DEF OnlyTopa, IInv, Types, HistoryType
  <2>7. Position' /\ Requests' /\ Belief'
    BY <1>1, <2>2, <2>3 DEF OnlyTopa, IInv, Position, Requests, Belief, TracingOn, EnablePending
  <2>8. Buffer'
    BY <2>3, <2>4, PtAssumption DEF OnlyTopa, Buffer, vmx!topa_full, vmx!vmx_pt_get_data_size
  <2>9. Count(pt'.topa)["own"] = 0 /\ ~Has("own")' /\ ~Has("other")'
    BY <2>3, NoUnits DEF Has
  <2>10. OwnUnits'
    BY <1>1, <2>1, <2>2, <2>3, <2>9, Dumped
    DEF OnlyTopa, IInv, OwnUnits, DisablePending, Types, HistoryType, Kinds
  <2>11. OtherUnits'
    BY <1>1, <2>1, <2>2, <2>3, <2>9, Dumped
    DEF OnlyTopa, IInv, OtherUnits, DisablePending, EnablePending, TracingOn
  <2>12. QED  BY <2>5, <2>6, <2>7, <2>8, <2>10, <2>11 DEF OnlyTopa, IInv, Types
<1>3. CASE ~vmx!topa_full(pt)
  <2>1. pt' = pt /\ bitmap' = bitmap /\ skipped' = skipped
        /\ decoder_page_fault' = decoder_page_fault
    BY <1>1, <1>3 DEF pt_handle_overflow, vmx!CHECK_TOPA_OVERFLOW, vmx!Returns, decoder
  <2>2. KernelType' /\ FilterType' /\ FiltersAgree' /\ ThreadType' /\ HistoryType'
    BY <1>1, <2>1
    DEF IInv, Types, KernelType, FilterType, FiltersAgree, ThreadType, HistoryType
  <2>3. Position' /\ Requests' /\ Belief'
    BY <1>1, <2>1 DEF IInv, Position, Requests, Belief, TracingOn, EnablePending
  <2>4. Buffer'
    BY <1>3, <2>1 DEF IInv, Buffer, vmx!topa_full, vmx!vmx_pt_get_data_size
  <2>5. OwnUnits' /\ OtherUnits'
    BY <1>1, <2>1 DEF IInv, OwnUnits, OtherUnits, TracingOn, EnablePending,
       DisablePending, Has, Count
  <2>6. QED  BY <2>2, <2>3, <2>4, <2>5 DEF IInv, Types
<1>4. QED  BY <1>2, <1>3

-----------------------------------------------------------------------------
(* The end of an execution *)

(* A request changes only the two fields that hold it. *)
OnlyRequest(new, k) ==
  /\ new \in vmx!VcpuVmxPt
  /\ new.state_change_pending = TRUE
  /\ new.configured = k.configured /\ new.topa = k.topa
  /\ new.multi_cr3_enabled = k.multi_cr3_enabled
  /\ new.cr3_match = k.cr3_match /\ new.cr3_filter = k.cr3_filter
  /\ new.ranges = k.ranges /\ new.addr_en = k.addr_en
  /\ new.guest_ctl = k.guest_ctl

(* ENABLE and DISABLE leave a request, and nothing else. *)
LEMMA NewRequest ==
  ASSUME NEW k \in vmx!VcpuVmxPt, NEW b \in BOOLEAN
  PROVE  /\ OnlyRequest([k EXCEPT !.state_change_pending = TRUE, !.state = b], k)
         /\ [k EXCEPT !.state_change_pending = TRUE, !.state = b].state = b
<1>1. [k EXCEPT !.state_change_pending = TRUE, !.state = b] \in vmx!VcpuVmxPt
  BY DEF vmx!VcpuVmxPt
<1>2. QED  BY <1>1 DEF vmx!VcpuVmxPt, OnlyRequest

(* An execution ends with the trace dumped and tracing about to end, or with *)
(* a request that is left alone.                                             *)
LEMMA EndStep ==
  ASSUME IInv, EndExecution, gpc # "agent",
         vpc \in {"entry", "handle", "tail"}, vpc' \in {"loop", "tail", "entry"},
         timeout_reload_pending' \in BOOLEAN
  PROVE  IInv'
<1>1. /\ made' = made /\ stale' = stale /\ in_fuzzing_loop' = FALSE /\ gpc' = "snap"
      /\ exit' = exit /\ no_decoding' = no_decoding /\ pt_c3_filter' = pt_c3_filter
      /\ pt_ip_filter_enabled' = pt_ip_filter_enabled /\ range' = range
      /\ unstarted' = (EnablePending \/ (unstarted /\ ~in_fuzzing_loop))
      /\ unstarted' \in BOOLEAN
  BY DEF EndExecution, EnablePending
<1>2. pt \in vmx!VcpuVmxPt /\ pt.topa \in Seq(Kinds) /\ Len(pt.topa) \in Nat
  BY DEF IInv, Types, KernelType, vmx!VcpuVmxPt
<1>3. ~vmx!topa_full(pt)
  BY DEF IInv, Buffer
<1>4. ThreadType'
  BY <1>1 DEF IInv, Types, ThreadType
<1>5. CASE pt.configured /\ ~pt.state_change_pending
  <2>1. /\ pt' = [pt EXCEPT !.state_change_pending = TRUE, !.state = FALSE]
        /\ IF Len(pt.topa) > 0
           THEN pt_dump(pt.topa) /\ pt_enabled' = FALSE
           ELSE decoder' = decoder /\ pt_enabled' = pt_enabled
    BY <1>5 DEF EndExecution, pt_disable, vmx!DISABLE, vmx!Returns, vmx!vmx_pt_get_data_size
  <2>2. OnlyRequest(pt', pt) /\ pt'.state = FALSE
    BY <1>2, <2>1, NewRequest
  <2>3. /\ bitmap' \in [Kinds -> Nat]
        /\ decoder_page_fault' \in BOOLEAN /\ skipped' \in BOOLEAN
        /\ skipped => skipped'
        /\ ~skipped' => bitmap'["own"] = bitmap["own"] + Count(pt.topa)["own"]
        /\ bitmap'["other"] > 0 => bitmap["other"] > 0 \/ Has("other")
    <3>1. CASE Len(pt.topa) > 0
      BY <2>1, <3>1, Dumped DEF IInv
    <3>2. CASE Len(pt.topa) = 0
      <4>1. bitmap' = bitmap /\ skipped' = skipped /\ decoder_page_fault' = decoder_page_fault
        BY <2>1, <3>2 DEF decoder
      <4>2. pt.topa = << >>  BY <1>2, <3>2
      <4>3. bitmap["own"] \in Nat  BY DEF IInv, Types, HistoryType, Kinds
      <4>4. QED  BY <4>1, <4>2, <4>3, NoUnits DEF IInv, Types, HistoryType
    <3>3. QED  BY <1>2, <3>1, <3>2
  <2>4. KernelType' /\ FiltersAgree'
    BY <1>1, <2>2 DEF OnlyRequest, IInv, Types, KernelType, FiltersAgree
  <2>5. pt_enabled' \in BOOLEAN
    BY <2>1 DEF IInv, Types, FilterType
  <2>6. FilterType'
    BY <1>1, <2>5 DEF IInv, Types, FilterType
  <2>7. HistoryType'
    BY <1>1, <2>3 DEF IInv, Types, HistoryType
  <2>8. Position' /\ Requests' /\ Belief'
    BY <1>1, <1>5, <2>2
    DEF OnlyRequest, IInv, Position, Requests, Belief, TracingOn, EnablePending
  <2>9. Buffer'
    BY <1>3, <1>5, <2>2 DEF OnlyRequest, Buffer, vmx!topa_full, vmx!vmx_pt_get_data_size
  <2>10. OwnUnits'
    BY <1>1, <1>5, <2>2, <2>3
    DEF OnlyRequest, IInv, OwnUnits, DisablePending, HistoryType, Types, Kinds
  <2>11. OtherUnits'
    BY <1>1, <1>5, <2>2, <2>3
    DEF OnlyRequest, IInv, OtherUnits, DisablePending, EnablePending, TracingOn
  <2>12. QED  BY <1>4, <2>4, <2>6, <2>7, <2>8, <2>9, <2>10, <2>11 DEF IInv, Types
<1>6. CASE ~(pt.configured /\ ~pt.state_change_pending)
  <2>1. pt' = pt /\ bitmap' = bitmap /\ skipped' = skipped /\ pt_enabled' = pt_enabled
        /\ decoder_page_fault' = decoder_page_fault
    BY <1>6 DEF EndExecution, pt_disable, vmx!DISABLE, vmx!Returns, vmx!EINVAL, decoder
  <2>2. KernelType' /\ FilterType' /\ FiltersAgree' /\ HistoryType'
    BY <1>1, <2>1
    DEF IInv, Types, KernelType, FilterType, FiltersAgree, ThreadType, HistoryType
  <2>3. Position' /\ Requests' /\ Belief'
    BY <1>1, <2>1 DEF IInv, Position, Requests, Belief, TracingOn, EnablePending
  <2>4. Buffer'
    BY <1>3, <2>1 DEF IInv, Buffer, vmx!topa_full, vmx!vmx_pt_get_data_size
  <2>5. ~DisablePending => pt.topa = << >> /\ ~Has("own") /\ ~Has("other")
    BY <1>6, NoUnits DEF IInv, Types, KernelType, vmx!VcpuVmxPt, DisablePending, Has, Buffer,
       Requests
  <2>6. OwnUnits'
    BY <1>1, <2>1, <2>5 DEF IInv, OwnUnits, DisablePending, Has, Count
  <2>7. OtherUnits'
    BY <1>1, <1>6, <2>1, <2>5 DEF IInv, OtherUnits, TracingOn, EnablePending, DisablePending, Has
  <2>8. QED  BY <1>4, <2>2, <2>3, <2>4, <2>6, <2>7 DEF IInv, Types
<1>7. QED  BY <1>5, <1>6

-----------------------------------------------------------------------------
(* The guest is entered and left *)

(* A VM entry that carries a request out switches tracing and nothing else;   *)
(* switching it off empties the buffer.                                       *)
Switched(new, k) ==
  /\ new \in vmx!VcpuVmxPt
  /\ new.configured = k.state /\ new.guest_ctl.trace = k.state
  /\ new.state_change_pending = FALSE
  /\ new.topa = IF k.state THEN k.topa ELSE << >>
  /\ new.multi_cr3_enabled = k.multi_cr3_enabled
  /\ new.cr3_match = k.cr3_match /\ new.cr3_filter = k.cr3_filter
  /\ new.ranges = k.ranges /\ new.addr_en = k.addr_en

(* The switch at a VM entry has the effects of Switched. *)
LEMMA Switching ==
  ASSUME NEW k \in vmx!VcpuVmxPt, k.state_change_pending, k.configured = ~k.state
  PROVE  Switched(vmx!vmx_pt_vmentry(k), k)
<1> DEFINE ctl == [trace |-> k.state, cr3 |-> k.cr3_filter, addr |-> k.addr_en]
           a == [k EXCEPT !.configured = k.state]
           b == [a EXCEPT !.guest_ctl = ctl]
           c == [b EXCEPT !.topa = IF k.state THEN k.topa ELSE << >>]
           d == [c EXCEPT !.state_change_pending = FALSE]
<1>1. k.state \in BOOLEAN /\ k.topa \in Seq(Kinds) /\ << >> \in Seq(Kinds)
  BY DEF vmx!VcpuVmxPt
<1>2. ctl \in vmx!Control /\ ctl.trace = k.state
  BY <1>1 DEF vmx!Control, vmx!VcpuVmxPt
<1>3. a \in vmx!VcpuVmxPt  BY <1>1 DEF vmx!VcpuVmxPt
<1>4. vmx!vmx_pt_vmentry(k) = d
  <2>1. CASE k.state
    <3>1. vmx!vmx_pt_vmentry(k) = [b EXCEPT !.state_change_pending = FALSE]
      BY <2>1 DEF vmx!vmx_pt_vmentry, vmx!vmx_pt_enable, vmx!vmx_pt_setup_vmx_autoload_msr,
         vmx!VcpuVmxPt
    <3>2. c = b  BY <2>1, <1>1, <1>3 DEF vmx!VcpuVmxPt
    <3>3. QED  BY <3>1, <3>2
  <2>2. CASE ~k.state
    BY <2>2 DEF vmx!vmx_pt_vmentry, vmx!vmx_pt_disable, vmx!vmx_pt_setup_vmx_autoload_msr,
       vmx!topa_reset, vmx!VcpuVmxPt
  <2>3. QED  BY <2>1, <2>2
<1> HIDE DEF ctl
<1>5. b \in vmx!VcpuVmxPt  BY <1>2, <1>3 DEF vmx!VcpuVmxPt
<1>6. c \in vmx!VcpuVmxPt  BY <1>1, <1>5 DEF vmx!VcpuVmxPt
<1>7. d \in vmx!VcpuVmxPt  BY <1>6 DEF vmx!VcpuVmxPt
<1>8. QED  BY <1>1, <1>2, <1>4, <1>7 DEF Switched, vmx!VcpuVmxPt

(* What was dumped when the execution ended is dropped by the VM entry that  *)
(* ends tracing.                                                             *)
LEMMA EntryStep == IInv /\ VmEntry => IInv'
<1> SUFFICES ASSUME IInv, VmEntry PROVE IInv'  OBVIOUS
<1>1. /\ made' = made /\ bitmap' = bitmap /\ skipped' = skipped
      /\ unstarted' = unstarted /\ stale' = stale /\ in_fuzzing_loop' = in_fuzzing_loop
      /\ gpc' = gpc /\ exit' = exit /\ timeout_reload_pending' = timeout_reload_pending
      /\ no_decoding' = no_decoding /\ decoder_page_fault' = decoder_page_fault
      /\ pt_enabled' = pt_enabled /\ pt_c3_filter' = pt_c3_filter
      /\ pt_ip_filter_enabled' = pt_ip_filter_enabled /\ range' = range
      /\ vpc' = "guest" /\ pt' = vmx!vmx_pt_vmentry(pt)
  BY DEF VmEntry, qemu, decoder, loop, past
<1>2. pt \in vmx!VcpuVmxPt /\ pt.topa \in Seq(Kinds)
  BY DEF IInv, Types, KernelType, vmx!VcpuVmxPt
<1>3. ~vmx!topa_full(pt)  BY DEF VmEntry
<1>4. FilterType' /\ ThreadType' /\ HistoryType'
  BY <1>1 DEF IInv, Types, FilterType, ThreadType, HistoryType
<1>5. CASE pt.state_change_pending
  <2>1. Switched(pt', pt)  BY <1>1, <1>2, <1>5, Switching DEF IInv, Requests
  <2>2. KernelType' /\ FiltersAgree'
    BY <1>1, <1>2, <2>1, NoUnits, PtAssumption DEF Switched, IInv, Types, KernelType, FiltersAgree
  <2>3. pt'.configured = pt.state /\ pt.configured = ~pt.state
        /\ pt'.state_change_pending = FALSE /\ pt.state \in BOOLEAN
    BY <1>2, <1>5, <2>1 DEF Switched, IInv, Requests, vmx!VcpuVmxPt
  <2>4. Position' /\ Requests' /\ Belief'
    BY <1>1, <1>5, <2>1, <2>3
    DEF Switched, IInv, Position, Requests, Belief, TracingOn, EnablePending
  <2>5. Buffer'
    BY <1>2, <1>3, <2>1, NoUnits, PtAssumption
    DEF Switched, Buffer, vmx!topa_full, vmx!vmx_pt_get_data_size
  <2>6. ~pt.state => Count(pt'.topa)["own"] = 0 /\ ~Has("own")' /\ ~Has("other")'
    BY <2>1, NoUnits DEF Switched, Has
  <2>7. pt.state => pt'.topa = pt.topa  BY <2>1 DEF Switched
  <2>8. OwnUnits'
    BY <1>1, <1>5, <2>3, <2>6, <2>7 DEF IInv, OwnUnits, DisablePending, Has
  <2>9. OtherUnits'
    BY <1>1, <1>5, <2>3, <2>6, <2>7
    DEF IInv, OtherUnits, DisablePending, EnablePending, TracingOn, Has
  <2>10. QED  BY <1>4, <2>2, <2>4, <2>5, <2>8, <2>9 DEF IInv, Types
<1>6. CASE ~pt.state_change_pending
  <2>1. pt' = pt  BY <1>1, <1>6 DEF vmx!vmx_pt_vmentry
  <2>2. KernelType' /\ FiltersAgree' /\ Position' /\ Requests' /\ Belief'
    BY <1>1, <1>6, <2>1
    DEF IInv, Types, KernelType, FiltersAgree, Position, Requests, Belief, TracingOn, EnablePending
  <2>3. Buffer'
    BY <1>3, <2>1 DEF IInv, Buffer, vmx!topa_full, vmx!vmx_pt_get_data_size
  <2>4. OwnUnits' /\ OtherUnits'
    BY <1>1, <2>1 DEF IInv, OwnUnits, OtherUnits, TracingOn, EnablePending,
       DisablePending, Has, Count
  <2>5. QED  BY <1>4, <2>2, <2>3, <2>4 DEF IInv, Types
<1>7. QED  BY <1>5, <1>6

(* What the guest wrote is appended, and is its execution's own exactly inside *)
(* the fuzzing loop.                                                           *)
LEMMA ExitStep == IInv /\ VmExit => IInv'
<1> SUFFICES ASSUME IInv, VmExit PROVE IInv'  OBVIOUS
<1> DEFINE kind == IF in_fuzzing_loop THEN "own" ELSE "other"
<1>1. /\ bitmap' = bitmap /\ skipped' = skipped
      /\ unstarted' = unstarted /\ stale' = stale /\ in_fuzzing_loop' = in_fuzzing_loop
      /\ gpc' = gpc /\ no_decoding' = no_decoding /\ decoder_page_fault' = decoder_page_fault
      /\ pt_enabled' = pt_enabled /\ pt_c3_filter' = pt_c3_filter
      /\ pt_ip_filter_enabled' = pt_ip_filter_enabled /\ range' = range
      /\ vpc = "guest" /\ vpc' \in {"kvm", "post"}
      /\ vpc' = "post" => exit' \in {"eintr", "other"} \union Hypercalls(gpc)
      /\ vpc' = "kvm" => exit' = exit
      /\ timeout_reload_pending' \in {timeout_reload_pending, TimerMayExpire}
  BY DEF VmExit, qemu, decoder, loop, past
<1>2. pt \in vmx!VcpuVmxPt /\ pt.topa \in Seq(Kinds) /\ Len(pt.topa) \in Nat /\ kind \in Kinds
  BY DEF IInv, Types, KernelType, vmx!VcpuVmxPt, Kinds
<1>3. ~vmx!topa_full(pt) /\ ~pt.state_change_pending /\ pt.guest_ctl.trace = pt.configured
  BY <1>1 DEF IInv, Buffer, Requests
<1>4. made \in [Kinds -> 0 .. MaxUnits] /\ made[kind] \in 0 .. MaxUnits
  BY <1>2 DEF IInv, Types, HistoryType
<1>5. PICK w \in vmx!Written(pt, kind, MaxUnits - made[kind]) :
             /\ pt' = vmx!vmx_pt_vmexit(pt, w)
             /\ made' = [made EXCEPT ![kind] = @ + Len(w)]
  BY DEF VmExit
<1>6. PICK n \in 0 .. (MaxUnits - made[kind]) :
             /\ w = [i \in 1 .. n |-> kind]
             /\ n > 0 => pt.guest_ctl.trace /\ n <= Fallback + (Main - Len(pt.topa))
  BY <1>3, <1>5 DEF vmx!Written
<1> HIDE DEF kind
<1>7. n \in Nat /\ w \in Seq(Kinds) /\ Len(w) = n
  BY <1>2, <1>4, <1>6, MaxUnitsAssumption
<1>8. made' \in [Kinds -> 0 .. MaxUnits] /\ made'[kind] = made[kind] + n
      /\ \A t \in Kinds \ {kind} : made'[t] = made[t]
  <2>1. made[kind] + n \in 0 .. MaxUnits  BY <1>4, <1>6, <1>7, MaxUnitsAssumption
  <2>2. QED  BY <1>2, <1>4, <1>5, <1>7, <2>1
<1>9. FilterType' /\ HistoryType'
  BY <1>1, <1>8 DEF IInv, Types, FilterType, HistoryType
<1>10. ThreadType'
  BY <1>1 DEF IInv, Types, ThreadType, Hypercalls, TimerMayExpire, Exits
<1>11. /\ pt' \in vmx!VcpuVmxPt /\ OnlyTopa(pt', pt)
       /\ pt'.topa = (IF pt.configured THEN pt.topa \o w ELSE pt.topa)
  <2>1. CASE pt.configured
    <3>1. pt' = [pt EXCEPT !.topa = pt.topa \o w]  BY <1>5, <2>1 DEF vmx!vmx_pt_vmexit
    <3>2. pt.topa \o w \in Seq(Kinds)  BY <1>2, <1>7
    <3>3. OnlyTopa(pt', pt) /\ pt'.topa = pt.topa \o w  BY <1>2, <3>1, <3>2, NewTopa
    <3>4. QED  BY <2>1, <3>3 DEF OnlyTopa
  <2>2. CASE ~pt.configured
    BY <1>2, <1>5, <2>2 DEF vmx!vmx_pt_vmexit, OnlyTopa
  <2>3. QED  BY <2>1, <2>2
<1>12. /\ Len(pt'.topa) <= Main + Fallback /\ Len(pt'.topa) \in Nat
       /\ ~pt.configured => n = 0
       /\ \A i \in 1 .. Len(pt'.topa) :
            \/ i \in 1 .. Len(pt.topa) /\ pt'.topa[i] = pt.topa[i]
            \/ pt'.topa[i] = kind /\ pt.configured
  <2>1. CASE pt.configured /\ n > 0
    BY <1>2, <1>3, <1>6, <1>7, <1>11, <2>1, PtAssumption DEF IInv, Types, KernelType
  <2>2. CASE pt.configured /\ n = 0
    <3>1. w = << >>  BY <1>7, <2>2
    <3>2. pt'.topa = pt.topa  BY <1>2, <1>11, <2>2, <3>1
    <3>3. QED  BY <1>2, <2>2, <3>2 DEF IInv, Types, KernelType
  <2>3. CASE ~pt.configured
    <3>1. n = 0  BY <1>3, <1>6, <1>7, <2>3
    <3>2. pt'.topa = pt.topa  BY <1>11, <2>3
    <3>3. Len(pt.topa) <= Main + Fallback  BY DEF IInv, Types, KernelType
    <3>4. QED  BY <1>2, <2>3, <3>1, <3>2, <3>3
  <2>4. QED  BY <1>7, <2>1, <2>2, <2>3
<1>13. KernelType' /\ FiltersAgree'
  BY <1>1, <1>11, <1>12 DEF OnlyTopa, IInv, Types, KernelType, FiltersAgree
<1>14. Position'
  BY <1>1, <1>11 DEF OnlyTopa, IInv, Position, TimerMayExpire
<1>15. Requests' /\ Belief'
  BY <1>1, <1>3, <1>11 DEF OnlyTopa, IInv, Requests, Belief, TracingOn, EnablePending
<1>16. Buffer'
  BY <1>1, <1>3, <1>11 DEF OnlyTopa, IInv, Buffer
<1>17. Count(pt'.topa)["own"] = Count(pt.topa)["own"] + (IF kind = "own" THEN n ELSE 0)
       /\ Count(pt.topa)["own"] \in Nat
  <2>0. "own" \in Kinds  BY DEF Kinds
  <2>1. Count(pt.topa)["own"] \in Nat  BY <1>2, <2>0, Counting
  <2>2. CASE pt.configured
    <3>1. Count(pt.topa \o [i \in 1 .. n |-> kind])["own"]
            = Count(pt.topa)["own"] + (IF "own" = kind THEN n ELSE 0)
      BY <1>2, <1>7, <2>0, Appending
    <3>2. Count(pt'.topa)["own"] = Count(pt.topa \o [i \in 1 .. n |-> kind])["own"]
      BY <1>6, <1>11, <2>2, Zenon
    <3>3. QED  BY <2>1, <3>1, <3>2
  <2>3. CASE ~pt.configured
    BY <1>11, <1>12, <2>1, <2>3
  <2>4. QED  BY <2>1, <2>2, <2>3
<1>18. OwnUnits'
  <2>1. ~DisablePending /\ ~DisablePending'
    BY <1>3, <1>11 DEF DisablePending, OnlyTopa
  <2>2. bitmap["own"] \in Nat /\ made["own"] \in Nat
        /\ made'["own"] = made["own"] + (IF kind = "own" THEN n ELSE 0)
    BY <1>2, <1>7, <1>8, MaxUnitsAssumption DEF Kinds, IInv, Types, HistoryType
  <2>3. ~in_fuzzing_loop => ~Has("own")'
    BY <1>12, <2>1 DEF kind, Has, IInv, OwnUnits
  <2>4. gpc = "agent" => kind # "own"  BY DEF kind, IInv, Position
  <2>5. QED
    BY <1>1, <1>7, <1>17, <2>1, <2>2, <2>3, <2>4 DEF IInv, OwnUnits
<1>19. OtherUnits'
  <2>1. ~DisablePending /\ ~DisablePending' /\ ~EnablePending /\ ~EnablePending'
        /\ TracingOn' = TracingOn
    BY <1>3, <1>11 DEF DisablePending, EnablePending, TracingOn, OnlyTopa
  <2>2. Has("other")' => Has("other") \/ (~in_fuzzing_loop /\ TracingOn)
    BY <1>3, <1>12 DEF kind, Has, TracingOn
  <2>3. QED  BY <1>1, <2>1, <2>2 DEF IInv, OtherUnits
<1>20. QED
  BY <1>9, <1>10, <1>13, <1>14, <1>15, <1>16, <1>18, <1>19 DEF IInv, Types

-----------------------------------------------------------------------------
(* Filters *)

(* pt_set_cr3 reaches the kernel only when QEMU believes tracing to be off,   *)
(* which it then is: both ioctls succeed.                                     *)
LEMMA Cr3Step == IInv /\ handle_hypercall_kafl_cr3 => IInv'
<1> SUFFICES ASSUME IInv, handle_hypercall_kafl_cr3 PROVE IInv'  OBVIOUS
<1>1. /\ made' = made /\ bitmap' = bitmap /\ skipped' = skipped
      /\ unstarted' = unstarted /\ stale' = stale /\ in_fuzzing_loop' = in_fuzzing_loop
      /\ gpc' = gpc /\ exit' = exit /\ timeout_reload_pending' = timeout_reload_pending
      /\ no_decoding' = no_decoding /\ decoder_page_fault' = decoder_page_fault
      /\ pt_enabled' = pt_enabled
      /\ pt_ip_filter_enabled' = pt_ip_filter_enabled /\ range' = range
      /\ vpc = "cr3" \/ (vpc = "handle" /\ exit = "cr3")
      /\ vpc' = IF vpc = "cr3" THEN "acquire" ELSE "tail"
  BY DEF handle_hypercall_kafl_cr3, decoder, loop, past
<1>2. pt \in vmx!VcpuVmxPt /\ ~pt.state_change_pending /\ ~vmx!topa_full(pt)
      /\ ~pt.multi_cr3_enabled
  BY <1>1 DEF IInv, Types, KernelType, Requests, Buffer
<1>3. PICK c \in CR3s : pt_set_cr3(c)  BY DEF handle_hypercall_kafl_cr3
<1>4. /\ pt' \in vmx!VcpuVmxPt
      /\ pt'.configured = pt.configured /\ pt'.topa = pt.topa /\ pt'.guest_ctl = pt.guest_ctl
      /\ pt'.state_change_pending = pt.state_change_pending /\ pt'.state = pt.state
      /\ pt'.multi_cr3_enabled = pt.multi_cr3_enabled
      /\ pt'.ranges = pt.ranges /\ pt'.addr_en = pt.addr_en
      /\ pt_c3_filter' \in CR3s \union {0}
      /\ pt'.cr3_match = pt_c3_filter' /\ pt'.cr3_filter = (pt_c3_filter' # 0)
  <2>1. CASE c = pt_c3_filter \/ pt_enabled
    BY <1>2, <1>3, <2>1 DEF pt_set_cr3, IInv, FiltersAgree, Types, FilterType
  <2>2. CASE ~(c = pt_c3_filter \/ pt_enabled)
    <3>1. ~pt.configured /\ pt_c3_filter' = c /\ c # 0
      BY <1>2, <1>3, <2>2, PtAssumption DEF pt_set_cr3, IInv, Belief, TracingOn
    <3> DEFINE a == [pt EXCEPT !.cr3_match = c]
               b == [a EXCEPT !.cr3_filter = TRUE]
    <3>2. a \in vmx!VcpuVmxPt  BY <1>2 DEF vmx!VcpuVmxPt
    <3>3. a.cr3_match = c /\ a.configured = pt.configured
          /\ a.multi_cr3_enabled = pt.multi_cr3_enabled
      BY <1>2 DEF vmx!VcpuVmxPt
    <3>4. vmx!CONFIGURE_CR3(pt, c).pt = a
      BY <3>1 DEF vmx!CONFIGURE_CR3, vmx!Guarded, vmx!Returns
    <3> HIDE DEF a
    <3>5. vmx!ENABLE_CR3(a).pt = b
      BY <1>2, <3>1, <3>3 DEF vmx!ENABLE_CR3, vmx!Guarded, vmx!Returns
    <3>6. pt' = b  BY <1>3, <2>2, <3>4, <3>5 DEF pt_set_cr3
    <3>7. b \in vmx!VcpuVmxPt  BY <3>2 DEF vmx!VcpuVmxPt
    <3>8. QED  BY <1>2, <3>1, <3>6, <3>7 DEF a, vmx!VcpuVmxPt
  <2>3. QED  BY <2>1, <2>2
<1>5. KernelType' /\ FiltersAgree' /\ FilterType'
  BY <1>1, <1>4 DEF IInv, Types, KernelType, FiltersAgree, FilterType
<1>6. ThreadType' /\ HistoryType'
  BY <1>1 DEF IInv, Types, ThreadType, HistoryType
<1>7. Position' /\ Requests' /\ Belief'
  BY <1>1, <1>2, <1>4 DEF IInv, Position, Requests, Belief, TracingOn, EnablePending
<1>8. Buffer'
  BY <1>2, <1>4 DEF IInv, Buffer, vmx!topa_full, vmx!vmx_pt_get_data_size
<1>9. OwnUnits' /\ OtherUnits'
  BY <1>1, <1>4 DEF IInv, OwnUnits, OtherUnits, TracingOn, EnablePending,
     DisablePending, Has, Count
<1>10. QED  BY <1>5, <1>6, <1>7, <1>8, <1>9 DEF IInv, Types

(* At the snapshot the ranges are configured while tracing is off, so the     *)
(* kernel refuses only those that are empty or one too many.                  *)
LEMMA SnapshotStep == IInv /\ NextPayloadSnapshot => IInv'
<1> SUFFICES ASSUME IInv, NextPayloadSnapshot PROVE IInv'  OBVIOUS
<1>1. /\ made' = made /\ bitmap' = [t \in Kinds |-> 0] /\ skipped' = skipped
      /\ unstarted' = unstarted /\ stale' = stale /\ in_fuzzing_loop' = in_fuzzing_loop
      /\ gpc = "agent" /\ gpc' = "snap" /\ exit' = exit
      /\ timeout_reload_pending' = timeout_reload_pending
      /\ no_decoding' = no_decoding /\ decoder_page_fault' = decoder_page_fault
      /\ pt_enabled' = pt_enabled /\ pt_c3_filter' = pt_c3_filter /\ range' = range
      /\ vpc = "handle" /\ vpc' = "tail"
  BY DEF NextPayloadSnapshot, past
<1>2. /\ pt \in vmx!VcpuVmxPt /\ ~vmx!topa_full(pt) /\ pt.topa = << >>
      /\ ~pt.state_change_pending /\ ~pt.configured
      /\ ~pt_enabled /\ ~in_fuzzing_loop /\ pt_ip_filter_enabled = {} /\ pt.ranges = {}
  BY <1>1 DEF IInv, Types, KernelType, Position, Buffer
<1>3. range \in [Addrs -> {"none", "valid", "empty", "inverted"}]
      /\ Addrs \subseteq 0 .. 3 /\ supported_addrn \in 0 .. 4
  BY PtAssumption DEF IInv, Types, FilterType
<1> DEFINE asked == {n \in Addrs : range[n] \in {"valid", "empty"}}
           taken == {n \in asked : range[n] = "valid" /\ supported_addrn > n}
           conf  == [pt EXCEPT !.ranges = @ \union taken]
           last  == [conf EXCEPT !.addr_en = @ \union taken]
<1>4. conf \in vmx!VcpuVmxPt /\ conf.configured = pt.configured /\ conf.ranges = taken
  <2>1. conf \in vmx!VcpuVmxPt  BY <1>2 DEF vmx!VcpuVmxPt
  <2>2. QED  BY <1>2, <2>1 DEF vmx!VcpuVmxPt
<1>5. {n \in asked : vmx!CONFIGURE_ADDR(pt, n, range[n] = "valid").r = 0} = taken
  BY <1>2 DEF vmx!CONFIGURE_ADDR, vmx!Guarded, vmx!Returns, vmx!EINVAL
<1>6. {n \in asked : vmx!ENABLE_ADDR(conf, n).r = 0} = taken
  <2> HIDE DEF conf
  <2>1. QED  BY <1>2, <1>4 DEF vmx!ENABLE_ADDR, vmx!Guarded, vmx!Returns, vmx!EINVAL
<1>7. pt' = last /\ pt_ip_filter_enabled' = asked
  <2> DEFINE taken0 == {n \in asked : vmx!CONFIGURE_ADDR(pt, n, range[n] = "valid").r = 0}
             conf0  == [pt EXCEPT !.ranges = @ \union taken0]
             on0    == {n \in asked : vmx!ENABLE_ADDR(conf0, n).r = 0}
  <2>1. /\ pt' = [conf0 EXCEPT !.addr_en = @ \union on0]
        /\ pt_ip_filter_enabled' = asked
    BY <1>2 DEF NextPayloadSnapshot, pt_enable_ip_filtering
  <2>2. taken0 = taken  BY <1>5
  <2> HIDE DEF taken0, taken
  <2>3. conf0 = conf  BY <2>2
  <2> HIDE DEF conf0, conf
  <2>4. on0 = taken  BY <1>6, <2>3
  <2>5. QED  BY <2>1, <2>3, <2>4
<1>8. taken \subseteq Addrs  OBVIOUS
<1>9. pt.addr_en = {}  BY <1>2 DEF IInv, FiltersAgree
<1>10. last \in vmx!VcpuVmxPt
  <2> HIDE DEF conf, taken
  <2>1. QED  BY <1>4, <1>8 DEF vmx!VcpuVmxPt
<1>11. /\ pt' \in vmx!VcpuVmxPt
       /\ pt'.configured = pt.configured /\ pt'.topa = pt.topa /\ pt'.guest_ctl = pt.guest_ctl
       /\ pt'.state_change_pending = pt.state_change_pending /\ pt'.state = pt.state
       /\ pt'.multi_cr3_enabled = pt.multi_cr3_enabled
       /\ pt'.cr3_match = pt.cr3_match /\ pt'.cr3_filter = pt.cr3_filter
       /\ pt'.addr_en = taken
  <2> HIDE DEF taken
  <2>1. QED  BY <1>2, <1>4, <1>7, <1>9, <1>10 DEF vmx!VcpuVmxPt
<1>12. KernelType' /\ FilterType'
  BY <1>1, <1>7, <1>11 DEF IInv, Types, KernelType, FilterType
<1>13. FiltersAgree'
  BY <1>1, <1>7, <1>11 DEF IInv, FiltersAgree
<1>14. ThreadType' /\ HistoryType'
  <2>1. bitmap' \in [Kinds -> Nat]  BY <1>1
  <2>2. QED  BY <1>1, <2>1 DEF IInv, Types, ThreadType, HistoryType
<1>15. Position' /\ Requests' /\ Belief'
  BY <1>1, <1>2, <1>11 DEF IInv, Position, Requests, Belief, TracingOn, EnablePending
<1>16. Buffer'
  BY <1>2, <1>11 DEF IInv, Buffer, vmx!topa_full, vmx!vmx_pt_get_data_size
<1>17. OwnUnits' /\ OtherUnits'
  BY <1>1, <1>2, <1>11, NoUnits DEF IInv, OwnUnits, OtherUnits, TracingOn, EnablePending,
     DisablePending, Has, Kinds
<1>18. QED  BY <1>12, <1>13, <1>14, <1>15, <1>16, <1>17 DEF IInv, Types

-----------------------------------------------------------------------------
(* A new execution *)

(* The guest has just run, so no request is pending: ENABLE is ignored only   *)
(* if tracing is on.                                                          *)
LEMMA AcquireStep == IInv /\ handle_hypercall_kafl_acquire => IInv'
<1> SUFFICES ASSUME IInv, handle_hypercall_kafl_acquire PROVE IInv'  OBVIOUS
<1>1. /\ made' = [t \in Kinds |-> 0] /\ bitmap' = [t \in Kinds |-> 0] /\ skipped' = FALSE
      /\ unstarted' = unstarted /\ stale' = unstarted /\ in_fuzzing_loop' = TRUE
      /\ gpc' = "test" /\ exit' = exit /\ timeout_reload_pending' = timeout_reload_pending
      /\ no_decoding' = no_decoding /\ decoder_page_fault' = decoder_page_fault
      /\ pt_c3_filter' = pt_c3_filter
      /\ pt_ip_filter_enabled' = pt_ip_filter_enabled /\ range' = range
      /\ vpc = "acquire" \/ (vpc = "handle" /\ exit = "acquire")
      /\ vpc' = "tail"
  BY DEF handle_hypercall_kafl_acquire, pt_enable
<1>2. pt \in vmx!VcpuVmxPt /\ ~pt.state_change_pending /\ ~vmx!topa_full(pt)
      /\ pt.topa \in Seq(Kinds) /\ Len(pt.topa) \in Nat
  BY <1>1 DEF IInv, Types, KernelType, Requests, Buffer, vmx!VcpuVmxPt
<1>3. gpc = "pre" /\ ~in_fuzzing_loop
  BY <1>1 DEF IInv, Position, Types, ThreadType, Hypercalls
<1> DEFINE asked == IF pt.configured THEN pt
                    ELSE [pt EXCEPT !.state_change_pending = TRUE, !.state = TRUE]
           left  == [i \in DOMAIN asked.topa |-> "other"]
<1>4. /\ pt' = [asked EXCEPT !.topa = left]
      /\ pt_enabled' = TRUE
  BY <1>1, <1>2 DEF handle_hypercall_kafl_acquire, pt_enable, vmx!CHECK_TOPA_OVERFLOW,
     vmx!ENABLE, vmx!Returns
<1>5. /\ asked \in vmx!VcpuVmxPt /\ asked.topa = pt.topa /\ asked.configured = pt.configured
      /\ asked.multi_cr3_enabled = pt.multi_cr3_enabled
      /\ asked.cr3_match = pt.cr3_match /\ asked.cr3_filter = pt.cr3_filter
      /\ asked.ranges = pt.ranges /\ asked.addr_en = pt.addr_en
      /\ asked.guest_ctl = pt.guest_ctl
      /\ pt.configured => asked.state_change_pending = FALSE
      /\ ~pt.configured => asked.state_change_pending = TRUE /\ asked.state = TRUE
  <2>1. CASE pt.configured
    BY <1>2, <2>1 DEF vmx!VcpuVmxPt
  <2>2. CASE ~pt.configured
    <3>1. OnlyRequest(asked, pt) /\ asked.state = TRUE  BY <1>2, <2>2, NewRequest
    <3>2. QED  BY <2>2, <3>1 DEF OnlyRequest
  <2>3. QED  BY <2>1, <2>2
<1> HIDE DEF asked
<1>6. /\ left \in Seq(Kinds) /\ Len(left) = Len(pt.topa)
      /\ \A i \in 1 .. Len(left) : left[i] = "other"
      /\ pt.topa = << >> => left = << >>
  BY <1>2, <1>5, Relabelling
<1> HIDE DEF left
<1>7. OnlyTopa(pt', asked) /\ pt'.topa = left
  BY <1>4, <1>5, <1>6, NewTopa
<1>8. KernelType' /\ FilterType' /\ FiltersAgree'
  BY <1>1, <1>2, <1>4, <1>5, <1>6, <1>7
  DEF OnlyTopa, IInv, Types, KernelType, FilterType, FiltersAgree
<1>9. ThreadType' /\ HistoryType'
  <2>1. bitmap' \in [Kinds -> Nat] /\ made' \in [Kinds -> 0 .. MaxUnits]
    BY <1>1, MaxUnitsAssumption
  <2>2. QED  BY <1>1, <2>1 DEF IInv, Types, ThreadType, HistoryType
<1>10. Position' /\ Requests'
  <2>1. pt.configured \in BOOLEAN  BY <1>2 DEF vmx!VcpuVmxPt
  <2>2. QED  BY <1>1, <1>5, <1>7, <2>1 DEF OnlyTopa, IInv, Position, Requests
<1>11. Belief'
  BY <1>1, <1>4, <1>5, <1>7 DEF OnlyTopa, Belief, TracingOn, EnablePending
<1>12. Buffer'
  BY <1>2, <1>5, <1>6, <1>7 DEF OnlyTopa, IInv, Buffer, vmx!topa_full, vmx!vmx_pt_get_data_size
<1>13. Count(left)["own"] = 0
  BY <1>6, Counting DEF Kinds
<1>14. OwnUnits'
  <2>1. bitmap'["own"] = 0 /\ made'["own"] = 0  BY <1>1 DEF Kinds
  <2>2. QED  BY <1>1, <1>7, <1>13, <2>1 DEF OwnUnits
<1>15. OtherUnits'
  <2>1. bitmap'["other"] = 0  BY <1>1 DEF Kinds
  <2>2. Has("other")' => unstarted
    <3>1. Has("other")' => pt.configured
      BY <1>6, <1>7, NoUnits DEF Has, IInv, Buffer
    <3>2. QED  BY <1>2, <1>3, <3>1 DEF IInv, OtherUnits, TracingOn
  <2>3. QED  BY <1>1, <2>1, <2>2 DEF OtherUnits
<1>16. QED
  BY <1>8, <1>9, <1>10, <1>11, <1>12, <1>14, <1>15 DEF IInv, Types

-----------------------------------------------------------------------------
(* The theorems *)

(* Every step keeps the invariant. *)
LEMMA NextInv == IInv /\ [Next]_vars => IInv'
<1> SUFFICES ASSUME IInv, [Next]_vars PROVE IInv'  OBVIOUS
<1>1. CASE kvm_cpu_exec
  <2>1. CASE timeout_reload_pending
    <3>1. gpc # "agent"  BY <2>1 DEF IInv, Position
    <3>2. QED  BY <1>1, <2>1, <3>1, EndStep DEF kvm_cpu_exec
  <2>2. CASE ~timeout_reload_pending
    BY <1>1, <2>2, LoopStep DEF kvm_cpu_exec
  <2>3. QED  BY <2>1, <2>2
<1>2. CASE EndOfExecution
  <2>1. gpc # "agent"
    BY <1>2 DEF EndOfExecution, IInv, Position, Types, ThreadType, Hypercalls
  <2>2. timeout_reload_pending' \in BOOLEAN
    BY <1>2 DEF EndOfExecution, IInv, Types, ThreadType
  <2>3. QED  BY <1>2, <2>1, <2>2, EndStep DEF EndOfExecution
<1>3. CASE LoopTail
  <2>1. CASE gpc # "agent" /\ EndExecution
    <3>1. timeout_reload_pending' \in BOOLEAN
      BY <1>3 DEF LoopTail, IInv, Types, ThreadType
    <3>2. QED  BY <1>3, <2>1, <3>1, EndStep DEF LoopTail
  <2>2. CASE UNCHANGED <<kernel, exit, qemu, no_decoding, decoder, loop, made, past>>
    <3>1. timeout_reload_pending' = timeout_reload_pending
          /\ timeout_reload_pending' \in BOOLEAN
      BY <1>3 DEF LoopTail, IInv, Types, ThreadType
    <3>2. QED  BY <1>3, <2>2, <3>1, LoopStep DEF LoopTail
  <2>3. QED  BY <1>3, <2>1, <2>2 DEF LoopTail
<1>4. CASE UNCHANGED vars
  <2>1. KernelType' /\ FilterType' /\ FiltersAgree' /\ ThreadType' /\ HistoryType'
    BY <1>4 DEF vars, kernel, qemu, decoder, loop, past,
       IInv, Types, KernelType, FilterType, FiltersAgree, ThreadType, HistoryType
  <2>2. Position' /\ Requests' /\ Belief'
    BY <1>4 DEF vars, kernel, qemu, decoder, loop, past,
       IInv, Position, Requests, Belief, TracingOn, EnablePending
  <2>3. Buffer' /\ OwnUnits' /\ OtherUnits'
    BY <1>4 DEF vars, kernel, qemu, decoder, loop, past,
       IInv, Buffer, vmx!topa_full, vmx!vmx_pt_get_data_size,
       OwnUnits, OtherUnits, TracingOn, EnablePending, DisablePending, Has, Count
  <2>4. QED  BY <2>1, <2>2, <2>3 DEF IInv, Types
<1>5. QED
  BY <1>1, <1>2, <1>3, <1>4, QuietStep, RangeStep, OverflowStep, EntryStep, ExitStep,
     Cr3Step, SnapshotStep, AcquireStep DEF Next

(* The invariant holds in every reachable state. *)
LEMMA Invariance == Spec => []IInv
BY InitInv, NextInv, PTL DEF Spec

(* Every variable keeps its type, and the kernel's buffer its bounds. *)
THEOREM TypeCorrect == Spec => []TypeOK
<1>1. running \in BOOLEAN  BY DEF running
<1>2. IInv => TypeOK
  BY <1>1 DEF IInv, Types, KernelType, ThreadType, FilterType, HistoryType, TypeOK, vmx!TypeOK
<1>3. QED  BY <1>2, Invariance, PTL

(* Inside the fuzzing loop the guest never runs untraced, and it is never      *)
(* traced while pt_enabled says it is not: ENABLE is ignored by the kernel     *)
(* only when tracing is on already, since a request that is pending when an    *)
(* execution ends is carried out before the next one can begin.                *)
THEOREM Traced == Spec => []LoopIsTraced
<1>1. IInv => LoopIsTraced
  BY DEF IInv, LoopIsTraced, running, Requests, Belief, TracingOn, EnablePending
<1>2. QED  BY <1>1, Invariance, PTL

(* QEMU's idea of the CR3 and IP filters is the kernel's, although it ignores  *)
(* what the filter ioctls return: pt_enabled keeps it from asking while the    *)
(* kernel would refuse.                                                        *)
THEOREM Filters == Spec => []FiltersAgree
<1>1. IInv => FiltersAgree  BY DEF IInv
<1>2. QED  BY <1>1, Invariance, PTL

(* Every unit the guest wrote inside the loop is in the bitmap exactly once    *)
(* when the execution is over (unless the decoder skipped data), however often *)
(* the buffer overflowed, and nothing else is in it unless an execution ended  *)
(* with its ENABLE still pending.                                              *)
THEOREM ExactBitmap == Spec => []BitmapIsExact
<1>1. IInv => BitmapIsExact
  <2> SUFFICES ASSUME IInv PROVE BitmapIsExact  OBVIOUS
  <2>1. pt.topa \in Seq(Kinds) /\ "own" \in Kinds /\ bitmap["own"] \in Nat
    BY DEF IInv, Types, KernelType, HistoryType, vmx!VcpuVmxPt, Kinds
  <2>2. ~in_fuzzing_loop /\ ~DisablePending => Count(pt.topa)["own"] = 0
    BY <2>1, Counting DEF IInv, OwnUnits, Has
  <2>3. QED  BY <2>1, <2>2 DEF BitmapIsExact, IInv, OwnUnits, OtherUnits
<1>2. QED  BY <1>1, Invariance, PTL
=============================================================================
