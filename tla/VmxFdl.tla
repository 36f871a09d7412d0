------------------------------- MODULE VmxFdl -------------------------------
(***************************************************************************)
(* The fast dirty-page log of KVM-PT (vmx_fdl.c) and the places in KVM     *)
(* that feed it (kvm_main.c).  KVM keeps one dirty bitmap per memory slot; *)
(* the log lists the pages whose bit went from clear to set, so that QEMU  *)
(* finds the few dirty pages without scanning the bitmap.                  *)
(*                                                                         *)
(* The state is a record: buf tells whether the log has been allocated,    *)
(* log is the set of pages among its first `index' entries, logging is the *)
(* set of pages whose slot has a dirty bitmap, dirty is the set of pages   *)
(* whose bit is set there.                                                 *)
(***************************************************************************)
EXTENDS Naturals

VmxFdlState(Pages) ==
  [buf : BOOLEAN, buf_size : Nat, index : Nat, log : SUBSET Pages,
   logging : SUBSET Pages, dirty : SUBSET Pages]

(* The display's slot is logged from the start: its refresh needs the bitmap. *)
vmx_fdl_setup(vram) ==
  [buf |-> FALSE, buf_size |-> 0, index |-> 0, log |-> {},
   logging |-> vram, dirty |-> {}]

(* KVM_VMX_FDL_SET: allocated once, never resized. *)
vmx_fdl_realloc_memory(k, size) ==
  IF k.buf THEN k
  ELSE [k EXCEPT !.buf = TRUE, !.buf_size = size, !.index = 0, !.log = {}]

KVM_VMX_FDL_FLUSH(k) == [k EXCEPT !.index = 0, !.log = {}]

(* KVM_VMX_FDL_GET_INDEX hands out the index and flushes; QEMU then reads the *)
(* entries from the memory it shares with the kernel.                         *)
KVM_VMX_FDL_GET_INDEX(k) == KVM_VMX_FDL_FLUSH(k)

HasRoom(k) == k.buf /\ k.index < k.buf_size

vmx_fdl_set_addr(k, p) ==
  IF HasRoom(k) THEN [k EXCEPT !.index = @ + 1, !.log = @ \union {p}] ELSE k

vmx_fdl_set_addr_kvm_Always(k, p) ==
  IF p \in k.logging THEN vmx_fdl_set_addr(k, p) ELSE k

vmx_fdl_set_addr_kvm(k, p) ==
  IF p \in k.logging /\ p \notin k.dirty THEN vmx_fdl_set_addr(k, p) ELSE k

mark_page_dirty_in_slot(k, p) ==
  IF p \in k.logging THEN [k EXCEPT !.dirty = @ \union {p}] ELSE k

mark_page_dirty_BitFirst(k, p) ==
  vmx_fdl_set_addr_kvm(mark_page_dirty_in_slot(k, p), p)

(* Also kvm_vcpu_mark_page_dirty and the kvm_write_guest functions. *)
mark_page_dirty(k, p) == mark_page_dirty_in_slot(vmx_fdl_set_addr_kvm(k, p), p)

(* The slots of S are reported to QEMU and their bits cleared. *)
kvm_get_dirty_log_protect(k, S) == [k EXCEPT !.dirty = @ \ S]
=============================================================================
