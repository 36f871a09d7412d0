---------------------------- MODULE MCFastReload ----------------------------
(* FastReload for TLC, with memory of the display and a disk of two chunks. *)
EXTENDS FastReload

TwoChunks == 0 .. 3

(* Bound: the guest and its devices write all of memory, or they use the disk  *)
(* and one page.  A restore treats memory and disk apart.                      *)
Memory == [pages |-> Pages, payload |-> {0, 1}, sizes |-> {1, 2, 3}, disk |-> FALSE]
Files  == [pages |-> {0}, payload |-> {}, sizes |-> {}, disk |-> TRUE]
MCWorkloads == {Memory, Files}

(* Swapping the two values of one page everywhere turns a behaviour into a     *)
(* behaviour, so one content of the snapshot stands for all of them.           *)
BlankSnapshot == phase \notin {"off", "boot"} => shadow = Blank
=============================================================================
