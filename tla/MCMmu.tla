------------------------------- MODULE MCMmu -------------------------------
(* Small instances of MmuVm. *)
EXTENDS MmuVm

S0 == [ad |-> TRUE, pml |-> FALSE, use |-> {2}, cpus |-> VCpus, ops |-> <<>>, host |-> {}, changes |-> 0,
       shrinks |-> 0, few |-> 3, many |-> 3, backing |-> "small", slot |-> "valid"]

\* Dirty logging with write protection, with PML, and without accessed and dirty bits; the same
\* while the host moves pages, on huge pages, and turned off again.
Logging == {
  [S0 EXCEPT !.ops = <<"log", "get">>],
  [S0 EXCEPT !.ops = <<"log", "get">>, !.ad = FALSE],
  [S0 EXCEPT !.ops = <<"log", "get">>, !.pml = TRUE],
  [S0 EXCEPT !.ops = <<"log", "get", "get">>, !.pml = TRUE, !.use = {2, 3}, !.cpus = {"v1"}],
  [S0 EXCEPT !.ops = <<"log", "get">>, !.host = {"move", "share"}, !.changes = 1, !.cpus = {"v1"}],
  [S0 EXCEPT !.ops = <<"log">>, !.backing = "hugetlb"],
  [S0 EXCEPT !.ops = <<"log", "unlog">>, !.backing = "thp", !.pml = TRUE],
  [S0 EXCEPT !.ops = <<"log", "get", "unlog">>, !.backing = "thp", !.use = {2, 3}, !.cpus = {"v1"}]
}

\* The host takes pages back, shares and ages them, and collapses them into a huge page.
HostChanges == {
  [S0 EXCEPT !.host = {"move", "share"}, !.changes = 2],
  [S0 EXCEPT !.host = {"share", "age"}, !.changes = 2, !.ad = FALSE],
  [S0 EXCEPT !.host = {"collapse", "move", "age"}, !.changes = 2, !.use = {2, 3}, !.cpus = {"v1"}],
  [S0 EXCEPT !.host = {"move"}, !.changes = 1, !.backing = "thp"]
}

\* Slots come and go, and shadow pages are short.
Slots == {
  [S0 EXCEPT !.ops = <<"create">>, !.slot = "absent"],
  [S0 EXCEPT !.ops = <<"delete", "create">>, !.few = 1, !.shrinks = 1, !.cpus = {"v1"}],
  [S0 EXCEPT !.ops = <<"delete">>, !.shrinks = 1, !.host = {"move"}, !.changes = 1, !.cpus = {"v1"}],
  [S0 EXCEPT !.shrinks = 1],
  [S0 EXCEPT !.many = 2, !.shrinks = 1, !.use = {2, 3}, !.cpus = {"v1"}]
}

MCScenarios == Logging \cup HostChanges \cup Slots
=============================================================================
