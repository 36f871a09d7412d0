----------------------------- MODULE MCVcpuRun -----------------------------
(* An instance of VcpuRun.  The sources are unbounded; a scenario says which *)
(* of them a behaviour has, so that every mixture stays small.               *)
EXTENDS VcpuRun

Bsp(kinds) == [bsp |-> TRUE, kinds |-> kinds, gfns |-> Gfns]
Ap(kinds) == [bsp |-> FALSE, kinds |-> kinds, gfns |-> Gfns]

MCScenarios ==
  { Bsp({"dev", "eoi", "imr", "signal", "save"}),
    Bsp({"dev", "eoi", "poll"}),
    Bsp({"dev", "icw1", "icw2", "icw3", "icw4"}),
    Bsp({"dev", "rotate_eoi", "priority"}),
    Bsp({"fault", "msr", "exception"}),
    Bsp({"fault", "apf", "timer"}),
    Bsp({"nmi", "FIXED", "timer"}),
    Bsp({"nmi", "exception", "save"}),
    [Bsp({"nmi", "fault"}) EXCEPT !.gfns = {1}],
    Ap({"fault", "INIT", "STARTUP"}),
    Ap({"nmi", "INIT", "STARTUP"}) }

MCHash(g) == CASE g = 1 -> 3 [] g = 2 -> 3 [] g = 3 -> 0
MCHashFn == [g \in {1, 2, 3} |-> MCHash(g)]

Write(n, cmd, val) == [n |-> n, cmd |-> cmd, val |-> val]

MCPortWrites ==
  { Write(0, "eoi", 0), Write(1, "eoi", 0), Write(0, "rotate_eoi", 0), Write(1, "priority", 3),
    Write(0, "imr", {1}), Write(0, "imr", {}), Write(0, "poll", 0), Write(1, "poll", 0),
    Write(1, "icw1", 0), Write(1, "icw2", 0), Write(1, "icw3", 0), Write(1, "icw4", TRUE) }
=============================================================================
