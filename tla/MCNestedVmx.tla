---------------------------- MODULE MCNestedVmx ----------------------------
(* Mixtures of what L1, L2, the devices and user space do with one or two    *)
(* VMCSs; each varies the fields and events that a group of hazards needs.   *)
EXTENDS NestedVmx, TLC

V(pin, tsc, link) == [Blank EXCEPT !.pin = pin, !.tsc = tsc, !.link = link]
One(pin) == "A" :> V(pin, 0, FALSE)
Two == "A" :> V({"intr"}, 2, FALSE) @@ "B" :> V({}, 0, FALSE)

Base == [shadow |-> TRUE, vmwrite_any |-> FALSE, linked |-> FALSE, clears |-> TRUE,
         vmcs |-> One({"intr", "nmi"}), writes |-> {}, fails |-> {"none"},
         events |-> {}, arrivals |-> 0, user |-> {}]

AllFails == EntryFailures \union {"failed", "vmfail", "state"}

\* two VMCSs, with and without a shadow VMCS, and the TSC of L1 written
Switching ==
  {[Base EXCEPT !.vmcs = Two, !.writes = {"es"}, !.user = {"tsc"}],
   [Base EXCEPT !.vmcs = Two, !.writes = {"rip", "es"}, !.vmwrite_any = TRUE],
   [Base EXCEPT !.vmcs = Two, !.writes = {"es", "reason"}, !.vmwrite_any = TRUE,
                !.shadow = FALSE]}

\* every way in which an entry fails
Failing ==
  {[Base EXCEPT !.writes = {"entry", "reason"}, !.fails = AllFails],
   [Base EXCEPT !.writes = {"timer"}, !.fails = AllFails \ {"state"},
                !.vmcs = "A" :> V({"timer"}, 2, FALSE)]}

\* events that L1 intercepts, or not, with one it injects; the timer; SMM
Events ==
  {[Base EXCEPT !.writes = {"entry"}, !.events = {"irq", "smi"}, !.arrivals = 2],
   [Base EXCEPT !.writes = {"entry"}, !.events = {"irq", "nmi"}, !.arrivals = 2,
                !.vmcs = One({})],
   [Base EXCEPT !.writes = {"timer"}, !.events = {"irq", "nmi", "smi"}, !.arrivals = 2,
                !.vmcs = One({"timer", "save", "intr", "ack", "nmi"})],
   [Base EXCEPT !.writes = {"es"}, !.events = {"smi"}, !.arrivals = 1, !.user = {"tsc"},
                !.vmcs = "A" :> V({"intr"}, 2, TRUE)]}

\* nested state saved at any point outside SMM, and restored at any later one
Reloading ==
  {[c EXCEPT !.clears = FALSE] : c \in
    {[Base EXCEPT !.writes = {"rip"}, !.user = {"reload"}, !.vmcs = Two],
     [Base EXCEPT !.user = {"reload", "tsc"},
                  !.vmcs = "A" :> V({}, 2, FALSE)],
     [Base EXCEPT !.writes = {"entry"}, !.user = {"reload"}, !.events = {"irq"},
                  !.arrivals = 1],
     [Base EXCEPT !.writes = {"entry"}, !.user = {"reload"}, !.events = {"irq"},
                  !.arrivals = 1, !.vmcs = One({})],
     [Base EXCEPT !.writes = {"timer"}, !.user = {"reload", "get"},
                  !.vmcs = One({"timer", "save"})],
     [Base EXCEPT !.linked = TRUE, !.user = {"reload"}, !.events = {"smi"}, !.arrivals = 1,
                  !.vmcs = "A" :> V({"intr"}, 0, TRUE)]}}

MCConfs == Switching \union Failing \union Events \union Reloading
============================================================================
