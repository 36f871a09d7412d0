----------------------------- MODULE TestService -----------------------------
(***************************************************************************)
(* What trait FuzzRunner promises its caller: one call at a time, answered *)
(* from an execution of the payload that was submitted with it.  A payload *)
(* may be executed more than once before the answer; only the last         *)
(* execution counts.                                                       *)
(***************************************************************************)
CONSTANT Tests

VARIABLES status,    \* "starting", "idle", "busy"
          test,      \* payload of the current or last call
          executed,  \* payload of the last execution begun
          observed,  \* what that execution did that a verdict must tell
          verdict    \* answer to the last call

svars == <<status, test, executed, observed, verdict>>

Observations == {"crash", "asan", "write"}

(* Answers an execution with these observations may get. *)
Allowed(obs) ==
  CASE "crash" \in obs -> {"Crash"}
    [] "write" \in obs -> {"InvalidWriteToPayload"}
    [] "asan" \in obs  -> {"Asan", "Timeout"}
    [] OTHER           -> {"Normal", "Timeout", "FuzzerError"}

ServiceInit ==
  /\ status = "starting" /\ test = "not_init" /\ executed = "not_init"
  /\ observed = {} /\ verdict = "none"

Ready ==
  /\ status = "starting" /\ status' = "idle"
  /\ UNCHANGED <<test, executed, observed, verdict>>

Submit ==
  /\ status = "idle" /\ status' = "busy"
  /\ test' \in Tests
  /\ UNCHANGED <<executed, observed, verdict>>

Begin ==
  /\ status = "busy"
  /\ executed' = test /\ observed' = {}
  /\ UNCHANGED <<status, test, verdict>>

(* One execution makes at most one of the observations. *)
Observe ==
  /\ status = "busy" /\ observed = {} /\ executed = test
  /\ \E o \in Observations : observed' = {o}
  /\ UNCHANGED <<status, test, executed, verdict>>

(* run_redqueen and run_cfg have no verdict. *)
Reply ==
  /\ status = "busy" /\ status' = "idle"
  /\ executed = test
  /\ verdict' \in Allowed(observed) \union {"none"}
  /\ UNCHANGED <<test, executed, observed>>

ServiceNext == Ready \/ Submit \/ Begin \/ Observe \/ Reply

ServiceSpec == ServiceInit /\ [][ServiceNext]_svars
==============================================================================
