------------------------------ MODULE MCIrqChip ------------------------------
(***************************************************************************)
(* Two vCPUs; pin 8 is the RTC and preempts pin 1, a level pin shared by   *)
(* user space and a resampling device.                                     *)
(***************************************************************************)
EXTENDS IrqChip, TLC

MCVectorOf == (1 :> 33) @@ (8 :> 48)
MCDests == {{2}, {1, 2}}
MCWrites == {<<8, FALSE, {1, 2}>>, <<1, FALSE, {1, 2}>>, <<1, FALSE, {2}>>, <<1, TRUE, {2}>>}

\* Bound: one write less where a thread has stalled.
StalledEarly == stalled => writes < MaxWrites
=============================================================================
