-------------------------------- MODULE Waits --------------------------------
(***************************************************************************)
(* The calls that wait for something or for a time, side by side: select   *)
(* in uga_async_run (Async) and the timed calls on mutexes, conditions and *)
(* the clock (Timed).  They share no state; `waits' says which of them a   *)
(* behaviour is about, and the steps of that one are fair.                 *)
(***************************************************************************)
EXTENDS Async, Timed

VARIABLE waits

waitsVars == <<asyncVars, timedVars, waits>>

WaitsInit == InitAsync /\ InitTimed /\ waits \in {"select", "timed"}

Selecting(step) == waits = "select" /\ step /\ UNCHANGED <<timedVars, waits>>
Timing(step)    == waits = "timed"  /\ step /\ UNCHANGED <<asyncVars, waits>>

WaitsNext == Selecting(NextAsync) \/ Timing(NextTimed)

(***************************************************************************)
(* Fairness.  The thread inside uga_async_run is scheduled, select ends    *)
(* when something is ready, and callbacks return: RunStep has all of these *)
(* steps.  Time passes, and a thread that can go on with its timed call    *)
(* does.                                                                   *)
(***************************************************************************)
WaitsSpec ==
  /\ WaitsInit /\ [][WaitsNext]_waitsVars
  /\ WF_waitsVars(Selecting(RunStep))
  /\ WF_waitsVars(Timing(Tick))
  /\ \A t \in Threads : WF_waitsVars(Timing(GoesOn(t)))
=============================================================================
