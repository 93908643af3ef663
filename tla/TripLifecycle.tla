---------------------------- MODULE TripLifecycle ----------------------------
(***************************************************************************)
(* What the order service promises of a trip, whoever acts on it: it is     *)
(* requested once, matched to at most one driver for good, walks through    *)
(* the ride one stage at a time, and ends once, completed or cancelled, by  *)
(* somebody entitled to end it then.  There are no dispatchers, requests,   *)
(* caches or failures here; TripDispatch is shown to implement it.          *)
(***************************************************************************)
CONSTANTS Trip, Driver, None

VARIABLES
  phase,      \* how far the trip has come
  matched,    \* the driver it is matched to, or None
  endedBy     \* who cancelled it, or None

lifecycleVars == <<phase, matched, endedBy>>

Init ==
  /\ phase = [t \in Trip |-> "absent"]
  /\ matched = [t \in Trip |-> None]
  /\ endedBy = [t \in Trip |-> None]

Request(t) ==
  /\ phase[t] = "absent"
  /\ phase' = [phase EXCEPT ![t] = "searching"]
  /\ UNCHANGED <<matched, endedBy>>

Match(t, d) ==
  /\ phase[t] = "searching"
  /\ phase' = [phase EXCEPT ![t] = "accepted"]
  /\ matched' = [matched EXCEPT ![t] = d]
  /\ UNCHANGED endedBy

NextStage == [accepted |-> "en_route", en_route |-> "arrived",
              arrived |-> "ongoing", ongoing |-> "completed"]

Advance(t) ==
  /\ phase[t] \in DOMAIN NextStage
  /\ phase' = [phase EXCEPT ![t] = NextStage[@]]
  /\ UNCHANGED <<matched, endedBy>>

\* The system may only give up a search, a driver only a trip it was matched to;
\* the passenger may cancel any trip that has not ended.
MayCancel(t, by) ==
  \/ by = "passenger" /\ phase[t] \in {"searching"} \cup DOMAIN NextStage
  \/ by = "driver" /\ phase[t] \in DOMAIN NextStage
  \/ by = "system" /\ phase[t] = "searching"

Cancel(t, by) ==
  /\ MayCancel(t, by)
  /\ phase' = [phase EXCEPT ![t] = "cancelled"]
  /\ endedBy' = [endedBy EXCEPT ![t] = by]
  /\ UNCHANGED matched

Step(t) ==
  \/ Request(t)
  \/ \E d \in Driver : Match(t, d)
  \/ Advance(t)
  \/ \E by \in {"passenger", "driver", "system"} : Cancel(t, by)

Next == \E t \in Trip : Step(t)

Spec == Init /\ [][Next]_lifecycleVars

=============================================================================
