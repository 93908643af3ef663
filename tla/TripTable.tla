------------------------------ MODULE TripTable ------------------------------
(***************************************************************************)
(* The two PostgreSQL tables the trip life cycle is kept in, trips and      *)
(* drivers, with one operator per SQL statement or transaction that writes  *)
(* them.  Each operator is the whole statement: its WHERE clause is the     *)
(* guard, its SET clause the primed variables.  Postgres runs each one      *)
(* atomically (a row lock, or BEGIN .. COMMIT), so each is one step.        *)
(*                                                                          *)
(* Timestamps, addresses, fares and reasons are columns no property tells   *)
(* apart, and are left out.                                                 *)
(***************************************************************************)
EXTENDS Integers

CONSTANTS
  Trip,          \* trips.id of the orders that may be created
  Driver,        \* drivers.id; their profiles are complete, so they may go online
  None,          \* SQL NULL: driver_id or cancelled_by not set
  ScoreAtStart   \* drivers.cancellation_score before the run, in tenths

VARIABLES
  status,        \* trips.status, "absent" before the row is inserted
  driverOf,      \* trips.driver_id
  cancelledBy,   \* trips.cancelled_by
  totalTrips,    \* drivers.total_trips
  cancelScore,   \* drivers.cancellation_score, DECIMAL(4,3) moving in tenths
  dbStatus       \* drivers.status; no statement of the program writes 'on_trip'

tripVars   == <<status, driverOf, cancelledBy>>
driverVars == <<totalTrips, cancelScore, dbStatus>>
tableVars  == <<status, driverOf, cancelledBy, totalTrips, cancelScore, dbStatus>>

ScoreCap == 10

\* Once accepted a trip walks through these in order.
Riding     == {"accepted", "en_route", "arrived", "ongoing"}
Terminal   == {"completed", "cancelled"}
TripStatus == {"searching"} \cup Riding \cup Terminal
Canceller  == {"passenger", "driver", "system"}

ASSUME TableAssumption ==
  /\ None \notin Trip \cup Driver \cup Canceller \cup TripStatus
  /\ ScoreAtStart \in 0 .. ScoreCap

TableTypeOK ==
  /\ status \in [Trip -> TripStatus \cup {"absent"}]
  /\ driverOf \in [Trip -> Driver \cup {None}]
  /\ cancelledBy \in [Trip -> Canceller \cup {None}]
  /\ totalTrips \in [Driver -> Nat]
  /\ cancelScore \in [Driver -> 0 .. ScoreCap]
  /\ dbStatus \in [Driver -> {"online", "offline"}]

TableInit ==
  /\ status = [t \in Trip |-> "absent"]
  /\ driverOf = [t \in Trip |-> None]
  /\ cancelledBy = [t \in Trip |-> None]
  /\ totalTrips = [d \in Driver |-> 0]
  /\ cancelScore = [d \in Driver |-> ScoreAtStart]
  /\ dbStatus = [d \in Driver |-> "offline"]

-----------------------------------------------------------------------------
(* Statements of order.Repository *)

\* INSERT INTO trips ... status defaults to 'searching'.
CreateTrip(t) ==
  /\ status[t] = "absent"
  /\ status' = [status EXCEPT ![t] = "searching"]
  /\ UNCHANGED <<driverOf, cancelledBy, driverVars>>

\* Faulty: without AND status = 'searching'.
AssignDriverAnyStatus(t, d) ==
  /\ status' = [status EXCEPT ![t] = "accepted"]
  /\ driverOf' = [driverOf EXCEPT ![t] = d]
  /\ UNCHANGED <<cancelledBy, driverVars>>

\* UPDATE ... WHERE status = 'searching'.  No row matching is not an error: the
\* caller cannot tell it from success.
AssignDriver(t, d) ==
  \/ /\ status[t] = "searching"
     /\ status' = [status EXCEPT ![t] = "accepted"]
     /\ driverOf' = [driverOf EXCEPT ![t] = d]
     /\ UNCHANGED <<cancelledBy, driverVars>>
  \/ /\ status[t] # "searching"
     /\ UNCHANGED tableVars

\* UPDATE ... WHERE status NOT IN ('completed', 'cancelled'); again no row
\* matching looks like success.
CancelTrip(t, by) ==
  \/ /\ status[t] \notin Terminal
     /\ status' = [status EXCEPT ![t] = "cancelled"]
     /\ cancelledBy' = [cancelledBy EXCEPT ![t] = by]
     /\ UNCHANGED <<driverOf, driverVars>>
  \/ /\ status[t] \in Terminal
     /\ UNCHANGED tableVars

-----------------------------------------------------------------------------
(* Statements of order.TripStateRepo.  When no row matches they return an    *)
(* error and change nothing, so a refused request is not a step.             *)

TransitionTrip(t, d, from, to) ==
  /\ driverOf[t] = d
  /\ status[t] = from
  /\ status' = [status EXCEPT ![t] = to]
  /\ UNCHANGED <<driverOf, cancelledBy, driverVars>>

\* Faulty: a repeated request is not told from the first.
CompleteTripAgain(t, d) ==
  /\ driverOf[t] = d
  /\ status[t] \in {"ongoing", "completed"}
  /\ status' = [status EXCEPT ![t] = "completed"]
  /\ totalTrips' = [totalTrips EXCEPT ![d] = @ + 1]
  /\ dbStatus' = [dbStatus EXCEPT ![d] = "online"]
  /\ UNCHANGED <<driverOf, cancelledBy, cancelScore>>

CompleteTrip(t, d) ==
  /\ driverOf[t] = d
  /\ status[t] = "ongoing"
  /\ status' = [status EXCEPT ![t] = "completed"]
  /\ totalTrips' = [totalTrips EXCEPT ![d] = @ + 1]
  /\ dbStatus' = [dbStatus EXCEPT ![d] = "online"]
  /\ UNCHANGED <<driverOf, cancelledBy, cancelScore>>

\* Faulty: without the LEAST.
PenalisedUncapped(score) == score + 1

\* LEAST(score + 0.1, 1.0), in tenths.
Penalised(score) == IF score < ScoreCap THEN score + 1 ELSE ScoreCap

CancelTripByDriver(t, d) ==
  /\ driverOf[t] = d
  /\ status[t] \notin Terminal
  /\ status' = [status EXCEPT ![t] = "cancelled"]
  /\ cancelledBy' = [cancelledBy EXCEPT ![t] = "driver"]
  /\ cancelScore' = [cancelScore EXCEPT ![d] = Penalised(@)]
  /\ dbStatus' = [dbStatus EXCEPT ![d] = "online"]
  /\ UNCHANGED <<driverOf, totalTrips>>

-----------------------------------------------------------------------------
(* Statement of driver.Repository *)

UpdateStatus(d, s) ==
  /\ dbStatus' = [dbStatus EXCEPT ![d] = s]
  /\ UNCHANGED <<tripVars, totalTrips, cancelScore>>

=============================================================================
