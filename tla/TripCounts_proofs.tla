-------------------------- MODULE TripCounts_proofs --------------------------
(***************************************************************************)
(* What is counted, for any sets of trips and drivers and any bounds: the   *)
(* counters of a driver agree with the rows of his trips (LedgerAgrees and  *)
(* ScoreAgrees), and the steps a dispatcher has left only ever shrink       *)
(* (DispatcherWindsDown).                                                   *)
(***************************************************************************)
EXTENDS TripDispatch_proofs, FiniteSetTheorems

USE DEF Canceller, Riding, Terminal, TripStatus, ScoreCap
USE DEF tripVars, driverVars, tableVars, redisVars, dispatchVars, requestVars, cancelVars, faultVars

\* Whatever a step does besides, this is what it does to the two tables, when it is not
\* the end of a ride: no driver's counter moves and no trip is completed or dropped by him.
Uncounted ==
  \/ UNCHANGED tableVars
  \/ \E t \in Trip : CreateTrip(t)
  \/ \E t \in Trip, d \in Driver \cup {None} : AssignDriver(t, d)
  \/ \E t \in Trip, by \in {"passenger", "system"} : CancelTrip(t, by)
  \/ \E t \in Trip, d \in Driver, s \in Stage : TransitionTrip(t, d, s[1], s[2])
  \/ \E d \in Driver, s \in {"online", "offline"} : UpdateStatus(d, s)

Completing == \E t \in Trip, d \in Driver : CompleteTrip(t, d)
Dropping   == \E t \in Trip, d \in Driver : CancelTripByDriver(t, d)

\* Every step is one of the three.
LEMMA TableSteps ==
  ASSUME TypeOK, [Next]_vars PROVE Uncounted \/ Completing \/ Dropping
<1>1. ASSUME NEW t \in Trip, TripNext(t) PROVE Uncounted
  <2>1. cand[t] \in Driver \cup {None}
    BY DEF TypeOK
  <2>2. CASE CreateOrder(t) \/ CreateOrderFails(t)
    BY <2>2 DEF CreateOrder, CreateOrderFails, Uncounted
  <2>3. CASE \/ Search(t) \/ CheckAlive(t) \/ NextRound(t) \/ SendOffer(t) \/ NotAccepted(t)
             \/ Accepted(t) \/ MarkOnTrip(t) \/ MarkOnTripFails(t) \/ NotifyAccepted(t)
             \/ NotifyCancelled(t) \/ ReadForCancel(t)
    BY <2>3 DEF Search, CheckAlive, NextRound, SendOffer, NotAccepted, Accepted, MarkOnTrip,
       MarkOnTripFails, NotifyAccepted, NotifyCancelled, ReadForCancel, Uncounted
  <2>4. CASE Assign(t) \/ AssignFails(t)
    <3>1. AssignDriver(t, cand[t]) \/ UNCHANGED tableVars
      BY <2>4 DEF Assign, AssignFails
    <3> QED BY <3>1, <2>1 DEF Uncounted
  <2>5. CASE GiveUp(t) \/ GiveUpFails(t) \/ CancelOrder(t) \/ CancelOrderFails(t)
    <3>1. CancelTrip(t, "system") \/ CancelTrip(t, "passenger") \/ UNCHANGED tableVars
      BY <2>5 DEF GiveUp, GiveUpFails, CancelOrder, CancelOrderFails
    <3> QED BY <3>1 DEF Uncounted
  <2> QED BY <1>1, <2>2, <2>3, <2>4, <2>5 DEF TripNext, Dispatch, DispatchFails
<1>2. ASSUME NEW d \in Driver, DriverNext(d) PROVE Uncounted \/ Completing \/ Dropping
  <2>1. CASE \E t \in Trip : AdvanceTrip(d, t) \/ FinishTrip(d, t) \/ AbandonTrip(d, t)
    BY <2>1 DEF AdvanceTrip, FinishTrip, AbandonTrip, Uncounted, Completing, Dropping
  <2>2. CASE ChangeStatus(d)
    BY <2>2 DEF ChangeStatus, Uncounted
  <2>3. CASE DriverRequestFails(d)
    BY <2>3 DEF DriverRequestFails, Uncounted, Completing, Dropping
  <2>4. CASE \/ ClearActive(d) \/ SyncStatus(d) \/ PublishStatus(d) \/ RedisWriteFails(d)
             \/ GpsPing(d) \/ DriverStatusMessage(d) \/ HashExpires(d)
    BY <2>4 DEF ClearActive, SyncStatus, PublishStatus, RedisWriteFails, GpsPing,
       DriverStatusMessage, HashExpires, Uncounted
  <2> QED BY <1>2, <2>1, <2>2, <2>3, <2>4 DEF DriverNext, DriverRequest, ServeDriver
<1>3. CASE Crash
  BY <1>3 DEF Crash, Uncounted
<1>4. CASE UNCHANGED vars
  BY <1>4 DEF vars, Uncounted
<1> QED BY <1>1, <1>2, <1>3, <1>4 DEF Next

\* A step that ends no ride counts nothing.
LEMMA UncountedKeeps ==
  ASSUME TypeOK, Uncounted, NEW d \in Driver
  PROVE  /\ totalTrips'[d] = totalTrips[d] /\ TripsOf(d, "completed")' = TripsOf(d, "completed")
         /\ cancelScore'[d] = cancelScore[d] /\ DroppedBy(d)' = DroppedBy(d)
<1> USE TableAssumption DEF TypeOK, TableTypeOK
<1>1. UNCHANGED <<totalTrips, cancelScore>>
  BY DEF Uncounted, CreateTrip, AssignDriver, CancelTrip, TransitionTrip, UpdateStatus
<1>2. ASSUME NEW t \in Trip
      PROVE  /\ driverOf'[t] = d /\ status'[t] = "completed" <=> driverOf[t] = d /\ status[t] = "completed"
             /\ driverOf'[t] = d /\ status'[t] = "cancelled" /\ cancelledBy'[t] = "driver"
                <=> driverOf[t] = d /\ status[t] = "cancelled" /\ cancelledBy[t] = "driver"
  <2>1. CASE UNCHANGED tableVars \/ \E e \in Driver, s \in {"online", "offline"} : UpdateStatus(e, s)
    BY <2>1 DEF UpdateStatus
  <2>2. CASE \E u \in Trip : CreateTrip(u)
    BY <2>2 DEF CreateTrip
  <2>3. CASE \E u \in Trip, e \in Driver \cup {None} : AssignDriver(u, e)
    BY <2>3 DEF AssignDriver
  <2>4. CASE \E u \in Trip, by \in {"passenger", "system"} : CancelTrip(u, by)
    BY <2>4 DEF CancelTrip
  <2>5. CASE \E u \in Trip, e \in Driver, s \in Stage : TransitionTrip(u, e, s[1], s[2])
    BY <2>5 DEF TransitionTrip, Stage
  <2> QED BY <2>1, <2>2, <2>3, <2>4, <2>5 DEF Uncounted
<1> QED BY <1>1, <1>2 DEF TripsOf, DroppedBy

-----------------------------------------------------------------------------
(* total_trips *)

LedgerInv ==
  \A d \in Driver : /\ IsFiniteSet(TripsOf(d, "completed"))
                    /\ totalTrips[d] = Cardinality(TripsOf(d, "completed"))

LEMMA LedgerStep == IInv /\ LedgerInv /\ [Next]_vars => LedgerInv'
<1> SUFFICES ASSUME IInv, LedgerInv, [Next]_vars, NEW d \in Driver
             PROVE  /\ IsFiniteSet(TripsOf(d, "completed")')
                    /\ totalTrips'[d] = Cardinality(TripsOf(d, "completed")')
  BY DEF LedgerInv
<1>1. TypeOK
  BY DEF IInv
<1>2. IsFiniteSet(TripsOf(d, "completed")) /\ totalTrips[d] = Cardinality(TripsOf(d, "completed"))
  BY DEF LedgerInv
<1>3. CASE Uncounted
  BY <1>1, <1>2, <1>3, UncountedKeeps
<1>4. CASE Completing
  <2>1. PICK t \in Trip, e \in Driver : CompleteTrip(t, e)
    BY <1>4 DEF Completing
  <2>2. TripsOf(d, "completed")' = IF d = e THEN TripsOf(d, "completed") \cup {t}
                                   ELSE TripsOf(d, "completed")
    BY <1>1, <2>1 DEF CompleteTrip, TripsOf, TypeOK, TableTypeOK
  <2>3. t \notin TripsOf(d, "completed")
    BY <2>1 DEF CompleteTrip, TripsOf
  <2>4. totalTrips'[d] = IF d = e THEN totalTrips[d] + 1 ELSE totalTrips[d]
    BY <1>1, <2>1 DEF CompleteTrip, TypeOK, TableTypeOK
  <2> QED BY <1>2, <2>2, <2>3, <2>4, FS_AddElement
<1>5. CASE Dropping
  <2>1. PICK t \in Trip, e \in Driver : CancelTripByDriver(t, e)
    BY <1>5 DEF Dropping
  <2>2. TripsOf(d, "completed")' = TripsOf(d, "completed")
    BY <1>1, <2>1 DEF CancelTripByDriver, TripsOf, TypeOK, TableTypeOK
  <2> QED BY <1>2, <2>1, <2>2 DEF CancelTripByDriver
<1> QED BY <1>1, <1>3, <1>4, <1>5, TableSteps

\* drivers.total_trips (trip_repository.go:80) counts each completed trip of the driver
\* once, however requests are repeated, fail after their COMMIT, or the server crashes.
THEOREM LedgerSafe == Spec => []LedgerAgrees
<1>1. Init => LedgerInv
  <2> SUFFICES ASSUME Init, NEW d \in Driver
               PROVE  /\ IsFiniteSet(TripsOf(d, "completed"))
                      /\ totalTrips[d] = Cardinality(TripsOf(d, "completed"))
    BY DEF LedgerInv
  <2>1. TripsOf(d, "completed") = {} /\ totalTrips[d] = 0
    BY DEF Init, TableInit, TripsOf
  <2> QED BY <2>1, FS_EmptySet
<1>2. LedgerInv => LedgerAgrees
  BY DEF LedgerInv, LedgerAgrees
<1> QED BY <1>1, <1>2, LedgerStep, Invariance, PTL DEF Spec

-----------------------------------------------------------------------------
(* cancellation_score *)

Due(n) == IF ScoreAtStart + n < ScoreCap THEN ScoreAtStart + n ELSE ScoreCap

\* One more cancellation is one more tenth, up to the cap.
LEMMA DueGrows == ASSUME NEW n \in Nat PROVE Due(n + 1) = Penalised(Due(n))
BY TableAssumption DEF Due, Penalised

ScoreInv ==
  \A d \in Driver : /\ IsFiniteSet(DroppedBy(d))
                    /\ cancelScore[d] = Due(Cardinality(DroppedBy(d)))

LEMMA ScoreStep == IInv /\ ScoreInv /\ [Next]_vars => ScoreInv'
<1> SUFFICES ASSUME IInv, ScoreInv, [Next]_vars, NEW d \in Driver
             PROVE  /\ IsFiniteSet(DroppedBy(d)')
                    /\ cancelScore'[d] = Due(Cardinality(DroppedBy(d)'))
  BY DEF ScoreInv
<1>1. TypeOK
  BY DEF IInv
<1>2. IsFiniteSet(DroppedBy(d)) /\ cancelScore[d] = Due(Cardinality(DroppedBy(d)))
  BY DEF ScoreInv
<1>3. CASE Uncounted
  BY <1>1, <1>2, <1>3, UncountedKeeps
<1>4. CASE Completing
  <2>1. PICK t \in Trip, e \in Driver : CompleteTrip(t, e)
    BY <1>4 DEF Completing
  <2>2. DroppedBy(d)' = DroppedBy(d)
    BY <1>1, <2>1 DEF CompleteTrip, DroppedBy, TripsOf, TypeOK, TableTypeOK
  <2> QED BY <1>2, <2>1, <2>2 DEF CompleteTrip
<1>5. CASE Dropping
  <2>1. PICK t \in Trip, e \in Driver : CancelTripByDriver(t, e)
    BY <1>5 DEF Dropping
  <2>2. DroppedBy(d)' = IF d = e THEN DroppedBy(d) \cup {t} ELSE DroppedBy(d)
    BY <1>1, <2>1 DEF CancelTripByDriver, DroppedBy, TripsOf, TypeOK, TableTypeOK
  <2>3. t \notin DroppedBy(d)
    BY <2>1 DEF CancelTripByDriver, DroppedBy, TripsOf
  <2>4. cancelScore'[d] = IF d = e THEN Penalised(cancelScore[d]) ELSE cancelScore[d]
    BY <1>1, <2>1 DEF CancelTripByDriver, TypeOK, TableTypeOK
  <2>5. Cardinality(DroppedBy(d)) \in Nat
    BY <1>2, FS_CardinalityType
  <2> QED BY <1>2, <2>2, <2>3, <2>4, <2>5, DueGrows, FS_AddElement
<1> QED BY <1>1, <1>3, <1>4, <1>5, TableSteps

\* drivers.cancellation_score (trip_repository.go:154) is where the driver's own
\* cancellations put it, capped at 1.0; nobody else's cancellation moves it.
THEOREM ScoreSafe == Spec => []ScoreAgrees
<1>1. Init => ScoreInv
  <2> SUFFICES ASSUME Init, NEW d \in Driver
               PROVE  /\ IsFiniteSet(DroppedBy(d))
                      /\ cancelScore[d] = Due(Cardinality(DroppedBy(d)))
    BY DEF ScoreInv
  <2>1. DroppedBy(d) = {} /\ cancelScore[d] = ScoreAtStart
    BY DEF Init, TableInit, DroppedBy, TripsOf
  <2>2. Due(0) = ScoreAtStart
    BY TableAssumption DEF Due
  <2> QED BY <2>1, <2>2, FS_EmptySet
<1>2. ScoreInv => ScoreAgrees
  BY DEF ScoreInv, ScoreAgrees, Due
<1> QED BY <1>1, <1>2, ScoreStep, Invariance, PTL DEF Spec

-----------------------------------------------------------------------------
(* The dispatcher's remaining steps *)

\* A round more is RoundSteps steps more.
LEMMA RoundsAhead ==
  ASSUME NEW r \in 0 .. MaxRounds
  PROVE  /\ RoundSteps \in Nat
         /\ (MaxRounds - r) * RoundSteps \in Nat
         /\ r < MaxRounds => (MaxRounds - r) * RoundSteps = (MaxRounds - (r + 1)) * RoundSteps + RoundSteps
<1>1. RoundSteps \in Nat
  BY DispatchAssumption DEF RoundSteps
<1>2. ASSUME NEW n \in Nat, NEW m \in Nat PROVE n * m \in Nat /\ (n + 1) * m = n * m + m
  OBVIOUS
<1>3. MaxRounds - r \in Nat
  BY DispatchAssumption
<1>4. ASSUME r < MaxRounds PROVE MaxRounds - (r + 1) \in Nat /\ MaxRounds - r = (MaxRounds - (r + 1)) + 1
  BY <1>4, DispatchAssumption
<1> QED BY <1>1, <1>2, <1>3, <1>4

\* What Run keeps in its locals: finitely many drivers, no more than the GEOSEARCH may
\* return, and nobody left to check once it offers.
SearchOK(t) ==
  /\ IsFiniteSet(found[t]) /\ IsFiniteSet(cands[t])
  /\ pc[t] \in {"loop", "await"} =>
       Cardinality(found[t]) + Cardinality(cands[t]) <= MaxCandidates
  /\ pc[t] = "await" => found[t] = {}
  /\ pc[t] # "off" => round[t] >= 1

SearchInv == IsFiniteSet(geo) /\ \A t \in Trip : SearchOK(t)

\* A position adds one driver to drivers:online, everything else leaves it or takes from it.
LEMMA GeoStaysFinite == IsFiniteSet(geo) /\ [Next]_vars => IsFiniteSet(geo')
<1> SUFFICES ASSUME IsFiniteSet(geo), [Next]_vars PROVE IsFiniteSet(geo')
  OBVIOUS
<1>1. ASSUME NEW t \in Trip, TripNext(t) PROVE geo' = geo
  BY <1>1 DEF TripNext, Dispatch, DispatchFails, CreateOrder, CreateOrderFails, Search, CheckAlive,
     NextRound, SendOffer, NotAccepted, Accepted, Assign, AssignFails, MarkOnTrip, MarkOnTripFails,
     SetActive, NotifyAccepted, GiveUp, GiveUpFails, NotifyCancelled, ReadForCancel, CancelOrder,
     CancelOrderFails
<1>2. ASSUME NEW d \in Driver, DriverNext(d) PROVE geo' \in {geo, geo \cup {d}, geo \ {d}}
  BY <1>2 DEF DriverNext, DriverRequest, ServeDriver, AdvanceTrip, FinishTrip, AbandonTrip,
     ChangeStatus, DriverRequestFails, ClearActive, SetActive, SyncStatus, SetOnline, SetOffline,
     RedisWriteFails, PublishStatus, GpsPing, TrackDriver, DriverStatusMessage, HashExpires, ExpireHash
<1>3. CASE Crash \/ UNCHANGED vars
  BY <1>3 DEF Crash, vars
<1> QED BY <1>1, <1>2, <1>3, FS_AddElement, FS_RemoveElement DEF Next

Locals(t) == <<pc[t], round[t], found[t], cands[t], cand[t]>>

\* Only the dispatcher itself, its start and a crash touch what it does.
LEMMA OthersStayOut ==
  ASSUME TypeOK, [Next]_vars, NEW t \in Trip
  PROVE  \/ Locals(t)' = Locals(t)
         \/ CreateOrder(t) \/ Dispatch(t) \/ DispatchFails(t) \/ Crash
<1> USE DEF TypeOK, Locals, Return, Goto
<1>1. ASSUME NEW u \in Trip, u # t, TripNext(u) PROVE Locals(t)' = Locals(t)
  <2>1. CASE CreateOrder(u) \/ CreateOrderFails(u)
    BY <1>1, <2>1 DEF CreateOrder, CreateOrderFails
  <2>2. CASE Search(u) \/ CheckAlive(u) \/ NextRound(u) \/ SendOffer(u)
    BY <1>1, <2>2 DEF Search, CheckAlive, NextRound, SendOffer
  <2>3. CASE NotAccepted(u) \/ Accepted(u) \/ Assign(u) \/ AssignFails(u)
    BY <1>1, <2>3 DEF NotAccepted, Accepted, Assign, AssignFails
  <2>4. CASE \/ MarkOnTrip(u) \/ MarkOnTripFails(u) \/ NotifyAccepted(u)
             \/ GiveUp(u) \/ GiveUpFails(u) \/ NotifyCancelled(u)
    BY <1>1, <2>4 DEF MarkOnTrip, MarkOnTripFails, NotifyAccepted, GiveUp, GiveUpFails, NotifyCancelled
  <2>5. CASE ReadForCancel(u) \/ CancelOrder(u) \/ CancelOrderFails(u)
    BY <2>5 DEF ReadForCancel, CancelOrder, CancelOrderFails
  <2> QED BY <1>1, <2>1, <2>2, <2>3, <2>4, <2>5 DEF TripNext, Dispatch, DispatchFails
<1>2. CASE TripNext(t)
  BY <1>2 DEF TripNext, CreateOrderFails, ReadForCancel, CancelOrder, CancelOrderFails
<1>3. ASSUME NEW d \in Driver, DriverNext(d) PROVE Locals(t)' = Locals(t)
  BY <1>3 DEF DriverNext, DriverRequest, ServeDriver, AdvanceTrip, FinishTrip, AbandonTrip,
     ChangeStatus, DriverRequestFails, ClearActive, SyncStatus, RedisWriteFails, PublishStatus,
     GpsPing, DriverStatusMessage, HashExpires
<1>4. CASE UNCHANGED vars
  BY <1>4 DEF vars
<1> QED BY <1>1, <1>2, <1>3, <1>4 DEF Next

\* Each step of Run leaves less to do, and the locals in order.
LEMMA RunStep ==
  ASSUME TypeOK, SearchInv, NEW t \in Trip, Dispatch(t) \/ DispatchFails(t)
  PROVE  StepsLeft(t)' < StepsLeft(t) /\ SearchOK(t)'
<1> DEFINE Ahead == (MaxRounds - round[t]) * RoundSteps
           f == Cardinality(found[t])
           c == Cardinality(cands[t])
<1>1. /\ pc \in [Trip -> DispatcherAt] /\ round \in [Trip -> Nat] /\ round[t] \in 0 .. MaxRounds
      /\ found \in [Trip -> SUBSET Driver] /\ cands \in [Trip -> SUBSET Driver]
      /\ MaxRounds \in Nat /\ MaxCandidates \in Nat
  BY DispatchAssumption DEF TypeOK
<1>2. SearchOK(t) /\ IsFiniteSet(geo)
  BY DEF SearchInv
<1>3. f \in Nat /\ c \in Nat
  BY <1>2, FS_CardinalityType DEF SearchOK
<1>4. /\ RoundSteps = 3 * MaxCandidates + 2
      /\ Ahead \in Nat
      /\ round[t] < MaxRounds => Ahead = (MaxRounds - (round[t] + 1)) * RoundSteps + RoundSteps
  BY <1>1, RoundsAhead DEF RoundSteps
<1>5. /\ pc[t] = "search" => StepsLeft(t) = Ahead + RoundSteps + 2
      /\ pc[t] = "loop"   => StepsLeft(t) = Ahead + 3 * f + 2 * c + 3
      /\ pc[t] = "await"  => StepsLeft(t) = Ahead + 2 * c + 4
      /\ pc[t] = "assign" => StepsLeft(t) = 3
      /\ pc[t] \in {"mark", "giveup"} => StepsLeft(t) = 2
      /\ pc[t] \in {"notify", "notifyCancel"} => StepsLeft(t) = 1
  BY DEF StepsLeft
<1>6. /\ pc'[t] = "search" => StepsLeft(t)' = Ahead' + RoundSteps + 2
      /\ pc'[t] = "loop"   => StepsLeft(t)' = Ahead' + 3 * f' + 2 * c' + 3
      /\ pc'[t] = "await"  => StepsLeft(t)' = Ahead' + 2 * c' + 4
      /\ pc'[t] = "assign" => StepsLeft(t)' = 3
      /\ pc'[t] \in {"mark", "giveup"} => StepsLeft(t)' = 2
      /\ pc'[t] \in {"notify", "notifyCancel"} => StepsLeft(t)' = 1
      /\ pc'[t] = "off" => StepsLeft(t)' = 0
  BY DEF StepsLeft, RoundSteps
<1>7. CASE Search(t)
  <2>1. PICK near \in SUBSET geo : Cardinality(near) <= MaxCandidates /\ found'[t] = near
    BY <1>1, <1>7 DEF Search
  <2>2. /\ pc[t] = "search" /\ pc'[t] = "loop" /\ cands'[t] = {} /\ UNCHANGED round
    BY <1>1, <1>7 DEF Search, Goto
  <2>3. IsFiniteSet(near) /\ Cardinality(near) \in Nat
    BY <1>2, <2>1, FS_Subset, FS_CardinalityType
  <2>4. IsFiniteSet(cands'[t]) /\ c' = 0
    BY <2>2, FS_EmptySet
  <2>5. f' \in Nat /\ f' <= MaxCandidates /\ Ahead' = Ahead
    BY <2>1, <2>2, <2>3 DEF RoundSteps
  <2>6. SearchOK(t)'
    BY <1>2, <2>1, <2>2, <2>3, <2>4, <2>5 DEF SearchOK
  <2> HIDE DEF Ahead, f, c
  <2>7. StepsLeft(t) = Ahead + RoundSteps + 2 /\ StepsLeft(t)' = Ahead + 3 * f' + 3
    BY <1>4, <1>5, <1>6, <2>2, <2>4, <2>5
  <2>8. StepsLeft(t)' < StepsLeft(t)
    <3>1. ASSUME NEW a \in Nat, NEW n \in Nat, NEW m \in Nat, n <= m
          PROVE  a + 3 * n + 3 < a + (3 * m + 2) + 2
      BY <3>1
    <3> QED BY <1>1, <1>4, <2>5, <2>7, <3>1
  <2> QED BY <2>6, <2>8
<1>8. CASE CheckAlive(t)
  <2>1. PICK d \in found[t] : /\ found'[t] = found[t] \ {d}
                              /\ cands'[t] = cands[t] \/ cands'[t] = cands[t] \cup {d}
    BY <1>1, <1>8 DEF CheckAlive
  <2>2. pc[t] = "loop" /\ UNCHANGED <<pc, round>>
    BY <1>8 DEF CheckAlive
  <2>3. IsFiniteSet(found'[t]) /\ f' = f - 1 /\ f' \in Nat
    BY <1>2, <2>1, FS_RemoveElement, FS_CardinalityType DEF SearchOK
  <2>4. IsFiniteSet(cands'[t]) /\ c' \in c .. c + 1
    <3>1. IsFiniteSet(cands[t])
      BY <1>2 DEF SearchOK
    <3>2. CASE cands'[t] = cands[t]
      <4>1. c' = c
        BY <3>2
      <4> QED BY <1>3, <3>1, <3>2, <4>1
    <3>3. CASE cands'[t] = cands[t] \cup {d}
      <4>1. IsFiniteSet(cands'[t]) /\ (c' = c \/ c' = c + 1)
        BY <3>1, <3>3, FS_AddElement
      <4> QED BY <1>3, <4>1
    <3> QED BY <2>1, <3>2, <3>3
  <2>5. Ahead' = Ahead
    BY <2>2 DEF RoundSteps
  <2>6. SearchOK(t)'
    BY <1>1, <1>2, <1>3, <2>2, <2>3, <2>4 DEF SearchOK
  <2> HIDE DEF Ahead, f, c
  <2> QED BY <1>3, <1>4, <1>5, <1>6, <2>2, <2>3, <2>4, <2>5, <2>6
<1>9. CASE NextRound(t)
  <2>1. f = 0 /\ c = 0 /\ pc[t] = "loop" /\ UNCHANGED <<found, cands>>
    BY <1>9, FS_EmptySet DEF NextRound
  <2>2. \/ round[t] < MaxRounds /\ round'[t] = round[t] + 1 /\ pc'[t] = "search"
        \/ pc'[t] = "giveup" /\ round'[t] = round[t]
    BY <1>1, <1>9 DEF NextRound, Goto
  <2>3. SearchOK(t)'
    BY <1>1, <1>2, <2>1, <2>2 DEF SearchOK
  <2>4. round[t] < MaxRounds /\ round'[t] = round[t] + 1 => Ahead' + RoundSteps = Ahead
    BY <1>4 DEF RoundSteps
  <2>5. RoundSteps \in Nat /\ (round[t] < MaxRounds /\ round'[t] = round[t] + 1 => Ahead' \in Nat)
    BY <1>1, RoundsAhead DEF RoundSteps
  <2> HIDE DEF Ahead, f, c
  <2> QED BY <1>1, <1>4, <1>5, <1>6, <2>1, <2>2, <2>3, <2>4, <2>5
<1>10. CASE SendOffer(t)
  <2>1. PICK d \in cands[t] : cands'[t] = cands[t] \ {d}
    BY <1>1, <1>10 DEF SendOffer
  <2>2. /\ pc[t] = "loop" /\ pc'[t] = "await" /\ found[t] = {} /\ UNCHANGED <<round, found>>
    BY <1>1, <1>10 DEF SendOffer, Goto
  <2>3. IsFiniteSet(cands'[t]) /\ c' = c - 1 /\ c' \in Nat
    BY <1>2, <2>1, FS_RemoveElement, FS_CardinalityType DEF SearchOK
  <2>4. f = 0 /\ f' = 0 /\ Ahead' = Ahead
    BY <2>2, FS_EmptySet DEF RoundSteps
  <2>5. SearchOK(t)'
    BY <1>1, <1>2, <1>3, <2>2, <2>3, <2>4 DEF SearchOK
  <2> HIDE DEF Ahead, f, c
  <2> QED BY <1>3, <1>4, <1>5, <1>6, <2>2, <2>3, <2>4, <2>5
<1>11. CASE NotAccepted(t) \/ Accepted(t)
  <2>1. /\ pc[t] = "await" /\ pc'[t] \in {"loop", "assign"} /\ UNCHANGED <<round, found, cands>>
    BY <1>1, <1>11 DEF NotAccepted, Accepted, Goto
  <2>2. f = 0 /\ f' = f /\ c' = c /\ Ahead' = Ahead
    BY <1>2, <2>1, FS_EmptySet DEF SearchOK, RoundSteps
  <2>3. SearchOK(t)'
    BY <1>2, <2>1 DEF SearchOK
  <2> HIDE DEF Ahead, f, c
  <2> QED BY <1>3, <1>4, <1>5, <1>6, <2>1, <2>2, <2>3
<1>12. CASE Assign(t) \/ MarkOnTrip(t) \/ MarkOnTripFails(t) \/ GiveUp(t) \/ GiveUpFails(t)
  <2>1. /\ \/ pc[t] = "assign" /\ pc'[t] = "mark"
           \/ pc[t] = "mark" /\ pc'[t] = "notify"
           \/ pc[t] = "giveup" /\ pc'[t] = "notifyCancel"
        /\ UNCHANGED <<round, found, cands>>
    BY <1>1, <1>12 DEF Assign, MarkOnTrip, MarkOnTripFails, GiveUp, GiveUpFails, Goto
  <2>2. SearchOK(t)'
    BY <1>2, <2>1 DEF SearchOK
  <2> QED BY <1>5, <1>6, <2>1, <2>2
<1>13. CASE AssignFails(t) \/ NotifyAccepted(t) \/ NotifyCancelled(t)
  <2>1. /\ pc[t] \in {"assign", "notify", "notifyCancel"} /\ pc'[t] = "off"
        /\ UNCHANGED found /\ cands'[t] = {}
    BY <1>1, <1>13 DEF AssignFails, NotifyAccepted, NotifyCancelled, Return, Goto
  <2>2. SearchOK(t)'
    BY <1>2, <2>1, FS_EmptySet DEF SearchOK
  <2> QED BY <1>5, <1>6, <2>1, <2>2
<1> QED BY <1>7, <1>8, <1>9, <1>10, <1>11, <1>12, <1>13 DEF Dispatch, DispatchFails

LEMMA SearchStep == TypeOK /\ SearchInv /\ [Next]_vars => SearchInv'
<1> SUFFICES ASSUME TypeOK, SearchInv, [Next]_vars, NEW t \in Trip PROVE SearchOK(t)'
  BY GeoStaysFinite DEF SearchInv
<1>1. SearchOK(t)
  BY DEF SearchInv
<1>2. CASE Locals(t)' = Locals(t)
  BY <1>1, <1>2 DEF Locals, SearchOK
<1>3. CASE CreateOrder(t)
  <2>1. pc'[t] = "search" /\ round'[t] = 1 /\ UNCHANGED <<found, cands>>
    BY <1>3 DEF CreateOrder, Goto, TypeOK
  <2> QED BY <1>1, <2>1 DEF SearchOK
<1>4. CASE Crash
  <2>1. pc'[t] = "off" /\ found'[t] = {} /\ cands'[t] = {}
    BY <1>4 DEF Crash
  <2> QED BY <2>1, FS_EmptySet DEF SearchOK
<1> QED BY <1>2, <1>3, <1>4, RunStep, OthersStayOut

LEMMA Searching == Spec => [](IInv /\ TypeOK /\ SearchInv)
<1>1. Init => SearchInv
  <2>1. ASSUME Init, NEW t \in Trip PROVE SearchOK(t)
    BY <2>1, FS_EmptySet DEF Init, SearchOK
  <2> QED BY <2>1, FS_EmptySet DEF Init, RedisInit, SearchInv
<1>2. IInv => TypeOK
  BY DEF IInv
<1> QED BY <1>1, <1>2, SearchStep, Invariance, PTL DEF Spec

\* What is left is a number, no more than when Run started, and none only at the end.
LEMMA StepsLeftRange ==
  ASSUME TypeOK, SearchInv, NEW t \in Trip
  PROVE  /\ StepsLeft(t) \in 0 .. MaxRounds * RoundSteps + 2
         /\ pc[t] # "off" => StepsLeft(t) > 0
<1> DEFINE Ahead == (MaxRounds - round[t]) * RoundSteps
           f == Cardinality(found[t])
           c == Cardinality(cands[t])
           all == MaxRounds * RoundSteps
<1>1. /\ round[t] \in 0 .. MaxRounds /\ MaxRounds \in Nat \ {0} /\ MaxCandidates \in Nat
      /\ pc[t] \in DispatcherAt
  BY DispatchAssumption DEF TypeOK
<1>2. SearchOK(t)
  BY DEF SearchInv
<1>3. f \in Nat /\ c \in Nat
  BY <1>2, FS_CardinalityType DEF SearchOK
<1>4. Ahead \in Nat /\ all \in Nat /\ RoundSteps = 3 * MaxCandidates + 2
  <2>1. 0 \in 0 .. MaxRounds /\ MaxRounds - 0 = MaxRounds
    BY <1>1
  <2> QED BY <1>1, <2>1, RoundsAhead DEF RoundSteps
<1>5. round[t] >= 1 => Ahead + RoundSteps <= all
  <2>1. ASSUME NEW n \in Nat, NEW k \in Nat, NEW m \in Nat, n + 1 <= k PROVE n * m + m <= k * m
    <3>1. PICK e \in Nat : k = n + 1 + e
      <4>1. k - (n + 1) \in Nat /\ k = n + 1 + (k - (n + 1))
        BY <2>1
      <4> QED BY <4>1
    <3>2. k * m = n * m + m + e * m /\ e * m \in Nat
      BY <3>1
    <3> QED BY <3>2
  <2>2. ASSUME round[t] >= 1 PROVE MaxRounds - round[t] \in Nat /\ (MaxRounds - round[t]) + 1 <= MaxRounds
    BY <1>1, <2>2
  <2>3. RoundSteps \in Nat
    BY <1>1, RoundsAhead
  <2> QED BY <1>1, <2>1, <2>2, <2>3
<1>6. pc[t] # "off" => round[t] >= 1
  BY <1>2 DEF SearchOK
<1>7. pc[t] \in {"loop", "await"} => f + c <= MaxCandidates
  BY <1>2 DEF SearchOK
<1>8. StepsLeft(t) = CASE pc[t] = "search" -> Ahead + RoundSteps + 2
                       [] pc[t] = "loop"   -> Ahead + 3 * f + 2 * c + 3
                       [] pc[t] = "await"  -> Ahead + 2 * c + 4
                       [] pc[t] = "assign" -> 3
                       [] pc[t] \in {"mark", "giveup"} -> 2
                       [] pc[t] \in {"notify", "notifyCancel"} -> 1
                       [] pc[t] = "off"    -> 0
  BY DEF StepsLeft
<1> HIDE DEF Ahead, f, c, all
<1>9. StepsLeft(t) \in 0 .. all + 2 /\ (pc[t] # "off" => StepsLeft(t) > 0)
  BY <1>1, <1>3, <1>4, <1>5, <1>6, <1>7, <1>8 DEF DispatcherAt
<1> QED BY <1>9 DEF all

\* Run takes at most MaxRounds * (3 * MaxCandidates + 2) + 2 steps (dispatch.go:37): no
\* more is left when it starts, and by the next theorem each of its steps uses one up.
THEOREM RunIsBounded ==
  Spec => [](\A t \in Trip : StepsLeft(t) \in 0 .. MaxRounds * RoundSteps + 2)
<1>1. IInv /\ SearchInv => \A t \in Trip : StepsLeft(t) \in 0 .. MaxRounds * RoundSteps + 2
  BY StepsLeftRange DEF IInv
<1> QED BY <1>1, Searching, PTL

\* Run's loop (dispatch.go:37) winds down: whatever the drivers answer, whichever calls
\* fail and whoever interferes, a dispatcher under way stays where it is or comes nearer
\* to its end.
THEOREM DispatchersWindDown == Spec => DispatcherWindsDown
<1> DEFINE Winds == \A t \in Trip :
                      pc[t] # "off" => \/ StepsLeft(t)' < StepsLeft(t)
                                       \/ UNCHANGED <<pc[t], round[t], found[t], cands[t], cand[t]>>
<1>1. ASSUME IInv, TypeOK, SearchInv, [Next]_vars PROVE [Winds]_vars
  <2> SUFFICES ASSUME NEW t \in Trip, pc[t] # "off"
               PROVE  StepsLeft(t)' < StepsLeft(t) \/ Locals(t)' = Locals(t)
    BY DEF Locals
  <2>1. CASE Dispatch(t) \/ DispatchFails(t)
    BY <1>1, <2>1, RunStep
  <2>2. ~CreateOrder(t)
    BY <1>1 DEF IInv, RowOK, CreateOrder, CreateTrip
  <2>3. CASE Crash
    <3>1. StepsLeft(t)' = 0
      BY <2>3 DEF Crash, StepsLeft
    <3> QED BY <1>1, <3>1, StepsLeftRange
  <2> QED BY <1>1, <2>1, <2>2, <2>3, OthersStayOut
<1> QED BY <1>1, Searching, PTL DEF Spec, DispatcherWindsDown

=============================================================================
