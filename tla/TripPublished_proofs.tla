------------------------- MODULE TripPublished_proofs -------------------------
(***************************************************************************)
(* The retained status message tells what has happened: PublishedHasHappened *)
(* for any sets of trips and drivers and any bounds, from the invariant and *)
(* the refinement proved in TripDispatch_proofs.                            *)
(***************************************************************************)
EXTENDS TripDispatch_proofs

USE DEF Canceller, Riding, Terminal, TripStatus, ScoreCap
USE DEF tripVars, driverVars, tableVars, redisVars, dispatchVars, requestVars, cancelVars, faultVars

-----------------------------------------------------------------------------
(* What a step can change *)

\* Failures are counted and never forgotten.
LEMMA FaultsGrow == TypeOK /\ [Next]_vars => faults' >= faults /\ faults \in Nat
<1> SUFFICES ASSUME TypeOK, [Next]_vars PROVE faults' >= faults /\ faults \in Nat
  OBVIOUS
<1>1. faults \in Nat
  BY DispatchAssumption DEF TypeOK
<1>2. ASSUME NEW t \in Trip, TripNext(t) PROVE faults' = faults \/ faults' = faults + 1
  BY <1>2 DEF Fault, TripNext, Dispatch, DispatchFails, CreateOrder, CreateOrderFails, Search,
     CheckAlive, NextRound, SendOffer, NotAccepted, Accepted, Assign, AssignFails, MarkOnTrip,
     MarkOnTripFails, NotifyAccepted, GiveUp, GiveUpFails, NotifyCancelled, ReadForCancel, CancelOrder,
     CancelOrderFails
<1>3. ASSUME NEW d \in Driver, DriverNext(d) PROVE faults' = faults \/ faults' = faults + 1
  BY <1>3 DEF Fault, DriverNext, DriverRequest, ServeDriver, AdvanceTrip, FinishTrip, AbandonTrip, ChangeStatus,
     DriverRequestFails, ClearActive, SyncStatus, RedisWriteFails, PublishStatus, GpsPing,
     DriverStatusMessage, HashExpires
<1>4. faults' = faults \/ faults' = faults + 1
  BY <1>2, <1>3 DEF Next, vars, Crash
<1> QED BY <1>1, <1>4

\* Only onAccepted assigns a driver.
LEMMA OnlyAssigns ==
  ASSUME TypeOK, [Next]_vars, NEW t \in Trip, driverOf'[t] # driverOf[t]
  PROVE  pc[t] = "assign"
<1>1. ASSUME NEW u \in Trip, TripNext(u) PROVE Assign(u) \/ AssignFails(u)
  BY <1>1 DEF CreateTrip, CancelTrip, TripNext, Dispatch, DispatchFails, CreateOrder, CreateOrderFails, Search,
     CheckAlive, NextRound, SendOffer, NotAccepted, Accepted, Assign, AssignFails, MarkOnTrip,
     MarkOnTripFails, NotifyAccepted, GiveUp, GiveUpFails, NotifyCancelled, ReadForCancel, CancelOrder,
     CancelOrderFails
<1>2. ASSUME NEW d \in Driver PROVE ~DriverNext(d)
  BY DEF TransitionTrip, CompleteTrip, CancelTripByDriver, UpdateStatus, DriverNext, DriverRequest, ServeDriver, AdvanceTrip, FinishTrip, AbandonTrip, ChangeStatus,
     DriverRequestFails, ClearActive, SyncStatus, RedisWriteFails, PublishStatus, GpsPing,
     DriverStatusMessage, HashExpires
<1>3. PICK u \in Trip : Assign(u) \/ AssignFails(u)
  BY <1>1, <1>2 DEF Next, vars, Crash
<1> QED BY <1>3 DEF Assign, AssignFails, AssignDriver, TypeOK, TableTypeOK

\* A dispatcher that has ended does not start again, and announces a cancellation only
\* after CancelTrip.
LEMMA DispatcherMoves ==
  ASSUME TypeOK, [Next]_vars, NEW t \in Trip
  PROVE  /\ pc[t] = "off" /\ status[t] # "absent" => pc'[t] = "off"
         /\ pc[t] # "notifyCancel" /\ pc'[t] = "notifyCancel" => GiveUp(t) \/ GiveUpFails(t)
<1> SUFFICES ASSUME pc' # pc
             PROVE  /\ pc[t] = "off" /\ status[t] # "absent" => pc'[t] = "off"
                    /\ pc[t] # "notifyCancel" /\ pc'[t] = "notifyCancel" => GiveUp(t) \/ GiveUpFails(t)
  OBVIOUS
<1>1. CASE Crash
  BY <1>1 DEF Crash
<1>2. ASSUME NEW u \in Trip, TripNext(u)
      PROVE  /\ pc[t] = "off" /\ status[t] # "absent" => pc'[t] = "off"
             /\ pc[t] # "notifyCancel" /\ pc'[t] = "notifyCancel" => GiveUp(t) \/ GiveUpFails(t)
  <2> USE DEF TypeOK, Return, Goto
  <2>1. CASE CreateOrder(u)
    BY <2>1 DEF CreateOrder, CreateTrip
  <2>2. CASE GiveUp(u) \/ GiveUpFails(u)
    <3>1. pc[u] = "giveup" /\ pc' = [pc EXCEPT ![u] = "notifyCancel"]
      BY <2>2 DEF GiveUp, GiveUpFails
    <3> QED BY <3>1, <2>2
  <2>3. CASE \/ Search(u) \/ CheckAlive(u) \/ NextRound(u) \/ SendOffer(u) \/ NotAccepted(u) \/ Accepted(u)
             \/ Assign(u) \/ AssignFails(u) \/ MarkOnTrip(u) \/ MarkOnTripFails(u) \/ NotifyAccepted(u)
             \/ NotifyCancelled(u)
    <3>1. pc[u] # "off" /\ \E there \in DispatcherAt \ {"notifyCancel"} : pc' = [pc EXCEPT ![u] = there]
      BY <2>3 DEF Search, CheckAlive, NextRound, SendOffer, NotAccepted, Accepted, Assign, AssignFails,
         MarkOnTrip, MarkOnTripFails, NotifyAccepted, NotifyCancelled, DispatcherAt
    <3> QED BY <3>1
  <2> QED BY <1>2, <2>1, <2>2, <2>3 DEF TripNext, Dispatch, DispatchFails, CreateOrderFails, ReadForCancel,
         CancelOrder, CancelOrderFails
<1>3. ASSUME NEW d \in Driver PROVE ~DriverNext(d)
  BY DEF DriverNext, DriverRequest, ServeDriver, AdvanceTrip, FinishTrip, AbandonTrip,
     ChangeStatus, DriverRequestFails, ClearActive, SyncStatus, RedisWriteFails, PublishStatus,
     GpsPing, DriverStatusMessage, HashExpires
<1> QED BY <1>1, <1>2, <1>3 DEF Next, vars

\* Who publishes.
LEMMA OnlyPublishers ==
  ASSUME TypeOK, [Next]_vars, NEW t \in Trip, retained'[t] # retained[t]
  PROVE  \/ NotifyAccepted(t) /\ retained'[t] = "accepted"
         \/ NotifyCancelled(t) /\ retained'[t] = "cancelled"
         \/ \E d \in Driver : PublishStatus(d) /\ reqTrip[d] = t /\ retained'[t] = reqStatus[d]
<1>1. ASSUME NEW u \in Trip, TripNext(u) PROVE NotifyAccepted(u) \/ NotifyCancelled(u)
  BY <1>1 DEF TripNext, Dispatch, DispatchFails, CreateOrder, CreateOrderFails, Search,
     CheckAlive, NextRound, SendOffer, NotAccepted, Accepted, Assign, AssignFails, MarkOnTrip,
     MarkOnTripFails, NotifyAccepted, GiveUp, GiveUpFails, NotifyCancelled, ReadForCancel, CancelOrder,
     CancelOrderFails
<1>2. ASSUME NEW d \in Driver, DriverNext(d) PROVE PublishStatus(d)
  BY <1>2 DEF DriverNext, DriverRequest, ServeDriver, AdvanceTrip, FinishTrip, AbandonTrip, ChangeStatus,
     DriverRequestFails, ClearActive, SyncStatus, RedisWriteFails, PublishStatus, GpsPing,
     DriverStatusMessage, HashExpires
<1>3. \/ \E u \in Trip : NotifyAccepted(u) \/ NotifyCancelled(u)
      \/ \E d \in Driver : PublishStatus(d)
  BY <1>1, <1>2 DEF Next, vars, Crash
<1> QED BY <1>3 DEF NotifyAccepted, NotifyCancelled, PublishStatus, Publish, TypeOK

\* Where a request's unpublished status comes from: it was there, or the row has just got it.
LEMMA OnlyRequests ==
  ASSUME TypeOK, [Next]_vars, NEW d \in Driver, req'[d] \in {"clear", "publish"}
  PROVE  \/ req[d] \in {"clear", "publish"} /\ reqTrip'[d] = reqTrip[d] /\ reqStatus'[d] = reqStatus[d]
         \/ \E t \in Trip : /\ reqTrip'[d] = t
                            /\ AdvanceTrip(d, t) \/ FinishTrip(d, t) \/ AbandonTrip(d, t)
<1> DEFINE Goal == \/ req[d] \in {"clear", "publish"} /\ reqTrip'[d] = reqTrip[d] /\ reqStatus'[d] = reqStatus[d]
                   \/ \E t \in Trip : /\ reqTrip'[d] = t
                                      /\ AdvanceTrip(d, t) \/ FinishTrip(d, t) \/ AbandonTrip(d, t)
<1> SUFFICES ASSUME ~UNCHANGED requestVars PROVE Goal
  BY DEF Goal
<1>1. ASSUME NEW e \in Driver, DriverNext(e) PROVE Goal
  <2> USE DEF TypeOK, Pending
  <2>1. ASSUME NEW t \in Trip, AdvanceTrip(e, t) \/ FinishTrip(e, t) \/ AbandonTrip(e, t) PROVE Goal
    <3>1. \E what, s : Pending(e, what, t, s)
      BY <2>1 DEF AdvanceTrip, FinishTrip, AbandonTrip
    <3>2. CASE e = d
      BY <3>1, <3>2, <2>1
    <3>3. CASE e # d
      BY <3>1, <3>3
    <3> QED BY <3>2, <3>3
  <2>2. CASE ChangeStatus(e)
    BY <2>2 DEF ChangeStatus
  <2>3. CASE ClearActive(e)
    BY <2>3 DEF ClearActive
  <2>4. CASE SyncStatus(e) \/ PublishStatus(e)
    BY <2>4 DEF SyncStatus, PublishStatus, RequestDone
  <2>5. CASE RedisWriteFails(e)
    BY <2>5 DEF RedisWriteFails, RequestDone
  <2> QED BY <1>1, <2>1, <2>2, <2>3, <2>4, <2>5 DEF DriverNext, DriverRequest, ServeDriver,
         DriverRequestFails, GpsPing, DriverStatusMessage, HashExpires
<1>2. ASSUME NEW u \in Trip PROVE ~TripNext(u)
  BY DEF TripNext, Dispatch, DispatchFails, CreateOrder, CreateOrderFails, Search,
     CheckAlive, NextRound, SendOffer, NotAccepted, Accepted, Assign, AssignFails, MarkOnTrip,
     MarkOnTripFails, NotifyAccepted, GiveUp, GiveUpFails, NotifyCancelled, ReadForCancel, CancelOrder,
     CancelOrderFails
<1>3. ~Crash
  BY DEF Crash
<1> QED BY <1>1, <1>2, <1>3 DEF Next, vars

-----------------------------------------------------------------------------
(* What stays true of a row *)

\* A ride has a driver, what a trip has reached stays reached, and who cancelled it stays
\* known: all that follows from the life cycle alone.
LEMMA ReachedStays ==
  ASSUME TypeOK, [Lifecycle!Next]_(Lifecycle!lifecycleVars), NEW t \in Trip, RowOK(t),
         status[t] \in Riding => driverOf[t] # None
  PROVE  /\ status'[t] \in Riding => driverOf'[t] # None
         /\ \A s \in Riding \cup Terminal : HasReached(t, s) => HasReached(t, s)'
         /\ cancelledBy[t] = "passenger" => cancelledBy'[t] = "passenger"
         /\ status[t] = "searching" => status'[t] \in {"searching", "cancelled"} \/ driverOf'[t] # driverOf[t]
<1> USE TableAssumption, NextStageOf DEF TypeOK, TableTypeOK
<1>1. \/ status'[t] = status[t] /\ driverOf'[t] = driverOf[t] /\ cancelledBy'[t] = cancelledBy[t]
      \/ status[t] = "absent" /\ status'[t] = "searching" /\ driverOf'[t] = driverOf[t]
         /\ cancelledBy'[t] = cancelledBy[t]
      \/ status[t] = "searching" /\ status'[t] = "accepted" /\ driverOf'[t] \in Driver
         /\ cancelledBy'[t] = cancelledBy[t]
      \/ status[t] \in Riding /\ status'[t] = Lifecycle!NextStage[status[t]] /\ driverOf'[t] = driverOf[t]
         /\ cancelledBy'[t] = cancelledBy[t]
      \/ status[t] \in {"searching"} \cup Riding /\ status'[t] = "cancelled" /\ driverOf'[t] = driverOf[t]
  BY DEF Lifecycle!lifecycleVars, Lifecycle!Next, Lifecycle!Step, Lifecycle!Request, Lifecycle!Match,
     Lifecycle!Advance, Lifecycle!Cancel, Lifecycle!MayCancel
<1>2. /\ Lifecycle!NextStage["accepted"] = "en_route" /\ Lifecycle!NextStage["en_route"] = "arrived"
      /\ Lifecycle!NextStage["arrived"] = "ongoing" /\ Lifecycle!NextStage["ongoing"] = "completed"
  BY DEF Lifecycle!NextStage
<1>3. status'[t] \in Riding => driverOf'[t] # None
  BY <1>1, <1>2
<1>4. ASSUME NEW s \in Riding \cup Terminal, HasReached(t, s) PROVE HasReached(t, s)'
  BY <1>1, <1>2, <1>4 DEF HasReached, StageOf
<1>5. cancelledBy[t] = "passenger" => cancelledBy'[t] = "passenger"
  BY <1>1, <1>2 DEF RowOK
<1>6. status[t] = "searching" => status'[t] \in {"searching", "cancelled"} \/ driverOf'[t] # driverOf[t]
  BY <1>1 DEF RowOK
<1> QED BY <1>3, <1>4, <1>5, <1>6

-----------------------------------------------------------------------------
(* The invariant *)

LEMMA PublishedInit == Init => PublishedInv
BY TableAssumption DEF Init, TableInit, PublishedInv, PublishedHasHappened

\* What the passenger was shown stays explained, and so does the end of a search.
LEMMA ShownStays ==
  ASSUME IInv, PublishedInv, [Next]_vars, NEW t \in Trip
  PROVE  /\ status'[t] \in Riding => driverOf'[t] # None
         /\ \A s \in Riding \cup Terminal : HasReached(t, s) => HasReached(t, s)'
         /\ cancelledBy[t] = "passenger" => cancelledBy'[t] = "passenger"
         /\ faults > 0 => faults' > 0
         /\ status[t] = "searching" /\ pc[t] # "assign" => status'[t] \in {"searching", "cancelled"}
<1>1. TypeOK /\ RowOK(t) /\ (status[t] \in Riding => driverOf[t] # None)
  BY DEF IInv, PublishedInv
<1>2. faults > 0 => faults' > 0
  <2>1. faults' >= faults /\ faults \in Nat
    BY <1>1, FaultsGrow
  <2>2. TypeOK'
    BY TypeStep DEF IInv
  <2>3. faults' \in Nat
    BY <2>2, DispatchAssumption DEF TypeOK
  <2> QED BY <2>1, <2>3
<1>3. pc[t] # "assign" => driverOf'[t] = driverOf[t]
  BY <1>1, OnlyAssigns
<1> QED BY <1>1, <1>2, <1>3, ReachedStays, RefineStep

LEMMA PublishedStep == IInv /\ PublishedInv /\ [Next]_vars => PublishedInv'
<1> SUFFICES ASSUME IInv, PublishedInv, [Next]_vars PROVE PublishedInv'
  OBVIOUS
<1>1. TypeOK /\ RequestOK /\ TypeOK' /\ RequestOK'
  BY TypeStep DEF IInv
<1>2. ASSUME NEW d \in Driver, req'[d] \in {"clear", "publish"}
      PROVE  (reqStatus[d] \in Riding \cup Terminal /\ HasReached(reqTrip[d], reqStatus[d]))'
  <2>1. CASE req[d] \in {"clear", "publish"} /\ reqTrip'[d] = reqTrip[d] /\ reqStatus'[d] = reqStatus[d]
    <3>1. PICK t \in Trip, s \in Riding \cup Terminal :
            reqTrip[d] = t /\ reqStatus[d] = s /\ HasReached(t, s)
      BY <1>1, <2>1 DEF RequestOK, PublishedInv
    <3>2. HasReached(t, s)'
      BY <3>1, ShownStays
    <3> QED BY <2>1, <3>1, <3>2 DEF HasReached
  <2>2. ASSUME NEW t \in Trip, reqTrip'[d] = t, AdvanceTrip(d, t) \/ FinishTrip(d, t) \/ AbandonTrip(d, t)
        PROVE  (reqStatus[d] \in Riding \cup Terminal /\ HasReached(reqTrip[d], reqStatus[d]))'
    <3>1. CASE AdvanceTrip(d, t)
      <4>1. PICK s \in Stage : TransitionTrip(t, d, s[1], s[2]) /\ Pending(d, "publish", t, s[2])
        BY <3>1 DEF AdvanceTrip
      <4>2. reqStatus'[d] = s[2] /\ status'[t] = s[2] /\ s[2] \in {"en_route", "arrived", "ongoing"}
        BY <1>1, <4>1 DEF TransitionTrip, Pending, Stage, TypeOK, TableTypeOK
      <4> QED BY <2>2, <4>2 DEF HasReached, StageOf
    <3>2. CASE FinishTrip(d, t)
      <4>1. reqStatus'[d] = "completed" /\ status'[t] = "completed"
        BY <1>1, <3>2 DEF FinishTrip, CompleteTrip, Pending, TypeOK, TableTypeOK
      <4> QED BY <2>2, <4>1 DEF HasReached
    <3>3. CASE AbandonTrip(d, t)
      <4>1. reqStatus'[d] = "cancelled" /\ status'[t] = "cancelled"
        BY <1>1, <3>3 DEF AbandonTrip, CancelTripByDriver, Pending, TypeOK, TableTypeOK
      <4> QED BY <2>2, <4>1 DEF HasReached
    <3> QED BY <2>2, <3>1, <3>2, <3>3
  <2> QED BY <1>1, <1>2, <2>1, <2>2, OnlyRequests
<1>3. ASSUME NEW t \in Trip, pc'[t] = "notifyCancel"
      PROVE  status'[t] = "cancelled" \/ (status'[t] = "searching" /\ faults' > 0)
  <2>1. CASE pc[t] = "notifyCancel"
    <3>1. status[t] = "cancelled" => status'[t] = "cancelled"
      BY ShownStays DEF HasReached
    <3> QED BY <2>1, <3>1, ShownStays DEF PublishedInv
  <2>2. CASE GiveUp(t)
    BY <1>1, <2>2, TableAssumption DEF GiveUp, CancelTrip, IInv, DispatcherOK, RowOK, TypeOK, TableTypeOK
  <2>3. CASE GiveUpFails(t)
    <3>1. faults' > 0
      BY <1>1, <2>3, DispatchAssumption DEF GiveUpFails, Fault, TypeOK
    <3>2. status[t] \in {"searching", "cancelled"}
      BY <2>3, TableAssumption DEF GiveUpFails, IInv, DispatcherOK, RowOK
    <3>3. status'[t] \in {"searching", "cancelled"} /\ (status[t] = "cancelled" => status'[t] = "cancelled")
      BY <1>1, <2>3, <3>2 DEF GiveUpFails, CancelTrip, TypeOK, TableTypeOK
    <3> QED BY <3>1, <3>3
  <2> QED BY <1>1, <1>3, <2>1, <2>2, <2>3, DispatcherMoves
<1>4. ASSUME NEW t \in Trip, retained'[t] = retained[t]
      PROVE  /\ retained'[t] = "cancelled" /\ status'[t] = "searching" => pc'[t] = "off"
             /\ retained'[t] # None =>
                  \/ HasReached(t, retained[t])'
                  \/ retained'[t] = "accepted" /\ cancelledBy'[t] = "passenger"
                  \/ retained'[t] = "cancelled" /\ status'[t] = "searching" /\ faults' > 0
  <2>1. CASE retained[t] = None
    BY <1>4, <2>1, TableAssumption
  <2>2. CASE retained[t] # None /\ HasReached(t, retained[t])
    <3>1. PICK s \in Riding \cup Terminal : retained[t] = s /\ HasReached(t, s)
      BY <2>2 DEF PublishedInv
    <3>2. HasReached(t, s)'
      BY <3>1, ShownStays
    <3> QED BY <1>4, <3>1, <3>2 DEF HasReached
  <2>3. CASE retained[t] = "accepted" /\ cancelledBy[t] = "passenger"
    BY <1>4, <2>3, ShownStays
  <2>4. CASE retained[t] = "cancelled" /\ status[t] = "searching" /\ faults > 0
    <3>1. pc[t] = "off" /\ pc'[t] = "off"
      BY <1>1, <2>4, DispatcherMoves DEF PublishedInv
    <3>2. status'[t] \in {"searching", "cancelled"} /\ faults' > 0
      BY <2>4, <3>1, ShownStays
    <3> QED BY <1>4, <2>4, <3>1, <3>2 DEF HasReached
  <2> QED BY <2>1, <2>2, <2>3, <2>4 DEF PublishedInv, PublishedHasHappened
<1>5. ASSUME NEW t \in Trip, retained'[t] # retained[t]
      PROVE  /\ retained'[t] \in Riding \cup Terminal
             /\ retained'[t] = "cancelled" /\ status'[t] = "searching" => pc'[t] = "off"
             /\ \/ HasReached(t, retained[t])'
                \/ retained'[t] = "accepted" /\ cancelledBy'[t] = "passenger"
                \/ retained'[t] = "cancelled" /\ status'[t] = "searching" /\ faults' > 0
  <2>1. CASE NotifyAccepted(t) /\ retained'[t] = "accepted"
    <3>1. (driverOf[t] # None /\ status[t] \in Riding \cup Terminal) \/ cancelledBy[t] = "passenger"
      BY <1>1, <2>1, TableAssumption
      DEF NotifyAccepted, IInv, DispatcherOK, CancelledUnassigned, RowOK, TypeOK, TableTypeOK
    <3>2. UNCHANGED tableVars
      BY <2>1 DEF NotifyAccepted
    <3> QED BY <2>1, <3>1, <3>2 DEF HasReached, StageOf
  <2>2. CASE NotifyCancelled(t) /\ retained'[t] = "cancelled"
    <3>1. pc'[t] = "off" /\ UNCHANGED <<tableVars, faultVars>>
      BY <1>1, <2>2 DEF NotifyCancelled, Return, Goto, TypeOK
    <3>2. status[t] = "cancelled" \/ (status[t] = "searching" /\ faults > 0)
      BY <2>2 DEF NotifyCancelled, PublishedInv
    <3> QED BY <2>2, <3>1, <3>2 DEF HasReached
  <2>3. ASSUME NEW d \in Driver, PublishStatus(d), reqTrip[d] = t, retained'[t] = reqStatus[d]
        PROVE  retained'[t] \in Riding \cup Terminal /\ HasReached(t, retained[t])'
    <3>1. UNCHANGED tableVars /\ reqStatus[d] \in Riding \cup Terminal /\ HasReached(t, reqStatus[d])
      BY <2>3 DEF PublishStatus, PublishedInv
    <3> QED BY <2>3, <3>1 DEF HasReached
  <2>4. retained'[t] = "cancelled" /\ HasReached(t, retained[t])' => status'[t] = "cancelled"
    BY DEF HasReached
  <2> QED BY <1>1, <1>5, <2>1, <2>2, <2>3, <2>4, OnlyPublishers
<1> QED BY <1>2, <1>3, <1>4, <1>5, ShownStays DEF PublishedInv, PublishedHasHappened

\* The invariant of the retained messages.
THEOREM PublishedInvariance == Spec => []PublishedInv
BY PublishedInit, PublishedStep, Invariance, PTL DEF Spec

\* What the passenger's phone shows has happened (dispatch.go:169, trip_handler.go:112),
\* with the two exceptions PublishedHasHappened names, under any interleaving, failing
\* call or crash.
THEOREM PublishedSafe == Spec => []PublishedHasHappened
<1>1. PublishedInv => PublishedHasHappened
  BY DEF PublishedInv
<1> QED BY <1>1, PublishedInvariance, PTL

=============================================================================
