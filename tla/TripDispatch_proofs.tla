------------------------- MODULE TripDispatch_proofs -------------------------
(***************************************************************************)
(* Theorems about TripDispatch, for any sets of trips and drivers and any   *)
(* bounds.                                                                  *)
(***************************************************************************)
EXTENDS TripDispatch, TLAPS

USE DEF Canceller, Riding, Terminal, TripStatus, ScoreCap
USE DEF tripVars, driverVars, tableVars, redisVars, dispatchVars, requestVars, cancelVars, faultVars

-----------------------------------------------------------------------------
(* Types *)

\* The penalty keeps a score in its range.
LEMMA PenaltyInRange ==
  ASSUME NEW score \in 0 .. ScoreCap PROVE Penalised(score) \in 0 .. ScoreCap
BY DEF Penalised

\* What the driver's cancellation does to the types of the tables.
LEMMA AbandonTyped ==
  ASSUME TableTypeOK, NEW t \in Trip, NEW d \in Driver, CancelTripByDriver(t, d)
  PROVE  TableTypeOK'
<1>1. cancelScore' \in [Driver -> 0 .. ScoreCap]
  BY PenaltyInRange DEF CancelTripByDriver, TableTypeOK
<1> QED BY <1>1 DEF CancelTripByDriver, TableTypeOK

\* So do the statements of the dispatcher and of the passenger's cancellation.
LEMMA AssignTyped ==
  ASSUME TableTypeOK, NEW t \in Trip, NEW d \in Driver \cup {None}, AssignDriver(t, d)
  PROVE  TableTypeOK'
BY DEF AssignDriver, TableTypeOK

LEMMA CancelTyped ==
  ASSUME TableTypeOK, NEW t \in Trip, NEW by \in Canceller, CancelTrip(t, by)
  PROVE  TableTypeOK'
BY DEF CancelTrip, TableTypeOK

\* Every step keeps the types (RequestOK is what PublishStatus needs to publish a status).
LEMMA TypeStep ==
  TypeOK /\ RequestOK /\ [Next]_vars => (TypeOK /\ RequestOK)'
<1> SUFFICES ASSUME TypeOK, RequestOK, [Next]_vars PROVE (TypeOK /\ RequestOK)'
  OBVIOUS
<1> USE TableAssumption, DispatchAssumption
        DEF TypeOK, TableTypeOK, RedisTypeOK, DispatcherAt, RequestOK
<1>1. ASSUME NEW t \in Trip, TripNext(t) PROVE (TypeOK /\ RequestOK)'
  <2>1. CASE CreateOrder(t)
    BY <2>1 DEF CreateOrder, CreateTrip, Goto
  <2>2. CASE CreateOrderFails(t)
    BY <2>2 DEF CreateOrderFails, CreateTrip, Fault
  <2>3. CASE Search(t)
    BY <2>3 DEF Search, Goto
  <2>4. CASE CheckAlive(t)
    BY <2>4 DEF CheckAlive
  <2>5. CASE NextRound(t)
    BY <2>5 DEF NextRound, Goto
  <2>6. CASE SendOffer(t)
    BY <2>6 DEF SendOffer, Goto
  <2>7. CASE NotAccepted(t)
    BY <2>7 DEF NotAccepted, Goto
  <2>8. CASE Accepted(t)
    BY <2>8 DEF Accepted, Goto
  <2>9. CASE Assign(t)
    <3>1. TableTypeOK'
      BY <2>9, AssignTyped DEF Assign
    <3> QED BY <3>1, <2>9 DEF Assign, Goto
  <2>10. CASE MarkOnTrip(t)
    BY <2>10 DEF MarkOnTrip, SetActive, Touched, Goto
  <2>11. CASE NotifyAccepted(t)
    BY <2>11 DEF NotifyAccepted, Publish, Return, Goto
  <2>12. CASE GiveUp(t)
    <3>1. TableTypeOK'
      BY <2>12, CancelTyped DEF GiveUp
    <3> QED BY <3>1, <2>12 DEF GiveUp, Goto
  <2>13. CASE NotifyCancelled(t)
    BY <2>13 DEF NotifyCancelled, Publish, Return, Goto
  <2>14. CASE AssignFails(t)
    <3>1. TableTypeOK'
      BY <2>14, AssignTyped DEF AssignFails
    <3> QED BY <3>1, <2>14 DEF AssignFails, Fault, Return, Goto
  <2>15. CASE MarkOnTripFails(t)
    BY <2>15 DEF MarkOnTripFails, Fault, Goto
  <2>16. CASE GiveUpFails(t)
    <3>1. TableTypeOK'
      BY <2>16, CancelTyped DEF GiveUpFails
    <3> QED BY <3>1, <2>16 DEF GiveUpFails, Fault, Goto
  <2>17. CASE ReadForCancel(t)
    BY <2>17 DEF ReadForCancel
  <2>18. CASE CancelOrder(t)
    <3>1. TableTypeOK'
      BY <2>18, CancelTyped DEF CancelOrder
    <3> QED BY <3>1, <2>18 DEF CancelOrder
  <2>19. CASE CancelOrderFails(t)
    <3>1. TableTypeOK'
      BY <2>19, CancelTyped DEF CancelOrderFails
    <3> QED BY <3>1, <2>19 DEF CancelOrderFails, Fault
  <2> QED BY <1>1, <2>1, <2>2, <2>3, <2>4, <2>5, <2>6, <2>7, <2>8, <2>9, <2>10, <2>11, <2>12,
         <2>13, <2>14, <2>15, <2>16, <2>17, <2>18, <2>19
         DEF TripNext, Dispatch, DispatchFails
<1>2. ASSUME NEW d \in Driver, DriverNext(d) PROVE (TypeOK /\ RequestOK)'
  <2>1. ASSUME NEW t \in Trip, AdvanceTrip(d, t) PROVE (TypeOK /\ RequestOK)'
    BY <2>1 DEF AdvanceTrip, TransitionTrip, Pending, Stage
  <2>2. ASSUME NEW t \in Trip, FinishTrip(d, t) PROVE (TypeOK /\ RequestOK)'
    BY <2>2 DEF FinishTrip, CompleteTrip, Pending
  <2>3. ASSUME NEW t \in Trip, AbandonTrip(d, t) PROVE (TypeOK /\ RequestOK)'
    <3>1. TableTypeOK'
      BY <2>3, AbandonTyped DEF AbandonTrip
    <3>2. UNCHANGED <<redisVars, retained, dispatchVars, cancelVars, faultVars>>
      BY <2>3 DEF AbandonTrip
    <3>3. Pending(d, "clear", t, "cancelled")
      BY <2>3 DEF AbandonTrip
    <3> QED BY <3>1, <3>2, <3>3 DEF Pending
  <2>4. CASE ChangeStatus(d)
    BY <2>4 DEF ChangeStatus, UpdateStatus, Pending
  <2>5. CASE ClearActive(d)
    BY <2>5 DEF ClearActive, SetActive, Touched, Pending
  <2>6. CASE SyncStatus(d)
    BY <2>6 DEF SyncStatus, SetOnline, SetOffline, Touched, RequestDone, Pending
  <2>7. CASE PublishStatus(d)
    BY <2>7 DEF PublishStatus, Publish, RequestDone, Pending
  <2>8. CASE DriverRequestFails(d)
    <3>1. ASSUME NEW t \in Trip, NEW s \in Stage, TransitionTrip(t, d, s[1], s[2]) PROVE (TypeOK /\ RequestOK)'
      BY <2>8, <3>1 DEF DriverRequestFails, TransitionTrip, Stage, Fault
    <3>2. ASSUME NEW t \in Trip, CompleteTrip(t, d) PROVE (TypeOK /\ RequestOK)'
      BY <2>8, <3>2 DEF DriverRequestFails, CompleteTrip, Fault
    <3>3. ASSUME NEW t \in Trip, CancelTripByDriver(t, d) PROVE (TypeOK /\ RequestOK)'
      <4>1. TableTypeOK'
        BY <3>3, AbandonTyped
      <4> QED BY <4>1, <2>8 DEF DriverRequestFails, Fault
    <3>4. ASSUME NEW s \in {"online", "offline"}, UpdateStatus(d, s) PROVE (TypeOK /\ RequestOK)'
      BY <2>8, <3>4 DEF DriverRequestFails, UpdateStatus, Fault
    <3> QED BY <2>8, <3>1, <3>2, <3>3, <3>4 DEF DriverRequestFails
  <2>9. CASE RedisWriteFails(d)
    <3>1. CASE req[d] = "clear"
      <4>1. faults' \in 0 .. MaxFaults /\ crashes' \in 0 .. MaxCrashes
        BY <2>9 DEF RedisWriteFails, Fault
      <4>2. Pending(d, "publish", reqTrip[d], reqStatus[d])
        BY <2>9, <3>1 DEF RedisWriteFails
      <4> QED BY <4>1, <4>2, <2>9, <3>1 DEF RedisWriteFails, Pending
    <3>2. CASE req[d] = "sync"
      BY <2>9, <3>2 DEF RedisWriteFails, RequestDone, Pending, Fault
    <3> QED BY <2>9, <3>1, <3>2 DEF RedisWriteFails
  <2>10. CASE GpsPing(d)
    BY <2>10 DEF GpsPing, TrackDriver
  <2>11. CASE DriverStatusMessage(d)
    BY <2>11 DEF DriverStatusMessage, SetOnline, SetOffline, Touched
  <2>12. CASE HashExpires(d)
    BY <2>12 DEF HashExpires, ExpireHash
  <2> QED BY <1>2, <2>1, <2>2, <2>3, <2>4, <2>5, <2>6, <2>7, <2>8, <2>9, <2>10, <2>11, <2>12
         DEF DriverNext, DriverRequest, ServeDriver
<1>3. CASE Crash
  BY <1>3 DEF Crash
<1>4. CASE UNCHANGED vars
  BY <1>4 DEF vars
<1> QED BY <1>1, <1>2, <1>3, <1>4 DEF Next

-----------------------------------------------------------------------------
(* Rows and dispatchers *)

\* Every step keeps the rows consistent and the dispatchers' expectations of them true.
LEMMA RowStep ==
  IInv /\ [Next]_vars => \A u \in Trip : (RowOK(u) /\ DispatcherOK(u))'
<1> SUFFICES ASSUME IInv, [Next]_vars, NEW u \in Trip PROVE (RowOK(u) /\ DispatcherOK(u))'
  OBVIOUS
<1> USE TableAssumption
        DEF IInv, TypeOK, TableTypeOK, RowOK, DispatcherOK, CancelledUnassigned
<1>1. ASSUME NEW t \in Trip, TripNext(t) PROVE (RowOK(u) /\ DispatcherOK(u))'
  <2>1. CASE CreateOrder(t)
    BY <2>1 DEF CreateOrder, CreateTrip, Goto
  <2>2. CASE CreateOrderFails(t)
    BY <2>2 DEF CreateOrderFails, CreateTrip, Fault
  <2>3. CASE Search(t)
    BY <2>3 DEF Search, Goto
  <2>4. CASE CheckAlive(t)
    BY <2>4 DEF CheckAlive
  <2>5. CASE NextRound(t)
    BY <2>5 DEF NextRound, Goto
  <2>6. CASE SendOffer(t)
    BY <2>6 DEF SendOffer, Goto
  <2>7. CASE NotAccepted(t)
    BY <2>7 DEF NotAccepted, Goto
  <2>8. CASE Accepted(t)
    BY <2>8 DEF Accepted, Goto
  <2>9. CASE Assign(t)
    BY <2>9 DEF Assign, AssignDriver, Goto
  <2>10. CASE MarkOnTrip(t)
    BY <2>10 DEF MarkOnTrip, SetActive, Touched, Goto
  <2>11. CASE NotifyAccepted(t)
    BY <2>11 DEF NotifyAccepted, Publish, Return, Goto
  <2>12. CASE GiveUp(t)
    BY <2>12 DEF GiveUp, CancelTrip, Goto
  <2>13. CASE NotifyCancelled(t)
    BY <2>13 DEF NotifyCancelled, Publish, Return, Goto
  <2>14. CASE AssignFails(t)
    BY <2>14 DEF AssignFails, AssignDriver, Fault, Return, Goto
  <2>15. CASE MarkOnTripFails(t)
    BY <2>15 DEF MarkOnTripFails, Fault, Goto
  <2>16. CASE GiveUpFails(t)
    BY <2>16 DEF GiveUpFails, CancelTrip, Fault, Goto
  <2>17. CASE ReadForCancel(t)
    BY <2>17 DEF ReadForCancel
  <2>18. CASE CancelOrder(t)
    BY <2>18 DEF CancelOrder, CancelTrip
  <2>19. CASE CancelOrderFails(t)
    BY <2>19 DEF CancelOrderFails, CancelTrip, Fault
  <2> QED BY <1>1, <2>1, <2>2, <2>3, <2>4, <2>5, <2>6, <2>7, <2>8, <2>9, <2>10, <2>11, <2>12,
         <2>13, <2>14, <2>15, <2>16, <2>17, <2>18, <2>19
         DEF TripNext, Dispatch, DispatchFails
<1>2. ASSUME NEW d \in Driver, DriverNext(d) PROVE (RowOK(u) /\ DispatcherOK(u))'
  <2>1. ASSUME NEW t \in Trip, AdvanceTrip(d, t) PROVE (RowOK(u) /\ DispatcherOK(u))'
    BY <2>1 DEF AdvanceTrip, TransitionTrip, Pending, Stage
  <2>2. ASSUME NEW t \in Trip, FinishTrip(d, t) PROVE (RowOK(u) /\ DispatcherOK(u))'
    BY <2>2 DEF FinishTrip, CompleteTrip, Pending
  <2>3. ASSUME NEW t \in Trip, AbandonTrip(d, t) PROVE (RowOK(u) /\ DispatcherOK(u))'
    BY <2>3 DEF AbandonTrip, CancelTripByDriver, Penalised, Pending
  <2>4. CASE ChangeStatus(d)
    BY <2>4 DEF ChangeStatus, UpdateStatus, Pending
  <2>5. CASE ClearActive(d)
    BY <2>5 DEF ClearActive, SetActive, Touched, Pending
  <2>6. CASE SyncStatus(d)
    BY <2>6 DEF SyncStatus, SetOnline, SetOffline, Touched, RequestDone, Pending
  <2>7. CASE PublishStatus(d)
    BY <2>7 DEF PublishStatus, Publish, RequestDone, Pending
  <2>8. CASE DriverRequestFails(d)
    <3>1. ASSUME NEW t \in Trip, NEW s \in Stage, TransitionTrip(t, d, s[1], s[2]) PROVE (RowOK(u) /\ DispatcherOK(u))'
      BY <2>8, <3>1 DEF DriverRequestFails, TransitionTrip, Stage, Fault
    <3>2. ASSUME NEW t \in Trip, CompleteTrip(t, d) PROVE (RowOK(u) /\ DispatcherOK(u))'
      BY <2>8, <3>2 DEF DriverRequestFails, CompleteTrip, Fault
    <3>3. ASSUME NEW t \in Trip, CancelTripByDriver(t, d) PROVE (RowOK(u) /\ DispatcherOK(u))'
      BY <2>8, <3>3 DEF DriverRequestFails, CancelTripByDriver, Penalised, Fault
    <3>4. ASSUME NEW s \in {"online", "offline"}, UpdateStatus(d, s) PROVE (RowOK(u) /\ DispatcherOK(u))'
      BY <2>8, <3>4 DEF DriverRequestFails, UpdateStatus, Fault
    <3> QED BY <2>8, <3>1, <3>2, <3>3, <3>4 DEF DriverRequestFails
  <2>9. CASE RedisWriteFails(d)
    <3>1. CASE req[d] = "clear"
      BY <2>9, <3>1 DEF RedisWriteFails, Pending, Fault
    <3>2. CASE req[d] = "sync"
      BY <2>9, <3>2 DEF RedisWriteFails, RequestDone, Pending, Fault
    <3> QED BY <2>9, <3>1, <3>2 DEF RedisWriteFails
  <2>10. CASE GpsPing(d)
    BY <2>10 DEF GpsPing, TrackDriver
  <2>11. CASE DriverStatusMessage(d)
    BY <2>11 DEF DriverStatusMessage, SetOnline, SetOffline, Touched
  <2>12. CASE HashExpires(d)
    BY <2>12 DEF HashExpires, ExpireHash
  <2> QED BY <1>2, <2>1, <2>2, <2>3, <2>4, <2>5, <2>6, <2>7, <2>8, <2>9, <2>10, <2>11, <2>12
         DEF DriverNext, DriverRequest, ServeDriver
<1>3. CASE Crash
  BY <1>3 DEF Crash
<1>4. CASE UNCHANGED vars
  BY <1>4 DEF vars
<1> QED BY <1>1, <1>2, <1>3, <1>4 DEF Next

\* The stage the life cycle expects after each stage of a ride.
LEMMA NextStageOf ==
  /\ DOMAIN Lifecycle!NextStage = Riding
  /\ \A s \in Stage : s[1] \in Riding /\ s[2] = Lifecycle!NextStage[s[1]]
  /\ Lifecycle!NextStage["ongoing"] = "completed"
BY DEF Stage, Lifecycle!NextStage

\* The three writes of a driver, as steps of the life cycle.
LEMMA RefineDriver ==
  ASSUME TypeOK, NEW t \in Trip, NEW d \in Driver, RowOK(t)
  PROVE  /\ \A s \in Stage : TransitionTrip(t, d, s[1], s[2]) => Lifecycle!Advance(t)
         /\ CompleteTrip(t, d) => Lifecycle!Advance(t)
         /\ CancelTripByDriver(t, d) => Lifecycle!Cancel(t, "driver")
<1> USE TableAssumption, NextStageOf DEF TypeOK, TableTypeOK, RowOK
<1>1. ASSUME NEW s \in Stage, TransitionTrip(t, d, s[1], s[2]) PROVE Lifecycle!Advance(t)
  BY <1>1 DEF TransitionTrip, Lifecycle!Advance
<1>2. ASSUME CompleteTrip(t, d) PROVE Lifecycle!Advance(t)
  BY <1>2 DEF CompleteTrip, Lifecycle!Advance
<1>3. ASSUME CancelTripByDriver(t, d) PROVE Lifecycle!Cancel(t, "driver")
  <2>1. status[t] \in Riding
    BY <1>3 DEF CancelTripByDriver
  <2> QED BY <1>3, <2>1 DEF CancelTripByDriver, Lifecycle!Cancel, Lifecycle!MayCancel
<1> QED BY <1>1, <1>2, <1>3

\* Every step is a step of the life cycle, or does not concern it.
LEMMA RefineStep ==
  IInv /\ [Next]_vars => [Lifecycle!Next]_(Lifecycle!lifecycleVars)
<1> DEFINE Refined == [Lifecycle!Next]_(Lifecycle!lifecycleVars)
<1> SUFFICES ASSUME IInv, [Next]_vars PROVE Refined
  OBVIOUS
<1> USE TableAssumption
        DEF IInv, TypeOK, TableTypeOK, RowOK, DispatcherOK, CancelledUnassigned,
            Lifecycle!lifecycleVars
<1>1. ASSUME NEW t \in Trip, TripNext(t) PROVE Refined
  <2>1. CASE CreateOrder(t)
    BY <2>1, NextStageOf DEF CreateOrder, CreateTrip, Goto,
       Lifecycle!Next, Lifecycle!Step, Lifecycle!Request
  <2>2. CASE CreateOrderFails(t)
    BY <2>2, NextStageOf DEF CreateOrderFails, CreateTrip, Fault,
       Lifecycle!Next, Lifecycle!Step, Lifecycle!Request
  <2>3. CASE Search(t)
    BY <2>3 DEF Search, Goto
  <2>4. CASE CheckAlive(t)
    BY <2>4 DEF CheckAlive
  <2>5. CASE NextRound(t)
    BY <2>5 DEF NextRound, Goto
  <2>6. CASE SendOffer(t)
    BY <2>6 DEF SendOffer, Goto
  <2>7. CASE NotAccepted(t)
    BY <2>7 DEF NotAccepted, Goto
  <2>8. CASE Accepted(t)
    BY <2>8 DEF Accepted, Goto
  <2>9. CASE Assign(t)
    BY <2>9, NextStageOf DEF Assign, AssignDriver, Goto,
       Lifecycle!Next, Lifecycle!Step, Lifecycle!Match
  <2>10. CASE MarkOnTrip(t)
    BY <2>10 DEF MarkOnTrip, SetActive, Touched, Goto
  <2>11. CASE NotifyAccepted(t)
    BY <2>11 DEF NotifyAccepted, Publish, Return, Goto
  <2>12. CASE GiveUp(t)
    BY <2>12, NextStageOf DEF GiveUp, CancelTrip, Goto,
       Lifecycle!Next, Lifecycle!Step, Lifecycle!Cancel, Lifecycle!MayCancel
  <2>13. CASE NotifyCancelled(t)
    BY <2>13 DEF NotifyCancelled, Publish, Return, Goto
  <2>14. CASE AssignFails(t)
    BY <2>14, NextStageOf DEF AssignFails, AssignDriver, Fault, Return, Goto,
       Lifecycle!Next, Lifecycle!Step, Lifecycle!Match
  <2>15. CASE MarkOnTripFails(t)
    BY <2>15 DEF MarkOnTripFails, Fault, Goto
  <2>16. CASE GiveUpFails(t)
    BY <2>16, NextStageOf DEF GiveUpFails, CancelTrip, Fault, Goto,
       Lifecycle!Next, Lifecycle!Step, Lifecycle!Cancel, Lifecycle!MayCancel
  <2>17. CASE ReadForCancel(t)
    BY <2>17 DEF ReadForCancel
  <2>18. CASE CancelOrder(t)
    BY <2>18, NextStageOf DEF CancelOrder, CancelTrip,
       Lifecycle!Next, Lifecycle!Step, Lifecycle!Cancel, Lifecycle!MayCancel
  <2>19. CASE CancelOrderFails(t)
    BY <2>19, NextStageOf DEF CancelOrderFails, CancelTrip, Fault,
       Lifecycle!Next, Lifecycle!Step, Lifecycle!Cancel, Lifecycle!MayCancel
  <2> QED BY <1>1, <2>1, <2>2, <2>3, <2>4, <2>5, <2>6, <2>7, <2>8, <2>9, <2>10, <2>11, <2>12,
         <2>13, <2>14, <2>15, <2>16, <2>17, <2>18, <2>19
         DEF TripNext, Dispatch, DispatchFails
<1>2. ASSUME NEW d \in Driver, DriverNext(d) PROVE Refined
  <2>1. ASSUME NEW t \in Trip, AdvanceTrip(d, t) PROVE Refined
    <3>1. \E s \in Stage : TransitionTrip(t, d, s[1], s[2])
      BY <2>1 DEF AdvanceTrip
    <3> QED BY <3>1, RefineDriver DEF Lifecycle!Next, Lifecycle!Step
  <2>2. ASSUME NEW t \in Trip, FinishTrip(d, t) PROVE Refined
    <3>1. CompleteTrip(t, d)
      BY <2>2 DEF FinishTrip
    <3> QED BY <3>1, RefineDriver DEF Lifecycle!Next, Lifecycle!Step
  <2>3. ASSUME NEW t \in Trip, AbandonTrip(d, t) PROVE Refined
    <3>1. CancelTripByDriver(t, d)
      BY <2>3 DEF AbandonTrip
    <3> QED BY <3>1, RefineDriver DEF Lifecycle!Next, Lifecycle!Step
  <2>4. CASE ChangeStatus(d)
    BY <2>4 DEF ChangeStatus, UpdateStatus, Pending
  <2>5. CASE ClearActive(d)
    BY <2>5 DEF ClearActive, SetActive, Touched, Pending
  <2>6. CASE SyncStatus(d)
    BY <2>6 DEF SyncStatus, SetOnline, SetOffline, Touched, RequestDone, Pending
  <2>7. CASE PublishStatus(d)
    BY <2>7 DEF PublishStatus, Publish, RequestDone, Pending
  <2>8. CASE DriverRequestFails(d)
    <3>1. ASSUME NEW t \in Trip,
                 \/ \E s \in Stage : TransitionTrip(t, d, s[1], s[2])
                 \/ CompleteTrip(t, d)
                 \/ CancelTripByDriver(t, d)
          PROVE  Refined
      BY <3>1, RefineDriver DEF Lifecycle!Next, Lifecycle!Step
    <3>2. ASSUME NEW s \in {"online", "offline"}, UpdateStatus(d, s) PROVE Refined
      BY <3>2 DEF UpdateStatus
    <3> QED BY <2>8, <3>1, <3>2 DEF DriverRequestFails
  <2>9. CASE RedisWriteFails(d)
    <3>1. CASE req[d] = "clear"
      BY <2>9, <3>1 DEF RedisWriteFails, Pending, Fault
    <3>2. CASE req[d] = "sync"
      BY <2>9, <3>2 DEF RedisWriteFails, RequestDone, Pending, Fault
    <3> QED BY <2>9, <3>1, <3>2 DEF RedisWriteFails
  <2>10. CASE GpsPing(d)
    BY <2>10 DEF GpsPing, TrackDriver
  <2>11. CASE DriverStatusMessage(d)
    BY <2>11 DEF DriverStatusMessage, SetOnline, SetOffline, Touched
  <2>12. CASE HashExpires(d)
    BY <2>12 DEF HashExpires, ExpireHash
  <2> QED BY <1>2, <2>1, <2>2, <2>3, <2>4, <2>5, <2>6, <2>7, <2>8, <2>9, <2>10, <2>11, <2>12
         DEF DriverNext, DriverRequest, ServeDriver
<1>3. CASE Crash
  BY <1>3 DEF Crash
<1>4. CASE UNCHANGED vars
  BY <1>4 DEF vars
<1> QED BY <1>1, <1>2, <1>3, <1>4 DEF Next

\* What no step takes back: a driver once assigned, and the end of a trip.
LEMMA Sticky ==
  ASSUME TypeOK, [Lifecycle!Next]_(Lifecycle!lifecycleVars), NEW t \in Trip, RowOK(t)
  PROVE  /\ driverOf[t] # None => driverOf'[t] = driverOf[t]
         /\ CancelledUnassigned(t) => CancelledUnassigned(t)'
         /\ status[t] \in Terminal => status'[t] = status[t]
BY TableAssumption, NextStageOf
DEF TypeOK, TableTypeOK, RowOK, CancelledUnassigned, Lifecycle!lifecycleVars, Lifecycle!Next,
    Lifecycle!Step, Lifecycle!Request, Lifecycle!Match, Lifecycle!Advance, Lifecycle!Cancel,
    Lifecycle!MayCancel

-----------------------------------------------------------------------------
(* The driver's hash and the passenger's answer *)

\* Only cancelOrder tells a passenger anything, and only after its statement.
LEMMA ToldStep == IInv /\ [Next]_vars => ToldIsOver'
<1> SUFFICES ASSUME IInv, [Next]_vars, NEW t \in Trip, told'[t] PROVE status'[t] \in Terminal
  BY DEF ToldIsOver
<1> USE DEF IInv
<1>1. CASE told[t]
  <2>1. status[t] \in Terminal
    BY <1>1 DEF ToldIsOver
  <2> QED BY <2>1, Sticky, RefineStep
<1>2. CASE ~told[t]
  <2>1. CancelOrder(t)
    <3>1. PICK u \in Trip : CancelOrder(u)
      BY <1>2 DEF Next, vars, TripNext, DriverNext, DriverRequest, ServeDriver, Dispatch, DispatchFails,
         CreateOrder, CreateOrderFails, Search, CheckAlive, NextRound, SendOffer, NotAccepted, Accepted,
         Assign, AssignFails, MarkOnTrip, MarkOnTripFails, NotifyAccepted, GiveUp, GiveUpFails,
         NotifyCancelled, ReadForCancel, CancelOrderFails, AdvanceTrip, FinishTrip, AbandonTrip,
         ChangeStatus, DriverRequestFails, ClearActive, SyncStatus, RedisWriteFails, PublishStatus,
         GpsPing, DriverStatusMessage, HashExpires, Crash
    <3>2. u = t
      BY <3>1, <1>2 DEF CancelOrder, TypeOK
    <3> QED BY <3>1, <3>2
  <2> QED BY <2>1 DEF CancelOrder, CancelTrip, TypeOK, TableTypeOK
<1> QED BY <1>1, <1>2

\* The hash gets an active trip only from MarkOnTrip, which comes after Assign.
LEMMA ActiveStep == IInv /\ [Next]_vars => ActiveTripExplained'
<1> SUFFICES ASSUME IInv, [Next]_vars, NEW d \in Driver, NEW t \in Trip, active'[d] = t
             PROVE  driverOf'[t] = d \/ CancelledUnassigned(t)'
  BY DEF ActiveTripExplained, CancelledUnassigned
<1> USE TableAssumption DEF IInv
<1>1. CASE active[d] = t
  <2>1. driverOf[t] = d \/ CancelledUnassigned(t)
    BY <1>1 DEF ActiveTripExplained, CancelledUnassigned
  <2> QED BY <2>1, Sticky, RefineStep
<1>2. CASE active[d] # t
  <2>1. ASSUME NEW e \in Driver, SetActive(e, None) \/ SetOnline(e) \/ SetOffline(e)
                                \/ TrackDriver(e) \/ ExpireHash(e)
        PROVE  FALSE
    BY <1>2, <2>1 DEF TypeOK, RedisTypeOK, SetActive, SetOnline, SetOffline, TrackDriver, ExpireHash
  <2>2. active' # active
    BY <1>2
  <2>3. \E u \in Trip : MarkOnTrip(u)
    <3>1. ASSUME NEW e \in Driver PROVE ~DriverNext(e)
      BY <2>1, <2>2 DEF DriverNext, DriverRequest, ServeDriver, AdvanceTrip, FinishTrip, AbandonTrip,
         ChangeStatus, DriverRequestFails, ClearActive, SyncStatus, RedisWriteFails, PublishStatus,
         GpsPing, DriverStatusMessage, HashExpires
    <3>2. ASSUME NEW u \in Trip, TripNext(u) PROVE MarkOnTrip(u)
      BY <2>2, <3>2 DEF TripNext, Dispatch, DispatchFails, CreateOrder, CreateOrderFails, Search,
         CheckAlive, NextRound, SendOffer, NotAccepted, Accepted, Assign, AssignFails, MarkOnTripFails,
         NotifyAccepted, GiveUp, GiveUpFails, NotifyCancelled, ReadForCancel, CancelOrder,
         CancelOrderFails
    <3> QED BY <2>2, <3>1, <3>2 DEF Next, Crash, vars
  <2>4. MarkOnTrip(t) /\ cand[t] = d
    <3>1. PICK u \in Trip : MarkOnTrip(u)
      BY <2>3
    <3>2. cand[u] = d /\ u = t
      BY <3>1, <1>2 DEF MarkOnTrip, SetActive, TypeOK, RedisTypeOK
    <3> QED BY <3>1, <3>2
  <2> QED BY <2>4 DEF MarkOnTrip, DispatcherOK, CancelledUnassigned
<1> QED BY <1>1, <1>2

-----------------------------------------------------------------------------
(* Theorems *)

LEMMA InvInit == Init => IInv
<1> SUFFICES ASSUME Init PROVE IInv
  OBVIOUS
<1>1. TypeOK /\ RequestOK
  BY TableAssumption, DispatchAssumption
  DEF Init, TableInit, RedisInit, TypeOK, TableTypeOK, RedisTypeOK, DispatcherAt, RequestOK
<1> QED BY <1>1, TableAssumption
  DEF Init, TableInit, RedisInit, IInv, RowOK, DispatcherOK, ActiveTripExplained, ToldIsOver

LEMMA InvStep == IInv /\ [Next]_vars => IInv'
BY TypeStep, RowStep, ActiveStep, ToldStep DEF IInv

\* The invariant: types, rows, dispatchers, driver hashes and passengers' answers
\* agree with each other in every reachable state.
THEOREM Invariance == Spec => []IInv
BY InvInit, InvStep, PTL DEF Spec

\* Type correctness.
THEOREM TypeCorrect == Spec => []TypeOK
<1>1. IInv => TypeOK
  BY DEF IInv
<1> QED BY <1>1, Invariance, PTL

\* The system never cancels a trip that was assigned a driver.
THEOREM SystemCancelSafe == Spec => []SystemCancelOnlyUnassigned
<1>1. IInv => SystemCancelOnlyUnassigned
  BY DEF IInv, RowOK, SystemCancelOnlyUnassigned
<1> QED BY <1>1, Invariance, PTL

\* A driver's hash never names a trip that was never his, but for one its passenger
\* cancelled before AssignDriver ran.
THEOREM ActiveTripSafe == Spec => []ActiveTripExplained
<1>1. IInv => ActiveTripExplained
  BY DEF IInv
<1> QED BY <1>1, Invariance, PTL

\* A passenger told "cancelled" has a trip that is over.
THEOREM ToldSafe == Spec => []ToldIsOver
<1>1. IInv => ToldIsOver
  BY DEF IInv
<1> QED BY <1>1, Invariance, PTL

\* TripDispatch implements the life cycle: every step of every actor is one of its
\* steps or leaves the trip's row alone.
THEOREM Implementation == Spec => ImplementsLifecycle
<1>1. Init => Lifecycle!Init
  BY DEF Init, TableInit, Lifecycle!Init
<1> QED BY <1>1, RefineStep, Invariance, PTL DEF Spec, ImplementsLifecycle, Lifecycle!Spec

=============================================================================
