----------------------------- MODULE TripDispatch -----------------------------
(***************************************************************************)
(* The life of a trip as the server executes it: the dispatcher goroutine   *)
(* that createOrder starts for it, the passenger's DELETE, the requests of  *)
(* the driver's app, the MQTT handlers, and the crash of the server, over   *)
(* the two stores (TripTable, DriverRedis) and the retained status message  *)
(* of the trip at the broker.  No transaction spans two stores and no lock  *)
(* is held between two steps, so every interleaving here is one the server  *)
(* can execute.                                                             *)
(*                                                                          *)
(* Where drivers are is abstracted: a GEOSEARCH may return any of the       *)
(* members of the set, in any order.  What is offered and answered is       *)
(* reduced to the outcome sendOffer returns.                                *)
(***************************************************************************)
EXTENDS TripTable, FiniteSets

CONSTANTS
  MaxRounds,       \* maxDispatchRounds
  MaxCandidates,   \* maxCandidates, COUNT of the GEOSEARCH
  MaxFaults,       \* bound: store calls that fail, with or without their effect
  MaxCrashes       \* bound: server crashes

ASSUME DispatchAssumption ==
  /\ MaxRounds \in Nat \ {0}
  /\ MaxCandidates \in Nat
  /\ MaxFaults \in Nat
  /\ MaxCrashes \in Nat

VARIABLES
  geo, hash, active,   \* Redis, see DriverRedis
  retained,   \* the message retained on adird/trip/{id}/status, or None
  pc,         \* where the dispatcher of the trip is; "off" when there is none
  round,      \* Run's loop variable
  found,      \* GEOSEARCH results not yet checked for a live hash
  cands,      \* candidates of this round not yet offered
  cand,       \* the candidate being offered to or assigned
  cancelling, \* cancelOrder has read the row and found it not terminal
  told,       \* cancelOrder has answered {"status": "cancelled"}
  req,        \* the driver's HTTP request: "idle", or what is left of it
  reqTrip,    \* its trip
  reqStatus,  \* the status it still has to publish, or to sync to Redis
  faults, crashes

INSTANCE DriverRedis

redisVars    == <<geo, hash, active>>
dispatchVars == <<pc, round, found, cands, cand>>
requestVars  == <<req, reqTrip, reqStatus>>
cancelVars   == <<cancelling, told>>
faultVars    == <<faults, crashes>>
vars == <<tableVars, redisVars, retained, dispatchVars, requestVars, cancelVars, faultVars>>

DispatcherAt == {"off", "search", "loop", "await", "assign", "mark", "notify",
                 "giveup", "notifyCancel"}

TypeOK ==
  /\ TableTypeOK
  /\ RedisTypeOK
  /\ retained \in [Trip -> TripStatus \cup {None}]
  /\ pc \in [Trip -> DispatcherAt]
  /\ round \in [Trip -> 0 .. MaxRounds]
  /\ found \in [Trip -> SUBSET Driver]
  /\ cands \in [Trip -> SUBSET Driver]
  /\ cand \in [Trip -> Driver \cup {None}]
  /\ cancelling \in [Trip -> BOOLEAN]
  /\ told \in [Trip -> BOOLEAN]
  /\ req \in [Driver -> {"idle", "clear", "publish", "sync"}]
  /\ reqTrip \in [Driver -> Trip \cup {None}]
  /\ reqStatus \in [Driver -> TripStatus \cup {"online", "offline", None}]
  /\ faults \in 0 .. MaxFaults
  /\ crashes \in 0 .. MaxCrashes

Init ==
  /\ TableInit
  /\ RedisInit
  /\ retained = [t \in Trip |-> None]
  /\ pc = [t \in Trip |-> "off"]
  /\ round = [t \in Trip |-> 0]
  /\ found = [t \in Trip |-> {}]
  /\ cands = [t \in Trip |-> {}]
  /\ cand = [t \in Trip |-> None]
  /\ cancelling = [t \in Trip |-> FALSE]
  /\ told = [t \in Trip |-> FALSE]
  /\ req = [d \in Driver |-> "idle"]
  /\ reqTrip = [d \in Driver |-> None]
  /\ reqStatus = [d \in Driver |-> None]
  /\ faults = 0
  /\ crashes = 0

\* A store call goes wrong: it times out or its connection breaks, before or
\* after the store executed it.
Fault ==
  /\ faults < MaxFaults
  /\ faults' = faults + 1
  /\ UNCHANGED crashes

\* PublishTripStatus: QoS 1, retained, replaces whatever was retained before.
Publish(t, s) == retained' = [retained EXCEPT ![t] = s]

-----------------------------------------------------------------------------
(* createOrder and Dispatcher.Run *)

Goto(t, where) == pc' = [pc EXCEPT ![t] = where]

\* Run returns; its locals go with it.
Return(t) ==
  /\ Goto(t, "off")
  /\ round' = [round EXCEPT ![t] = 0]
  /\ cands' = [cands EXCEPT ![t] = {}]
  /\ cand' = [cand EXCEPT ![t] = None]

\* createOrder: insert the row, then go dispatcher.Run(trip).
CreateOrder(t) ==
  /\ CreateTrip(t)
  /\ Goto(t, "search")
  /\ round' = [round EXCEPT ![t] = 1]
  /\ UNCHANGED <<redisVars, retained, found, cands, cand, requestVars, cancelVars, faultVars>>

\* The row is inserted but its RETURNING never arrives: 500, and no dispatcher.
CreateOrderFails(t) ==
  /\ CreateTrip(t)
  /\ Fault
  /\ UNCHANGED <<redisVars, retained, dispatchVars, requestVars, cancelVars>>

\* findCandidates, the GEOSEARCH.  An error is the same as finding nobody.
Search(t) ==
  /\ pc[t] = "search"
  /\ \E near \in SUBSET geo :
       /\ Cardinality(near) <= MaxCandidates
       /\ found' = [found EXCEPT ![t] = near]
  /\ cands' = [cands EXCEPT ![t] = {}]
  /\ Goto(t, "loop")
  /\ UNCHANGED <<tableVars, redisVars, retained, round, cand, requestVars, cancelVars, faultVars>>

\* findCandidates, the EXISTS driver:{id} of one result (an error counts as 0, which
\* is as if the GEOSEARCH had not returned the driver).
CheckAlive(t) ==
  /\ pc[t] = "loop"
  /\ \E d \in found[t] :
       /\ found' = [found EXCEPT ![t] = @ \ {d}]
       /\ cands' = [cands EXCEPT ![t] = IF hash[d] = "gone" THEN @ ELSE @ \cup {d}]
  /\ UNCHANGED <<tableVars, redisVars, retained, pc, round, cand, requestVars, cancelVars, faultVars>>

\* Faulty: one round too many.
NextRoundTooFar(t) ==
  /\ pc[t] = "loop"
  /\ found[t] = {}
  /\ cands[t] = {}
  /\ \/ /\ round[t] <= MaxRounds
        /\ round' = [round EXCEPT ![t] = @ + 1]
        /\ Goto(t, "search")
     \/ /\ round[t] > MaxRounds
        /\ Goto(t, "giveup")
        /\ UNCHANGED round
  /\ UNCHANGED <<tableVars, redisVars, retained, found, cands, cand, requestVars, cancelVars, faultVars>>

\* Faulty: the search is repeated in the same round.
NextRoundAgain(t) ==
  /\ pc[t] = "loop"
  /\ found[t] = {}
  /\ cands[t] = {}
  /\ \/ /\ round[t] < MaxRounds
        /\ Goto(t, "search")
     \/ /\ round[t] = MaxRounds
        /\ Goto(t, "giveup")
  /\ UNCHANGED <<tableVars, redisVars, retained, round, found, cands, cand, requestVars, cancelVars,
                 faultVars>>

\* The candidates are exhausted (or there were none: then Run first sleeps 5 s).
NextRound(t) ==
  /\ pc[t] = "loop"
  /\ found[t] = {}
  /\ cands[t] = {}
  /\ \/ /\ round[t] < MaxRounds
        /\ round' = [round EXCEPT ![t] = @ + 1]
        /\ Goto(t, "search")
     \/ /\ round[t] = MaxRounds
        /\ Goto(t, "giveup")
        /\ UNCHANGED round
  /\ UNCHANGED <<tableVars, redisVars, retained, found, cands, cand, requestVars, cancelVars, faultVars>>

\* sendOffer publishes the offer to the next candidate.  Neither the status of the
\* trip nor that of the driver is read.
SendOffer(t) ==
  /\ pc[t] = "loop"
  /\ found[t] = {}
  /\ \E d \in cands[t] :
       /\ cand' = [cand EXCEPT ![t] = d]
       /\ cands' = [cands EXCEPT ![t] = @ \ {d}]
  /\ Goto(t, "await")
  /\ UNCHANGED <<tableVars, redisVars, retained, round, found, requestVars, cancelVars, faultVars>>

\* The driver declines, does not answer within offerTimeoutSec, or the offer could
\* not be published.
NotAccepted(t) ==
  /\ pc[t] = "await"
  /\ Goto(t, "loop")
  /\ cand' = [cand EXCEPT ![t] = None]
  /\ UNCHANGED <<tableVars, redisVars, retained, round, found, cands, requestVars, cancelVars, faultVars>>

Accepted(t) ==
  /\ pc[t] = "await"
  /\ Goto(t, "assign")
  /\ UNCHANGED <<tableVars, redisVars, retained, round, found, cands, cand, requestVars, cancelVars,
                 faultVars>>

\* onAccepted, AssignDriver returns nil: whether a row matched is not looked at.
Assign(t) ==
  /\ pc[t] = "assign"
  /\ AssignDriver(t, cand[t])
  /\ Goto(t, "mark")
  /\ UNCHANGED <<redisVars, retained, round, found, cands, cand, requestVars, cancelVars, faultVars>>

\* Faulty: the error of AssignDriver is dropped like the others.
AssignFailsGoesOn(t) ==
  /\ pc[t] = "assign"
  /\ AssignDriver(t, cand[t]) \/ UNCHANGED tableVars
  /\ Fault
  /\ Goto(t, "mark")
  /\ UNCHANGED <<redisVars, retained, round, found, cands, cand, requestVars, cancelVars>>

\* onAccepted, AssignDriver returns an error: the dispatcher is done, the trip is
\* not (nor is it known whether the row was updated).
AssignFails(t) ==
  /\ pc[t] = "assign"
  /\ AssignDriver(t, cand[t]) \/ UNCHANGED tableVars
  /\ Fault
  /\ Return(t)
  /\ UNCHANGED <<redisVars, retained, found, requestVars, cancelVars>>

\* Faulty: returns without notifying the passenger.
MarkOnTripOnly(t) ==
  /\ pc[t] = "mark"
  /\ SetActive(cand[t], t)
  /\ Return(t)
  /\ UNCHANGED <<tableVars, retained, found, requestVars, cancelVars, faultVars>>

\* onAccepted, HSET status on_trip, active_trip_id.
MarkOnTrip(t) ==
  /\ pc[t] = "mark"
  /\ SetActive(cand[t], t)
  /\ Goto(t, "notify")
  /\ UNCHANGED <<tableVars, retained, round, found, cands, cand, requestVars, cancelVars, faultVars>>

\* The error of the HSET is dropped too.
MarkOnTripFails(t) ==
  /\ pc[t] = "mark"
  /\ Fault
  /\ Goto(t, "notify")
  /\ UNCHANGED <<tableVars, redisVars, retained, round, found, cands, cand, requestVars, cancelVars>>

\* Faulty: Run goes on with the next candidate after onAccepted.
NotifyAcceptedGoesOn(t) ==
  /\ pc[t] = "notify"
  /\ Publish(t, "accepted")
  /\ Goto(t, "loop")
  /\ UNCHANGED <<tableVars, redisVars, round, found, cands, cand, requestVars, cancelVars, faultVars>>

\* onAccepted, the status message; Run returns.
NotifyAccepted(t) ==
  /\ pc[t] = "notify"
  /\ Publish(t, "accepted")
  /\ Return(t)
  /\ UNCHANGED <<tableVars, redisVars, found, requestVars, cancelVars, faultVars>>

\* Faulty: the passenger is notified but the trip is not cancelled.
GiveUpWithoutCancel(t) ==
  /\ pc[t] = "giveup"
  /\ Goto(t, "notifyCancel")
  /\ UNCHANGED <<tableVars, redisVars, retained, round, found, cands, cand, requestVars, cancelVars,
                 faultVars>>

\* All rounds are exhausted.
GiveUp(t) ==
  /\ pc[t] = "giveup"
  /\ CancelTrip(t, "system")
  /\ Goto(t, "notifyCancel")
  /\ UNCHANGED <<redisVars, retained, round, found, cands, cand, requestVars, cancelVars, faultVars>>

\* The error of CancelTrip is dropped: Run goes on to publish.
GiveUpFails(t) ==
  /\ pc[t] = "giveup"
  /\ CancelTrip(t, "system") \/ UNCHANGED tableVars
  /\ Fault
  /\ Goto(t, "notifyCancel")
  /\ UNCHANGED <<redisVars, retained, round, found, cands, cand, requestVars, cancelVars>>

NotifyCancelled(t) ==
  /\ pc[t] = "notifyCancel"
  /\ Publish(t, "cancelled")
  /\ Return(t)
  /\ UNCHANGED <<tableVars, redisVars, found, requestVars, cancelVars, faultVars>>

\* What the dispatcher goroutine does when no store call fails.
Dispatch(t) ==
  \/ Search(t) \/ CheckAlive(t) \/ NextRound(t)
  \/ SendOffer(t) \/ NotAccepted(t) \/ Accepted(t)
  \/ Assign(t) \/ MarkOnTrip(t) \/ NotifyAccepted(t)
  \/ GiveUp(t) \/ NotifyCancelled(t)

DispatchFails(t) == AssignFails(t) \/ MarkOnTripFails(t) \/ GiveUpFails(t)

-----------------------------------------------------------------------------
(* cancelOrder, the passenger's DELETE *)

\* GetTrip and the test of the status that was read.
ReadForCancel(t) ==
  /\ ~cancelling[t]
  /\ status[t] \notin Terminal \cup {"absent"}
  /\ cancelling' = [cancelling EXCEPT ![t] = TRUE]
  /\ UNCHANGED <<tableVars, redisVars, retained, dispatchVars, requestVars, told, faultVars>>

\* CancelTrip, then 200.  Nothing is published, the driver's hash is left as it is
\* and the dispatcher is not stopped.
CancelOrder(t) ==
  /\ cancelling[t]
  /\ CancelTrip(t, "passenger")
  /\ cancelling' = [cancelling EXCEPT ![t] = FALSE]
  /\ told' = [told EXCEPT ![t] = TRUE]
  /\ UNCHANGED <<redisVars, retained, dispatchVars, requestVars, faultVars>>

\* Faulty: answers 200 whatever CancelTrip returned.
CancelOrderFailsUnnoticed(t) ==
  /\ cancelling[t]
  /\ CancelTrip(t, "passenger") \/ UNCHANGED tableVars
  /\ Fault
  /\ cancelling' = [cancelling EXCEPT ![t] = FALSE]
  /\ told' = [told EXCEPT ![t] = TRUE]
  /\ UNCHANGED <<redisVars, retained, dispatchVars, requestVars>>

\* CancelTrip returns an error: 500.
CancelOrderFails(t) ==
  /\ cancelling[t]
  /\ CancelTrip(t, "passenger") \/ UNCHANGED tableVars
  /\ Fault
  /\ cancelling' = [cancelling EXCEPT ![t] = FALSE]
  /\ UNCHANGED <<redisVars, retained, dispatchVars, requestVars, told>>

-----------------------------------------------------------------------------
(* The driver's requests, one in flight per driver *)

Pending(d, what, t, s) ==
  /\ req' = [req EXCEPT ![d] = what]
  /\ reqTrip' = [reqTrip EXCEPT ![d] = t]
  /\ reqStatus' = [reqStatus EXCEPT ![d] = s]

RequestDone(d) == Pending(d, "idle", None, None)

Stage == {<<"accepted", "en_route">>, <<"en_route", "arrived">>, <<"arrived", "ongoing">>}

\* Faulty: does not look at RowsAffected.
AdvanceTripUnchecked(d, t) ==
  /\ req[d] = "idle"
  /\ \E s \in Stage :
       /\ TransitionTrip(t, d, s[1], s[2]) \/ UNCHANGED tableVars
       /\ Pending(d, "publish", t, s[2])
  /\ UNCHANGED <<redisVars, retained, dispatchVars, cancelVars, faultVars>>

\* setEnRoute, setArrived, startTrip: the row first.
AdvanceTrip(d, t) ==
  /\ req[d] = "idle"
  /\ \E s \in Stage :
       /\ TransitionTrip(t, d, s[1], s[2])
       /\ Pending(d, "publish", t, s[2])
  /\ UNCHANGED <<redisVars, retained, dispatchVars, cancelVars, faultVars>>

\* completeTrip: the transaction first.
FinishTrip(d, t) ==
  /\ req[d] = "idle"
  /\ CompleteTrip(t, d)
  /\ Pending(d, "clear", t, "completed")
  /\ UNCHANGED <<redisVars, retained, dispatchVars, cancelVars, faultVars>>

\* cancelTrip of the driver: the transaction first.
AbandonTrip(d, t) ==
  /\ req[d] = "idle"
  /\ CancelTripByDriver(t, d)
  /\ Pending(d, "clear", t, "cancelled")
  /\ UNCHANGED <<redisVars, retained, dispatchVars, cancelVars, faultVars>>

\* updateStatus: the row first.
ChangeStatus(d) ==
  /\ req[d] = "idle"
  /\ \E s \in {"online", "offline"} :
       /\ UpdateStatus(d, s)
       /\ Pending(d, "sync", None, s)
  /\ UNCHANGED <<redisVars, retained, dispatchVars, cancelVars, faultVars>>

\* The statement or COMMIT took effect but returned an error: the request ends there.
DriverRequestFails(d) ==
  /\ req[d] = "idle"
  /\ \/ \E t \in Trip :
          \/ \E s \in Stage : TransitionTrip(t, d, s[1], s[2])
          \/ CompleteTrip(t, d)
          \/ CancelTripByDriver(t, d)
     \/ \E s \in {"online", "offline"} : UpdateStatus(d, s)
  /\ Fault
  /\ UNCHANGED <<redisVars, retained, dispatchVars, requestVars, cancelVars>>

\* CompleteTrip and CancelTripByDriver clear active_trip_id after the commit.
ClearActive(d) ==
  /\ req[d] = "clear"
  /\ SetActive(d, None)
  /\ Pending(d, "publish", reqTrip[d], reqStatus[d])
  /\ UNCHANGED <<tableVars, retained, dispatchVars, cancelVars, faultVars>>

\* updateStatus mirrors the row in Redis.
SyncStatus(d) ==
  /\ req[d] = "sync"
  /\ \/ reqStatus[d] = "online" /\ SetOnline(d)
     \/ reqStatus[d] = "offline" /\ SetOffline(d)
  /\ RequestDone(d)
  /\ UNCHANGED <<tableVars, retained, dispatchVars, cancelVars, faultVars>>

\* Neither looks at the error of its Redis write (a client that hangs up cancels it).
RedisWriteFails(d) ==
  /\ \/ req[d] = "clear" /\ Pending(d, "publish", reqTrip[d], reqStatus[d])
     \/ req[d] = "sync" /\ RequestDone(d)
  /\ Fault
  /\ UNCHANGED <<tableVars, redisVars, retained, dispatchVars, cancelVars>>

PublishStatus(d) ==
  /\ req[d] = "publish"
  /\ Publish(reqTrip[d], reqStatus[d])
  /\ RequestDone(d)
  /\ UNCHANGED <<tableVars, redisVars, dispatchVars, cancelVars, faultVars>>

\* What the server still does for a driver's request whose first write succeeded.
ServeDriver(d) == ClearActive(d) \/ SyncStatus(d) \/ PublishStatus(d)

DriverRequest(d) ==
  \/ \E t \in Trip : AdvanceTrip(d, t) \/ FinishTrip(d, t) \/ AbandonTrip(d, t)
  \/ ChangeStatus(d)

-----------------------------------------------------------------------------
(* MQTT messages from the driver, the TTL of the hash, and crashes *)

\* onDriverTracking (the forwarded location is not retained and leaves no state).
GpsPing(d) ==
  /\ TrackDriver(d)
  /\ UNCHANGED <<tableVars, retained, dispatchVars, requestVars, cancelVars, faultVars>>

\* onDriverStatus: the app's own message, or the broker's last will for it.  Only
\* Redis is written.
DriverStatusMessage(d) ==
  /\ SetOnline(d) \/ SetOffline(d)
  /\ UNCHANGED <<tableVars, retained, dispatchVars, requestVars, cancelVars, faultVars>>

HashExpires(d) ==
  /\ ExpireHash(d)
  /\ UNCHANGED <<tableVars, retained, dispatchVars, requestVars, cancelVars, faultVars>>

\* The server dies and restarts.  The stores and the broker keep their state;
\* goroutines and requests are gone and nothing looks for trips left searching.
Crash ==
  /\ crashes < MaxCrashes
  /\ crashes' = crashes + 1
  /\ pc' = [t \in Trip |-> "off"]
  /\ round' = [t \in Trip |-> 0]
  /\ found' = [t \in Trip |-> {}]
  /\ cands' = [t \in Trip |-> {}]
  /\ cand' = [t \in Trip |-> None]
  /\ cancelling' = [t \in Trip |-> FALSE]
  /\ req' = [d \in Driver |-> "idle"]
  /\ reqTrip' = [d \in Driver |-> None]
  /\ reqStatus' = [d \in Driver |-> None]
  /\ UNCHANGED <<tableVars, redisVars, retained, told, faults>>

-----------------------------------------------------------------------------
TripNext(t) ==
  \/ CreateOrder(t) \/ CreateOrderFails(t)
  \/ Dispatch(t) \/ DispatchFails(t)
  \/ ReadForCancel(t) \/ CancelOrder(t) \/ CancelOrderFails(t)

DriverNext(d) ==
  \/ DriverRequest(d) \/ ServeDriver(d)
  \/ DriverRequestFails(d) \/ RedisWriteFails(d)
  \/ GpsPing(d) \/ DriverStatusMessage(d) \/ HashExpires(d)

Next ==
  \/ \E t \in Trip : TripNext(t)
  \/ \E d \in Driver : DriverNext(d)
  \/ Crash

Spec == Init /\ [][Next]_vars

\* The Go scheduler runs every goroutine that can run.  Nothing obliges a
\* passenger, a driver or a GPS to do anything.
Fairness ==
  /\ \A t \in Trip : WF_vars(Dispatch(t)) /\ WF_vars(CancelOrder(t))
  /\ \A d \in Driver : WF_vars(ServeDriver(d))

FairSpec == Spec /\ Fairness

-----------------------------------------------------------------------------
(* What holds *)

\* The system gives up only searches: a trip cancelled by "system" was never
\* assigned a driver, however the dispatcher's rounds, the passenger's cancel and
\* failing store calls interleave (dispatch.go: GiveUp's statement would cancel a
\* trip under way, so it rests on Run returning after onAccepted).
SystemCancelOnlyUnassigned ==
  \A t \in Trip : cancelledBy[t] = "system" => driverOf[t] = None

\* The hash of a driver, which decides whose passenger his position is forwarded
\* to, names a trip that is (or was) his.  The one exception is a trip its
\* passenger cancelled before AssignDriver ran, which never got a driver: the
\* two stores are written in separate steps and only in that order.
ActiveTripExplained ==
  \A d \in Driver, t \in Trip :
    active[d] = t => \/ driverOf[t] = d
                     \/ driverOf[t] = None /\ cancelledBy[t] = "passenger"

\* A passenger who was told "cancelled" has a trip that is over: no dispatcher or
\* driver request, however late, brings it back.
ToldIsOver ==
  \A t \in Trip : told[t] => status[t] \in Terminal

TripsOf(d, s) == {t \in Trip : driverOf[t] = d /\ status[t] = s}
DroppedBy(d) == {t \in TripsOf(d, "cancelled") : cancelledBy[t] = "driver"}

\* total_trips counts exactly the completed trips of the driver, each once, whatever
\* is retried, fails or crashes around the transaction.
LedgerAgrees ==
  \A d \in Driver : totalTrips[d] = Cardinality(TripsOf(d, "completed"))

\* cancellation_score has moved by one tenth for each trip the driver cancelled, and
\* for no other, up to the cap of 1.0.
ScoreAgrees ==
  \A d \in Driver :
    LET due == ScoreAtStart + Cardinality(DroppedBy(d))
    IN  cancelScore[d] = IF due < ScoreCap THEN due ELSE ScoreCap

StageOf == [searching |-> 0, accepted |-> 1, en_route |-> 2, arrived |-> 3,
            ongoing |-> 4, completed |-> 5, cancelled |-> 0]

\* The trip has been in stage s, as far as its row can still tell.
HasReached(t, s) ==
  CASE s = "cancelled" -> status[t] = "cancelled"
    [] s \in Riding    -> \/ status[t] # "absent" /\ StageOf[status[t]] >= StageOf[s]
                          \/ status[t] = "cancelled" /\ driverOf[t] # None
    [] OTHER           -> status[t] = s

\* What the passenger's phone shows has happened: a status is published only after
\* the row has it, by the dispatcher and by the driver's requests alike, and stays
\* true of the row whatever the other actors do next.  Two exceptions: the offer
\* accepted after the passenger cancelled, and the cancellation announced although
\* CancelTrip failed in GiveUp.
PublishedHasHappened ==
  \A t \in Trip :
    retained[t] # None =>
      \/ HasReached(t, retained[t])
      \/ retained[t] = "accepted" /\ cancelledBy[t] = "passenger"
      \/ retained[t] = "cancelled" /\ status[t] = "searching" /\ faults > 0

\* The steps of a round that finds nobody: the search, a check of each result, an offer
\* to each candidate and his no, and the step to the next round.
RoundSteps == 3 * MaxCandidates + 2

\* What Run has left to do at most: the rest of this round, the rounds ahead, and the
\* two steps of giving up.
StepsLeft(t) ==
  LET ahead == (MaxRounds - round[t]) * RoundSteps
      offers == 2 * Cardinality(cands[t])
  IN  CASE pc[t] = "search" -> ahead + RoundSteps + 2
        [] pc[t] = "loop"   -> ahead + 3 * Cardinality(found[t]) + offers + 3
        [] pc[t] = "await"  -> ahead + offers + 4
        [] pc[t] = "assign" -> 3
        [] pc[t] \in {"mark", "giveup"} -> 2
        [] pc[t] \in {"notify", "notifyCancel"} -> 1
        [] pc[t] = "off"    -> 0

\* dispatch.go:36, "On failure after maxDispatchRounds": a dispatcher under way is where
\* it was or nearer to its end, whatever the drivers answer, whichever calls fail and
\* whatever anybody else does meanwhile.  It never searches, offers or waits for ever.
DispatcherWindsDown ==
  [][ \A t \in Trip :
        pc[t] # "off" => \/ StepsLeft(t)' < StepsLeft(t)
                         \/ UNCHANGED <<pc[t], round[t], found[t], cands[t], cand[t]>> ]_vars

-----------------------------------------------------------------------------
(* Why it holds: an invariant every step preserves *)

\* A request that still has to publish has a trip and a status to publish.
RequestOK ==
  \A d \in Driver :
    req[d] \in {"clear", "publish"} => reqTrip[d] \in Trip /\ reqStatus[d] \in TripStatus

\* How the columns of a row constrain each other.
RowOK(t) ==
  /\ status[t] \in {"absent", "searching"} => driverOf[t] = None
  /\ status[t] = "absent" => pc[t] = "off" /\ ~cancelling[t]
  /\ cancelledBy[t] # None => status[t] = "cancelled"
  /\ cancelledBy[t] = "driver" => driverOf[t] # None
  /\ cancelledBy[t] = "system" => driverOf[t] = None

\* The passenger cancelled before a driver was assigned.
CancelledUnassigned(t) == driverOf[t] = None /\ cancelledBy[t] = "passenger"

\* What the dispatcher may count on about the row: until AssignDriver only the
\* passenger competes with it for the trip.
DispatcherOK(t) ==
  /\ pc[t] \in {"search", "loop", "await", "assign", "giveup"} =>
       driverOf[t] = None /\ (status[t] = "searching" \/ cancelledBy[t] = "passenger")
  /\ pc[t] \in {"await", "assign", "mark", "notify"} => cand[t] \in Driver
  /\ pc[t] \in {"mark", "notify"} => driverOf[t] = cand[t] \/ CancelledUnassigned(t)
  /\ pc[t] = "notifyCancel" => driverOf[t] = None

\* The invariant the proofs of TripDispatch_proofs rest on: each of its parts is
\* needed to show that a step of another actor preserves the rest.
IInv ==
  /\ TypeOK
  /\ RequestOK
  /\ \A t \in Trip : RowOK(t) /\ DispatcherOK(t)
  /\ ActiveTripExplained
  /\ ToldIsOver

\* What PublishedHasHappened rests on besides: a status that is still to be published has
\* been reached already, and after an announced cancellation nobody assigns a driver.
PublishedInv ==
  /\ PublishedHasHappened
  /\ \A t \in Trip :
       /\ status[t] \in Riding => driverOf[t] # None
       /\ retained[t] \in Riding \cup Terminal \cup {None}
       /\ pc[t] = "notifyCancel" => status[t] = "cancelled" \/ (status[t] = "searching" /\ faults > 0)
       /\ retained[t] = "cancelled" /\ status[t] = "searching" => pc[t] = "off"
  /\ \A d \in Driver :
       req[d] \in {"clear", "publish"} =>
         reqStatus[d] \in Riding \cup Terminal /\ HasReached(reqTrip[d], reqStatus[d])

\* TripDispatch implements TripLifecycle.
Lifecycle == INSTANCE TripLifecycle WITH
               phase <- status, matched <- driverOf, endedBy <- cancelledBy
ImplementsLifecycle == Lifecycle!Spec

\* Every search ends, accepted, given up or cancelled, when nothing fails
\* (dispatch.go:36, "On failure after maxDispatchRounds: cancels trip").
SearchEnds == \A t \in Trip : status[t] = "searching" ~> status[t] # "searching"

\* Every passenger hears something on the topic createOrder returned, when nothing
\* fails: no path of the dispatcher ends without a message.
PassengerHears == \A t \in Trip : status[t] = "searching" ~> retained[t] # None

-----------------------------------------------------------------------------
(* What the program or its documents say and the code does not do *)

\* dispatch.go:35, "On success: updates trip to 'accepted', notifies passenger via
\* MQTT": the passenger is notified of a driver only if the trip has one.
AcceptedHasDriver ==
  \A t \in Trip : retained[t] = "accepted" => driverOf[t] # None

\* docs/11-hard-problems.md:230, a driver on a trip does not get new orders: no
\* driver has two trips under way.
OneTripPerDriver ==
  \A t, u \in Trip :
    t # u /\ status[t] \in Riding /\ status[u] \in Riding => driverOf[t] # driverOf[u]

\* client.go:135, "If driver is on a trip, forward location to passenger": when the
\* dispatcher and the driver's requests are done, a driver whose positions come in
\* and who is on a trip has it as his active trip.
RideIsTracked ==
  \A t \in Trip, d \in Driver :
    /\ status[t] = "ongoing" /\ driverOf[t] = d
    /\ hash[d] = "volatile"
    /\ pc[t] = "off" /\ req[d] = "idle"
    => active[d] = t

=============================================================================
