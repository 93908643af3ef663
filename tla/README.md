# Vidi in TLA+

Vidi is the server of a ride-hailing service: passengers order over HTTP, drivers are
offered trips over MQTT, PostgreSQL holds the rows, Redis holds what must be fast, and the
broker retains the last status of each trip. Hardly any operation of it is one atomic step.
A trip is moved by a dispatcher goroutine, by the passenger's requests, by the driver's
requests and by MQTT handlers, each writing one store at a time, without locks and without a
transaction over two stores. This directory models that, checks it with TLC and proves the
central part with TLAPS.

All paths below are relative to the repository; `order/` stands for `src/internal/order/` and
so on.

## The system

| component | state | operations | acts on |
|---|---|---|---|
| dispatch engine (`order/dispatch.go`) | locals of one goroutine per trip: round, candidates, the driver on offer | `Run`, `findCandidates`, `sendOffer`, `onAccepted` | trips row, `driver:{id}`, offers and status messages |
| orders (`order/handler.go`, `repository.go`) | `trips` | `createOrder` (starts a dispatcher), `cancelOrder`, reads, estimates | trips row |
| trip state machine (`order/trip_handler.go`, `trip_repository.go`) | `trips`, `drivers` | `en_route`, `arrived`, `start`, `complete`, `cancel` by the driver | both rows in one transaction, then `driver:{id}`, then the status message |
| driver presence (`driver/`, `mqtt/client.go`) | `drivers.status`, GEO set `drivers:online`, hash `driver:{id}` with a TTL of 60 s | `updateStatus`, GPS pings, status messages | row, then Redis |
| MQTT connection (`mqtt/client.go`) | connected or not, the session's subscriptions at the broker | `NewClient`, `resubscribe`, paho's reconnect | what of the drivers' messages reaches the handlers |
| offer routing (`mqtt/client.go`) | `offerChannels` under `offerMu` | `RegisterOfferChannel`, `SendOffer`, `onOfferResponse`, `UnregisterOfferChannel` | a Go channel of capacity one per driver and order |
| sign-in (`auth/`) | keys `otp:`, `otp_rate:`, `refresh:` | `requestOTP`, `verifyOTP`, `refreshToken` | Redis, account rows |
| ratings (`order/rating.go`) | `ratings`, `drivers.rating` | `rate`, `tripHistory` | one READ COMMITTED transaction |
| fares and surge (`order/fare.go`, `surge.go`, `geo.go`) | demand counter per grid cell, with a window of 5 min | `estimateOrder`, `CalculateFare`, `RecordDemand`, `GetMultiplier` | Redis, the fare in the trips row |
| ETA learning (`order/eta_learning.go`) | at most one row per completed trip | `recordETACorrection` in a goroutine | PostgreSQL |
| profile, administration, routing, start-up | single rows, configuration | single statements, one HTTP call | PostgreSQL, OSRM |

What is hard about it, and what would make it correct:

* **Dispatch and trip.** The dispatcher reads neither the trip's nor the driver's status
  while an offer is out, so the passenger, other dispatchers and old requests overtake it.
  An `UPDATE` that matches no row is success to `AssignDriver` and `CancelTrip` and an error
  to the driver's statements. Correct means: a trip moves only along its life cycle, the
  system gives up only trips nobody accepted, an answer once given ("cancelled") stays
  true, a status shown to the passenger has been reached, counters agree with the rows,
  and every search ends.
* **Presence.** The row, the GEO set and the hash are three copies of one fact with three
  life times, and a driver's departure reaches them only through the broker or a request of
  his. Correct means: the trip a driver's positions are forwarded to is his; a driver who left
  is forgotten, whatever was lost meanwhile, and one who works is found; nobody counts as
  alive for good on the strength of having left.
* **Pricing.** The multiplier is read in one call and the demand counted in another, by
  concurrent orders; fares are rounded twice and have a minimum. Correct means: the
  multiplier is made from the orders of the window and not the order's own, a surge ends, nobody
  pays more for less, and a trip is learned from once, from real durations.
* **Offer routing.** Answers are late, repeated or absent; the lock is released before the
  send. Correct means: no answer is lost while somebody waits, no offer is taken as accepted
  that was not, no entry is leaked, and the router does not stop.
* **Sign-in.** Each request is two to four Redis commands. Correct means: a code is good for
  one login, a refresh token continues its session once, a session is not lost without a
  failure, and the request counter's window ends.
* **Ratings.** Two statements under READ COMMITTED. Correct means: one rating per trip and
  side, an average of exactly the ratings there are.

PROJECT.json lists under "hazards" the line at which each of these bites.

## Modules

| module | what it is |
|---|---|
| `TripTable` | the tables `trips` and `drivers`: one operator per SQL statement or transaction, WHERE as guard, SET as primed variables |
| `DriverRedis` | `drivers:online` and `driver:{id}`: one operator per write the program makes, and the TTL |
| `TripDispatch` | composes the two with dispatchers, requests, MQTT messages, failing calls and crashes |
| `TripLifecycle` | what the order service promises of a trip: the abstract specification `TripDispatch` implements |
| `TripDispatch_proofs` | the invariant of `TripDispatch`, its safety theorems and the refinement |
| `TripPublished_proofs` | what holds of the retained status messages |
| `TripCounts_proofs` | that the counters of a driver agree with the rows of his trips, and that a dispatcher has fewer steps left with each one it takes |
| `OfferRouting` | `sendOffer` and `onOfferResponse`, statement by statement |
| `OfferExchange` | what dispatcher and driver may count on when an order is offered: the abstract specification `OfferRouting` implements |
| `LoginSession` | the three sign-in handlers, Redis command by Redis command |
| `Ratings` | `SubmitRating` under READ COMMITTED |
| `DriverPresence` | composes `DriverRedis` with the driver's row, requests, rides and app, and with the server's MQTT session, call by call |
| `Pricing` | orders and estimates of a cell: multiplier, fare, demand counter, learned ETA |
| `MCTripDispatch`, `MCOfferRouting`, `MCLoginSession`, `MCRatings`, `MCDriverPresence`, `MCPricing` | instances for TLC, with their symmetry sets |
| `OfferRouting_proofs`, `LoginSession_proofs`, `Ratings_proofs`, `DriverPresence_proofs`, `Pricing_proofs` | the theorems about the module of that name |

Definitions marked "Faulty" are plausible mistakes in the code they stand in front of. No
specification uses them; each is put in the place of its original to see that a property
notices.

### TripDispatch

*State.* `status`, `driverOf`, `cancelledBy` are the columns of `trips`; `totalTrips`,
`cancelScore` (in tenths) and `dbStatus` those of `drivers`. `geo`, `hash` and `active` are
Redis: a hash is `volatile` (it has the TTL of the last GPS ping), `lasting` (an `HSET`
created it again after it expired, without a TTL) or `gone`. `retained` is the message the
broker keeps on `adird/trip/{id}/status`. `pc`, `round`, `found`, `cands`, `cand` are the
dispatcher's goroutine; `cancelling` and `told` the passenger's DELETE between its read and
its UPDATE and after its answer; `req`, `reqTrip`, `reqStatus` what a driver's request still
has to do after its first write.

*Actions.* The dispatcher takes one step per call to a store or to the broker: `Search`
(GEOSEARCH), `CheckAlive` (EXISTS of one result), `SendOffer`, `NotAccepted`/`Accepted`,
`Assign`, `MarkOnTrip`, `NotifyAccepted`, `NextRound`, `GiveUp`, `NotifyCancelled`. Each
store call whose error the code treats specially, or drops, has an action in which it
fails, before or after it took effect (`...Fails`, bounded by `MaxFaults`). `AssignFails`
ends the goroutine as the code does; `MarkOnTripFails` and `GiveUpFails` go on as the code
does. A driver's request is its statement (`AdvanceTrip`, `FinishTrip`, `AbandonTrip`,
`ChangeStatus`), then `ClearActive` or `SyncStatus` in Redis, then `PublishStatus`. `Crash`
ends every goroutine and request and leaves the stores alone; that is also what a shutdown
does, since `main` waits for no dispatcher.

*Abstracted.* Where drivers are: a GEOSEARCH may return any members of the set, at most
`MaxCandidates`, in any order. The order of the candidates is not kept. What happens between
publishing an offer and its result is `OfferRouting`'s; here only the result appears. A
driver has one HTTP request in flight, a trip one DELETE. The Redis calls of one GPS ping are one step. Fares,
addresses, times, and the `status` field of the hash, which no code reads, are left out.
`PublishTripStatus` does not wait for the broker; that the message is delayed is not
distinguished from the publisher being slow, that it is lost with the process not from a
crash before it.

### TripLifecycle

Requested once; matched to at most one driver, for good; through the stages of the ride
one at a time; ended once, by somebody entitled to end it then: the system only a search,
a driver only a trip he is matched to. `ImplementsLifecycle` maps `phase`, `matched` and
`endedBy` to the three columns. The point of the refinement is that `TripTable!CancelTrip`
would allow the system to cancel a ride; that it never does rests on the control flow of
`Run`.

### OfferRouting

A key is one `driver:order` pair, offered again in later rounds. `Register`,
`PublishOffer`, `Published`/`PublishFails`, `Receive`/`OfferTimesOut`, `Unregister` are
`sendOffer` and its deferred call; `TakeAnswer` (which takes `offerMu`), `FindChannel` or
`DropAnswer`, `SendAnswer` are `onOfferResponse` run by paho's one router goroutine. The
channel `ch` a `sendOffer` holds is the `made`-th of its key, so an old channel and the
map's entry can be told apart. `PublishFails` may follow a publish that reached the driver.

### OfferExchange

An offer of a key is open, then decided by one answer of the driver or withdrawn; an answer
decides at most one offer; an answer is thrown away only while no offer stands; after a yes
the key is not offered again. There is no channel, lock, queue or router in it, and no promise
that the answer was given to the offer it decides: answers carry the order only, so a late one
decides the next offer of the same order. `ImplementsExchange` maps `offer` to `OfferState`
(`open` from the registration of the channel until an answer is received, the time-out, or the
failed publish) and `unread` to `Unread`, the answers in the queue, in the router's hand and in
a channel, be it one whose owner has left it behind. This is what lets `TripDispatch` treat `sendOffer` as
one wait: its `SendOffer` is an `Open`, `Accepted` a `Decide` with a yes, `NotAccepted` a
`Decide` with a no or a `Withdraw`.

### LoginSession

One phone number in one role. `CountRequest` is the INCR and its comparison, `StartWindow`
the EXPIRE, `SaveCode` the SET, `SendCode` the SMS, `MatchCode` the GET, `DeleteCode` the DEL,
`RotateToken` the GETDEL, `IssueToken` the SET of the new token, `Reply` the answer that
reaches the client. Since GET and DEL are two steps, `DeleteCode` deletes whatever code is stored
by then. `verified` is history: how often each code has been accepted (`Accept` is `VerifyOTP`
returning true, after a DEL that worked or did not). `OneTimeCode` says that this is at most once but for
two cases it names: two requests had both read the code before either deleted it (`raced`), or
the DEL failed (`undeleted`). `StartWindowFails` and `DeleteCodeFails` are the two commands whose error
is not looked at; `Abort` ends a request anywhere. The three TTLs are actions. Codes and
tokens are numbers, so two codes are never equal by chance; signatures are left out and the
upsert of the account, one idempotent statement, is left to the step that issues the token.
A *session* is the chain of tokens that starts with a login; it is a history variable.

### Ratings

The submissions for the trips of one driver. `InsertRating` waits as the unique index makes
it wait for an uncommitted row with the same key; `BeginUpdate` takes the snapshot of the
UPDATE's subselect, `LockDriver` gets the lock of the driver's row (perhaps later, with the
same snapshot: READ COMMITTED evaluates a locked row again, not a subselect), `Commit` makes
row and average visible. `Abort` rolls back, or loses the answer of a COMMIT that
succeeded. Scores are left out: `averaged` is the set of trips whose scores
`drivers.rating` is the average of.

### DriverPresence

*State.* `row` is `drivers.status`; `geo` and `hash` are `DriverRedis`'s (through an
`INSTANCE`; no trip is named here, so `active_trip_id` stays empty). `put[r]` is a request
that has written the row and has still to write Redis. `link`, `subs`, `pending` are paho's connection,
the subscriptions of the persistent session and what `resubscribe` has still to do; `routes` is what
this process has a handler for. `inbox` is what the broker holds for the session, `hand` and `at` the
message in the router and the Redis call its handler makes next, `shelf` the messages that came when
their topic had no handler. `app` is the driver's app as the broker sees it; the status
the broker retains follows from it. `heard`, `vouched` and `cut` are history: pings handled
since a row went offline, hashes created by a write that says the driver works, and writes
that were lost to a failing call or a crash.

*Actions.* `GeoAdd`, `SetPosition`, `Expire` are the three writes of `onDriverTracking`;
`RemoveOffline`, `MarkStatus` those of `onDriverStatus`; each may fail unnoticed, as every
error there is ignored. `WriteRow`, `SyncRedis` and their failures are `updateStatus`.
`LoseLink` drops what QoS 0 does not keep and puts the message in hand, unacknowledged, back;
`Reconnect` starts `resubscribe`; each `Subscribe` registers the topic's handler and brings the
retained statuses, and may fail (`SubscribeFails`), which is logged. `Crash` ends requests and the
handler; the message in hand comes again if its QoS is 1. A new process has no handlers, and until
`Subscribe` has registered one, `SetAside` is what becomes of the session's messages: paho neither
handles nor acknowledges them, so those of QoS 1 come again after the next connect. paho is not part
of the repository; this much of it is its documented behaviour (a message no handler matches is not
acknowledged, a handler is registered before SUBSCRIBE is sent), and marked external.
`deaf` is a topic whose subscription failed on this connection and that the server does not hear
completely because of it: it is not subscribed to, or a message of it is on the shelf.
`EndRide` is a completion or a cancellation by the driver; `CancelRide` is the passenger's, which
writes nothing of the driver's.

*Abstracted.* Positions; the forwarding of a ping to the trip (in `TripDispatch`); the profile
check before going online, with what a request does before its first write; offers and refusals, of
which only an accepted one writes (`Accept`, `MarkRide`, `EndRide`, `MarkRide`). That the app publishes a retained status and a retained
last will with QoS 1 is not in `src/internal`; it is what `docs/14-mqtt-architecture.md:77`
and `:366` require of it. A closed app and a will published after a lost connection are the
same message, so they are one action; a lost app the broker has not noticed yet is one that
sends nothing.

### Pricing

Each request is an order or an estimate for one grid cell. `Begin` reads tariff and route;
`ReadSurge` (or `EstimateOrder`) the counter; `RecordDemand` is the pipeline of INCR and
EXPIRE; `CreateTrip` the INSERT and the answer; `CompleteTrip` and `RecordCorrection` the end
of the trip and the goroutine that learns from it. `learning` counts these goroutines and `learned` is the
sequence of the rows they have inserted for a trip, so a second row is seen even if it is equal to
the first. `CompleteTripUnanswered` is the COMMIT that takes effect and returns an error, which
starts no goroutine; a completion that is repeated matches no row. A read that fails counts as no demand, a
pipeline that fails goes unnoticed, a failed INSERT leaves its demand counted. Numbers are
integers: a multiplier in tenths, a learned ratio in thousandths as DECIMAL(4,3) stores it,
fares in sixtieths of a rupiah before they are rounded. For the multipliers that can occur
(1.0, 1.3, ... 2.5, since supply is never written) the floating-point code gives the same
fares; a fallback duration can be one second shorter for some distances. `crowd` is how many
orders the cell had before; `counted`, `expired`, `before` and `seen` (the demand a multiplier was
made from) are history. `SurgeFollowsDemand` is about that demand and not about the formula, of which
the repository has three (see below): it asks of the formula only what all three have, that it
never falls with demand and is 1.0 for one order or none.

## Checks

Passing runs:

| run | bounds | distinct states | what it shows |
|---|---|---|---|
| `one_trip` | 1 trip, 2 drivers, 2 rounds, 1 failing call, 1 crash | 1.6 million (symmetry) | `SystemCancelOnlyUnassigned`, `ActiveTripExplained`, `ToldIsOver`, `PublishedHasHappened`, `IInv`, `DispatcherWindsDown`, and that the life cycle is implemented |
| `two_trips` | 2 trips, 1 driver, 1 round, 1 failing call | 1.3 million (symmetry) | `LedgerAgrees`, `ScoreAgrees`: the driver's counters against the rows, with the score starting just below its cap |
| `search_ends` | 1 trip, 2 drivers, 2 rounds | 0.5 million | `SearchEnds`, `PassengerHears` under fairness, without failures |
| `offer_routing` | 2 keys, 2 offers and 2 answers of each | 0.4 million | `AcceptIsTheDrivers`, `NoAnswerDropped`, `NoChannelLeaked`, `BlockedOnlyOnSecond`, that the exchange is implemented, and `OfferReturns` under fairness |
| `sign_in` | 3 requests, limit 2, 3 codes, 4 tokens, 1 failure | 1.4 million (symmetry) | `SessionNeverForks`, `SessionKept`, `CounterWillExpire`, `OneTimeCode` |
| `ratings` | 3 trips, 3 requests, 1 failure | 50 thousand (symmetry) | `RatedOnce`, `AverageIsReal`, `MissedOnlyWhenRaced` |
| `presence` | 1 driver, 1 request, 2 mishaps, pings while the queue is empty | 1.9 million | `SilentCandidateExplained`, `OfflineIsRemoved`, `GoneIsAnnounced`, and under fairness `GoneIsForgotten`, `WorkingIsFound` |
| `pricing` | 2 requests, earlier orders 4 or 6, 2 distances, 2 durations and the fallback's, 3 real durations, 1 mishap | 3.5 million | `FareIsRight`, `FaresAreOrdered`, `SurgeFollowsDemand`, `EtaIsReal`, and `SurgeEnds` under fairness |

Runs that refute what the repository says of itself (each is a finding in PROJECT.json):

| run | refuted | the counterexample |
|---|---|---|
| `accept_after_cancel` | `AcceptedHasDriver` (`dispatch.go:35`) | the passenger cancels while the offer is out, the driver accepts, `AssignDriver` matches no row, the passenger is told "accepted" |
| `double_booking` | `OneTripPerDriver` (`docs/11-hard-problems.md:230`) | a driver on a trip is found, offered and assigned another; his status is read by nobody |
| `tracking_lost` | `RideIsTracked` (`mqtt/client.go:135`) | the hash expires during the ride and `active_trip_id` with it |
| `router_blocks` | `RouterGoesOn` (`docs/14-mqtt-architecture.md:983`) | a second answer finds the channel full and unread and the router never continues |

### Why these bounds

* Trips are independent but for the driver they share, so one trip with two drivers shows
  every interleaving of the actors of one trip (a candidate who declines and one who
  accepts, the first driver's old request after the second was offered), and two trips with
  one driver every competition for him. Two rounds are needed for an offer that is repeated
  and for a dispatcher that outlives a cancellation; the code has three.
* One failing call is enough for each place a failure can happen, and a crash can come
  before or after it.
* Two offers of a key are what an answer needs to come to the wrong one; two answers, to
  fill a channel; two keys, to block an offer of another order behind the router.
* Three sign-in requests let one token be presented twice while a login runs, and one code be
  matched twice while a third request saves another. The limit of two is one less than the code's
  and still has a refused request; a third code is one saved over a used one in a later window.
* In `presence` drivers meet only in the router, which handles one message at a time; one
  driver shows every order of his own writes. Two mishaps are needed to lose a message twice:
  a departure during a lost connection and the subscription after it, or a crash and the subscription
  of the new process. The session holds more than one message through departures, repetitions and
  retained statuses; an app is opened only while nothing is on the shelf, which bounds it.
* In `pricing` four and six earlier orders put the multiplier below, at and beyond its cap, and none
  are left when the window has expired; two requests are what races for the counter; a distance
  of 0 gives the minimum fare and an estimate of 0 s, 3900 s is beyond the hour, and the real
  durations give ratios on both sides of what is learned.
* Three ratings are the least for an average that misses one rating and holds two others.
* `ScoreAtStart` is 9 tenths in `two_trips` and `one_trip`: two cancellations pass the cap.

### Deadlock and fairness

`offer_routing`, `router_blocks`, `sign_in` and `pricing` turn the deadlock check off: the bounded
offers, answers, codes and tokens run out (and the blocked router is one of the findings).
In the other runs something can always happen (a GPS ping, a new submission), and TLC
checks that it can.

`TripDispatch!Fairness` is weak fairness of what is already running on the server: each
dispatcher, the rest of each DELETE and of each driver's request. The Go scheduler runs
every goroutine that can run, `sendOffer` and the pauses end by timer, and every store call
has a deadline or returns. Nothing is assumed of passengers, drivers or GPS receivers:
nobody has to answer an offer. `search_ends` excludes failing calls and crashes, because a
call that fails in `onAccepted` or `CancelTrip` does end the search otherwise, and a crash
strands it. `DriverPresence!Fairness` is the router, paho's reconnect and `resubscribe`, and
an open app that sends positions; lost connections are bounded, so some connection lasts. For the
router this is an assumption the code does not justify everywhere: a second answer to an offer blocks it
for good (`router_blocks`), and a driver's departure behind it is then not handled. `GoneIsForgotten` and
`WorkingIsFound` hold of a server to which that has not happened.
Requests, departures and expiry are left free. `Pricing!FairSpec` says only that Redis
expires a key whose time has come, and `pricing` turns the deadlock check off because its two
requests end. `OfferRouting!Fairness` is the same for `sendOffer` and
the router.

## Proofs

Everything below is proved for every value of the constants that satisfies the assumptions named.

### Trips

`TripDispatch_proofs`, `TripPublished_proofs` and `TripCounts_proofs` prove for every set of trips and
drivers, any number of rounds, candidates, failures and crashes:

* `TypeCorrect`: `Spec => []TypeOK`;
* `SystemCancelSafe`, `ActiveTripSafe`, `ToldSafe`: the safety properties of `one_trip`;
* `PublishedSafe`: what the passenger is shown has happened, with its two exceptions;
* `Implementation`: `Spec => ImplementsLifecycle`;
* `LedgerSafe`, `ScoreSafe`: `total_trips` and `cancellation_score` against the rows;
* `DispatchersWindDown`: every step of a dispatcher brings it nearer to its end, and no step of
  anybody else takes it further away;
* `RunIsBounded`: it never has more than `MaxRounds * (3 * MaxCandidates + 2) + 2` steps left.

They rest on the assumptions `TableAssumption` (NULL is no value, the score starts within
its range) and `DispatchAssumption` (the bounds are numbers, there is at least one round).

*The argument.* None of the safety properties is inductive. That the system cancels only
unassigned trips depends on where the dispatcher is: `DispatcherOK` says that up to
`AssignDriver` a trip has no driver and is still searching unless its passenger cancelled it,
and that at `mark` and `notify` either the candidate is the driver or the passenger
cancelled first. To keep this under the steps of others one needs how the columns of a
row constrain each other (`RowOK`: a driver can act only on a trip that has him, and a trip
that has a driver has left `searching`), and that a request in flight has a trip and a
status (`RequestOK`). `IInv` is the conjunction of these with the types and with two of the
properties; TLC checks it in `one_trip`. `TypeStep`, `RowStep`, `ActiveStep` and `ToldStep`
prove that each part is preserved, one step per action. `RefineStep` maps each step to a
step of `TripLifecycle` or to a stutter. `Sticky` draws from it, not from the actions
again, that a driver once matched stays and that a cancellation without a driver is final;
that is what makes the stale `active_trip_id` and the late answer explainable.

`PublishedSafe` needs in addition (`PublishedInv`) that a status a request has still to
publish has been reached already, and that after an announced cancellation no dispatcher is
left. Frame lemmas (`OnlyAssigns`, `OnlyPublishers`, `OnlyRequests`, `DispatcherMoves`) go
through the actions once and say who can change what; that the row moves only forward
(`ReachedStays`) again comes from the refinement.

For the counters, `TableSteps` says that whatever else a step does, to the two tables it is a
completion, a cancellation by the driver, or a statement that counts nothing (`UncountedKeeps`).
`LedgerInv` and `ScoreInv` add that the sets counted are finite, so neither the set of trips nor
that of drivers has to be: a completion adds one trip to one driver's set and one to his
counter. `DueGrows` is the arithmetic of the cap.

For the end of a search, `StepsLeft` counts what a dispatcher may still do: a whole round
(`RoundSteps`) for each round ahead, a check, an offer and its result for each candidate found, and
the few calls after the last. It is a number only where the sets it counts are finite, and
decreases only where they are small enough: `SearchInv` says that `drivers:online` is finite
(it starts empty and grows by one driver at a time, `GeoStaysFinite`), that what was found and
what is still to be offered are together at most `MaxCandidates`, and that an offer is sent
only when all results have been checked. `RunStep` goes through the dispatcher's actions,
the failing ones included; `OthersStayOut` shows that but for them only `CreateOrder`, which starts
one where there was none, and a crash, which leaves nothing to do, touch its locals. This is
the part of `SearchEnds` that can be proved here: what is missing is only that a step that can be
taken is taken.

### Offers

`OfferRouting_proofs` proves for any keys, offers and answers `Typed`, `AcceptedByDriver`,
`ChannelsUnregistered`, `NoneDropped`, `BlockedBySecond` and `Implementation` (`OfferRouting`
implements `OfferExchange`). `OfferInv` says that the router has a
message while it works and the lock while it looks a channel up (`RouterOK`), that a channel is
registered exactly while its offer is under way (`ChannelsOK`), and that every answer in the inbox,
in hand or in a channel is one the driver gave (`SaidOK`).

`Unread` counts the answers of a kind in three places: the queue, the router's hand and the
channels that hold one. One lemma per step of the code says what it does to them: `Receive` uses one up
(`ReceiveUses`), the router moves one from place to place (`TakeKeeps`, `SendKeeps`) or drops one
(`DropUses`), an answer of the driver adds one (`AnswerAdds`). `TailCount` and `AppendCount` count
messages in a queue. `ExchangeStep` draws the refinement from these: each step is a step of the
exchange or changes neither the unread answers nor the offer. It needs
that a `sendOffer` about to return has its outcome right (`OutcomeOK`), and, for the answers the
router drops, that there was no registered channel, so no offer was open. The same lemmas give
`AnswersCounted`: the unread answers of a key, yes and no together, are no more than the driver
gave; a router that waits for room has one in hand and one in the channel, so the driver answered
twice (`BlockedBySecond`).

### Sign-in

`LoginSession_proofs` proves `Typed`, `CodesAreOneTime`, `WindowsEnd`, `SessionsNeverFork` and
`SessionsKept` for any finite set of concurrent requests and any bounds. `LoginInv` says
that nothing is stored, known or carried that was not made before (`Made`, `Carries`), and that the
bounds leave room for what the requests under way will make (`RoomKept`, where requests are
counted). `CodesAreOneTime` needs how a code that is not an exception can be held: by one request
between its GET and its DEL at most, and by none once it was accepted, when it is not stored any more either
(`UsedUp`, with `Holders` for the requests that hold it). On `LoginInv` rest `SessionsNeverFork`, whose property is inductive together with `LoginInv`, and
`SessionsKept`, which needs in addition that a token on its way to the client is in one response
only, unknown to him, and works unless its session is over (`Fresh`).

### Ratings

`Ratings_proofs` proves `TypedSafe`, `RatedOnceSafe`, `AverageSafe` and `OnlyRacedMissed` for any trips
and any number of concurrent submissions and failures. The invariant is `RatingInv`: two open
transactions never have inserted the same key, a key that is inserted and uncommitted is not
committed, and a snapshot contains only committed ratings and the transaction's own. For what an
average misses, `RaceOK` says that a transaction that has its snapshot misses only raced ratings,
sees its own, and that two such transactions have raced: the second of two to take a snapshot
finds the first one uncommitted.

### Presence

`DriverPresence_proofs` proves `Typed`, `SilentCandidatesExplained`, `OfflineDriversRemoved` and
`GoneAnnounced` for any finite set of drivers, any requests and any number of mishaps.
`PresenceInv` relates the router's place in a handler to the message in its hand (`HandOK`), says that before the HSET for an offline driver his ZREM has
gone through or was lost (`RemovalFirst`), and excepts the time between a ping's GEOADD and its
EXPIRE (`UnlessInPing`), which is when a hash without TTL is normal.

`GoneIsAnnounced` is not inductive: the "offline" message is of no use if a ping of the same driver
comes after it. `FarewellLast` says that it never does: of a driver whose app is gone, an "offline" is
queued behind every queued ping of his, and one is queued, on the shelf, or in hand and about to remove him
whenever he is in the set or about to be added. Several things can disturb this and each has
its lemma: a departure and a subscription append the farewell to whatever was queued
(`LastCovers`, `RetainedArrive`), a process without a handler puts it on the shelf (`ShelfGrows`),
and a lost connection takes the messages of QoS 0 out of the queue,
which are the pings, and keeps those of QoS 1, on the shelf, in hand or queued, among them the farewell
(`SessionKeeps`, `AtLeastOnceKeeps`). The
latter describes a queue by its remaining places in ascending order; that any set of places has such
a listing (`Listing`) comes from the least element of a set of numbers (`NatHasLeast`), for which
the library's well-foundedness is enough and no induction is.

### Pricing

`Pricing_proofs` proves `Typed`, `FaresRight`, `FaresOrdered`, `SurgeCountsOthers` and `CorrectionsReal`
for any distances, durations, earlier orders and any finite set of requests. Rounding lemmas
(`BaseRounds`, `SurgeRounds`, `NearestRounds`) say how far a rounding is from the quotient;
`FareGrows` that `CalculateFare` is monotone in distance, duration and multiplier. `CounterExact` is
the heart of the surge: the counter is the earlier orders and the requests counted since, each
once and only after it read; `WillFind` says that it holds at least the orders answered before
the request began, and `SeenBetween` carries both bounds over to the demand the multiplier was made
from. `LearnedOnce` says that a trip has one goroutine or one row or neither, and neither before it is
completed; a row is then the ratio of durations that no longer change.

### What the proofs assume, and what only TLC checks

`TableAssumption` and `DispatchAssumption` (see above); `RoutingAssumption`, `RatingAssumption` and
their like say that the bounds are natural numbers and `None` is no value; `Request` and `Handler` are
finite sets in `Pricing` and `LoginSession`, where they are counted; `Driver` is one in
`DriverPresence`, where the broker sends the retained status of every driver in some order.

Every invariant and every action property a passing run checks is a theorem, and so are both
refinements. Only model-checked are the liveness properties, fairness being beyond the prover:
`SearchEnds`, `PassengerHears`, `OfferReturns`, `GoneIsForgotten`, `WorkingIsFound` and `SurgeEnds`. Of
two of them the part that does not need fairness is proved: `DispatcherWindsDown` for `SearchEnds`,
`GoneIsAnnounced` for `GoneIsForgotten`.

## Differences seen but not run

Found while reading, not given a run of their own:

* A crash (or a deployment: `main` waits for no dispatcher) strands a search: the trip stays
  `searching`, although `dispatch.go:36` promises a cancellation and a message. `SearchEnds` with
  `MaxCrashes = 1` fails in a few steps.
* Two passengers who rate at the same time: the later UPDATE writes the average of its older
  snapshot, so `rating.go:31` ("updates the ratee's average") is not true of the first.
  `MissedOnlyWhenRaced` says what is left.
* `driver/repository.go:72` says `SetOnlineInRedis` adds the driver to the GEO set; it only writes
  the hash, and the driver is found after his first ping.
* `mqtt/client.go:125` says the TTL takes a silent driver offline. It does not take him out of
  `drivers:online`, and after an HSET on an expired hash (going online, the end of a ride) there
  is no TTL: `SilentCandidateExplained` says when.
* `docs/05-realtime-tracking.md:348` has a goroutine that cleans stale drivers up; the code has
  none, so `drivers:online` relies on the status messages alone (`GoneIsAnnounced`,
  `GoneIsForgotten`).
* `driver/handler.go:122` compares the plate with "PENDING"; the placeholder is "P-" and a hash
  (`auth/repository.go:132`), so only the name decides. The end of a ride sets `status = 'online'`
  whatever the profile.
* `onAccepted` reads `name` and `plate` from `driver:{id}`, which nobody writes: the passenger's
  message never has them.
* `docs/10-mvp-features.md:90` and `docs/08-database-design.md:316` apply the minimum fare before
  the surge and round to 500 rupiah; `CalculateFare` applies it after and rounds to 100.
* `trip_locations` is read by the administration and written by nothing; `GetCorrection` is
  called by nothing.
* `docs/04-dispatch-algorithm.md:127` takes a lock with SET NX EX around an offer; the code
  has none, so two dispatchers offer trips to one driver at the same time (this leads to
  `double_booking`).
* `docs/04-dispatch-algorithm.md:283` refuses a driver's cancellation of a ride under way and
  puts the trip back to `searching`; the code cancels the trip at any stage. Likewise
  `docs/10-mvp-features.md:72` has no cancellation from `ongoing`; the passenger's accepts it.
* `cancelOrder` tests the status it read and answers 200 although its UPDATE may then match
  no row: a passenger can be told "cancelled" of a trip that was completed in between
  (`ToldIsOver` says what is left: the trip is over).
* `cancelOrder` publishes nothing, so the retained message is no longer the current status a
  reconnecting passenger should get (`docs/14-mqtt-architecture.md:154`), and the driver learns
  of the cancellation when a request of his is refused.
* `Run` drops the error of its last `CancelTrip` and announces the cancellation anyway: the
  second exception of `PublishedHasHappened`.
* The comment of `Run`'s constants says up to 3 drivers are tried (`dispatch.go:20`); every
  candidate of every round is.
* An EXPIRE that fails after the first INCR (`auth/repository.go:74`) leaves a request counter
  without a TTL: after three requests the phone is refused for good. `CounterWillExpire`
  holds only without that failure.
* The DEL of `VerifyOTP` deletes whatever code the key holds by then, not the one it matched
  (`auth/repository.go:46` says only a matching one).
* A code is not quite "one-time use" (`auth/repository.go:60`): two requests that read it before
  either deletes it both log in, and a code whose DEL failed can be used until it expires. `OneTimeCode`
  says that there is no third way.
* `surge.go:11` counts supply on each GPS ping; nothing writes `surge_supply`. `surge.go:7`
  says the demand counter expires every five minutes; each order extends it.
* `surge.go:12` gives the multiplier as `1 + max(0, (demand - supply) / 5)`, and
  `docs/04-dispatch-algorithm.md:256` in tiers of 1.2, 1.5 and 2.0 of `demand / (supply + 1)`;
  `GetMultiplier` (`surge.go:70`) computes `1 + 0.3 * (demand / supply - 1)`, to 2.5 at most. With four
  orders, and supply taken as 1 as the code does, these are 1.6, 1.2 and 1.9. `Multiplier` is the
  code's.
* `docs/10-mvp-features.md:120` keeps an average for passengers too; only drivers' averages are written.

## Not modelled

* The great-circle distance and the grid cell of a coordinate: floating-point functions of one
  request, given as inputs.
* `updateProfile`, `updateFCMToken`, the passenger's profile: single statements on one row.
* Administration: read-only queries.
* OSRM, the SMS sender, the environment's configuration: external, without state of the
  program's own.
* JWT signatures and the middleware: stateless.

## Plan

Done, in this order: `TripTable`, `DriverRedis`, `TripDispatch` and its life cycle, because
everything the service does is for a trip; the proofs of its invariant and refinement;
`OfferRouting`; `LoginSession`; `Ratings`; `DriverPresence`; `Pricing`; then the proofs about the last
five and about the driver's counters; `OfferExchange` and its refinement; the bound on a
dispatcher's steps; the queue of the drivers' messages.

Next: the account rows of `verifyOTP`, that is the upsert with its placeholder plate and the two
roles of one phone.
