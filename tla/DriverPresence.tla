--------------------------- MODULE DriverPresence ---------------------------
(***************************************************************************)
(* Whether a driver is there: the column drivers.status, the GEO set        *)
(* drivers:online and the hash driver:{id}, written call by call by the     *)
(* driver's requests, by the MQTT handlers and by the rides he is on.       *)
(*                                                                          *)
(* Between the driver's app and the handlers stands the broker: it keeps    *)
(* the last status of each app (retained; "offline" is also the app's last  *)
(* will), and a session of the server with its subscriptions and the        *)
(* messages not yet acknowledged.  The server's connection is lost and      *)
(* found again, and each time resubscribes.  A new process has no handler   *)
(* before it does.                                                          *)
(***************************************************************************)
EXTENDS Naturals, FiniteSets, Sequences, SequencesExt

CONSTANTS
  Driver,
  Request,       \* PUT /driver/status requests that can be in flight
  MaxInbox,      \* bound: an app publishes while fewer messages are queued
  MaxMishaps     \* bound: lost connections, failing calls and crashes, together

ASSUME PresenceAssumption ==
  /\ IsFiniteSet(Driver)
  /\ MaxInbox \in Nat \ {0}
  /\ MaxMishaps \in Nat

VARIABLES
  row,           \* drivers.status: "offline", or "online" (a ride's on_trip is written by nobody)
  geo,           \* members of drivers:online
  hash,          \* driver:{id}: "gone", "volatile" (with TTL) or "lasting" (without)
  put,           \* [of, to]: a request between its two writes, its driver and status
  ride,          \* his ride: "no", "mark" (accepted), "on", "clear" (just ended)
  app,           \* his app, as far as the broker knows: "off" or "on"
  link,          \* the server's connection: "up" or "down"
  subs,          \* topics its session is subscribed to
  pending,       \* topics resubscribe has still to subscribe to
  routes,        \* topics this process has a handler for
  deaf,          \* topics not heard on this connection because that call failed
  inbox,         \* the session's messages [of, what], oldest first
  shelf,         \* those that came when there was no handler: not acknowledged
  hand,          \* the message in the router's hand, or NoMessage
  at,            \* the Redis call its handler makes next: "done" before the first message
  mishaps,       \* lost connections, failing calls and crashes so far
  heard,         \* history: drivers whose row is offline and who were added since it is
  vouched,       \* history: drivers whose hash was created by a write that he works
  cut            \* history: per driver, the writes that were lost: "removal", "ttl"

redisVars   == <<geo, hash>>
sessionVars == <<link, subs, pending, routes, deaf>>
routerVars  == <<inbox, shelf, hand, at>>
histVars    == <<heard, vouched, cut>>
vars == <<row, redisVars, put, ride, app, sessionVars, routerVars,
          mishaps, histVars>>

\* The writes to Redis of this module's handlers.  No trip is named here, so
\* active_trip_id stays empty.
Redis == INSTANCE DriverRedis WITH
           Trip <- {}, None <- "", active <- [d \in Driver |-> ""]

Message   == [of : Driver, what : {"gps", "online", "offline"}]
NoMessage == [of |-> "nobody", what |-> "nothing"]
Idle      == [of |-> "nobody", to |-> "nothing"]
Topic     == {"tracking", "status"}

-----------------------------------------------------------------------------
TypeOK ==
  /\ row \in [Driver -> {"offline", "online"}]
  /\ geo \in SUBSET Driver
  /\ hash \in [Driver -> {"gone", "volatile", "lasting"}]
  /\ put \in [Request -> {Idle} \cup [of : Driver, to : {"online", "offline"}]]
  /\ ride \in [Driver -> {"no", "mark", "on", "clear"}]
  /\ app \in [Driver -> {"off", "on"}]
  /\ link \in {"up", "down"}
  /\ subs \in SUBSET Topic /\ pending \in SUBSET Topic
  /\ routes \in SUBSET Topic /\ deaf \in SUBSET Topic
  /\ inbox \in Seq(Message) /\ shelf \in Seq(Message)
  /\ hand \in Message \cup {NoMessage}
  /\ at \in {"done", "geoadd", "hset", "expire", "zrem", "mark"}
  /\ mishaps \in 0..MaxMishaps
  /\ heard \in SUBSET Driver /\ vouched \in SUBSET Driver
  /\ cut \in [Driver -> SUBSET {"removal", "ttl"}]

\* The first start; what a later start finds is the state after a Crash.
Init ==
  /\ row = [d \in Driver |-> "offline"]
  /\ Redis!RedisInit
  /\ put = [r \in Request |-> Idle]
  /\ ride = [d \in Driver |-> "no"]
  /\ app = [d \in Driver |-> "off"]
  /\ link = "up" /\ subs = {} /\ pending = Topic
  /\ routes = {} /\ deaf = {}
  /\ inbox = <<>> /\ shelf = <<>> /\ hand = NoMessage /\ at = "done"
  /\ mishaps = 0
  /\ heard = {} /\ vouched = {}
  /\ cut = [d \in Driver |-> {}]

Mishap == mishaps < MaxMishaps /\ mishaps' = mishaps + 1

Lost(d, what) == cut' = [cut EXCEPT ![d] = @ \cup {what}]

\* An HSET that creates the hash anew vouches for the driver if it says that he works.
Vouch(d, works) ==
  vouched' = IF hash[d] # "gone" THEN vouched
             ELSE IF works THEN vouched \cup {d} ELSE vouched \ {d}

-----------------------------------------------------------------------------
(* The session.                                                             *)

\* config.Load: the broker keeps subscriptions and messages over a lost connection.
CleanSession == FALSE

TopicOf(m) == IF m.what = "gps" THEN "tracking" ELSE "status"

\* Faulty: every topic is subscribed to with QoS 0.
QosOfFaulty(topic) == 0

\* resubscribe: QoS 1 for the topics of offers and status.
QosOf(topic) == IF topic = "status" THEN 1 ELSE 0

\* The broker routes m to the session; QoS 0 is not kept for one that is away.
Deliver(m) ==
  inbox' = IF TopicOf(m) \in subs /\ (link = "up" \/ QosOf(TopicOf(m)) = 1)
           THEN Append(inbox, m) ELSE inbox

\* The messages of QoS 1 in a queue, in their order.
AtLeastOnce(queue) ==
  LET places == {i \in DOMAIN queue : QosOf(TopicOf(queue[i])) = 1}
      nth    == CHOOSE f \in [1 .. Cardinality(places) -> places] :
                  \A i, j \in DOMAIN f : i < j => f[i] < f[j]
  IN  [i \in DOMAIN nth |-> queue[nth[i]]]

\* What stays in the session when the connection breaks: the messages of QoS 1
\* without acknowledgement, those on the shelf and the one in hand included.
Unacknowledged ==
  IF CleanSession THEN <<>>
  ELSE AtLeastOnce(shelf \o (IF hand = NoMessage THEN inbox ELSE <<hand>> \o inbox))

Break ==
  /\ link' = "down"
  /\ pending' = {} /\ deaf' = {}
  /\ subs' = IF CleanSession THEN {} ELSE subs
  /\ inbox' = Unacknowledged /\ shelf' = <<>>

LoseLink ==
  /\ link = "up"
  /\ Mishap
  /\ Break
  /\ UNCHANGED <<row, redisVars, put, ride, app, routes, hand, at, histVars>>

\* Faulty: the subscriptions are made once, after the first connect.
ReconnectOnly ==
  /\ link = "down"
  /\ link' = "up"
  /\ UNCHANGED <<row, redisVars, put, ride, app, subs, pending, routes, deaf, routerVars, mishaps, histVars>>

\* paho connects again, or the server starts again; the handler resubscribes.
Reconnect ==
  /\ link = "down"
  /\ link' = "up" /\ pending' = Topic
  /\ UNCHANGED <<row, redisVars, put, ride, app, subs, routes, deaf, routerVars, mishaps, histVars>>

\* The broker keeps the last status an app published (or its will).
Retained(d) == IF app[d] = "on" THEN "online" ELSE "offline"

RetainedMessages == {[of |-> d, what |-> Retained(d)] : d \in Driver}

\* A subscription registers the handler of its topic, and brings the retained
\* messages in any order.
Subscribe(topic) ==
  /\ link = "up" /\ topic \in pending
  /\ subs' = subs \cup {topic}
  /\ pending' = pending \ {topic}
  /\ routes' = routes \cup {topic}
  /\ \E arrived \in SetToSeqs(RetainedMessages) :
       inbox' = IF topic = "status" THEN inbox \o arrived ELSE inbox
  /\ UNCHANGED <<row, redisVars, put, ride, app, link, deaf, shelf, hand, at, mishaps, histVars>>

\* The error is logged; there is no other attempt before the next connect.  The
\* handler is registered all the same; what is on the shelf stays there.
SubscribeFails(topic) ==
  /\ link = "up" /\ topic \in pending
  /\ Mishap
  /\ pending' = pending \ {topic}
  /\ routes' = routes \cup {topic}
  /\ deaf' = IF topic \in subs /\ \A m \in ToSet(shelf) : TopicOf(m) # topic
             THEN deaf ELSE deaf \cup {topic}
  /\ UNCHANGED <<row, redisVars, put, ride, app, link, subs, routerVars, histVars>>

-----------------------------------------------------------------------------
(* The driver's app (VICI): what it publishes.                              *)

OpenApp(d) ==
  /\ app[d] = "off" /\ Len(inbox) < MaxInbox /\ Len(shelf) < MaxInbox
  /\ app' = [app EXCEPT ![d] = "on"]
  /\ Deliver([of |-> d, what |-> "online"])
  /\ UNCHANGED <<row, redisVars, put, ride, sessionVars, shelf, hand, at, mishaps, histVars>>

\* The app is closed; or it was lost some time ago, the keepalive runs out and
\* the broker publishes its will.
CloseApp(d) ==
  /\ app[d] = "on"
  /\ app' = [app EXCEPT ![d] = "off"]
  /\ Deliver([of |-> d, what |-> "offline"])
  /\ UNCHANGED <<row, redisVars, put, ride, sessionVars, shelf, hand, at, mishaps, histVars>>

SendPing(d) ==
  /\ app[d] = "on" /\ Len(inbox) < MaxInbox
  /\ Deliver([of |-> d, what |-> "gps"])
  /\ UNCHANGED <<row, redisVars, put, ride, app, sessionVars, shelf, hand, at, mishaps, histVars>>

-----------------------------------------------------------------------------
(* The router: one message at a time, one Redis call per step.  The error   *)
(* of every call is ignored.                                                *)

NextIsRouted == TopicOf(Head(inbox)) \in routes

Take ==
  /\ link = "up" /\ hand = NoMessage /\ inbox # <<>>
  /\ NextIsRouted
  /\ hand' = Head(inbox) /\ inbox' = Tail(inbox)
  /\ \/ hand'.what = "gps" /\ at' = "geoadd"
     \/ hand'.what = "offline" /\ at' = "zrem"
     \/ hand'.what = "online" /\ at' = "mark"
  /\ UNCHANGED <<row, redisVars, put, ride, app, sessionVars, shelf, mishaps, histVars>>

\* paho does not acknowledge a message nobody handles: one of QoS 1 comes again
\* after the next connect, one of QoS 0 is gone.
SetAside ==
  /\ link = "up" /\ hand = NoMessage /\ inbox # <<>>
  /\ ~NextIsRouted
  /\ inbox' = Tail(inbox)
  /\ shelf' = IF QosOf(TopicOf(Head(inbox))) = 1 THEN Append(shelf, Head(inbox)) ELSE shelf
  /\ UNCHANGED <<row, redisVars, put, ride, app, sessionVars, hand, at, mishaps, histVars>>

\* The handler goes on with its call "next", or is done with the message.
Proceed(next) ==
  /\ at' = next
  /\ hand' = IF next = "done" THEN NoMessage ELSE hand
  /\ UNCHANGED <<row, put, ride, app, sessionVars, inbox, shelf>>

AfterPing(d) == heard' = IF row[d] = "offline" THEN heard \cup {d} ELSE heard

GeoAdd ==
  /\ at = "geoadd"
  /\ \/ geo' = geo \cup {hand.of} /\ AfterPing(hand.of) /\ UNCHANGED mishaps
     \/ Mishap /\ UNCHANGED <<geo, heard>>
  /\ Proceed("hset")
  /\ UNCHANGED <<hash, vouched, cut>>

SetPosition ==
  /\ at = "hset"
  /\ \/ hash' = [hash EXCEPT ![hand.of] = Redis!Touched(@)] /\ Vouch(hand.of, FALSE) /\ UNCHANGED mishaps
     \/ Mishap /\ UNCHANGED <<hash, vouched>>
  /\ Proceed("expire")
  /\ UNCHANGED <<geo, heard, cut>>

\* EXPIRE does nothing to a key that is not there.
Expire ==
  /\ at = "expire"
  /\ \/ /\ hash' = [hash EXCEPT ![hand.of] = IF @ = "gone" THEN "gone" ELSE "volatile"]
        /\ vouched' = vouched \ {hand.of}
        /\ UNCHANGED <<mishaps, cut>>
     \/ Mishap /\ Lost(hand.of, "ttl") /\ UNCHANGED <<hash, vouched>>
  /\ Proceed("done")
  /\ UNCHANGED <<geo, heard>>

\* Faulty: an offline driver is marked and not removed.
RemoveOfflineNot ==
  /\ at = "zrem"
  /\ UNCHANGED <<geo, mishaps, cut>>
  /\ Proceed("mark")
  /\ UNCHANGED <<hash, heard, vouched>>

RemoveOffline ==
  /\ at = "zrem"
  /\ \/ geo' = geo \ {hand.of} /\ UNCHANGED <<mishaps, cut>>
     \/ Mishap /\ Lost(hand.of, "removal") /\ UNCHANGED geo
  /\ Proceed("mark")
  /\ UNCHANGED <<hash, heard, vouched>>

MarkStatus ==
  /\ at = "mark"
  /\ \/ /\ hash' = [hash EXCEPT ![hand.of] = Redis!Touched(@)]
        /\ Vouch(hand.of, hand.what = "online")
        /\ UNCHANGED mishaps
     \/ Mishap /\ UNCHANGED <<hash, vouched>>
  /\ Proceed("done")
  /\ UNCHANGED <<geo, heard, cut>>

-----------------------------------------------------------------------------
(* The driver's HTTP requests.                                              *)

PutUnchanged == UNCHANGED <<ride, app, sessionVars, routerVars>>

SetRow(d, s) ==
  /\ row' = [row EXCEPT ![d] = s]
  /\ heard' = IF row[d] = "offline" /\ s = "offline" THEN heard ELSE heard \ {d}

\* The first write of updateStatus.  The driver's profile is complete: he would
\* be refused otherwise, before anything is written.
WriteRow(r, d, s) ==
  /\ put[r] = Idle
  /\ SetRow(d, s)
  /\ put' = [put EXCEPT ![r] = [of |-> d, to |-> s]]
  /\ PutUnchanged /\ UNCHANGED <<redisVars, mishaps, vouched, cut>>

\* The statement fails, before or after it took effect: 500, and Redis is not written.
WriteRowFails(d, s) ==
  /\ Mishap
  /\ \/ /\ SetRow(d, s)
        /\ IF s = "offline" THEN Lost(d, "removal") ELSE UNCHANGED cut
     \/ UNCHANGED <<row, heard, cut>>
  /\ PutUnchanged /\ UNCHANGED <<put, redisVars, vouched>>

\* Faulty: one HSET of the status for both, as if the TTL did the rest.
SyncRedisOnlyHash(r) ==
  /\ put[r] # Idle
  /\ Redis!SetOnline(put[r].of)
  /\ Vouch(put[r].of, put[r].to = "online")
  /\ put' = [put EXCEPT ![r] = Idle]
  /\ PutUnchanged /\ UNCHANGED <<row, mishaps, heard, cut>>

\* SetOnlineInRedis, or SetOfflineInRedis (one pipeline); 200 in any case.
SyncRedis(r) ==
  /\ put[r] # Idle
  /\ IF put[r].to = "online" THEN Redis!SetOnline(put[r].of) ELSE Redis!SetOffline(put[r].of)
  /\ Vouch(put[r].of, put[r].to = "online")
  /\ put' = [put EXCEPT ![r] = Idle]
  /\ PutUnchanged /\ UNCHANGED <<row, mishaps, heard, cut>>

\* The error is dropped; of the pipeline nothing ran, or the ZREM only.
SyncRedisFails(r) ==
  /\ put[r] # Idle
  /\ Mishap
  /\ IF put[r].to = "online" THEN UNCHANGED <<geo, cut>>
     ELSE \/ Lost(put[r].of, "removal") /\ UNCHANGED geo
          \/ geo' = geo \ {put[r].of} /\ UNCHANGED cut
  /\ put' = [put EXCEPT ![r] = Idle]
  /\ PutUnchanged /\ UNCHANGED <<row, hash, heard, vouched>>

-----------------------------------------------------------------------------
(* The driver's rides, as far as they write his status.  The dispatcher     *)
(* finds who is in drivers:online and has a hash, whatever his row says.    *)

RideUnchanged ==
  UNCHANGED <<geo, put, app, sessionVars, routerVars, cut>>

Findable(d) == d \in geo /\ hash[d] # "gone"

\* Found, offered a ride and accepted it.  An offer he does not accept writes
\* nothing.
Accept(d) ==
  /\ ride[d] = "no" /\ Findable(d)
  /\ ride' = [ride EXCEPT ![d] = "mark"]
  /\ RideUnchanged /\ UNCHANGED <<row, hash, mishaps, heard, vouched>>

\* Faulty: the driver's row keeps the status of the ride.
EndRideOnTrip(d) ==
  /\ ride[d] = "on"
  /\ ride' = [ride EXCEPT ![d] = "clear"]
  /\ SetRow(d, "on_trip")
  /\ RideUnchanged /\ UNCHANGED <<hash, mishaps, vouched>>

\* Completed, or cancelled by the driver: one transaction, then Redis.
EndRide(d) ==
  /\ ride[d] = "on"
  /\ ride' = [ride EXCEPT ![d] = "clear"]
  /\ SetRow(d, "online")
  /\ RideUnchanged /\ UNCHANGED <<hash, mishaps, vouched>>

\* Cancelled by the passenger: nothing of the driver's is written.
CancelRide(d) ==
  /\ ride[d] = "on"
  /\ ride' = [ride EXCEPT ![d] = "no"]
  /\ RideUnchanged /\ UNCHANGED <<row, hash, mishaps, heard, vouched>>

Marked(place) == CASE place = "mark" -> "on" [] place = "clear" -> "no" [] OTHER -> place

\* The HSET after the acceptance (status on_trip), and the one after the end.
MarkRide(d) ==
  /\ ride[d] \in {"mark", "clear"}
  /\ ride' = [ride EXCEPT ![d] = Marked(@)]
  /\ \/ Redis!SetActive(d, "") /\ Vouch(d, TRUE) /\ UNCHANGED mishaps
     \/ Mishap /\ UNCHANGED <<hash, vouched>>
  /\ RideUnchanged /\ UNCHANGED <<row, heard>>

-----------------------------------------------------------------------------
HashExpires(d) ==
  /\ Redis!ExpireHash(d)
  /\ vouched' = vouched \ {d}
  /\ UNCHANGED <<row, put, ride, app, sessionVars, routerVars, mishaps, heard, cut>>

\* What a crash keeps from happening: the EXPIRE after an HSET, the ZREM after
\* a row, the HSET of a ride.  A status message that was in hand comes again.
Crash ==
  /\ Mishap
  /\ Break
  /\ hand' = NoMessage /\ at' = "done" /\ routes' = {}
  /\ ride' = [d \in Driver |-> Marked(ride[d])]
  /\ put' = [r \in Request |-> Idle]
  /\ cut' = [d \in Driver |-> cut[d] \cup
       {w \in {"removal", "ttl"} :
          \/ w = "ttl" /\ at \in {"hset", "expire"} /\ hand.of = d
          \/ w = "removal" /\ \E r \in Request :
               put[r] = [of |-> d, to |-> "offline"]}]
  /\ UNCHANGED <<row, redisVars, app, heard, vouched>>

RouterStep == Take \/ SetAside \/ GeoAdd \/ SetPosition \/ Expire \/ RemoveOffline \/ MarkStatus

Resubscribe == \E t \in Topic : Subscribe(t) \/ SubscribeFails(t)

Next ==
  \/ RouterStep \/ Resubscribe
  \/ LoseLink \/ Reconnect \/ Crash
  \/ \E d \in Driver :
       \/ OpenApp(d) \/ CloseApp(d) \/ SendPing(d) \/ HashExpires(d)
       \/ Accept(d) \/ EndRide(d) \/ CancelRide(d) \/ MarkRide(d)
       \/ \E s \in {"online", "offline"} :
            WriteRowFails(d, s) \/ \E r \in Request : WriteRow(r, d, s)
  \/ \E r \in Request : SyncRedis(r) \/ SyncRedisFails(r)

\* The router and paho's connection go on, and an open app sends positions.  For
\* the router this assumes that no second answer to an offer blocks it for good,
\* which OfferRouting shows to be possible.
Fairness ==
  /\ WF_vars(RouterStep)
  /\ WF_vars(Reconnect)
  /\ WF_vars(Resubscribe)
  /\ \A d \in Driver : WF_vars(SendPing(d))

Spec     == Init /\ [][Next]_vars
FairSpec == Spec /\ Fairness

-----------------------------------------------------------------------------
\* A driver who counts as alive although nothing will ever expire (his hash
\* has no TTL) does so because a write vouched for him (he went online, or is on or
\* after a ride), or because a call of his was lost: an offline driver's
\* HSET, which creates such a hash too, never leaves him in drivers:online.
SilentCandidateExplained ==
  \A d \in Driver :
    d \in geo /\ hash[d] = "lasting" /\ ~(hand.of = d /\ hand.what = "gps")
      => d \in vouched \/ cut[d] # {}

\* The two stores agree on who left: a driver whose row is offline, with no
\* request of his between the two writes, is in drivers:online only if a ping
\* was handled after the row was written, or a removal was lost.
OfflineIsRemoved ==
  \A d \in Driver :
    row[d] = "offline" /\ d \in geo
      => \/ d \in heard \/ "removal" \in cut[d]
         \/ \E r \in Request : put[r] = [of |-> d, to |-> "offline"]

\* The news that d is gone is in the session, or his ZREM is next.
FarewellOnItsWay(d) ==
  \/ [of |-> d, what |-> "offline"] \in ToSet(inbox) \cup ToSet(shelf)
  \/ hand = [of |-> d, what |-> "offline"] /\ at = "zrem"

\* At no time is a driver whose app is gone left in drivers:online without the
\* message that will remove him: no late ping, lost connection, crash or
\* resubscription gets past his "offline" once the topic is subscribed to.
GoneIsAnnounced ==
  \A d \in Driver :
    app[d] = "off" /\ d \in geo /\ "status" \in subs
      => FarewellOnItsWay(d) \/ "removal" \in cut[d]

\* Over lost connections, crashes and failing subscriptions, an app that is
\* gone for good is removed for good, however the removal was announced (a
\* clean exit or the will); unless the ZREM failed, or the subscription did on
\* a connection where it was needed, which is not tried again.
GoneIsForgotten ==
  \A d \in Driver :
    <>[](app[d] # "on")
      => \/ <>[](d \notin geo)
         \/ []<>("removal" \in cut[d])
         \/ []<>("status" \in deaf)

\* A driver whose app stays open and who does not ask to go offline is found
\* again and again, whatever was lost before.
WorkingIsFound ==
  \A d \in Driver :
    <>[](/\ app[d] = "on"
         /\ \A r \in Request : put[r] # [of |-> d, to |-> "offline"]
         /\ "tracking" \notin deaf)
      => []<>Findable(d)

=============================================================================
