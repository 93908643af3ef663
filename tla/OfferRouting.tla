----------------------------- MODULE OfferRouting -----------------------------
(***************************************************************************)
(* How a driver's answer finds the dispatcher that waits for it.  sendOffer *)
(* registers a channel of capacity one under "driver:order", publishes the  *)
(* offer and waits; the MQTT client's router, one goroutine that handles    *)
(* the incoming messages in order, looks the channel up under offerMu and   *)
(* sends the answer into it without holding the lock.                       *)
(*                                                                          *)
(* A key stands for one driver:order pair; one dispatcher offers it, again  *)
(* in later rounds.  Answers may come late, come twice (QoS 1 delivers at   *)
(* least once, and the app may repeat itself) or not at all.                *)
(***************************************************************************)
EXTENDS Naturals, Sequences, FiniteSets

CONSTANTS
  Key,          \* "driverID:orderID"
  None,
  MaxOffers,    \* bound: times a key is offered (maxDispatchRounds at most)
  MaxAnswers    \* bound: answers to a key that reach the server

ASSUME RoutingAssumption ==
  /\ None \notin BOOLEAN
  /\ MaxOffers \in Nat
  /\ MaxAnswers \in Nat

VARIABLES
  offering,   \* where sendOffer is for the key
  made,       \* channels made for the key so far; the last one is sendOffer's ch
  chan,       \* offerChannels[key], 0 when there is no entry
  buf,        \* what is buffered in each channel, None when it is empty
  outcome,    \* sendOffer's result, once it has one
  mu,         \* who holds offerMu: "free" or "router"
  inbox,      \* messages the router has not taken yet
  routing,    \* where onOfferResponse is
  msg,        \* the message it handles
  target,     \* the channel it found
  answers,    \* answers sent for the key so far
  said        \* the answers the driver has given for the key

offerVars  == <<offering, made, outcome>>
routerVars == <<routing, msg, target>>
driverVars == <<answers, said>>
vars == <<offering, made, chan, buf, outcome, mu, inbox, routing, msg, target, answers, said>>

Message == [key : Key, accepted : BOOLEAN]
Channel == 1 .. MaxOffers

TypeOK ==
  /\ offering \in [Key -> {"idle", "publish", "puback", "wait", "leave", "done"}]
  /\ made \in [Key -> 0 .. MaxOffers]
  /\ chan \in [Key -> 0 .. MaxOffers]
  /\ buf \in [Key -> [Channel -> BOOLEAN \cup {None}]]
  /\ outcome \in [Key -> BOOLEAN]
  /\ mu \in {"free", "router"}
  /\ inbox \in Seq(Message)
  /\ routing \in {"idle", "lookup", "send"}
  /\ msg \in Message \cup {None}
  /\ target \in 0 .. MaxOffers
  /\ routing = "send" => target \in Channel
  /\ answers \in [Key -> 0 .. MaxAnswers]
  /\ said \in [Key -> SUBSET BOOLEAN]

Init ==
  /\ offering = [k \in Key |-> "idle"]
  /\ made = [k \in Key |-> 0]
  /\ chan = [k \in Key |-> 0]
  /\ buf = [k \in Key |-> [c \in Channel |-> None]]
  /\ outcome = [k \in Key |-> FALSE]
  /\ mu = "free"
  /\ inbox = <<>>
  /\ routing = "idle"
  /\ msg = None
  /\ target = 0
  /\ answers = [k \in Key |-> 0]
  /\ said = [k \in Key |-> {}]

-----------------------------------------------------------------------------
(* sendOffer *)

At(k, here, there) ==
  /\ offering[k] = here
  /\ offering' = [offering EXCEPT ![k] = there]

\* Faulty: the channel is not in the map yet when the offer is published.
RegisterTooLate(k) ==
  /\ At(k, "idle", "publish")
  /\ made[k] < MaxOffers
  /\ made' = [made EXCEPT ![k] = @ + 1]
  /\ outcome' = [outcome EXCEPT ![k] = FALSE]
  /\ UNCHANGED <<chan, buf, mu, inbox, routerVars, driverVars>>

\* RegisterOfferChannel, before publishing.
Register(k) ==
  /\ At(k, "idle", "publish")
  /\ made[k] < MaxOffers
  /\ mu = "free"
  /\ made' = [made EXCEPT ![k] = @ + 1]
  /\ chan' = [chan EXCEPT ![k] = made[k] + 1]
  /\ outcome' = [outcome EXCEPT ![k] = FALSE]
  /\ UNCHANGED <<buf, mu, inbox, routerVars, driverVars>>

\* SendOffer hands the message to the client: from now on it may reach the driver,
\* even if the caller is told it failed.
PublishOffer(k) ==
  /\ At(k, "publish", "puback")
  /\ UNCHANGED <<made, outcome, chan, buf, mu, inbox, routerVars, driverVars>>

\* SendOffer returns nil: the broker has acknowledged.
Published(k) ==
  /\ At(k, "puback", "wait")
  /\ UNCHANGED <<made, outcome, chan, buf, mu, inbox, routerVars, driverVars>>

\* Faulty: an error is taken for an answer.
PublishFailsAccepted(k) ==
  /\ At(k, "puback", "leave")
  /\ outcome' = [outcome EXCEPT ![k] = TRUE]
  /\ UNCHANGED <<made, chan, buf, mu, inbox, routerVars, driverVars>>

\* SendOffer returns an error: no acknowledgement within 5 s, or the client's own.
PublishFails(k) ==
  /\ At(k, "puback", "leave")
  /\ UNCHANGED <<made, outcome, chan, buf, mu, inbox, routerVars, driverVars>>

\* accepted := <-ch
Receive(k) ==
  /\ At(k, "wait", "leave")
  /\ buf[k][made[k]] # None
  /\ outcome' = [outcome EXCEPT ![k] = buf[k][made[k]]]
  /\ buf' = [buf EXCEPT ![k][made[k]] = None]
  /\ UNCHANGED <<made, chan, mu, inbox, routerVars, driverVars>>

\* Faulty: a timed out offer is abandoned without UnregisterOfferChannel.
OfferTimesOutNoDefer(k) ==
  /\ At(k, "wait", "idle")
  /\ UNCHANGED <<made, outcome, chan, buf, mu, inbox, routerVars, driverVars>>

\* time.After(offerTimeoutSec): select may take it even when an answer is there.
OfferTimesOut(k) ==
  /\ At(k, "wait", "leave")
  /\ UNCHANGED <<made, outcome, chan, buf, mu, inbox, routerVars, driverVars>>

\* The deferred UnregisterOfferChannel; an accepted offer ends the dispatch.
Unregister(k) ==
  /\ At(k, "leave", IF outcome[k] THEN "done" ELSE "idle")
  /\ mu = "free"
  /\ chan' = [chan EXCEPT ![k] = 0]
  /\ UNCHANGED <<made, outcome, buf, mu, inbox, routerVars, driverVars>>

-----------------------------------------------------------------------------
(* onOfferResponse, run by the router for one message at a time *)

\* The next message, and <-c.offerMu.
TakeAnswer ==
  /\ routing = "idle"
  /\ inbox # <<>>
  /\ mu = "free"
  /\ mu' = "router"
  /\ msg' = Head(inbox)
  /\ inbox' = Tail(inbox)
  /\ routing' = "lookup"
  /\ UNCHANGED <<offerVars, chan, buf, target, driverVars>>

\* Faulty: the lock is kept for the send.
FindChannelLocked ==
  /\ routing = "lookup"
  /\ chan[msg.key] # 0
  /\ target' = chan[msg.key]
  /\ routing' = "send"
  /\ UNCHANGED <<offerVars, chan, buf, mu, inbox, msg, driverVars>>

\* Faulty: sends whether the key exists or not; the zero channel is nil.
FindChannelUnchecked ==
  /\ routing = "lookup"
  /\ target' = chan[msg.key]
  /\ mu' = "free"
  /\ routing' = "send"
  /\ UNCHANGED <<offerVars, chan, buf, inbox, msg, driverVars>>

\* The lookup finds a channel; the lock is released before the send.
FindChannel ==
  /\ routing = "lookup"
  /\ chan[msg.key] # 0
  /\ target' = chan[msg.key]
  /\ mu' = "free"
  /\ routing' = "send"
  /\ UNCHANGED <<offerVars, chan, buf, inbox, msg, driverVars>>

RouterDone ==
  /\ routing' = "idle"
  /\ msg' = None
  /\ target' = 0

\* The lookup finds none: nobody waits for this answer.
DropAnswer ==
  /\ routing = "lookup"
  /\ chan[msg.key] = 0
  /\ mu' = "free"
  /\ RouterDone
  /\ UNCHANGED <<offerVars, chan, buf, inbox, driverVars>>

\* Faulty: the channel is unbuffered, a send needs the receiver at its select.
HasRoomUnbuffered(k, c) == buf[k][c] = None /\ offering[k] = "wait" /\ c = made[k]

\* The c-th channel of a key, made with a capacity of one, takes another answer.
HasRoom(k, c) == buf[k][c] = None

\* ch <- resp.Accepted waits until the channel of capacity one has room.
SendAnswer ==
  /\ routing = "send"
  /\ HasRoom(msg.key, target)
  /\ buf' = [buf EXCEPT ![msg.key][target] = msg.accepted]
  /\ RouterDone
  /\ UNCHANGED <<offerVars, chan, mu, inbox, driverVars>>

-----------------------------------------------------------------------------
(* The driver's app, behind the broker *)

\* An answer to an offer that was published, at any later time.
Answer(k) ==
  /\ made[k] > 1 \/ (made[k] = 1 /\ offering[k] # "publish")
  /\ answers[k] < MaxAnswers
  /\ \E a \in BOOLEAN :
       /\ inbox' = Append(inbox, [key |-> k, accepted |-> a])
       /\ said' = [said EXCEPT ![k] = @ \cup {a}]
  /\ answers' = [answers EXCEPT ![k] = @ + 1]
  /\ UNCHANGED <<offerVars, chan, buf, mu, routerVars>>

-----------------------------------------------------------------------------
Offer(k) ==
  \/ Register(k) \/ PublishOffer(k) \/ Published(k) \/ PublishFails(k)
  \/ Receive(k) \/ OfferTimesOut(k) \/ Unregister(k)

Route == TakeAnswer \/ FindChannel \/ DropAnswer \/ SendAnswer

Next == Route \/ \E k \in Key : Offer(k) \/ Answer(k)

Spec == Init /\ [][Next]_vars

\* sendOffer's goroutine and the router's run whenever they can; the driver need
\* not answer.
Fairness == WF_vars(Route) /\ \A k \in Key : WF_vars(Offer(k))

FairSpec == Spec /\ Fairness

-----------------------------------------------------------------------------
(* What holds *)

Offering == {"publish", "puback", "wait"}

\* An accepted offer is one the driver accepted: whatever is late, repeated or
\* left in an old channel, sendOffer returns true only after a yes for this order.
AcceptIsTheDrivers ==
  \A k \in Key : outcome[k] => TRUE \in said[k]

\* dispatch.go:136, "Register channel before publishing (avoid race)": the router
\* never drops an answer while sendOffer is still interested in one.
NoAnswerDropped ==
  [][ \A k \in Key : DropAnswer /\ msg.key = k => offering[k] \notin Offering ]_vars

\* offerChannels holds exactly the channels of the offers under way: every return of
\* sendOffer, on whichever path, removes its own entry and no other.
NoChannelLeaked ==
  \A k \in Key :
    chan[k] = IF offering[k] \in Offering \cup {"leave"} THEN made[k] ELSE 0

\* The router is at ch <- resp.Accepted and ch is full.
RouterBlocked == routing = "send" /\ ~HasRoom(msg.key, target)

\* The capacity of one is what it takes for a single answer: the router blocks only
\* on a key the driver has answered twice.
BlockedOnlyOnSecond == RouterBlocked => answers[msg.key] >= 2

\* sendOffer always returns, even while the router is blocked: the router does not
\* keep offerMu while it sends.
OfferReturns ==
  \A k \in Key : offering[k] = "publish" ~> offering[k] \in {"idle", "done"}

\* What sendOffer and its channels look like from outside: the offer stands until
\* sendOffer has its result, ...
OfferState(k) ==
  CASE offering[k] = "idle"             -> IF made[k] = 0 THEN "never" ELSE "closed"
    [] offering[k] \in Offering         -> "open"
    [] offering[k] \in {"leave", "done"} -> IF outcome[k] THEN "accepted" ELSE "closed"

\* ... and an answer is under way in the queue, in the router's hand or in a channel.
Unread(k, a) ==
  LET answer == [key |-> k, accepted |-> a]
  IN  Cardinality({i \in 1 .. Len(inbox) : inbox[i] = answer})
      + (IF routing # "idle" /\ msg = answer THEN 1 ELSE 0)
      + Cardinality({c \in Channel : buf[k][c] = a})

\* OfferRouting implements OfferExchange: TripDispatch may treat sendOffer as one wait
\* that ends accepted or not.
Exchange == INSTANCE OfferExchange WITH
              offer <- [k \in Key |-> OfferState(k)],
              unread <- [k \in Key |-> [a \in BOOLEAN |-> Unread(k, a)]]
ImplementsExchange == Exchange!Spec

-----------------------------------------------------------------------------
(* What the documents say and the code does not do *)

\* docs/14-mqtt-architecture.md:983, "Channel already consumed or timed out;
\* discard": the router gets past every answer.
RouterGoesOn == routing = "send" ~> routing = "idle"

=============================================================================
