---------------------------- MODULE OfferExchange ----------------------------
(***************************************************************************)
(* What dispatcher and driver may count on when an order is offered: an     *)
(* offer is decided by one answer of the driver or withdrawn, an answer     *)
(* decides at most one offer, none is lost while an offer stands, and after *)
(* a yes nothing more is offered.  There are no channels, locks, queues or  *)
(* routers here; OfferRouting is shown to implement it.                     *)
(*                                                                          *)
(* It does not promise that the answer was given to the offer it decides:   *)
(* an answer carries the order only, so one that comes late decides the     *)
(* next offer of the same order.                                            *)
(***************************************************************************)
EXTENDS Naturals

CONSTANT Key      \* "driverID:orderID"

VARIABLES
  offer,    \* "never" made, "open", "closed" without a yes, or "accepted"
  unread    \* answers given, by key and yes or no, that nobody has taken or lost

exchangeVars == <<offer, unread>>

Init ==
  /\ offer = [k \in Key |-> "never"]
  /\ unread = [k \in Key |-> [a \in BOOLEAN |-> 0]]

Goes(k, there) == offer' = [offer EXCEPT ![k] = there]

\* One answer less is on its way.
Use(k, a) ==
  /\ unread[k][a] > 0
  /\ unread' = [unread EXCEPT ![k] = [@ EXCEPT ![a] = unread[k][a] - 1]]

Open(k) ==
  /\ offer[k] \in {"never", "closed"}
  /\ Goes(k, "open")
  /\ UNCHANGED unread

\* Nobody answers in time, or the offer could not be sent.
Withdraw(k) ==
  /\ offer[k] = "open"
  /\ Goes(k, "closed")
  /\ UNCHANGED unread

Decide(k, a) ==
  /\ offer[k] = "open"
  /\ Use(k, a)
  /\ Goes(k, IF a THEN "accepted" ELSE "closed")

\* The driver answers an offer he was made, however late and however often.
Reply(k, a) ==
  /\ offer[k] # "never"
  /\ unread' = [unread EXCEPT ![k] = [@ EXCEPT ![a] = unread[k][a] + 1]]
  /\ UNCHANGED offer

\* An answer is thrown away only when no offer stands.
Discard(k, a) ==
  /\ offer[k] # "open"
  /\ Use(k, a)
  /\ UNCHANGED offer

Next ==
  \E k \in Key :
    \/ Open(k) \/ Withdraw(k)
    \/ \E a \in BOOLEAN : Decide(k, a) \/ Reply(k, a) \/ Discard(k, a)

Spec == Init /\ [][Next]_exchangeVars

=============================================================================
