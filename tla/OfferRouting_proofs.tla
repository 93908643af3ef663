------------------------- MODULE OfferRouting_proofs -------------------------
(***************************************************************************)
(* Offers and answers, for any set of driver:order pairs and any number of  *)
(* offers and answers: TypeOK, AcceptIsTheDrivers, NoChannelLeaked,         *)
(* NoAnswerDropped and BlockedOnlyOnSecond, and that OfferRouting           *)
(* implements OfferExchange.                                                *)
(***************************************************************************)
EXTENDS OfferRouting, FiniteSetTheorems, TLAPS

USE DEF offerVars, routerVars, driverVars

-----------------------------------------------------------------------------
(* The invariant *)

\* The router holds a message while it works, the lock while it looks up, and a
\* channel it found.
RouterOK ==
  /\ routing # "idle" => msg \in Message
  /\ mu = "router" <=> routing = "lookup"

\* Made and registered go together.
ChannelsOK ==
  /\ NoChannelLeaked
  /\ \A k \in Key : offering[k] \in Offering \cup {"leave"} => made[k] \in Channel

\* Whatever is on its way, the driver has said.
SaidOK ==
  /\ \A i \in 1 .. Len(inbox) : inbox[i].accepted \in said[inbox[i].key]
  /\ routing # "idle" => msg.accepted \in said[msg.key]
  /\ \A k \in Key, c \in Channel : buf[k][c] # None => buf[k][c] \in said[k]
  /\ AcceptIsTheDrivers

OfferInv == TypeOK /\ RouterOK /\ ChannelsOK /\ SaidOK

LEMMA InitOffer == Init => OfferInv
<1> SUFFICES ASSUME Init PROVE OfferInv
  OBVIOUS
<1> USE RoutingAssumption
<1>1. TypeOK
  BY DEF Init, TypeOK, Channel
<1>2. RouterOK /\ ChannelsOK /\ SaidOK
  BY DEF Init, RouterOK, ChannelsOK, NoChannelLeaked, SaidOK, AcceptIsTheDrivers, Offering
<1> QED BY <1>1, <1>2 DEF OfferInv

\* sendOffer's steps.
LEMMA OfferStep ==
  ASSUME OfferInv, NEW k \in Key, Offer(k) PROVE OfferInv'
<1> USE RoutingAssumption
<1> USE DEF OfferInv, At
<1>1. CASE Register(k)
  <2>1. made[k] + 1 \in Channel /\ made[k] \in Nat
    BY <1>1 DEF Register, TypeOK, Channel
  <2>2. TypeOK'
    BY <1>1, <2>1 DEF Register, TypeOK, Channel
  <2>3. ChannelsOK'
    BY <1>1, <2>1 DEF Register, TypeOK, ChannelsOK, NoChannelLeaked, Offering
  <2>4. RouterOK' /\ SaidOK'
    BY <1>1 DEF Register, TypeOK, RouterOK, SaidOK, AcceptIsTheDrivers
  <2> QED BY <2>2, <2>3, <2>4
<1>2. CASE PublishOffer(k) \/ Published(k) \/ PublishFails(k) \/ OfferTimesOut(k)
  <2>1. TypeOK'
    BY <1>2 DEF PublishOffer, Published, PublishFails, OfferTimesOut, TypeOK
  <2>2. ChannelsOK'
    BY <1>2 DEF PublishOffer, Published, PublishFails, OfferTimesOut, TypeOK, ChannelsOK, NoChannelLeaked, Offering
  <2>3. RouterOK' /\ SaidOK'
    BY <1>2 DEF PublishOffer, Published, PublishFails, OfferTimesOut, RouterOK, SaidOK, AcceptIsTheDrivers
  <2> QED BY <2>1, <2>2, <2>3
<1>3. CASE Receive(k)
  <2>1. made[k] \in Channel
    BY <1>3 DEF Receive, ChannelsOK, Offering
  <2>2. buf[k][made[k]] \in BOOLEAN /\ buf[k][made[k]] \in said[k]
    BY <1>3, <2>1 DEF Receive, TypeOK, SaidOK
  <2>3. TypeOK'
    <3>1. outcome' \in [Key -> BOOLEAN]
      BY <1>3, <2>2 DEF Receive, TypeOK
    <3>2. buf' \in [Key -> [Channel -> BOOLEAN \cup {None}]]
      BY <1>3, <2>1 DEF Receive, TypeOK
    <3>3. offering' \in [Key -> {"idle", "publish", "puback", "wait", "leave", "done"}]
      BY <1>3 DEF Receive, TypeOK
    <3> QED BY <1>3, <3>1, <3>2, <3>3 DEF Receive, TypeOK
  <2>4. ChannelsOK'
    BY <1>3 DEF Receive, TypeOK, ChannelsOK, NoChannelLeaked, Offering
  <2>5. RouterOK'
    BY <1>3 DEF Receive, RouterOK
  <2>6. AcceptIsTheDrivers'
    <3>1. UNCHANGED said /\ outcome' = [outcome EXCEPT ![k] = buf[k][made[k]]]
      BY <1>3 DEF Receive
    <3>2. outcome'[k] => TRUE \in said[k]
      BY <2>2, <3>1 DEF TypeOK
    <3> QED BY <3>1, <3>2 DEF SaidOK, AcceptIsTheDrivers, TypeOK
  <2>7. \A l \in Key, c \in Channel : buf'[l][c] # None => buf'[l][c] \in said'[l]
    BY <1>3, <2>1 DEF Receive, TypeOK, SaidOK
  <2>8. SaidOK'
    BY <1>3, <2>6, <2>7 DEF Receive, SaidOK
  <2> QED BY <2>3, <2>4, <2>5, <2>8
<1>4. CASE Unregister(k)
  <2>1. TypeOK'
    BY <1>4 DEF Unregister, TypeOK
  <2>2. ChannelsOK'
    BY <1>4 DEF Unregister, TypeOK, ChannelsOK, NoChannelLeaked, Offering
  <2>3. RouterOK' /\ SaidOK'
    BY <1>4 DEF Unregister, RouterOK, SaidOK, AcceptIsTheDrivers
  <2> QED BY <2>1, <2>2, <2>3
<1> QED BY <1>1, <1>2, <1>3, <1>4 DEF Offer

\* The router's.
LEMMA RouteStep ==
  ASSUME OfferInv, Route PROVE OfferInv'
<1> USE RoutingAssumption
<1> USE DEF OfferInv
<1>1. CASE TakeAnswer
  <2>1. inbox \in Seq(Message) /\ inbox # <<>> /\ msg' = inbox[1] /\ inbox' = Tail(inbox)
    BY <1>1 DEF TakeAnswer, TypeOK
  <2>2. /\ msg' \in Message /\ inbox' \in Seq(Message) /\ 1 \in 1 .. Len(inbox)
        /\ \A i \in 1 .. Len(inbox') : i + 1 \in 1 .. Len(inbox) /\ inbox'[i] = inbox[i + 1]
    BY <2>1
  <2>3. TypeOK'
    BY <1>1, <2>2 DEF TakeAnswer, TypeOK
  <2>4. ChannelsOK' /\ RouterOK'
    BY <1>1, <2>2 DEF TakeAnswer, ChannelsOK, NoChannelLeaked, RouterOK
  <2>5. SaidOK'
    BY <1>1, <2>1, <2>2 DEF TakeAnswer, SaidOK, AcceptIsTheDrivers
  <2> QED BY <2>3, <2>4, <2>5
<1>2. CASE FindChannel
  <2>1. msg \in Message
    BY <1>2 DEF FindChannel, RouterOK
  <2>2. chan[msg.key] \in Channel
    BY <1>2, <2>1 DEF FindChannel, TypeOK, Channel, Message
  <2>3. TypeOK'
    BY <1>2, <2>2 DEF FindChannel, TypeOK, Channel
  <2> QED BY <1>2, <2>3 DEF FindChannel, ChannelsOK, NoChannelLeaked, RouterOK, SaidOK, AcceptIsTheDrivers
<1>3. CASE DropAnswer
  <2>1. TypeOK'
    BY <1>3 DEF DropAnswer, RouterDone, TypeOK
  <2> QED BY <1>3, <2>1 DEF DropAnswer, RouterDone, ChannelsOK, NoChannelLeaked, RouterOK, SaidOK, AcceptIsTheDrivers
<1>4. CASE SendAnswer
  <2>1. msg.key \in Key /\ msg.accepted \in BOOLEAN /\ target \in Channel /\ msg.accepted \in said[msg.key]
    BY <1>4 DEF SendAnswer, HasRoom, RouterOK, Message, TypeOK, SaidOK
  <2>2. buf' = [buf EXCEPT ![msg.key] = [@ EXCEPT ![target] = msg.accepted]]
    BY <1>4 DEF SendAnswer, HasRoom
  <2>3. buf' \in [Key -> [Channel -> BOOLEAN \cup {None}]]
    BY <2>1, <2>2 DEF TypeOK
  <2>4. \A l \in Key, c \in Channel : buf'[l][c] # None => buf'[l][c] \in said[l]
    BY <2>1, <2>2 DEF TypeOK, SaidOK
  <2>5. TypeOK'
    BY <1>4, <2>3 DEF SendAnswer, RouterDone, TypeOK
  <2>6. ChannelsOK' /\ RouterOK'
    BY <1>4 DEF SendAnswer, RouterDone, ChannelsOK, NoChannelLeaked, RouterOK
  <2>7. SaidOK'
    BY <1>4, <2>4 DEF SendAnswer, RouterDone, SaidOK, AcceptIsTheDrivers
  <2> QED BY <2>5, <2>6, <2>7
<1> QED BY <1>1, <1>2, <1>3, <1>4 DEF Route

\* The driver's: what he says he has said.
LEMMA AnswerStep ==
  ASSUME OfferInv, NEW k \in Key, Answer(k) PROVE OfferInv'
<1> USE RoutingAssumption
<1> USE DEF OfferInv
<1>1. PICK a \in BOOLEAN : /\ inbox' = Append(inbox, [key |-> k, accepted |-> a])
                           /\ said' = [said EXCEPT ![k] = @ \cup {a}]
  BY DEF Answer
<1> DEFINE m == [key |-> k, accepted |-> a]
<1>2. m \in Message /\ m.key = k /\ m.accepted = a
  BY DEF Message
<1> HIDE DEF m
<1>3. inbox' = Append(inbox, m) /\ inbox \in Seq(Message)
  BY <1>1 DEF m, TypeOK
<1>4. /\ inbox' \in Seq(Message) /\ Len(inbox') = Len(inbox) + 1 /\ Len(inbox) \in Nat
      /\ inbox'[Len(inbox) + 1] = m
      /\ \A i \in 1 .. Len(inbox) : inbox'[i] = inbox[i] /\ inbox[i] \in Message
  BY <1>2, <1>3
<1>5. \A l \in Key : said[l] \subseteq said'[l] /\ a \in said'[k]
  BY <1>1 DEF TypeOK
<1>6. said' \in [Key -> SUBSET BOOLEAN]
  BY <1>1 DEF TypeOK
<1>7. TypeOK'
  <2>1. answers' \in [Key -> 0 .. MaxAnswers]
    BY DEF Answer, TypeOK
  <2> QED BY <1>4, <1>6, <2>1 DEF Answer, TypeOK
<1>8. ChannelsOK' /\ RouterOK'
  BY DEF Answer, ChannelsOK, NoChannelLeaked, RouterOK
<1>9. \A i \in 1 .. Len(inbox') : inbox'[i].accepted \in said'[inbox'[i].key]
  <2> TAKE i \in 1 .. Len(inbox')
  <2>1. CASE i \in 1 .. Len(inbox)
    BY <1>4, <1>5, <2>1 DEF SaidOK, Message
  <2>2. CASE i = Len(inbox) + 1
    BY <1>2, <1>4, <1>5, <2>2
  <2> QED BY <1>4, <2>1, <2>2
<1>10. SaidOK'
  <2>1. routing # "idle" => msg.key \in Key
    BY DEF RouterOK, Message
  <2> QED BY <1>5, <1>9, <2>1 DEF Answer, SaidOK, AcceptIsTheDrivers
<1> QED BY <1>7, <1>8, <1>10

LEMMA OfferInvStep == OfferInv /\ [Next]_vars => OfferInv'
<1> SUFFICES ASSUME OfferInv, [Next]_vars PROVE OfferInv'
  OBVIOUS
<1>1. CASE UNCHANGED vars
  BY <1>1 DEF vars, OfferInv, TypeOK, RouterOK, ChannelsOK, NoChannelLeaked, SaidOK, AcceptIsTheDrivers
<1> QED BY <1>1, OfferStep, RouteStep, AnswerStep DEF Next

LEMMA OfferInvariant == Spec => []OfferInv
<1>1. Init => OfferInv
  BY InitOffer
<1> QED BY <1>1, OfferInvStep, PTL DEF Spec

-----------------------------------------------------------------------------
(* The theorems *)

\* Every variable keeps its type, in particular the router never sends into a channel
\* that was not made.
THEOREM Typed == Spec => []TypeOK
<1>1. OfferInv => TypeOK
  BY DEF OfferInv
<1> QED BY <1>1, OfferInvariant, PTL

\* sendOffer returns true only after the driver said yes to this order, with answers
\* late, repeated and left over in old channels.
THEOREM AcceptedByDriver == Spec => []AcceptIsTheDrivers
<1>1. OfferInv => AcceptIsTheDrivers
  BY DEF OfferInv, SaidOK
<1> QED BY <1>1, OfferInvariant, PTL

\* offerChannels has the entries of the offers under way and no others, on every path
\* through sendOffer.
THEOREM ChannelsUnregistered == Spec => []NoChannelLeaked
<1>1. OfferInv => NoChannelLeaked
  BY DEF OfferInv, ChannelsOK
<1> QED BY <1>1, OfferInvariant, PTL

\* "Register channel before publishing (avoid race)" (dispatch.go:136): no answer is
\* dropped while sendOffer may still want one.
THEOREM NoneDropped == Spec => NoAnswerDropped
<1>1. OfferInv /\ [Next]_vars
        => [\A k \in Key : DropAnswer /\ msg.key = k => offering[k] \notin Offering]_vars
  BY DEF OfferInv, ChannelsOK, NoChannelLeaked, DropAnswer, Channel, Offering
<1> QED BY <1>1, OfferInvariant, PTL DEF Spec, NoAnswerDropped

-----------------------------------------------------------------------------
(* Counting answers *)

Reply(k, a) == [key |-> k, accepted |-> a]

\* Where a message is in a queue.
Places(q, m) == {i \in 1 .. Len(q) : q[i] = m}

LEMMA PlacesFinite ==
  ASSUME NEW q \in Seq(Message), NEW m
  PROVE  IsFiniteSet(Places(q, m)) /\ Cardinality(Places(q, m)) \in Nat
<1>1. IsFiniteSet(1 .. Len(q))
  BY FS_Interval
<1> QED BY <1>1, FS_Subset, FS_CardinalityType DEF Places

\* Taking the first message takes one off its count, and off no other.
LEMMA TailCount ==
  ASSUME NEW q \in Seq(Message), q # <<>>, NEW m
  PROVE  Cardinality(Places(Tail(q), m)) = IF q[1] = m THEN Cardinality(Places(q, m)) - 1
                                           ELSE Cardinality(Places(q, m))
<1> DEFINE S == Places(q, m) \ {1}
           T == Places(Tail(q), m)
           f == [i \in T |-> i + 1]
<1>1. /\ Tail(q) \in Seq(Message) /\ Len(q) \in Nat /\ Len(q) >= 1 /\ Len(Tail(q)) = Len(q) - 1
      /\ \A i \in 1 .. Len(Tail(q)) : Tail(q)[i] = q[i + 1]
  OBVIOUS
<1>2. \A i \in T : i \in Nat /\ i + 1 \in S
  BY <1>1 DEF Places
<1>3. \A j \in S : j \in Nat /\ j - 1 \in T /\ (j - 1) + 1 = j
  BY <1>1 DEF Places
<1> HIDE DEF S, T
<1>4. f \in Bijection(T, S)
  <2>1. f \in [T -> S]
    BY <1>2
  <2>2. \A a, b \in T : f[a] = f[b] => a = b
    BY <1>2
  <2>3. \A t \in S : \E s \in T : f[s] = t
    BY <1>3
  <2>4. DOMAIN f = T
    OBVIOUS
  <2> HIDE DEF f
  <2> QED BY <2>1, <2>2, <2>3, <2>4 DEF Bijection, Injection, Surjection, IsInjective
<1>5. IsFiniteSet(T) /\ Cardinality(S) = Cardinality(T)
  BY <1>1, <1>4, PlacesFinite, FS_Bijection DEF ExistsBijection, T
<1>6. IsFiniteSet(Places(q, m)) /\ Cardinality(Places(q, m)) \in Nat
  BY PlacesFinite
<1>7. CASE q[1] = m
  <2>1. 1 \in Places(q, m)
    BY <1>1, <1>7 DEF Places
  <2>2. Cardinality(S) = Cardinality(Places(q, m)) - 1
    BY <1>6, <2>1, FS_RemoveElement DEF S
  <2> QED BY <1>5, <1>7, <2>2 DEF T
<1>8. CASE q[1] # m
  <2>1. 1 \notin Places(q, m)
    BY <1>8 DEF Places
  <2>2. S = Places(q, m)
    BY <2>1 DEF S
  <2> QED BY <1>5, <1>8, <2>2 DEF T
<1> QED BY <1>7, <1>8

\* Appending one adds one to its count, and to no other.
LEMMA AppendCount ==
  ASSUME NEW q \in Seq(Message), NEW n \in Message, NEW m
  PROVE  Cardinality(Places(Append(q, n), m)) = IF n = m THEN Cardinality(Places(q, m)) + 1
                                                ELSE Cardinality(Places(q, m))
<1> DEFINE last == Len(q) + 1
<1>1. /\ Len(q) \in Nat /\ Len(Append(q, n)) = last /\ Append(q, n)[last] = n
      /\ \A i \in 1 .. Len(q) : Append(q, n)[i] = q[i]
  OBVIOUS
<1>2. Places(Append(q, n), m) = IF n = m THEN Places(q, m) \cup {last} ELSE Places(q, m)
  BY <1>1 DEF Places
<1>3. last \notin Places(q, m)
  BY <1>1 DEF Places
<1> QED BY <1>2, <1>3, PlacesFinite, FS_AddElement

\* The three places an answer can be in.
Queued(k, a)  == Cardinality(Places(inbox, Reply(k, a)))
InHand(k, a)  == IF routing # "idle" /\ msg = Reply(k, a) THEN 1 ELSE 0
Holding(k, a) == {c \in Channel : buf[k][c] = a}

LEMMA UnreadParts ==
  ASSUME TypeOK, NEW k \in Key, NEW a \in BOOLEAN
  PROVE  /\ Unread(k, a) = Queued(k, a) + InHand(k, a) + Cardinality(Holding(k, a))
         /\ Queued(k, a) \in Nat /\ InHand(k, a) \in 0 .. 1
         /\ IsFiniteSet(Holding(k, a)) /\ Cardinality(Holding(k, a)) \in Nat
         /\ Unread(k, a) \in Nat
<1>1. Queued(k, a) \in Nat
  BY PlacesFinite DEF TypeOK, Queued
<1>2. IsFiniteSet(Holding(k, a)) /\ Cardinality(Holding(k, a)) \in Nat
  <2>1. IsFiniteSet(Channel)
    BY RoutingAssumption, FS_Interval DEF Channel
  <2> QED BY <2>1, FS_Subset, FS_CardinalityType DEF Holding
<1>3. InHand(k, a) \in 0 .. 1
  BY DEF InHand
<1>4. Unread(k, a) = Queued(k, a) + InHand(k, a) + Cardinality(Holding(k, a))
  BY DEF Unread, Queued, Places, Reply, InHand, Holding
<1> QED BY <1>1, <1>2, <1>3, <1>4

LEMMA UnreadAfter ==
  ASSUME NEW k \in Key, NEW a \in BOOLEAN
  PROVE  Unread(k, a)' = Queued(k, a)' + InHand(k, a)' + Cardinality(Holding(k, a)')
BY DEF Unread, Queued, Places, Reply, InHand, Holding

LEMMA ReplyIsOne ==
  ASSUME NEW k \in Key, NEW l \in Key, NEW a \in BOOLEAN, NEW b \in BOOLEAN
  PROVE  Reply(l, b) = Reply(k, a) <=> l = k /\ b = a
<1>1. /\ Reply(l, b).key = l /\ Reply(l, b).accepted = b
      /\ Reply(k, a).key = k /\ Reply(k, a).accepted = a
  BY DEF Reply
<1> QED BY <1>1

\* How a step changes what is under way.
Same        == \A k \in Key, a \in BOOLEAN : Unread(k, a)' = Unread(k, a)
OneMore(k, a) ==
  \A l \in Key, b \in BOOLEAN :
    Unread(l, b)' = IF l = k /\ b = a THEN Unread(l, b) + 1 ELSE Unread(l, b)
OneLess(k, a) ==
  /\ Unread(k, a) > 0
  /\ \A l \in Key, b \in BOOLEAN :
       Unread(l, b)' = IF l = k /\ b = a THEN Unread(l, b) - 1 ELSE Unread(l, b)

LEMMA StillUnread ==
  ASSUME UNCHANGED <<inbox, buf>>,
         UNCHANGED <<routing, msg>> \/ (routing = "lookup" /\ routing' = "send" /\ UNCHANGED msg)
  PROVE  Same
BY DEF Same, Unread

\* sendOffer takes its result out of its channel.
LEMMA ReceiveUses ==
  ASSUME OfferInv, NEW k \in Key, Receive(k)
  PROVE  outcome'[k] \in BOOLEAN /\ OneLess(k, outcome'[k])
<1> USE RoutingAssumption
<1> DEFINE c == made[k]
           a == buf[k][made[k]]
<1>1. TypeOK /\ c \in Channel /\ a \in BOOLEAN
  BY DEF OfferInv, TypeOK, ChannelsOK, Receive, At, Offering
<1>2. outcome'[k] = a
  BY <1>1 DEF Receive, TypeOK
<1>3. buf' = [buf EXCEPT ![k] = [@ EXCEPT ![c] = None]] /\ UNCHANGED <<inbox, routing, msg>>
  BY DEF Receive
<1> HIDE DEF a, c
<1>5. ASSUME NEW l \in Key, NEW b \in BOOLEAN
      PROVE  /\ Queued(l, b)' = Queued(l, b) /\ InHand(l, b)' = InHand(l, b)
             /\ Holding(l, b)' = IF l = k /\ b = a THEN Holding(l, b) \ {c} ELSE Holding(l, b)
  <2>1. Queued(l, b)' = Queued(l, b) /\ InHand(l, b)' = InHand(l, b)
    BY <1>3 DEF Queued, InHand
  <2>2. \A e \in Channel : buf'[l][e] = IF l = k /\ e = c THEN None ELSE buf[l][e]
    BY <1>1, <1>3 DEF TypeOK
  <2>3. buf[k][c] = a
    BY DEF a, c
  <2> QED BY <1>1, <2>1, <2>2, <2>3 DEF Holding
<1>6. c \in Holding(k, a)
  BY <1>1 DEF Holding, a, c
<1>7. Cardinality(Holding(k, a) \ {c}) = Cardinality(Holding(k, a)) - 1
  BY <1>1, <1>6, UnreadParts, FS_RemoveElement
<1>8. Cardinality(Holding(k, a)) > 0
  BY <1>1, <1>6, UnreadParts, FS_EmptySet
<1>9. Unread(k, a) > 0
  BY <1>1, <1>8, UnreadParts
<1>10. ASSUME NEW l \in Key, NEW b \in BOOLEAN
       PROVE  Unread(l, b)' = IF l = k /\ b = a THEN Unread(l, b) - 1 ELSE Unread(l, b)
  <2>1. Unread(l, b) = Queued(l, b) + InHand(l, b) + Cardinality(Holding(l, b))
    BY <1>1, UnreadParts
  <2>2. Unread(l, b)' = Queued(l, b)' + InHand(l, b)' + Cardinality(Holding(l, b)')
    BY UnreadAfter
  <2>3. Queued(l, b) \in Nat /\ InHand(l, b) \in 0 .. 1 /\ Cardinality(Holding(l, b)) \in Nat
    BY <1>1, UnreadParts
  <2>4. CASE l = k /\ b = a
    <3>1. Cardinality(Holding(l, b)') = Cardinality(Holding(l, b)) - 1
      BY <1>5, <1>7, <2>4
    <3> QED BY <1>5, <2>1, <2>2, <2>3, <2>4, <3>1
  <2>5. CASE ~(l = k /\ b = a)
    <3>1. Holding(l, b)' = Holding(l, b)
      BY <1>5, <2>5
    <3> QED BY <1>5, <2>1, <2>2, <2>5, <3>1
  <2> QED BY <2>4, <2>5
<1> QED BY <1>1, <1>2, <1>9, <1>10 DEF OneLess

\* The router moves an answer from one place to the next.
LEMMA TakeKeeps == ASSUME OfferInv, TakeAnswer PROVE Same
<1>1. /\ TypeOK /\ inbox \in Seq(Message) /\ inbox # <<>> /\ routing = "idle" /\ routing' # "idle"
      /\ msg' = inbox[1] /\ inbox' = Tail(inbox) /\ UNCHANGED buf
  BY DEF OfferInv, TypeOK, TakeAnswer
<1> SUFFICES ASSUME NEW k \in Key, NEW a \in BOOLEAN PROVE Unread(k, a)' = Unread(k, a)
  BY DEF Same
<1>2. Queued(k, a)' = IF inbox[1] = Reply(k, a) THEN Queued(k, a) - 1 ELSE Queued(k, a)
  BY <1>1, TailCount DEF Queued, Reply
<1>3. InHand(k, a) = 0 /\ InHand(k, a)' = IF inbox[1] = Reply(k, a) THEN 1 ELSE 0
  BY <1>1 DEF InHand, Reply
<1>4. Holding(k, a)' = Holding(k, a)
  BY <1>1 DEF Holding
<1>5. Unread(k, a)' = Queued(k, a)' + InHand(k, a)' + Cardinality(Holding(k, a)')
  BY UnreadAfter
<1> QED BY <1>1, <1>2, <1>3, <1>4, <1>5, UnreadParts

LEMMA SendKeeps == ASSUME OfferInv, SendAnswer PROVE Same
<1> USE RoutingAssumption
<1> DEFINE k == msg.key
           a == msg.accepted
<1>1. /\ TypeOK /\ routing # "idle" /\ routing' = "idle" /\ k \in Key /\ a \in BOOLEAN
      /\ target \in Channel /\ buf[k][target] = None /\ msg = Reply(k, a)
      /\ buf' = [buf EXCEPT ![k] = [@ EXCEPT ![target] = a]] /\ UNCHANGED inbox
  BY DEF OfferInv, RouterOK, TypeOK, Message, SendAnswer, HasRoom, RouterDone, Reply
<1> HIDE DEF k, a
<1> SUFFICES ASSUME NEW l \in Key, NEW b \in BOOLEAN PROVE Unread(l, b)' = Unread(l, b)
  BY DEF Same
<1>2. Queued(l, b)' = Queued(l, b) /\ InHand(l, b)' = 0
  BY <1>1 DEF Queued, InHand
<1>3. Reply(l, b) = Reply(k, a) <=> l = k /\ b = a
  BY <1>1, ReplyIsOne
<1>4. InHand(l, b) = IF l = k /\ b = a THEN 1 ELSE 0
  BY <1>1, <1>3 DEF InHand
<1>5. \A e \in Channel : buf'[l][e] = IF l = k /\ e = target THEN a ELSE buf[l][e]
  BY <1>1 DEF TypeOK
<1>6. Holding(l, b)' = IF l = k /\ b = a THEN Holding(l, b) \cup {target} ELSE Holding(l, b)
  BY <1>1, <1>5 DEF Holding
<1>7. l = k => target \notin Holding(l, b)
  BY <1>1 DEF Holding
<1>8. Unread(l, b)' = Queued(l, b)' + InHand(l, b)' + Cardinality(Holding(l, b)')
  BY UnreadAfter
<1>9. CASE l = k /\ b = a
  <2>1. Cardinality(Holding(l, b)') = Cardinality(Holding(l, b)) + 1
    <3>1. IsFiniteSet(Holding(l, b)) /\ target \notin Holding(l, b)
      BY <1>1, <1>7, <1>9, UnreadParts
    <3> QED BY <1>6, <1>9, <3>1, FS_AddElement
  <2> QED BY <1>1, <1>2, <1>4, <1>8, <1>9, <2>1, UnreadParts
<1>10. CASE ~(l = k /\ b = a)
  BY <1>1, <1>2, <1>4, <1>6, <1>8, <1>10, UnreadParts
<1> QED BY <1>9, <1>10

\* An answer without a channel to go to is gone.
LEMMA DropUses ==
  ASSUME OfferInv, DropAnswer
  PROVE  msg.key \in Key /\ msg.accepted \in BOOLEAN /\ OneLess(msg.key, msg.accepted)
<1> DEFINE k == msg.key
           a == msg.accepted
<1>1. /\ TypeOK /\ routing # "idle" /\ routing' = "idle" /\ k \in Key /\ a \in BOOLEAN
      /\ msg = Reply(k, a) /\ UNCHANGED <<inbox, buf>>
  BY DEF OfferInv, RouterOK, TypeOK, Message, DropAnswer, RouterDone, Reply
<1> HIDE DEF k, a
<1>2. InHand(k, a) = 1
  BY <1>1 DEF InHand
<1>3. Unread(k, a) > 0
  BY <1>1, <1>2, UnreadParts
<1>4. ASSUME NEW l \in Key, NEW b \in BOOLEAN
      PROVE  Unread(l, b)' = IF l = k /\ b = a THEN Unread(l, b) - 1 ELSE Unread(l, b)
  <2>1. Queued(l, b)' = Queued(l, b) /\ InHand(l, b)' = 0 /\ Holding(l, b)' = Holding(l, b)
    BY <1>1 DEF Queued, InHand, Holding
  <2>2. Reply(l, b) = Reply(k, a) <=> l = k /\ b = a
    BY <1>1, ReplyIsOne
  <2>3. InHand(l, b) = IF l = k /\ b = a THEN 1 ELSE 0
    BY <1>1, <2>2 DEF InHand
  <2>4. Unread(l, b)' = Queued(l, b)' + InHand(l, b)' + Cardinality(Holding(l, b)')
    BY UnreadAfter
  <2> QED BY <1>1, <2>1, <2>3, <2>4, UnreadParts
<1> QED BY <1>1, <1>3, <1>4 DEF OneLess, k, a

\* The driver's answer is one more under way.
LEMMA AnswerAdds ==
  ASSUME OfferInv, NEW k \in Key, NEW a \in BOOLEAN,
         inbox' = Append(inbox, Reply(k, a)), UNCHANGED <<routing, msg, buf>>
  PROVE  OneMore(k, a)
<1>1. TypeOK /\ inbox \in Seq(Message) /\ Reply(k, a) \in Message
  BY DEF OfferInv, TypeOK, Reply, Message
<1> SUFFICES ASSUME NEW l \in Key, NEW b \in BOOLEAN
             PROVE  Unread(l, b)' = IF l = k /\ b = a THEN Unread(l, b) + 1 ELSE Unread(l, b)
  BY DEF OneMore
<1>2. Reply(l, b) = Reply(k, a) <=> l = k /\ b = a
  BY <1>1, ReplyIsOne
<1>3. Queued(l, b)' = IF Reply(k, a) = Reply(l, b) THEN Queued(l, b) + 1 ELSE Queued(l, b)
  <2>1. Reply(l, b)' = Reply(l, b)
    BY DEF Reply
  <2> HIDE DEF Reply
  <2> QED BY <1>1, <2>1, AppendCount DEF Queued
<1>4. InHand(l, b)' = InHand(l, b) /\ Holding(l, b)' = Holding(l, b)
  BY DEF InHand, Holding
<1>5. Unread(l, b)' = Queued(l, b)' + InHand(l, b)' + Cardinality(Holding(l, b)')
  BY UnreadAfter
<1> QED BY <1>1, <1>2, <1>3, <1>4, <1>5, UnreadParts

-----------------------------------------------------------------------------
(* The exchange *)

\* A result belongs to the offer that is being left, a yes to it or to none.
OutcomeOK ==
  \A k \in Key : /\ outcome[k] => offering[k] \in {"leave", "done"}
                 /\ offering[k] = "done" => outcome[k]

LEMMA OutcomeStep == OfferInv /\ OutcomeOK /\ [Next]_vars => OutcomeOK'
<1> SUFFICES ASSUME OfferInv, OutcomeOK, [Next]_vars PROVE OutcomeOK'
  OBVIOUS
<1> USE DEF OfferInv, TypeOK, OutcomeOK
<1>1. ASSUME NEW k \in Key, Offer(k) PROVE OutcomeOK'
  <2>1. CASE Register(k)
    BY <2>1 DEF Register, At
  <2>2. CASE PublishOffer(k) \/ Published(k) \/ PublishFails(k) \/ OfferTimesOut(k)
    BY <2>2 DEF PublishOffer, Published, PublishFails, OfferTimesOut, At
  <2>3. CASE Receive(k)
    BY <2>3 DEF Receive, At
  <2>4. CASE Unregister(k)
    BY <2>4 DEF Unregister, At
  <2> QED BY <1>1, <2>1, <2>2, <2>3, <2>4 DEF Offer
<1>2. CASE Route
  BY <1>2 DEF Route, TakeAnswer, FindChannel, DropAnswer, SendAnswer
<1>3. ASSUME NEW k \in Key, Answer(k) PROVE OutcomeOK'
  BY <1>3 DEF Answer
<1>4. CASE UNCHANGED vars
  BY <1>4 DEF vars
<1> QED BY <1>1, <1>2, <1>3, <1>4 DEF Next

OfferNow  == [k \in Key |-> OfferState(k)]
UnreadNow == [k \in Key |-> [a \in BOOLEAN |-> Unread(k, a)]]

\* The two variables of the exchange, point by point.
LEMMA OfferGoes ==
  ASSUME NEW k \in Key, NEW there, OfferState(k)' = there,
         \A l \in Key : l # k => OfferState(l)' = OfferState(l)
  PROVE  OfferNow' = [OfferNow EXCEPT ![k] = there]
BY DEF OfferNow

LEMMA OfferStays ==
  ASSUME \A k \in Key : OfferState(k)' = OfferState(k) PROVE UNCHANGED OfferNow
BY DEF OfferNow

LEMMA UnreadStays == Same => UNCHANGED UnreadNow
BY DEF Same, UnreadNow

LEMMA UnreadUsed ==
  ASSUME NEW k \in Key, NEW a \in BOOLEAN, OneLess(k, a) PROVE Exchange!Use(k, a)
<1>1. UnreadNow' = [UnreadNow EXCEPT ![k] = [@ EXCEPT ![a] = UnreadNow[k][a] - 1]]
  BY DEF OneLess, UnreadNow
<1>2. UnreadNow[k][a] > 0
  BY DEF OneLess, UnreadNow
<1> QED BY <1>1, <1>2 DEF Exchange!Use, UnreadNow

LEMMA UnreadAdded ==
  ASSUME NEW k \in Key, NEW a \in BOOLEAN, OneMore(k, a)
  PROVE  UnreadNow' = [UnreadNow EXCEPT ![k] = [@ EXCEPT ![a] = UnreadNow[k][a] + 1]]
BY DEF OneMore, UnreadNow

\* In the beginning nothing is under way.
LEMMA NoneUnread ==
  ASSUME Init, NEW k \in Key, NEW a \in BOOLEAN PROVE Unread(k, a) = 0
<1>1. Places(inbox, Reply(k, a)) = {}
  BY DEF Init, Places
<1>2. InHand(k, a) = 0
  BY DEF Init, InHand
<1>3. Holding(k, a) = {}
  <2>1. \A c \in Channel : buf[k][c] = None
    BY DEF Init
  <2> QED BY <2>1, RoutingAssumption DEF Holding
<1>4. Unread(k, a) = Queued(k, a) + InHand(k, a) + Cardinality(Holding(k, a))
  BY DEF Unread, Queued, Places, Reply, InHand, Holding
<1> QED BY <1>1, <1>2, <1>3, <1>4, FS_EmptySet DEF Queued

\* Every step of sendOffer, the router or the driver is a step of the exchange, or
\* nothing to it.
LEMMA ExchangeStep ==
  OfferInv /\ OutcomeOK /\ [Next]_vars => [Exchange!Next]_(Exchange!exchangeVars)
<1> DEFINE Refined == [Exchange!Next]_(Exchange!exchangeVars)
<1> SUFFICES ASSUME OfferInv, OutcomeOK, [Next]_vars PROVE Refined
  OBVIOUS
<1>1. ASSUME UNCHANGED OfferNow, UNCHANGED UnreadNow PROVE Refined
  BY <1>1 DEF OfferNow, UnreadNow, Exchange!exchangeVars
<1>2. ASSUME NEW k \in Key, Offer(k) PROVE Refined
  <2> USE DEF OfferInv, TypeOK, At, Offering
  <2>1. CASE Register(k)
    <3>1. Same
      BY <2>1, StillUnread DEF Register
    <3>2. OfferState(k) \in {"never", "closed"} /\ OfferState(k)' = "open"
      BY <2>1 DEF Register, OfferState, OutcomeOK
    <3>3. \A l \in Key : l # k => OfferState(l)' = OfferState(l)
      BY <2>1 DEF Register, OfferState
    <3>4. Exchange!Open(k)
      BY <3>1, <3>2, <3>3, OfferGoes, UnreadStays DEF Exchange!Open, Exchange!Goes, OfferNow, UnreadNow
    <3> QED BY <3>4 DEF Exchange!Next
  <2>2. CASE PublishOffer(k) \/ Published(k)
    <3>1. Same
      BY <2>2, StillUnread DEF PublishOffer, Published
    <3>2. \A l \in Key : OfferState(l)' = OfferState(l)
      BY <2>2 DEF PublishOffer, Published, OfferState
    <3> QED BY <1>1, <3>1, <3>2, OfferStays, UnreadStays
  <2>3. CASE PublishFails(k) \/ OfferTimesOut(k)
    <3>1. Same
      BY <2>3, StillUnread DEF PublishFails, OfferTimesOut
    <3>2. OfferState(k) = "open" /\ OfferState(k)' = "closed"
      BY <2>3 DEF PublishFails, OfferTimesOut, OfferState, OutcomeOK
    <3>3. \A l \in Key : l # k => OfferState(l)' = OfferState(l)
      BY <2>3 DEF PublishFails, OfferTimesOut, OfferState
    <3>4. Exchange!Withdraw(k)
      BY <3>1, <3>2, <3>3, OfferGoes, UnreadStays DEF Exchange!Withdraw, Exchange!Goes, OfferNow, UnreadNow
    <3> QED BY <3>4 DEF Exchange!Next
  <2>4. CASE Receive(k)
    <3> DEFINE a == outcome'[k]
    <3>1. a \in BOOLEAN /\ OneLess(k, a)
      BY <2>4, ReceiveUses
    <3>2. OfferState(k) = "open" /\ OfferState(k)' = IF a THEN "accepted" ELSE "closed"
      BY <2>4 DEF Receive, OfferState
    <3>3. \A l \in Key : l # k => OfferState(l)' = OfferState(l)
      BY <2>4 DEF Receive, OfferState
    <3> HIDE DEF a
    <3>4. Exchange!Decide(k, a)
      BY <3>1, <3>2, <3>3, OfferGoes, UnreadUsed DEF Exchange!Decide, Exchange!Goes, OfferNow
    <3> QED BY <3>1, <3>4 DEF Exchange!Next
  <2>5. CASE Unregister(k)
    <3>1. Same
      BY <2>5, StillUnread DEF Unregister
    <3>2. made[k] # 0
      BY <2>5 DEF Unregister, ChannelsOK, Channel
    <3>3. \A l \in Key : OfferState(l)' = OfferState(l)
      BY <2>5, <3>2 DEF Unregister, OfferState
    <3> QED BY <1>1, <3>1, <3>3, OfferStays, UnreadStays
  <2> QED BY <1>2, <2>1, <2>2, <2>3, <2>4, <2>5 DEF Offer
<1>3. CASE TakeAnswer \/ FindChannel \/ SendAnswer
  <2>1. Same
    BY <1>3, TakeKeeps, SendKeeps, StillUnread DEF FindChannel
  <2>2. \A l \in Key : OfferState(l)' = OfferState(l)
    BY <1>3 DEF TakeAnswer, FindChannel, SendAnswer, OfferState
  <2> QED BY <1>1, <2>1, <2>2, OfferStays, UnreadStays
<1>4. CASE DropAnswer
  <2> DEFINE k == msg.key
             a == msg.accepted
  <2>1. k \in Key /\ a \in BOOLEAN /\ OneLess(k, a)
    BY <1>4, DropUses
  <2>2. \A l \in Key : OfferState(l)' = OfferState(l)
    BY <1>4 DEF DropAnswer, OfferState
  <2>3. OfferState(k) # "open"
    <3>1. offering[k] \notin Offering
      BY <1>4, <2>1 DEF OfferInv, ChannelsOK, NoChannelLeaked, DropAnswer, Channel
    <3>2. offering[k] \in {"idle", "leave", "done"}
      BY <2>1, <3>1 DEF OfferInv, TypeOK, Offering
    <3> QED BY <3>1, <3>2 DEF OfferState
  <2> HIDE DEF k, a
  <2>4. Exchange!Discard(k, a)
    BY <2>1, <2>2, <2>3, OfferStays, UnreadUsed DEF Exchange!Discard, OfferNow
  <2> QED BY <2>1, <2>4 DEF Exchange!Next
<1>5. ASSUME NEW k \in Key, Answer(k) PROVE Refined
  <2>1. PICK a \in BOOLEAN : inbox' = Append(inbox, Reply(k, a))
    BY <1>5 DEF Answer, Reply
  <2>2. OneMore(k, a)
    BY <1>5, <2>1, AnswerAdds DEF Answer
  <2>3. \A l \in Key : OfferState(l)' = OfferState(l)
    BY <1>5 DEF Answer, OfferState
  <2>4. OfferState(k) # "never"
    BY <1>5 DEF Answer, OfferInv, TypeOK, OfferState, Offering
  <2>5. Exchange!Reply(k, a)
    BY <2>2, <2>3, <2>4, OfferStays, UnreadAdded DEF Exchange!Reply, OfferNow, UnreadNow
  <2> QED BY <2>5 DEF Exchange!Next
<1>6. CASE UNCHANGED vars
  <2>1. Same
    BY <1>6, StillUnread DEF vars
  <2>2. \A l \in Key : OfferState(l)' = OfferState(l)
    BY <1>6 DEF vars, OfferState
  <2> QED BY <1>1, <2>1, <2>2, OfferStays, UnreadStays
<1> QED BY <1>2, <1>3, <1>4, <1>5, <1>6 DEF Next, Route

\* Channels, lock, queue and router implement the plain exchange of offers and answers
\* (dispatch.go:132, client.go): an answer decides at most one offer, none is lost while
\* an offer stands, and a yes ends the offers.
THEOREM Implementation == Spec => ImplementsExchange
<1>1. Init => OutcomeOK
  BY DEF Init, OutcomeOK
<1>2. Init => Exchange!Init
  <2> SUFFICES ASSUME Init PROVE Exchange!Init
    OBVIOUS
  <2>1. ASSUME NEW k \in Key PROVE OfferState(k) = "never"
    <3>1. offering[k] = "idle" /\ made[k] = 0
      BY DEF Init
    <3> QED BY <3>1 DEF OfferState, Offering
  <2> QED BY <2>1, NoneUnread DEF Exchange!Init
<1> QED BY <1>1, <1>2, OutcomeStep, ExchangeStep, OfferInvariant, PTL
    DEF Spec, ImplementsExchange, Exchange!Spec

-----------------------------------------------------------------------------
(* Where the router blocks *)

\* The yeses and the noes under way.
Yes(k) == Unread(k, TRUE)
No(k)  == Unread(k, FALSE)

\* What is queued, in hand or buffered was answered.
AnswersCounted ==
  \A k \in Key : Yes(k) + No(k) <= answers[k]

LEMMA CountStep == OfferInv /\ AnswersCounted /\ [Next]_vars => AnswersCounted'
<1> SUFFICES ASSUME OfferInv, AnswersCounted, [Next]_vars PROVE AnswersCounted'
  OBVIOUS
<1>1. TypeOK /\ answers \in [Key -> Nat]
  BY RoutingAssumption DEF OfferInv, TypeOK
<1>2. \A k \in Key : Yes(k) \in Nat /\ No(k) \in Nat
  BY <1>1, UnreadParts DEF Yes, No
<1>3. ASSUME Same, UNCHANGED answers PROVE AnswersCounted'
  <2>1. \A k \in Key : Yes(k)' = Yes(k) /\ No(k)' = No(k)
    BY <1>3 DEF Same, Yes, No
  <2> QED BY <1>3, <2>1 DEF AnswersCounted
<1>4. ASSUME NEW k \in Key, NEW a \in BOOLEAN, OneLess(k, a), UNCHANGED answers PROVE AnswersCounted'
  <2> SUFFICES ASSUME NEW l \in Key PROVE Yes(l)' + No(l)' <= answers[l]
    BY <1>4 DEF AnswersCounted
  <2>1. \A b \in BOOLEAN : Unread(l, b)' \in {Unread(l, b), Unread(l, b) - 1}
    BY <1>4 DEF OneLess
  <2>2. Yes(l)' \in {Yes(l), Yes(l) - 1}
    BY <2>1 DEF Yes
  <2>3. No(l)' \in {No(l), No(l) - 1}
    BY <2>1 DEF No
  <2>4. /\ Yes(l) \in Nat /\ No(l) \in Nat /\ answers[l] \in Nat
        /\ Yes(l) + No(l) <= answers[l]
    BY <1>1, <1>2 DEF AnswersCounted
  <2> QED BY <2>2, <2>3, <2>4
<1>5. ASSUME NEW k \in Key, Offer(k) PROVE AnswersCounted'
  <2>1. CASE Receive(k)
    BY <1>4, <2>1, ReceiveUses DEF Receive
  <2>2. CASE \/ Register(k) \/ PublishOffer(k) \/ Published(k) \/ PublishFails(k)
             \/ OfferTimesOut(k) \/ Unregister(k)
    BY <1>3, <2>2, StillUnread DEF Register, PublishOffer, Published, PublishFails, OfferTimesOut, Unregister
  <2> QED BY <1>5, <2>1, <2>2 DEF Offer
<1>6. CASE TakeAnswer \/ FindChannel \/ SendAnswer
  BY <1>3, <1>6, TakeKeeps, SendKeeps, StillUnread DEF TakeAnswer, FindChannel, SendAnswer
<1>7. CASE DropAnswer
  BY <1>4, <1>7, DropUses DEF DropAnswer
<1>8. ASSUME NEW k \in Key, Answer(k) PROVE AnswersCounted'
  <2>1. PICK a \in BOOLEAN : inbox' = Append(inbox, Reply(k, a))
    BY <1>8 DEF Answer, Reply
  <2>2. OneMore(k, a)
    BY <1>8, <2>1, AnswerAdds DEF Answer
  <2> SUFFICES ASSUME NEW l \in Key PROVE Yes(l)' + No(l)' <= answers'[l]
    BY DEF AnswersCounted
  <2>3. answers'[l] = IF l = k THEN answers[l] + 1 ELSE answers[l]
    BY <1>1, <1>8 DEF Answer
  <2>4. /\ Yes(l)' = IF l = k /\ a THEN Yes(l) + 1 ELSE Yes(l)
        /\ No(l)' = IF l = k /\ ~a THEN No(l) + 1 ELSE No(l)
    BY <2>2 DEF OneMore, Yes, No
  <2>5. /\ Yes(l) \in Nat /\ No(l) \in Nat /\ answers[l] \in Nat
        /\ Yes(l) + No(l) <= answers[l]
    BY <1>1, <1>2 DEF AnswersCounted
  <2> QED BY <2>3, <2>4, <2>5
<1>9. CASE UNCHANGED vars
  BY <1>3, <1>9, StillUnread DEF vars
<1> QED BY <1>5, <1>6, <1>7, <1>8, <1>9 DEF Next, Route

\* The router waits for room in a channel only when the driver answered the same order
\* twice (capacity one, client.go).
THEOREM BlockedBySecond == Spec => []BlockedOnlyOnSecond
<1>1. Init => AnswersCounted
  <2> SUFFICES ASSUME Init, NEW k \in Key PROVE Yes(k) + No(k) <= answers[k]
    BY DEF AnswersCounted
  <2>1. Yes(k) = 0 /\ No(k) = 0
    BY NoneUnread DEF Yes, No
  <2>2. answers[k] = 0
    BY DEF Init
  <2> HIDE DEF Init
  <2> QED BY <2>1, <2>2
<1>2. OfferInv /\ AnswersCounted => BlockedOnlyOnSecond
  <2> SUFFICES ASSUME OfferInv, AnswersCounted, RouterBlocked PROVE answers[msg.key] >= 2
    BY DEF BlockedOnlyOnSecond
  <2> DEFINE k == msg.key
             a == msg.accepted
             b == buf[msg.key][target]
  <2>1. /\ TypeOK /\ k \in Key /\ a \in BOOLEAN /\ b \in BOOLEAN /\ target \in Channel
        /\ answers \in [Key -> Nat]
    BY RoutingAssumption DEF OfferInv, RouterOK, TypeOK, Message, RouterBlocked, HasRoom
  <2>2. InHand(k, a) = 1
    BY DEF RouterBlocked, InHand, Reply, OfferInv, RouterOK, Message
  <2>3. target \in Holding(k, b)
    BY <2>1 DEF Holding
  <2> HIDE DEF k, a, b
  <2>4. Cardinality(Holding(k, b)) >= 1
    <3>1. Cardinality(Holding(k, b)) # 0
      BY <2>1, <2>3, UnreadParts, FS_EmptySet
    <3> QED BY <2>1, <3>1, UnreadParts
  <2>5. Unread(k, a) >= 1 /\ Unread(k, b) >= 1 /\ (a = b => Unread(k, a) >= 2)
    BY <2>1, <2>2, <2>4, UnreadParts
  <2>6. Yes(k) \in Nat /\ No(k) \in Nat
    BY <2>1, UnreadParts DEF Yes, No
  <2>7. Yes(k) + No(k) >= 2
    <3>1. CASE a = b
      <4>1. Yes(k) >= 2 \/ No(k) >= 2
        BY <2>1, <2>5, <3>1 DEF Yes, No
      <4> QED BY <2>6, <4>1
    <3>2. CASE a # b
      <4>1. Yes(k) >= 1 /\ No(k) >= 1
        <5>1. (a = TRUE /\ b = FALSE) \/ (a = FALSE /\ b = TRUE)
          BY <2>1, <3>2
        <5> QED BY <2>5, <5>1 DEF Yes, No
      <4> QED BY <2>6, <4>1
    <3> QED BY <3>1, <3>2
  <2>8. answers[k] >= 2
    <3>1. answers[k] \in Nat /\ Yes(k) + No(k) <= answers[k]
      BY <2>1 DEF AnswersCounted
    <3> QED BY <2>6, <2>7, <3>1
  <2> QED BY <2>8 DEF k
<1> QED BY <1>1, <1>2, CountStep, OfferInvariant, PTL DEF Spec

=============================================================================
