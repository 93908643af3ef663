------------------------ MODULE DriverPresence_proofs ------------------------
(***************************************************************************)
(* Who is in drivers:online, for any sets of drivers and requests and any   *)
(* bounds: TypeOK, SilentCandidateExplained, OfflineIsRemoved and           *)
(* GoneIsAnnounced.                                                         *)
(***************************************************************************)
EXTENDS DriverPresence, FiniteSetTheorems, TLAPS

USE DEF redisVars, sessionVars, routerVars, histVars, PutUnchanged, RideUnchanged

Write == {"removal", "ttl"}

\* What the arguments about the stores need of the types.
StoresOK ==
  /\ row \in [Driver -> {"offline", "online"}]
  /\ hash \in [Driver -> {"gone", "volatile", "lasting"}]
  /\ cut \in [Driver -> SUBSET Write]
  /\ put \in [Request -> {Idle} \cup [of : Driver, to : {"online", "offline"}]]

\* The handler makes the calls of the message in its hand.
HandOK ==
  /\ at # "done" => hand \in Message
  /\ at \in {"done", "geoadd", "hset", "expire", "zrem", "mark"}
  /\ at \in {"geoadd", "hset", "expire"} => hand.what = "gps"
  /\ at = "zrem" => hand.what = "offline"
  /\ at = "mark" => hand.what \in {"offline", "online"}

\* Before an offline driver's HSET, his ZREM went through or was lost.
RemovalFirst ==
  at = "mark" /\ hand.what = "offline"
    => \A d \in Driver : hand.of = d /\ d \in geo => "removal" \in cut[d]

\* Only between a ping's GEOADD and its EXPIRE is a driver unexplained.
UnlessInPing ==
  \A d \in Driver :
    d \in geo /\ hash[d] = "lasting" /\ ~(hand.of = d /\ at \in {"hset", "expire"})
      => d \in vouched \/ cut[d] # {}

PresenceInv == TypeOK /\ HandOK /\ RemovalFirst /\ UnlessInPing

Ping(d)     == [of |-> d, what |-> "gps"]
Farewell(d) == [of |-> d, what |-> "offline"]

\* Behind every ping of a driver who is gone comes his farewell, and it is still on its
\* way while he is, or is being, added.
LastIsFarewell(d) ==
  /\ d \in geo \/ (at = "geoadd" /\ hand.of = d) => FarewellOnItsWay(d)
  /\ \A i \in 1 .. Len(inbox) :
       inbox[i] = Ping(d) => \E j \in i + 1 .. Len(inbox) : inbox[j] = Farewell(d)

FarewellLast ==
  \A d \in Driver :
    app[d] = "off" /\ "status" \in subs /\ "removal" \notin cut[d] => LastIsFarewell(d)

-----------------------------------------------------------------------------
(* The session's messages *)

\* Every non-empty set of natural numbers has a least element.
LEMMA NatHasLeast ==
  ASSUME NEW T \in SUBSET Nat, T # {} PROVE \E n \in T : \A m \in T : n <= m
<1> DEFINE R == {p \in Nat \X Nat : p[1] < p[2]}
<1>1. IsWellFoundedOn(R, Nat)
  BY NatLessThanWellFounded DEF OpToRel
<1> HIDE DEF R
<1>2. PICK n \in T : \A m \in T : <<m, n>> \notin R
  BY <1>1, WFMin
<1>3. ASSUME NEW m \in T PROVE n <= m
  <2>1. m < n => <<m, n>> \in R
    BY DEF R
  <2>2. n \in Nat /\ m \in Nat
    OBVIOUS
  <2> QED BY <1>2, <2>1, <2>2
<1> QED BY <1>3

\* f lists the elements of K in ascending order.
Ascending(K, f) ==
  /\ f \in [1 .. Cardinality(K) -> K]
  /\ \A i, j \in 1 .. Cardinality(K) : i < j => f[i] < f[j]

\* The elements of a set of places can be listed in ascending order: of the sets that
\* cannot, one would be smallest, and without its greatest element it could.
LEMMA Listing ==
  ASSUME NEW m \in Nat, NEW K \in SUBSET (1 .. m) PROVE \E f : Ascending(K, f)
<1> DEFINE Unlisted(n) == \E L \in SUBSET (1 .. m) : Cardinality(L) = n /\ ~\E f : Ascending(L, f)
           T == {n \in Nat : Unlisted(n)}
<1>1. ASSUME NEW L \in SUBSET (1 .. m) PROVE IsFiniteSet(L) /\ Cardinality(L) \in Nat
  <2>1. IsFiniteSet(1 .. m)
    BY FS_Interval
  <2> QED BY <2>1, FS_Subset, FS_CardinalityType
<1> SUFFICES ASSUME T # {} PROVE FALSE
  BY <1>1
<1> HIDE DEF T
<1>2. PICK n \in T : \A k \in T : n <= k
  <2>1. T \in SUBSET Nat
    BY DEF T
  <2> QED BY <2>1, NatHasLeast
<1>3. PICK L \in SUBSET (1 .. m) : Cardinality(L) = n /\ ~\E f : Ascending(L, f)
  BY <1>2 DEF T
<1>4. n \in Nat
  BY <1>2 DEF T
<1>5. CASE L = {}
  <2>1. n = 0
    BY <1>3, <1>5, FS_EmptySet
  <2>2. Ascending(L, <<>>)
    BY <1>3, <1>5, <2>1 DEF Ascending
  <2> QED BY <1>3, <2>2
<1>6. CASE L # {}
  <2> DEFINE Above == {b \in Nat : \A k \in L : k <= b}
  <2>1. PICK x \in Above : \A b \in Above : x <= b
    <3>1. m \in Above
      OBVIOUS
    <3> HIDE DEF Above
    <3>2. Above \in SUBSET Nat
      BY DEF Above
    <3> QED BY <3>1, <3>2, NatHasLeast
  <2>2. x \in Nat /\ \A k \in L : k \in Nat /\ k <= x
    BY <2>1
  <2>3. x \in L
    <3> SUFFICES ASSUME x \notin L PROVE FALSE
      OBVIOUS
    <3>1. ASSUME NEW k \in L PROVE k <= x - 1
      <4>1. k # x
        OBVIOUS
      <4> QED BY <2>2, <4>1
    <3>2. x - 1 \in Nat
      <4>1. PICK k : k \in L
        BY <1>6
      <4>2. k \in Nat /\ k <= x - 1 /\ x \in Nat
        BY <2>2, <3>1, <4>1
      <4> QED BY <4>2
    <3>3. x - 1 \in Above
      BY <3>1, <3>2
    <3> QED BY <2>1, <2>2, <3>3
  <2> HIDE DEF Above
  <2>4. Cardinality(L \ {x}) = n - 1 /\ n - 1 \in Nat
    BY <1>1, <1>3, <1>4, <2>3, FS_RemoveElement, FS_CardinalityType, FS_EmptySet
  <2>5. n - 1 \notin T
    BY <1>2, <1>4, <2>4
  <2>6. PICK f : Ascending(L \ {x}, f)
    BY <2>4, <2>5 DEF T
  <2> DEFINE g == [i \in 1 .. n |-> IF i = n THEN x ELSE f[i]]
  <2>7. \A i \in 1 .. n - 1 : f[i] \in L \ {x}
    BY <2>4, <2>6 DEF Ascending
  <2>8. g \in [1 .. n -> L]
    BY <1>4, <2>3, <2>7
  <2>9. \A i \in 1 .. n : g[i] = IF i = n THEN x ELSE f[i]
    OBVIOUS
  <2> HIDE DEF g
  <2>10. \A i, j \in 1 .. n : i < j => g[i] < g[j]
    <3> SUFFICES ASSUME NEW i \in 1 .. n, NEW j \in 1 .. n, i < j PROVE g[i] < g[j]
      OBVIOUS
    <3>1. i \in 1 .. n - 1 /\ i # n
      BY <1>4
    <3>2. g[i] = f[i] /\ f[i] \in L /\ f[i] # x
      BY <2>7, <2>9, <3>1
    <3>3. CASE j = n
      <4>1. g[j] = x
        BY <2>9, <3>3
      <4>2. f[i] \in Nat /\ f[i] <= x /\ x \in Nat
        BY <2>2, <3>2
      <4> QED BY <3>2, <4>1, <4>2
    <3>4. CASE j # n
      <4>1. j \in 1 .. n - 1
        BY <1>4, <3>4
      <4>2. g[j] = f[j]
        BY <2>9, <3>4
      <4> QED BY <2>4, <2>6, <3>1, <3>2, <4>1, <4>2 DEF Ascending
    <3> QED BY <3>3, <3>4
  <2>11. Ascending(L, g)
    BY <1>3, <2>8, <2>10 DEF Ascending
  <2> QED BY <1>3, <2>11
<1> QED BY <1>5, <1>6

\* What a broken connection leaves of a queue are messages of it, all those of QoS 1.
LEMMA AtLeastOnceKeeps ==
  ASSUME NEW S, NEW queue \in Seq(S)
  PROVE  /\ AtLeastOnce(queue) \in Seq(S)
         /\ ToSet(AtLeastOnce(queue)) = {m \in ToSet(queue) : QosOf(TopicOf(m)) = 1}
<1> DEFINE places == {i \in DOMAIN queue : QosOf(TopicOf(queue[i])) = 1}
           n == Cardinality(places)
           nth == CHOOSE f \in [1 .. n -> places] : \A i, j \in DOMAIN f : i < j => f[i] < f[j]
<1>1. Len(queue) \in Nat /\ DOMAIN queue = 1 .. Len(queue) /\ places \in SUBSET (1 .. Len(queue))
  OBVIOUS
<1>2. IsFiniteSet(places) /\ n \in Nat
  <2>1. IsFiniteSet(1 .. Len(queue))
    BY <1>1, FS_Interval
  <2> QED BY <1>1, <2>1, FS_Subset, FS_CardinalityType
<1>3. AtLeastOnce(queue) = [i \in DOMAIN nth |-> queue[nth[i]]]
  BY DEF AtLeastOnce
<1> HIDE DEF places
<1>4. \E f \in [1 .. n -> places] : \A i, j \in DOMAIN f : i < j => f[i] < f[j]
  <2>1. PICK f : Ascending(places, f)
    BY <1>1, Listing
  <2> QED BY <2>1 DEF Ascending
<1> HIDE DEF n
<1>5. nth \in [1 .. n -> places] /\ \A i, j \in 1 .. n : i < j => nth[i] < nth[j]
  BY <1>4
<1> HIDE DEF nth
<1>6. nth \in Surjection(1 .. n, places)
  <2>1. ASSUME NEW i \in 1 .. n PROVE nth[i] \in Nat
    <3>1. nth[i] \in places
      BY <1>5
    <3>2. nth[i] \in 1 .. Len(queue)
      BY <1>1, <3>1
    <3> QED BY <1>1, <3>2
  <2>2. nth \in Injection(1 .. n, places)
    BY <1>2, <1>5, <2>1 DEF Injection, IsInjective
  <2>3. Cardinality(1 .. n) = n
    BY <1>2, FS_Interval
  <2> QED BY <1>2, <2>2, <2>3, FS_Injection DEF n
<1>7. \A p \in places : \E i \in 1 .. n : nth[i] = p
  BY <1>6 DEF Surjection
<1>8. AtLeastOnce(queue) = [i \in 1 .. n |-> queue[nth[i]]]
  BY <1>3, <1>5
<1>9. AtLeastOnce(queue) \in Seq(S)
  <2>1. ASSUME NEW i \in 1 .. n PROVE queue[nth[i]] \in S
    <3>1. nth[i] \in places
      BY <1>5
    <3>2. nth[i] \in 1 .. Len(queue)
      BY <1>1, <3>1
    <3> QED BY <3>2
  <2>2. AtLeastOnce(queue) \in [1 .. n -> S]
    BY <1>8, <2>1
  <2> QED BY <1>2, <2>2
<1>10. ASSUME NEW x PROVE x \in ToSet(AtLeastOnce(queue)) <=> x \in ToSet(queue) /\ QosOf(TopicOf(x)) = 1
  <2>1. x \in ToSet(AtLeastOnce(queue)) <=> \E i \in 1 .. n : x = queue[nth[i]]
    BY <1>8 DEF ToSet
  <2>2. x \in ToSet(queue) /\ QosOf(TopicOf(x)) = 1 <=> \E p \in places : x = queue[p]
    BY DEF ToSet, places
  <2> QED BY <1>5, <1>7, <2>1, <2>2
<1> QED BY <1>9, <1>10

\* The broker's retained messages, in whatever order they arrive: one of each driver.
LEMMA RetainedArrive ==
  ASSUME NEW arrived \in SetToSeqs(RetainedMessages),
         \A d \in Driver : app[d] \in {"off", "on"}
  PROVE  /\ arrived \in Seq(Message)
         /\ \A d \in Driver : \E i \in 1 .. Len(arrived) : arrived[i] = [of |-> d, what |-> Retained(d)]
         /\ \A i \in 1 .. Len(arrived) : arrived[i].what # "gps"
<1> DEFINE n == Cardinality(RetainedMessages)
           of == [d \in Driver |-> [of |-> d, what |-> Retained(d)]]
<1>1. IsFiniteSet(RetainedMessages) /\ n \in Nat
  <2>1. of \in Surjection(Driver, RetainedMessages)
    BY DEF Surjection, RetainedMessages
  <2> QED BY <2>1, PresenceAssumption, FS_Surjection, FS_CardinalityType
<1>2. RetainedMessages \in SUBSET Message /\ \A m \in RetainedMessages : m.what # "gps"
  BY DEF RetainedMessages, Retained, Message
<1>3. arrived \in [1 .. n -> RetainedMessages] /\ \A i, j \in 1 .. n : i # j => arrived[i] # arrived[j]
  BY DEF SetToSeqs
<1> HIDE DEF n
<1>4. arrived \in Surjection(1 .. n, RetainedMessages)
  <2>1. arrived \in Injection(1 .. n, RetainedMessages)
    BY <1>3 DEF Injection, IsInjective
  <2>2. Cardinality(1 .. n) = n
    BY <1>1, FS_Interval
  <2> QED BY <1>1, <2>1, <2>2, FS_Injection DEF n
<1>5. arrived \in Seq(RetainedMessages) /\ Len(arrived) = n
  BY <1>1, <1>3
<1>6. ASSUME NEW d \in Driver
      PROVE  \E i \in 1 .. n : arrived[i] = [of |-> d, what |-> Retained(d)]
  <2>1. [of |-> d, what |-> Retained(d)] \in RetainedMessages
    BY DEF RetainedMessages
  <2> QED BY <1>4, <2>1 DEF Surjection
<1>7. arrived \in Seq(Message)
  BY <1>2, <1>5
<1> QED BY <1>2, <1>3, <1>5, <1>6, <1>7

\* Of two queues, one after the other, every message is kept.
LEMMA InBoth ==
  ASSUME NEW first \in Seq(Message), NEW second \in Seq(Message)
  PROVE  ToSet(first \o second) = ToSet(first) \cup ToSet(second)
<1> DEFINE all == first \o second
<1>1. /\ Len(first) \in Nat /\ Len(second) \in Nat /\ Len(all) = Len(first) + Len(second)
      /\ DOMAIN all = 1 .. Len(all) /\ DOMAIN first = 1 .. Len(first) /\ DOMAIN second = 1 .. Len(second)
  OBVIOUS
<1>2. \A i \in 1 .. Len(first) : all[i] = first[i] /\ i \in 1 .. Len(all)
  BY <1>1
<1>3. \A i \in 1 .. Len(second) : all[Len(first) + i] = second[i] /\ Len(first) + i \in 1 .. Len(all)
  BY <1>1
<1>4. ASSUME NEW i \in 1 .. Len(all) PROVE all[i] \in ToSet(first) \cup ToSet(second)
  <2>1. CASE i \in 1 .. Len(first)
    BY <1>1, <1>2, <2>1 DEF ToSet
  <2>2. CASE i \notin 1 .. Len(first)
    <3>1. i - Len(first) \in 1 .. Len(second) /\ Len(first) + (i - Len(first)) = i
      BY <1>1, <2>2
    <3> QED BY <1>1, <1>3, <3>1 DEF ToSet
  <2> QED BY <2>1, <2>2
<1> HIDE DEF all
<1>5. \A m \in ToSet(first) : m \in ToSet(all)
  BY <1>1, <1>2 DEF ToSet
<1>6. \A m \in ToSet(second) : m \in ToSet(all)
  BY <1>1, <1>3 DEF ToSet
<1>7. \A m \in ToSet(all) : m \in ToSet(first) \cup ToSet(second)
  BY <1>1, <1>4 DEF ToSet
<1>8. ToSet(all) = ToSet(first) \cup ToSet(second)
  BY <1>5, <1>6, <1>7
<1> QED BY <1>8 DEF all

\* What a lost connection or a crash leaves in the session.
LEMMA SessionKeeps ==
  ASSUME inbox \in Seq(Message), shelf \in Seq(Message), hand \in Message \cup {NoMessage}
  PROVE  /\ Unacknowledged \in Seq(Message)
         /\ \A i \in 1 .. Len(Unacknowledged) : Unacknowledged[i].what # "gps"
         /\ \A m \in ToSet(inbox) \cup ToSet(shelf) : m.what # "gps" => m \in ToSet(Unacknowledged)
         /\ hand # NoMessage /\ hand.what # "gps" => hand \in ToSet(Unacknowledged)
<1> DEFINE late == IF hand = NoMessage THEN inbox ELSE <<hand>> \o inbox
           queue == shelf \o late
<1>1. Unacknowledged = AtLeastOnce(queue)
  BY DEF Unacknowledged, CleanSession
<1>2. late \in Seq(Message)
  OBVIOUS
<1>3. /\ \A m \in ToSet(inbox) : m \in ToSet(late)
      /\ hand # NoMessage => hand \in ToSet(late)
  <2>1. CASE hand = NoMessage
    BY <2>1
  <2>2. CASE hand # NoMessage
    <3>1. Len(late) = 1 + Len(inbox) /\ late[1] = hand
      BY <2>2
    <3>2. \A i \in 1 .. Len(inbox) : late[i + 1] = inbox[i] /\ i + 1 \in 1 .. Len(late)
      BY <2>2, <3>1
    <3>3. 1 \in 1 .. Len(late) /\ DOMAIN late = 1 .. Len(late) /\ DOMAIN inbox = 1 .. Len(inbox)
      BY <1>2, <3>1
    <3> HIDE DEF late
    <3> QED BY <3>1, <3>2, <3>3 DEF ToSet
  <2> QED BY <2>1, <2>2
<1> HIDE DEF late
<1>4. queue \in Seq(Message)
  BY <1>2
<1>5. \A m \in ToSet(shelf) \cup ToSet(late) : m \in ToSet(queue)
  BY <1>2, InBoth
<1> HIDE DEF queue
<1>6. \A m \in Message : QosOf(TopicOf(m)) = 1 <=> m.what # "gps"
  BY DEF QosOf, TopicOf
<1>7. ToSet(queue) \in SUBSET Message /\ ToSet(inbox) \in SUBSET Message /\ ToSet(shelf) \in SUBSET Message
  BY <1>4 DEF ToSet
<1>8. /\ Unacknowledged \in Seq(Message)
      /\ ToSet(Unacknowledged) = {m \in ToSet(queue) : QosOf(TopicOf(m)) = 1}
  BY <1>1, <1>4, AtLeastOnceKeeps
<1>9. \A i \in 1 .. Len(Unacknowledged) : Unacknowledged[i] \in ToSet(Unacknowledged)
  BY <1>8 DEF ToSet
<1> QED BY <1>3, <1>5, <1>6, <1>7, <1>8, <1>9

-----------------------------------------------------------------------------
\* TypeOK has all that the arguments about the stores need.
LEMMA TypesOfStores == TypeOK => StoresOK
BY DEF TypeOK, StoresOK, Write

\* Initially all of the invariants hold.
LEMMA InitPresence == Init => PresenceInv /\ OfflineIsRemoved /\ FarewellLast
<1> SUFFICES ASSUME Init PROVE PresenceInv /\ OfflineIsRemoved /\ FarewellLast
  OBVIOUS
<1>1. TypeOK
  BY PresenceAssumption DEF Init, TypeOK, Redis!RedisInit, Topic
<1>2. HandOK /\ RemovalFirst /\ UnlessInPing /\ OfflineIsRemoved
  BY DEF Init, HandOK, RemovalFirst, UnlessInPing, OfflineIsRemoved, Redis!RedisInit
<1>3. FarewellLast
  BY DEF Init, FarewellLast, LastIsFarewell, Redis!RedisInit
<1> QED BY <1>1, <1>2, <1>3 DEF PresenceInv

\* What the broker delivers comes last.
LEMMA Delivered ==
  ASSUME inbox \in Seq(Message), NEW m \in Message, Deliver(m)
  PROVE  /\ inbox' = inbox \/ inbox' = Append(inbox, m)
         /\ inbox' \in Seq(Message)
<1>1. inbox' = inbox \/ inbox' = Append(inbox, m)
  BY DEF Deliver
<1>2. Append(inbox, m) \in Seq(Message)
  OBVIOUS
<1> QED BY <1>1, <1>2

\* A lost connection takes no subscription away.
LEMMA BreakKeepsTypes ==
  ASSUME TypeOK, Break
  PROVE  /\ link' = "down" /\ pending' = {} /\ subs' = subs
         /\ inbox' = Unacknowledged /\ inbox' \in Seq(Message)
         /\ shelf' \in Seq(Message) /\ deaf' = {}
BY SessionKeeps DEF TypeOK, Break, CleanSession

\* The bound on mishaps is kept.
LEMMA MishapsInRange ==
  ASSUME mishaps \in 0 .. MaxMishaps, UNCHANGED mishaps \/ Mishap PROVE mishaps' \in 0 .. MaxMishaps
BY PresenceAssumption DEF Mishap

\* The types and the handler's place, one action at a time.
LEMMA TypeStep ==
  ASSUME TypeOK, HandOK, [Next]_vars PROVE TypeOK' /\ HandOK'
<1> USE DEF TypeOK
<1>1. CASE RouterStep
  <2>1. CASE Take
    <3>1. inbox \in Seq(Message) /\ inbox # <<>> /\ hand' = inbox[1] /\ inbox' = Tail(inbox)
      BY <2>1 DEF Take
    <3>2. hand' \in Message /\ inbox' \in Seq(Message)
      BY <3>1
    <3> QED BY <2>1, <3>2 DEF Take, HandOK
  <2>2. CASE GeoAdd
    <3>1. hand.of \in Driver /\ hand.what = "gps"
      BY <2>2 DEF GeoAdd, HandOK, Message
    <3>2. mishaps' \in 0 .. MaxMishaps
      BY <2>2, MishapsInRange DEF GeoAdd
    <3> QED BY <2>2, <3>1, <3>2 DEF GeoAdd, Proceed, AfterPing, HandOK
  <2>3. CASE SetPosition
    <3>1. hand.of \in Driver /\ hand.what = "gps"
      BY <2>3 DEF SetPosition, HandOK, Message
    <3>2. mishaps' \in 0 .. MaxMishaps
      BY <2>3, MishapsInRange DEF SetPosition
    <3> QED BY <2>3, <3>1, <3>2 DEF SetPosition, Proceed, Vouch, HandOK, Redis!Touched
  <2>4. CASE Expire
    <3>1. hand.of \in Driver
      BY <2>4 DEF Expire, HandOK, Message
    <3>2. mishaps' \in 0 .. MaxMishaps
      BY <2>4, MishapsInRange DEF Expire
    <3> QED BY <2>4, <3>1, <3>2 DEF Expire, Proceed, Lost, HandOK
  <2>5. CASE RemoveOffline
    <3>1. hand.of \in Driver
      BY <2>5 DEF RemoveOffline, HandOK, Message
    <3>2. mishaps' \in 0 .. MaxMishaps
      BY <2>5, MishapsInRange DEF RemoveOffline
    <3> QED BY <2>5, <3>1, <3>2 DEF RemoveOffline, Proceed, Lost, HandOK
  <2>6. CASE MarkStatus
    <3>1. hand.of \in Driver
      BY <2>6 DEF MarkStatus, HandOK, Message
    <3>2. mishaps' \in 0 .. MaxMishaps
      BY <2>6, MishapsInRange DEF MarkStatus
    <3> QED BY <2>6, <3>1, <3>2 DEF MarkStatus, Proceed, Vouch, HandOK, Redis!Touched
  <2>7. CASE SetAside
    <3>1. inbox \in Seq(Message) /\ inbox # <<>> /\ inbox' = Tail(inbox)
      BY <2>7 DEF SetAside
    <3>2. inbox' \in Seq(Message) /\ Head(inbox) \in Message
      BY <3>1
    <3>3. shelf' \in Seq(Message)
      BY <2>7, <3>2 DEF SetAside
    <3> QED BY <2>7, <3>2, <3>3 DEF SetAside, HandOK
  <2> QED BY <1>1, <2>1, <2>2, <2>3, <2>4, <2>5, <2>6, <2>7 DEF RouterStep
<1>2. CASE Resubscribe
  <2>1. ASSUME NEW topic \in Topic, Subscribe(topic) PROVE TypeOK' /\ HandOK'
    <3>1. inbox' \in Seq(Message)
      <4>1. PICK arrived \in SetToSeqs(RetainedMessages) :
              inbox' = IF topic = "status" THEN inbox \o arrived ELSE inbox
        BY <2>1 DEF Subscribe
      <4>2. arrived \in Seq(Message)
        BY RetainedArrive
      <4> QED BY <4>1, <4>2
    <3> QED BY <2>1, <3>1 DEF Subscribe, HandOK
  <2>2. ASSUME NEW topic \in Topic, SubscribeFails(topic) PROVE TypeOK' /\ HandOK'
    <3>1. mishaps' \in 0 .. MaxMishaps
      BY <2>2, MishapsInRange DEF SubscribeFails
    <3> QED BY <2>2, <3>1 DEF SubscribeFails, HandOK
  <2> QED BY <1>2, <2>1, <2>2 DEF Resubscribe
<1>3. CASE LoseLink
  <2>1. mishaps' \in 0 .. MaxMishaps
    BY <1>3, MishapsInRange DEF LoseLink
  <2> QED BY <1>3, <2>1, BreakKeepsTypes DEF LoseLink, HandOK
<1>4. CASE Reconnect
  BY <1>4 DEF Reconnect, HandOK
<1>5. CASE Crash
  <2>1. mishaps' \in 0 .. MaxMishaps
    BY <1>5, MishapsInRange DEF Crash
  <2> QED BY <1>5, <2>1, BreakKeepsTypes DEF Crash, Marked, HandOK
<1>6. ASSUME NEW d \in Driver, OpenApp(d) \/ CloseApp(d) \/ SendPing(d)
      PROVE  TypeOK' /\ HandOK'
  <2>1. PICK m \in Message : Deliver(m)
    BY <1>6 DEF OpenApp, CloseApp, SendPing, Message
  <2>2. inbox' \in Seq(Message)
    BY <2>1, Delivered
  <2>3. UNCHANGED <<row, redisVars, put, ride, sessionVars, shelf, hand, at, mishaps, histVars>>
    BY <1>6 DEF OpenApp, CloseApp, SendPing
  <2>4. app' \in [Driver -> {"off", "on"}]
    BY <1>6 DEF OpenApp, CloseApp, SendPing
  <2> QED BY <2>2, <2>3, <2>4 DEF HandOK
<1>7. ASSUME NEW d \in Driver, HashExpires(d) \/ Accept(d) \/ EndRide(d) \/ CancelRide(d)
      PROVE  TypeOK' /\ HandOK'
  BY <1>7 DEF HashExpires, Accept, EndRide, CancelRide, SetRow, Redis!ExpireHash, HandOK
<1>8. ASSUME NEW d \in Driver, MarkRide(d) PROVE TypeOK' /\ HandOK'
  <2>1. mishaps' \in 0 .. MaxMishaps
    BY <1>8, MishapsInRange DEF MarkRide
  <2> QED BY <1>8, <2>1 DEF MarkRide, Marked, Vouch, Redis!SetActive, Redis!Touched, HandOK
<1>9. ASSUME NEW d \in Driver, NEW r \in Request, NEW s \in {"online", "offline"}, WriteRow(r, d, s)
      PROVE  TypeOK' /\ HandOK'
  BY <1>9 DEF WriteRow, SetRow, HandOK
<1>10. ASSUME NEW d \in Driver, NEW s \in {"online", "offline"}, WriteRowFails(d, s)
       PROVE  TypeOK' /\ HandOK'
  <2>1. mishaps' \in 0 .. MaxMishaps
    BY <1>10, MishapsInRange DEF WriteRowFails
  <2> QED BY <1>10, <2>1 DEF WriteRowFails, SetRow, Lost, HandOK
<1>11. ASSUME NEW r \in Request, SyncRedis(r) \/ SyncRedisFails(r) PROVE TypeOK' /\ HandOK'
  <2>1. put[r] \in [of : Driver, to : {"online", "offline"}]
    BY <1>11 DEF SyncRedis, SyncRedisFails
  <2>2. mishaps' \in 0 .. MaxMishaps
    BY <1>11, MishapsInRange DEF SyncRedis, SyncRedisFails
  <2>3. put' \in [Request -> {Idle} \cup [of : Driver, to : {"online", "offline"}]]
    BY <1>11 DEF SyncRedis, SyncRedisFails
  <2>4. geo' \in SUBSET Driver /\ hash' \in [Driver -> {"gone", "volatile", "lasting"}]
    BY <1>11, <2>1 DEF SyncRedis, SyncRedisFails, Redis!SetOnline, Redis!SetOffline, Redis!Touched
  <2>5. vouched' \in SUBSET Driver /\ cut' \in [Driver -> SUBSET {"removal", "ttl"}]
    BY <1>11, <2>1 DEF SyncRedis, SyncRedisFails, Vouch, Lost
  <2>6. UNCHANGED <<row, ride, app, sessionVars, routerVars, heard>>
    BY <1>11 DEF SyncRedis, SyncRedisFails
  <2> QED BY <2>2, <2>3, <2>4, <2>5, <2>6 DEF HandOK
<1>12. CASE UNCHANGED vars
  BY <1>12 DEF vars, HandOK
<1> QED BY <1>1, <1>2, <1>3, <1>4, <1>5, <1>6, <1>7, <1>8, <1>9, <1>10, <1>11, <1>12 DEF Next

\* Only a ping's GEOADD adds to drivers:online, and never while a status is handled.
LEMMA RemovalFirstStep ==
  ASSUME StoresOK, HandOK, RemovalFirst, [Next]_vars PROVE RemovalFirst'
<1> USE DEF RemovalFirst
<1>1. CASE RouterStep
  BY <1>1 DEF RouterStep, Take, SetAside, GeoAdd, SetPosition, Expire, RemoveOffline, MarkStatus, Proceed,
     Lost, StoresOK, Write
<1>2. CASE Resubscribe \/ LoseLink \/ Reconnect \/ Crash
  BY <1>2 DEF Resubscribe, Subscribe, SubscribeFails, LoseLink, Reconnect, Break, Crash
<1>3. ASSUME NEW d \in Driver, OpenApp(d) \/ CloseApp(d) \/ SendPing(d)
      PROVE  RemovalFirst'
  BY <1>3 DEF OpenApp, CloseApp, SendPing
<1>4. ASSUME NEW d \in Driver, HashExpires(d) \/ Accept(d) \/ EndRide(d) \/ CancelRide(d) \/ MarkRide(d)
      PROVE  RemovalFirst'
  BY <1>4 DEF HashExpires, Accept, EndRide, CancelRide, MarkRide, Redis!ExpireHash, Redis!SetActive
<1>5. CASE \/ \E d \in Driver, s \in {"online", "offline"} :
                WriteRowFails(d, s) \/ \E r \in Request : WriteRow(r, d, s)
           \/ \E r \in Request : SyncRedis(r) \/ SyncRedisFails(r)
  BY <1>5 DEF WriteRow, WriteRowFails, SyncRedis, SyncRedisFails, Lost, StoresOK,
     Redis!SetOnline, Redis!SetOffline
<1>6. CASE UNCHANGED vars
  BY <1>6 DEF vars
<1> QED BY <1>1, <1>2, <1>3, <1>4, <1>5, <1>6 DEF Next

\* Every write that may create a hash without TTL vouches for the driver, finds him
\* removed, or belongs to a ping whose EXPIRE is still to come.
LEMMA UnlessInPingStep ==
  ASSUME StoresOK, HandOK, RemovalFirst, UnlessInPing, [Next]_vars PROVE UnlessInPing'
<1> USE DEF UnlessInPing, StoresOK, Write
<1>1. CASE Take \/ SetAside
  BY <1>1 DEF Take, SetAside, HandOK, NoMessage
<1>2. CASE GeoAdd
  BY <1>2 DEF GeoAdd, Proceed
<1>3. CASE SetPosition
  BY <1>3 DEF SetPosition, Proceed, Vouch, Redis!Touched
<1>4. CASE Expire
  BY <1>4 DEF Expire, Proceed, Lost
<1>5. CASE RemoveOffline
  BY <1>5 DEF RemoveOffline, Proceed, Lost
<1>6. CASE MarkStatus
  BY <1>6 DEF MarkStatus, Proceed, Vouch, Redis!Touched, HandOK, RemovalFirst
<1>7. CASE Resubscribe \/ LoseLink \/ Reconnect
  BY <1>7 DEF Resubscribe, Subscribe, SubscribeFails, LoseLink, Reconnect, Break
<1>8. CASE Crash
  BY <1>8 DEF Crash, Break
<1>9. ASSUME NEW d \in Driver, OpenApp(d) \/ CloseApp(d) \/ SendPing(d)
      PROVE  UnlessInPing'
  BY <1>9 DEF OpenApp, CloseApp, SendPing
<1>10. ASSUME NEW d \in Driver, HashExpires(d) \/ Accept(d) \/ EndRide(d) \/ CancelRide(d) \/ MarkRide(d)
      PROVE  UnlessInPing'
  BY <1>10 DEF HashExpires, Accept, EndRide, CancelRide, MarkRide, Vouch, Redis!ExpireHash, Redis!SetActive,
     Redis!Touched
<1>11. ASSUME NEW d \in Driver, NEW s \in {"online", "offline"},
              WriteRowFails(d, s) \/ \E r \in Request : WriteRow(r, d, s)
       PROVE  UnlessInPing'
  BY <1>11 DEF WriteRow, WriteRowFails, Lost
<1>12. ASSUME NEW r \in Request, SyncRedis(r) PROVE UnlessInPing'
  BY <1>12 DEF SyncRedis, Vouch, Redis!SetOnline, Redis!SetOffline, Redis!Touched
<1>13. ASSUME NEW r \in Request, SyncRedisFails(r) PROVE UnlessInPing'
  BY <1>13 DEF SyncRedisFails, Lost
<1>14. CASE UNCHANGED vars
  BY <1>14 DEF vars
<1> QED BY <1>1, <1>2, <1>3, <1>4, <1>5, <1>6, <1>7, <1>8, <1>9, <1>10, <1>11, <1>12, <1>13, <1>14
    DEF Next, RouterStep

LEMMA PresenceStep == PresenceInv /\ [Next]_vars => PresenceInv'
BY TypeStep, TypesOfStores, RemovalFirstStep, UnlessInPingStep DEF PresenceInv

LEMMA Presence == Spec => []PresenceInv
<1>1. Init => PresenceInv
  BY InitPresence
<1> QED BY <1>1, PresenceStep, PTL DEF Spec

-----------------------------------------------------------------------------
\* A candidate whom nothing will ever expire was vouched for by a write that he
\* works, or a call of his was lost (findOnlineDrivers takes a hash for a sign of
\* life, handleStatus creates one for a driver who leaves).
THEOREM SilentCandidatesExplained == Spec => []SilentCandidateExplained
<1>1. PresenceInv => SilentCandidateExplained
  BY DEF PresenceInv, HandOK, UnlessInPing, SilentCandidateExplained
<1> QED BY <1>1, Presence, PTL

\* The step of the second invariant: it is inductive with the stores' types.
LEMMA OfflineIsRemovedStep ==
  ASSUME StoresOK, OfflineIsRemoved, [Next]_vars PROVE OfflineIsRemoved'
<1> USE DEF OfflineIsRemoved, StoresOK, Write
<1> DEFINE Leaving(d) == [of |-> d, to |-> "offline"]
<1>1. CASE RouterStep
  <2>1. CASE Take \/ SetAside \/ SetPosition \/ MarkStatus
    BY <2>1 DEF Take, SetAside, SetPosition, MarkStatus, Proceed
  <2>2. CASE GeoAdd
    BY <2>2 DEF GeoAdd, Proceed, AfterPing
  <2>3. CASE Expire
    BY <2>3 DEF Expire, Proceed, Lost
  <2>4. CASE RemoveOffline
    BY <2>4 DEF RemoveOffline, Proceed, Lost
  <2> QED BY <1>1, <2>1, <2>2, <2>3, <2>4 DEF RouterStep
<1>2. CASE Resubscribe \/ LoseLink \/ Reconnect
  BY <1>2 DEF Resubscribe, Subscribe, SubscribeFails, LoseLink, Reconnect, Break
<1>3. CASE Crash
  BY <1>3 DEF Crash, Break
<1>4. ASSUME NEW d \in Driver, OpenApp(d) \/ CloseApp(d) \/ SendPing(d)
      PROVE  OfflineIsRemoved'
  BY <1>4 DEF OpenApp, CloseApp, SendPing
<1>5. ASSUME NEW d \in Driver, HashExpires(d) \/ Accept(d) \/ EndRide(d) \/ CancelRide(d) \/ MarkRide(d)
      PROVE  OfflineIsRemoved'
  BY <1>5 DEF HashExpires, Accept, EndRide, CancelRide, MarkRide, SetRow, Redis!ExpireHash, Redis!SetActive
<1>6. ASSUME NEW d \in Driver, NEW r \in Request, NEW s \in {"online", "offline"}, WriteRow(r, d, s)
      PROVE  OfflineIsRemoved'
  <2>1. s = "offline" => put'[r] = Leaving(d)
    BY <1>6 DEF WriteRow
  <2>2. ASSUME NEW e \in Driver, NEW q \in Request, put[q] = Leaving(e) PROVE put'[q] = Leaving(e)
    BY <2>2, <1>6 DEF WriteRow, Idle
  <2> QED BY <2>1, <2>2, <1>6 DEF WriteRow, SetRow
<1>7. ASSUME NEW d \in Driver, NEW s \in {"online", "offline"}, WriteRowFails(d, s)
      PROVE  OfflineIsRemoved'
  BY <1>7 DEF WriteRowFails, SetRow, Lost
<1>8. ASSUME NEW r \in Request, SyncRedis(r) PROVE OfflineIsRemoved'
  <2>1. ASSUME NEW d \in Driver, NEW q \in Request, put[q] = Leaving(d), d \in geo'
        PROVE  put'[q] = Leaving(d)
    BY <2>1, <1>8 DEF SyncRedis, Redis!SetOnline, Redis!SetOffline
  <2> QED BY <2>1, <1>8 DEF SyncRedis, Redis!SetOnline, Redis!SetOffline
<1>9. ASSUME NEW r \in Request, SyncRedisFails(r) PROVE OfflineIsRemoved'
  <2>1. ASSUME NEW d \in Driver, NEW q \in Request, put[q] = Leaving(d), d \in geo'
        PROVE  put'[q] = Leaving(d) \/ "removal" \in cut'[d]
    BY <2>1, <1>9 DEF SyncRedisFails, Lost
  <2> QED BY <2>1, <1>9 DEF SyncRedisFails, Lost
<1>10. CASE UNCHANGED vars
  BY <1>10 DEF vars
<1> QED BY <1>1, <1>2, <1>3, <1>4, <1>5, <1>6, <1>7, <1>8, <1>9, <1>10 DEF Next

\* A driver whose row says offline, and who has no request between its two writes,
\* is in drivers:online only because a ping came after, or a removal was lost
\* (updateStatus writes the two stores one after the other).
THEOREM OfflineDriversRemoved == Spec => []OfflineIsRemoved
<1>1. Init => OfflineIsRemoved
  BY InitPresence
<1>2. PresenceInv /\ OfflineIsRemoved /\ [Next]_vars => OfflineIsRemoved'
  BY OfflineIsRemovedStep, TypesOfStores DEF PresenceInv
<1> QED BY <1>1, <1>2, Presence, PTL DEF Spec

-----------------------------------------------------------------------------
\* Every variable keeps its type, through lost connections, crashes and redeliveries.
THEOREM Typed == Spec => []TypeOK
<1>1. PresenceInv => TypeOK
  BY DEF PresenceInv
<1> QED BY <1>1, Presence, PTL

\* The farewell of d is in the queue, and behind all of his pings.
Covered(d, queue) ==
  /\ \E i \in 1 .. Len(queue) : queue[i] = Farewell(d)
  /\ \A i \in 1 .. Len(queue) :
       queue[i] = Ping(d) => \E j \in i + 1 .. Len(queue) : queue[j] = Farewell(d)

\* A farewell at the end of the queue covers everything.
LEMMA LastCovers ==
  ASSUME NEW queue \in Seq(Message), NEW more \in Seq(Message), NEW d \in Driver,
         \A i \in 1 .. Len(more) : more[i].what # "gps",
         \E i \in 1 .. Len(more) : more[i] = Farewell(d)
  PROVE  Covered(d, queue \o more)
<1> DEFINE all == queue \o more
<1>1. /\ Len(queue) \in Nat /\ Len(more) \in Nat /\ Len(all) = Len(queue) + Len(more)
      /\ \A i \in 1 .. Len(more) : all[Len(queue) + i] = more[i]
  <2>1. Len(queue) \in Nat /\ Len(more) \in Nat /\ Len(all) = Len(queue) + Len(more)
    OBVIOUS
  <2>2. ASSUME NEW i \in 1 .. Len(more) PROVE all[Len(queue) + i] = more[i]
    BY <2>1
  <2> QED BY <2>1, <2>2
<1>2. PICK k \in 1 .. Len(more) : more[k] = Farewell(d)
  OBVIOUS
<1> HIDE DEF all
<1>3. all[Len(queue) + k] = Farewell(d) /\ Len(queue) + k \in 1 .. Len(all)
  BY <1>1, <1>2
<1>4. ASSUME NEW i \in 1 .. Len(all), all[i] = Ping(d)
      PROVE  Len(queue) + k \in i + 1 .. Len(all)
  <2>1. CASE i \in 1 .. Len(queue)
    BY <1>1, <2>1
  <2>2. CASE i \notin 1 .. Len(queue)
    <3>1. i - Len(queue) \in 1 .. Len(more) /\ Len(queue) + (i - Len(queue)) = i
      BY <1>1, <2>2
    <3>2. more[i - Len(queue)] = Ping(d)
      BY <1>1, <1>4, <3>1
    <3> QED BY <3>1, <3>2 DEF Ping
  <2> QED BY <2>1, <2>2
<1> QED BY <1>3, <1>4 DEF Covered, all

\* A message put on the shelf is there, with those that were.
LEMMA ShelfGrows ==
  ASSUME NEW old \in Seq(Message), NEW m \in Message
  PROVE  m \in ToSet(Append(old, m)) /\ \A k \in ToSet(old) : k \in ToSet(Append(old, m))
<1> DEFINE new == Append(old, m)
<1>1. /\ DOMAIN new = 1 .. Len(old) + 1 /\ DOMAIN old = 1 .. Len(old) /\ Len(old) \in Nat
      /\ new[Len(old) + 1] = m
  OBVIOUS
<1>2. \A i \in 1 .. Len(old) : new[i] = old[i]
  OBVIOUS
<1> HIDE DEF new
<1> QED BY <1>1, <1>2 DEF ToSet, new

\* No step leaves one of his pings behind his farewell, nor him in the set without one.
LEMMA FarewellLastStep ==
  ASSUME TypeOK, HandOK, FarewellLast, [Next]_vars PROVE FarewellLast'
<1> SUFFICES ASSUME NEW d \in Driver, app'[d] = "off", "status" \in subs', "removal" \notin cut'[d]
             PROVE  LastIsFarewell(d)'
  BY DEF FarewellLast
<1> USE DEF LastIsFarewell
<1> DEFINE Goal == LastIsFarewell(d)'
           Before == app[d] = "off" /\ "status" \in subs /\ "removal" \notin cut[d]
<1>1. inbox \in Seq(Message) /\ Len(inbox) \in Nat /\ DOMAIN inbox = 1 .. Len(inbox)
  BY DEF TypeOK
<1>2. Before => LastIsFarewell(d)
  BY DEF FarewellLast
<1>3. ASSUME inbox' \in Seq(Message), Covered(d, inbox') PROVE Goal
  <2>1. Farewell(d) \in ToSet(inbox')
    BY <1>3 DEF Covered, ToSet
  <2> QED BY <1>3, <2>1 DEF Covered, FarewellOnItsWay, Farewell
<1>4. ASSUME Before, UNCHANGED <<inbox, shelf, at, hand>>, geo' \in SUBSET geo PROVE Goal
  BY <1>2, <1>4 DEF FarewellOnItsWay, ToSet
<1>5. CASE RouterStep
  <2>1. Before
    <3>1. UNCHANGED <<app, subs>>
      BY <1>5 DEF RouterStep, Take, SetAside, GeoAdd, SetPosition, Expire, RemoveOffline, MarkStatus, Proceed
    <3>2. cut' = cut \/ \E w : Lost(hand.of, w)
      BY <1>5 DEF RouterStep, Take, SetAside, GeoAdd, SetPosition, Expire, RemoveOffline, MarkStatus
    <3>3. \A w \in cut[d] : w \in cut'[d]
      BY <3>2 DEF Lost, TypeOK
    <3> QED BY <3>1, <3>3
  <2>2. CASE Take \/ SetAside
    <3>1. inbox # <<>> /\ Head(inbox) = inbox[1] /\ inbox' = Tail(inbox) /\ UNCHANGED geo
      BY <2>2 DEF Take, SetAside, TypeOK
    <3>2. /\ Len(inbox) >= 1 /\ Len(inbox') = Len(inbox) - 1 /\ DOMAIN inbox' = 1 .. Len(inbox')
          /\ \A i \in 1 .. Len(inbox') : inbox'[i] = inbox[i + 1]
      BY <1>1, <3>1
    <3>3. \A i \in 1 .. Len(inbox') :
            inbox'[i] = Ping(d) => \E j \in i + 1 .. Len(inbox') : inbox'[j] = Farewell(d)
      <4> SUFFICES ASSUME NEW i \in 1 .. Len(inbox'), inbox'[i] = Ping(d)
                   PROVE  \E j \in i + 1 .. Len(inbox') : inbox'[j] = Farewell(d)
        OBVIOUS
      <4>1. PICK j \in i + 2 .. Len(inbox) : inbox[j] = Farewell(d)
        <5>1. i + 1 \in 1 .. Len(inbox) /\ inbox[i + 1] = Ping(d)
          BY <1>1, <3>2
        <5> QED BY <1>2, <2>1, <5>1
      <4>2. j - 1 \in i + 1 .. Len(inbox') /\ inbox'[j - 1] = Farewell(d)
        BY <1>1, <3>2, <4>1
      <4> QED BY <4>2
    <3>4. \A m \in ToSet(shelf) : m \in ToSet(shelf')
      <4>1. CASE Take
        BY <4>1 DEF Take
      <4>2. CASE SetAside
        <5>1. Head(inbox) \in Message /\ shelf \in Seq(Message)
          BY <3>1, <3>2 DEF TypeOK
        <5>2. shelf' = shelf \/ shelf' = Append(shelf, Head(inbox))
          BY <4>2 DEF SetAside
        <5> QED BY <5>1, <5>2, ShelfGrows
      <4> QED BY <2>2, <4>1, <4>2
    <3>5. inbox[1] = Farewell(d) => FarewellOnItsWay(d)'
      <4> SUFFICES ASSUME inbox[1] = Farewell(d) PROVE FarewellOnItsWay(d)'
        OBVIOUS
      <4>1. CASE Take
        BY <3>1, <4>1 DEF Take, Farewell, FarewellOnItsWay
      <4>2. CASE SetAside
        <5>1. shelf' = Append(shelf, Farewell(d))
          BY <3>1, <4>2 DEF SetAside, QosOf, TopicOf, Farewell
        <5>2. shelf \in Seq(Message) /\ Farewell(d) \in Message
          BY DEF TypeOK, Farewell, Message
        <5>3. Farewell(d) \in ToSet(shelf')
          BY <5>1, <5>2, ShelfGrows
        <5> QED BY <5>3 DEF FarewellOnItsWay, Farewell
      <4> QED BY <2>2, <4>1, <4>2
    <3>6. Farewell(d) \in ToSet(inbox) \cup ToSet(shelf) => FarewellOnItsWay(d)'
      <4>1. CASE Farewell(d) \in ToSet(shelf)
        BY <3>4, <4>1 DEF FarewellOnItsWay, Farewell
      <4>2. ASSUME NEW j \in 1 .. Len(inbox), j # 1, inbox[j] = Farewell(d)
            PROVE  FarewellOnItsWay(d)'
        <5>1. j - 1 \in 1 .. Len(inbox') /\ inbox'[j - 1] = Farewell(d)
          BY <1>1, <3>2, <4>2
        <5> QED BY <3>2, <5>1 DEF FarewellOnItsWay, Farewell, ToSet
      <4>3. Farewell(d) \in ToSet(inbox) => \E j \in 1 .. Len(inbox) : inbox[j] = Farewell(d)
        BY <1>1 DEF ToSet
      <4> QED BY <3>5, <4>1, <4>2, <4>3
    <3>7. at = "done"
      BY <2>2 DEF Take, SetAside, HandOK, Message, NoMessage
    <3>8. d \in geo => Farewell(d) \in ToSet(inbox) \cup ToSet(shelf)
      BY <1>2, <2>1, <3>7 DEF FarewellOnItsWay, Farewell
    <3>9. at' = "geoadd" /\ hand'.of = d => Farewell(d) \in ToSet(inbox)
      <4> SUFFICES ASSUME at' = "geoadd", hand'.of = d PROVE Farewell(d) \in ToSet(inbox)
        OBVIOUS
      <4>1. CASE Take
        <5>1. inbox[1] = Ping(d) /\ 1 \in 1 .. Len(inbox)
          <6>1. 1 \in 1 .. Len(inbox)
            BY <1>1, <3>2
          <6>2. inbox[1] \in Message
            BY <1>1, <6>1
          <6>3. hand' = inbox[1] /\ hand'.what = "gps"
            BY <3>1, <4>1 DEF Take
          <6> QED BY <6>1, <6>2, <6>3 DEF Ping, Message
        <5>2. PICK j \in 1 + 1 .. Len(inbox) : inbox[j] = Farewell(d)
          BY <1>2, <2>1, <5>1
        <5>3. j \in DOMAIN inbox
          BY <1>1
        <5> QED BY <5>2, <5>3 DEF ToSet
      <4>2. CASE SetAside
        BY <3>7, <4>2 DEF SetAside
      <4> QED BY <2>2, <4>1, <4>2
    <3> QED BY <3>1, <3>3, <3>6, <3>8, <3>9
  <2>3. CASE GeoAdd
    <3>1. d \in geo' => FarewellOnItsWay(d)
      BY <1>2, <2>1, <2>3 DEF GeoAdd
    <3>2. FarewellOnItsWay(d) => FarewellOnItsWay(d)'
      BY <2>3 DEF GeoAdd, Proceed, FarewellOnItsWay, ToSet
    <3> QED BY <1>2, <2>1, <2>3, <3>1, <3>2 DEF GeoAdd, Proceed
  <2>4. CASE SetPosition \/ Expire \/ MarkStatus
    <3>1. FarewellOnItsWay(d) => FarewellOnItsWay(d)'
      BY <2>4 DEF SetPosition, Expire, MarkStatus, Proceed, FarewellOnItsWay
    <3>2. UNCHANGED <<geo, inbox>> /\ at' # "geoadd"
      BY <2>4 DEF SetPosition, Expire, MarkStatus, Proceed
    <3> QED BY <1>2, <2>1, <3>1, <3>2
  <2>5. CASE RemoveOffline
    <3>1. UNCHANGED <<inbox, shelf>> /\ at' # "geoadd"
      BY <2>5 DEF RemoveOffline, Proceed
    <3>2. d \in geo' => d \in geo /\ hand.of # d
      BY <2>5 DEF RemoveOffline, Lost, TypeOK
    <3>3. d \in geo' => FarewellOnItsWay(d)'
      BY <1>2, <2>1, <3>1, <3>2 DEF FarewellOnItsWay, ToSet
    <3> QED BY <1>2, <2>1, <3>1, <3>3
  <2> QED BY <1>5, <2>2, <2>3, <2>4, <2>5 DEF RouterStep
<1>6. CASE Resubscribe
  <2>1. UNCHANGED <<app, cut, geo, at, hand, shelf>>
    BY <1>6 DEF Resubscribe, Subscribe, SubscribeFails
  <2>2. ASSUME Subscribe("status") PROVE Goal
    <3>1. PICK arrived \in SetToSeqs(RetainedMessages) : inbox' = inbox \o arrived
      BY <2>2 DEF Subscribe
    <3>2. /\ arrived \in Seq(Message)
          /\ \E i \in 1 .. Len(arrived) : arrived[i] = Farewell(d)
          /\ \A i \in 1 .. Len(arrived) : arrived[i].what # "gps"
      <4>1. Retained(d) = "offline"
        BY <2>1 DEF Retained
      <4>2. \A e \in Driver : app[e] \in {"off", "on"}
        BY DEF TypeOK
      <4>3. /\ arrived \in Seq(Message)
            /\ \E i \in 1 .. Len(arrived) : arrived[i] = [of |-> d, what |-> Retained(d)]
            /\ \A i \in 1 .. Len(arrived) : arrived[i].what # "gps"
        BY <4>2, RetainedArrive
      <4> QED BY <4>1, <4>3 DEF Farewell
    <3>3. Covered(d, inbox')
      BY <1>1, <3>1, <3>2, LastCovers
    <3>4. inbox' \in Seq(Message)
      <4> HIDE DEF LastIsFarewell, Goal, Before
      <4> QED BY <1>1, <3>1, <3>2
    <3> HIDE DEF Goal
    <3> QED BY <1>3, <3>3, <3>4
  <2>3. ASSUME NEW topic \in Topic, Subscribe(topic), topic # "status" PROVE Goal
    <3>1. Before /\ UNCHANGED inbox
      BY <2>1, <2>3 DEF Subscribe
    <3> QED BY <1>4, <2>1, <3>1
  <2>4. ASSUME NEW topic \in Topic, SubscribeFails(topic) PROVE Goal
    <3>1. Before /\ UNCHANGED inbox
      BY <2>1, <2>4 DEF SubscribeFails
    <3> QED BY <1>4, <2>1, <3>1
  <2> QED BY <1>6, <2>2, <2>3, <2>4 DEF Resubscribe
<1>7. CASE LoseLink \/ Crash
  <2>1. Break /\ UNCHANGED <<app, geo>>
    BY <1>7 DEF LoseLink, Crash
  <2>2. Before
    <3>1. UNCHANGED subs
      BY <2>1, BreakKeepsTypes
    <3>2. CASE LoseLink
      BY <2>1, <3>1, <3>2 DEF LoseLink
    <3>3. CASE Crash
      <4>1. \E lost : cut'[d] = cut[d] \cup lost
        BY <3>3 DEF Crash
      <4> QED BY <2>1, <3>1, <4>1
    <3> QED BY <1>7, <3>2, <3>3
  <2>3. /\ inbox' \in Seq(Message) /\ DOMAIN inbox' = 1 .. Len(inbox')
        /\ \A i \in 1 .. Len(inbox') : inbox'[i] # Ping(d)
        /\ \A m \in ToSet(inbox) \cup ToSet(shelf) : m.what # "gps" => m \in ToSet(inbox')
        /\ hand # NoMessage /\ hand.what # "gps" => hand \in ToSet(inbox')
    BY <2>1, SessionKeeps, BreakKeepsTypes DEF TypeOK, Ping
  <2>4. at' = "geoadd" /\ hand'.of = d => at = "geoadd" /\ hand.of = d
    BY <1>7 DEF LoseLink, Crash
  <2>5. FarewellOnItsWay(d) => FarewellOnItsWay(d)'
    BY <2>3 DEF FarewellOnItsWay, NoMessage
  <2> QED BY <1>2, <2>1, <2>2, <2>3, <2>4, <2>5
<1>8. CASE Reconnect
  BY <1>4, <1>8 DEF Reconnect
<1>9. ASSUME NEW e \in Driver, OpenApp(e) \/ SendPing(e) PROVE Goal
  <2>1. Before /\ UNCHANGED <<geo, at, hand, shelf>>
    BY <1>9 DEF OpenApp, SendPing, TypeOK
  <2>2. PICK m \in Message : m # Ping(d) /\ Deliver(m)
    <3>1. e # d
      BY <1>9, <2>1 DEF OpenApp, SendPing, TypeOK
    <3> QED BY <1>9, <3>1 DEF OpenApp, SendPing, Message, Ping
  <2>3. CASE inbox' = inbox
    BY <1>4, <2>1, <2>3
  <2>4. CASE inbox' = Append(inbox, m)
    <3>1. /\ Len(inbox') = Len(inbox) + 1 /\ DOMAIN inbox' = 1 .. Len(inbox')
          /\ \A i \in 1 .. Len(inbox) : inbox'[i] = inbox[i]
          /\ inbox'[Len(inbox) + 1] = m
      BY <1>1, <2>4
    <3>2. FarewellOnItsWay(d) => FarewellOnItsWay(d)'
      BY <1>1, <2>1, <3>1 DEF FarewellOnItsWay, ToSet
    <3>3. ASSUME NEW i \in 1 .. Len(inbox'), inbox'[i] = Ping(d)
          PROVE  \E j \in i + 1 .. Len(inbox') : inbox'[j] = Farewell(d)
      <4>1. i \in 1 .. Len(inbox) /\ inbox[i] = Ping(d)
        BY <1>1, <2>2, <3>1, <3>3
      <4>2. PICK j \in i + 1 .. Len(inbox) : inbox[j] = Farewell(d)
        BY <1>2, <2>1, <4>1
      <4>3. j \in i + 1 .. Len(inbox') /\ j \in 1 .. Len(inbox)
        BY <1>1, <3>1
      <4> QED BY <3>1, <4>2, <4>3
    <3> QED BY <1>2, <2>1, <3>2, <3>3
  <2> QED BY <1>1, <2>2, <2>3, <2>4, Delivered
<1>10. ASSUME NEW e \in Driver, CloseApp(e) PROVE Goal
  <2>1. UNCHANGED <<geo, at, hand, shelf, subs, cut>> /\ Deliver(Farewell(e))
    BY <1>10 DEF CloseApp, Farewell
  <2>2. Farewell(e) \in Message
    BY DEF Farewell, Message
  <2>3. inbox' = Append(inbox, Farewell(e))
    BY <2>1 DEF Deliver, TopicOf, QosOf, Farewell
  <2>4. CASE e = d
    <3>1. inbox' = inbox \o <<Farewell(d)>>
      BY <1>1, <2>2, <2>3, <2>4
    <3> DEFINE more == <<Farewell(d)>>
    <3>2. /\ more \in Seq(Message) /\ Len(more) = 1 /\ more[1] = Farewell(d)
          /\ Farewell(d).what # "gps"
      BY <2>2, <2>4 DEF Farewell
    <3> HIDE DEF more
    <3>3. Covered(d, inbox \o more)
      BY <1>1, <3>2, LastCovers
    <3>4. inbox \o more \in Seq(Message)
      BY <1>1, <3>2
    <3> QED BY <1>3, <3>1, <3>3, <3>4 DEF more
  <2>5. CASE e # d
    <3>0. Before
      BY <1>10, <2>1, <2>5 DEF CloseApp, TypeOK
    <3>1. /\ Len(inbox') = Len(inbox) + 1 /\ DOMAIN inbox' = 1 .. Len(inbox')
          /\ \A i \in 1 .. Len(inbox) : inbox'[i] = inbox[i]
          /\ inbox'[Len(inbox) + 1] = Farewell(e)
      BY <1>1, <2>2, <2>3
    <3>2. FarewellOnItsWay(d) => FarewellOnItsWay(d)'
      BY <1>1, <2>1, <3>1 DEF FarewellOnItsWay, ToSet
    <3>3. ASSUME NEW i \in 1 .. Len(inbox'), inbox'[i] = Ping(d)
          PROVE  \E j \in i + 1 .. Len(inbox') : inbox'[j] = Farewell(d)
      <4>1. i \in 1 .. Len(inbox) /\ inbox[i] = Ping(d)
        BY <1>1, <3>1, <3>3 DEF Ping, Farewell
      <4>2. PICK j \in i + 1 .. Len(inbox) : inbox[j] = Farewell(d)
        BY <1>2, <3>0, <4>1
      <4>3. j \in i + 1 .. Len(inbox') /\ j \in 1 .. Len(inbox)
        BY <1>1, <3>1
      <4> QED BY <3>1, <4>2, <4>3
    <3> QED BY <1>2, <2>1, <3>0, <3>2, <3>3
  <2> QED BY <2>4, <2>5
<1>11. ASSUME NEW e \in Driver, HashExpires(e) \/ Accept(e) \/ EndRide(e) \/ CancelRide(e) \/ MarkRide(e) PROVE Goal
  <2>1. Before /\ UNCHANGED <<inbox, shelf, at, hand, geo>>
    BY <1>11 DEF HashExpires, Accept, EndRide, CancelRide, MarkRide, Redis!ExpireHash, Redis!SetActive
  <2> QED BY <1>4, <2>1
<1>12. ASSUME NEW e \in Driver, NEW s \in {"online", "offline"},
              WriteRowFails(e, s) \/ \E r \in Request : WriteRow(r, e, s)
       PROVE  Goal
  <2>1. UNCHANGED <<inbox, shelf, at, hand, app, subs, geo>>
    BY <1>12 DEF WriteRow, WriteRowFails
  <2>2. \A w \in cut[d] : w \in cut'[d]
    BY <1>12 DEF WriteRow, WriteRowFails, Lost, TypeOK
  <2> QED BY <1>4, <2>1, <2>2
<1>13. ASSUME NEW r \in Request, SyncRedis(r) \/ SyncRedisFails(r)
       PROVE  Goal
  <2>1. UNCHANGED <<inbox, shelf, at, hand, app, subs>> /\ geo' \in SUBSET geo
    BY <1>13 DEF SyncRedis, SyncRedisFails, Redis!SetOnline, Redis!SetOffline
  <2>2. \A w \in cut[d] : w \in cut'[d]
    BY <1>13 DEF SyncRedis, SyncRedisFails, Lost, TypeOK
  <2> QED BY <1>4, <2>1, <2>2
<1>14. CASE UNCHANGED vars
  BY <1>4, <1>14 DEF vars
<1> HIDE DEF LastIsFarewell
<1>15. CASE \E e \in Driver :
              \/ OpenApp(e) \/ CloseApp(e) \/ SendPing(e) \/ HashExpires(e)
              \/ Accept(e) \/ EndRide(e) \/ CancelRide(e) \/ MarkRide(e)
              \/ \E s \in {"online", "offline"} :
                   WriteRowFails(e, s) \/ \E r \in Request : WriteRow(r, e, s)
  BY <1>9, <1>10, <1>11, <1>12, <1>15
<1>16. CASE \E r \in Request : SyncRedis(r) \/ SyncRedisFails(r)
  BY <1>13, <1>16
<1>17. Goal
  BY <1>5, <1>6, <1>7, <1>8, <1>14, <1>15, <1>16 DEF Next
<1> QED BY <1>17

\* A driver whose app is gone stays in drivers:online only while his "offline" is still
\* to be handled, whatever pings, reconnections and crashes lie between (onDriverStatus
\* is the only thing that removes him), or its ZREM was lost.
THEOREM GoneAnnounced == Spec => []GoneIsAnnounced
<1>1. Init => FarewellLast
  BY InitPresence
<1>2. PresenceInv /\ FarewellLast /\ [Next]_vars => FarewellLast'
  BY FarewellLastStep DEF PresenceInv
<1>3. FarewellLast => GoneIsAnnounced
  BY DEF FarewellLast, LastIsFarewell, GoneIsAnnounced
<1> QED BY <1>1, <1>2, <1>3, Presence, PTL DEF Spec

=============================================================================
