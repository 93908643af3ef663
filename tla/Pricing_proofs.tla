---------------------------- MODULE Pricing_proofs ----------------------------
(***************************************************************************)
(* Fares and surge, for any finite set of requests, any distances,          *)
(* durations and earlier orders: TypeOK, FareIsRight, FaresAreOrdered,      *)
(* SurgeFollowsDemand and EtaIsReal.                                        *)
(***************************************************************************)
EXTENDS Pricing, FiniteSetTheorems, TLAPS

Multipliers == 10..25

-----------------------------------------------------------------------------
(* Arithmetic *)

LEMMA ProductIsNat == ASSUME NEW a \in Nat, NEW b \in Nat PROVE a * b \in Nat
OBVIOUS

LEMMA ProductGrows ==
  ASSUME NEW a \in Nat, NEW b \in Nat, NEW c \in Nat, NEW d \in Nat, a <= b, c <= d
  PROVE  a * c <= b * d
OBVIOUS

\* The two roundings are to the nearest hundred and grow with what is rounded.
LEMMA BaseRounds ==
  ASSUME NEW n \in Nat
  PROVE  /\ Nearest(n, 6000) \in Nat
         /\ Near(6000 * Nearest(n, 6000), n, 3000)
BY DEF Nearest, Near

LEMMA BaseGrows ==
  ASSUME NEW n \in Nat, NEW k \in Nat, n <= k
  PROVE  Nearest(n, 6000) <= Nearest(k, 6000)
BY DEF Nearest

LEMMA SurgeRounds ==
  ASSUME NEW n \in Nat
  PROVE  /\ Nearest(n, 1000) \in Nat
         /\ Near(1000 * Nearest(n, 1000), n, 500)
BY DEF Nearest, Near

LEMMA SurgeGrows ==
  ASSUME NEW n \in Nat, NEW k \in Nat, n <= k
  PROVE  Nearest(n, 1000) <= Nearest(k, 1000)
BY DEF Nearest

LEMMA FallbackIsNat == ASSUME NEW dist \in Nat PROVE FallbackDuration(dist) \in Nat
BY DEF FallbackDuration

LEMMA MultiplierInRange == ASSUME NEW n \in Nat PROVE Multiplier(n) \in Multipliers
BY DEF Multiplier, Multipliers

LEMMA MultiplierGrows ==
  ASSUME NEW n \in Nat, NEW k \in Nat, n <= k PROVE Multiplier(n) <= Multiplier(k)
BY DEF Multiplier

-----------------------------------------------------------------------------
(* CalculateFare *)

LEMMA ConfigTyped ==
  ASSUME NEW v \in Vehicle
  PROVE  FareConfig[v] \in [base : Nat, perM : Nat, perMin : Nat, min : Nat]
BY DEF Vehicle, FareConfig

LEMMA SixtiethsIsNat ==
  ASSUME NEW v \in Vehicle, NEW dist \in Nat, NEW dur \in Nat
  PROVE  Sixtieths(FareConfig[v], dist, dur) \in Nat
BY DEF Vehicle, FareConfig, Sixtieths

LEMMA SixtiethsGrow ==
  ASSUME NEW v \in Vehicle, NEW dist \in Nat, NEW dur \in Nat,
         NEW longer \in Nat, NEW later \in Nat, dist <= longer, dur <= later
  PROVE  Sixtieths(FareConfig[v], dist, dur) <= Sixtieths(FareConfig[v], longer, later)
BY DEF Vehicle, FareConfig, Sixtieths

LEMMA FareTyped ==
  ASSUME NEW v \in Vehicle, NEW dist \in Nat, NEW dur \in Nat, NEW mult \in Multipliers
  PROVE  /\ Base(FareConfig[v], dist, dur) \in Nat
         /\ Surged(Base(FareConfig[v], dist, dur), mult) \in Nat
         /\ CalculateFare(FareConfig[v], dist, dur, mult) \in [base : Nat, final : Nat]
<1> DEFINE b == Base(FareConfig[v], dist, dur)
<1>1. b \in Nat
  <2>1. Nearest(Sixtieths(FareConfig[v], dist, dur), 6000) \in Nat
    BY SixtiethsIsNat, BaseRounds
  <2> QED BY <2>1 DEF Base
<1>2. b * mult \in Nat
  BY <1>1, ProductIsNat DEF Multipliers
<1>3. Surged(b, mult) \in Nat
  BY <1>2, SurgeRounds DEF Surged
<1> QED BY <1>1, <1>3, ConfigTyped DEF CalculateFare

\* A longer, slower or more expensive ride does not cost less.
LEMMA FareGrows ==
  ASSUME NEW v \in Vehicle, NEW dist \in Nat, NEW dur \in Nat, NEW mult \in Multipliers,
         NEW longer \in Nat, NEW later \in Nat, NEW more \in Multipliers,
         dist <= longer, dur <= later, mult <= more
  PROVE  CalculateFare(FareConfig[v], dist, dur, mult).final
           <= CalculateFare(FareConfig[v], longer, later, more).final
<1> DEFINE fc == FareConfig[v]
           b  == Base(fc, dist, dur)
           c  == Base(fc, longer, later)
<1>1. b \in Nat /\ c \in Nat /\ Surged(b, mult) \in Nat /\ Surged(c, more) \in Nat
  BY FareTyped
<1>2. b <= c
  <2>1. /\ Sixtieths(fc, dist, dur) \in Nat /\ Sixtieths(fc, longer, later) \in Nat
        /\ Sixtieths(fc, dist, dur) <= Sixtieths(fc, longer, later)
    BY SixtiethsIsNat, SixtiethsGrow
  <2> HIDE DEF fc
  <2>2. Nearest(Sixtieths(fc, dist, dur), 6000) <= Nearest(Sixtieths(fc, longer, later), 6000)
    BY <2>1, BaseGrows
  <2>3. /\ Nearest(Sixtieths(fc, dist, dur), 6000) \in Nat
        /\ Nearest(Sixtieths(fc, longer, later), 6000) \in Nat
    BY <2>1, BaseRounds
  <2> QED BY <2>2, <2>3 DEF Base
<1> HIDE DEF b, c
<1>3. b * mult \in Nat /\ c * more \in Nat /\ b * mult <= c * more
  BY <1>1, <1>2, ProductIsNat, ProductGrows DEF Multipliers
<1>4. Surged(b, mult) <= Surged(c, more)
  BY <1>3, SurgeGrows, SurgeRounds DEF Surged
<1>5. fc.min \in Nat
  BY ConfigTyped
<1> HIDE DEF fc
<1>6. CalculateFare(fc, dist, dur, mult).final
        = IF Surged(b, mult) < fc.min THEN fc.min ELSE Surged(b, mult)
  BY DEF CalculateFare, b
<1>7. CalculateFare(fc, longer, later, more).final
        = IF Surged(c, more) < fc.min THEN fc.min ELSE Surged(c, more)
  BY DEF CalculateFare, c
<1>8. CalculateFare(fc, dist, dur, mult).final <= CalculateFare(fc, longer, later, more).final
  BY <1>1, <1>4, <1>5, <1>6, <1>7
<1> QED BY <1>8 DEF fc

-----------------------------------------------------------------------------
(* The invariant *)

\* What the arguments need of the types.
PriceTypeOK ==
  /\ at \in [Request -> {"idle", "surge", "record", "create", "done"} \cup Booked]
  /\ kind \in [Request -> {"order", "estimate"}]
  /\ trip \in [Request -> [vehicle : Vehicle, dist : Nat, dur : Nat,
                          mult : {0} \cup Multipliers, base : Nat, final : Nat]]
  /\ demand \in Nat /\ crowd \in Nat /\ expired \in BOOLEAN
  /\ counted \in SUBSET Request
  /\ before \in [Request -> Nat] /\ seen \in [Request -> Nat]

\* A priced trip carries the fare of its route at its multiplier.
FareCharged ==
  \A r \in PricedTrips :
    CalculateFare(FareConfig[trip[r].vehicle], trip[r].dist, trip[r].dur, trip[r].mult)
      = [base |-> trip[r].base, final |-> trip[r].final]

\* Orders of before, as long as the window runs.
Earlier == IF expired THEN 0 ELSE crowd

\* The counter holds the earlier orders and those counted since, each once and
\* only after it read.
CounterExact ==
  /\ demand = Earlier + Cardinality(counted)
  /\ \A r \in counted : kind[r] = "order" /\ at[r] \notin {"idle", "surge", "record"}
  /\ \A r \in Request : at[r] = "record" => kind[r] = "order"

\* What a request in flight will find was already answered when it began.
WillFind == \A r \in Request : at[r] = "surge" => before[r] <= demand

\* A multiplier is made from a demand between what was answered before and what came in.
Orders(r) == {q \in Request \ {r} : kind[q] = "order" /\ at[q] # "idle"}

SeenBetween ==
  \A r \in PricedTrips :
    /\ trip[r].mult = Multiplier(seen[r])
    /\ before[r] <= seen[r] /\ seen[r] <= crowd + Cardinality(Orders(r))

PriceInv == PriceTypeOK /\ FareCharged /\ CounterExact /\ WillFind

-----------------------------------------------------------------------------
(* Types and fares *)

LEMMA PriceInit == Init => PriceInv /\ SeenBetween
<1> SUFFICES ASSUME Init PROVE PriceInv /\ SeenBetween
  OBVIOUS
<1>1. Cardinality({}) = 0
  BY FS_EmptySet
<1>2. PriceTypeOK
  BY PricingAssumption DEF Init, PriceTypeOK, NoTrip, Vehicle, Booked
<1>3. PricedTrips = {}
  BY DEF Init, NoTrip, PricedTrips
<1>4. CounterExact /\ WillFind
  BY <1>1, <1>2 DEF Init, CounterExact, WillFind, Earlier, PriceTypeOK
<1> QED BY <1>2, <1>3, <1>4 DEF PriceInv, FareCharged, SeenBetween

\* The orders counted are finitely many.
LEMMA CountedIsNat ==
  ASSUME NEW S, S \subseteq Request PROVE IsFiniteSet(S) /\ Cardinality(S) \in Nat
BY PricingAssumption, FS_Subset, FS_CardinalityType

LEMMA PricedTyped ==
  ASSUME PriceTypeOK, FareCharged, NEW r \in Request, NEW n \in Nat, Priced(r, n)
  PROVE  /\ trip' \in [Request -> [vehicle : Vehicle, dist : Nat, dur : Nat,
                                  mult : {0} \cup Multipliers, base : Nat, final : Nat]]
         /\ seen' \in [Request -> Nat]
         /\ FareCharged'
         /\ trip'[r].mult = Multiplier(n) /\ seen'[r] = n
         /\ \A q \in Request \ {r} : trip'[q] = trip[q] /\ seen'[q] = seen[q]
<1> DEFINE t    == trip[r]
           m    == Multiplier(n)
           fare == CalculateFare(FareConfig[t.vehicle], t.dist, t.dur, m)
<1>0. m \in Multipliers
  BY MultiplierInRange
<1>1. t \in [vehicle : Vehicle, dist : Nat, dur : Nat,
             mult : {0} \cup Multipliers, base : Nat, final : Nat]
  BY DEF PriceTypeOK
<1>2. t.vehicle \in Vehicle /\ t.dist \in Nat /\ t.dur \in Nat
  BY <1>1
<1> HIDE DEF m
<1>3. fare \in [base : Nat, final : Nat]
  BY <1>0, <1>2, FareTyped
<1>4. trip' = [trip EXCEPT ![r].mult = m, ![r].base = fare.base, ![r].final = fare.final]
  BY DEF Priced, m
<1>41. seen' = [seen EXCEPT ![r] = n]
  BY DEF Priced
<1> HIDE DEF fare
<1>5. trip'[r] = [t EXCEPT !.mult = m, !.base = fare.base, !.final = fare.final]
  BY <1>4 DEF PriceTypeOK
<1>6. \A q \in Request \ {r} : trip'[q] = trip[q]
  BY <1>4 DEF PriceTypeOK
<1>7. trip' \in [Request -> [vehicle : Vehicle, dist : Nat, dur : Nat,
                           mult : {0} \cup Multipliers, base : Nat, final : Nat]]
  BY <1>0, <1>1, <1>3, <1>4 DEF PriceTypeOK
<1>8. /\ trip'[r].vehicle = t.vehicle /\ trip'[r].dist = t.dist /\ trip'[r].dur = t.dur
      /\ trip'[r].mult = m /\ trip'[r].base = fare.base /\ trip'[r].final = fare.final
  BY <1>1, <1>5
<1>9. CalculateFare(FareConfig[trip'[r].vehicle], trip'[r].dist, trip'[r].dur, trip'[r].mult)
        = [base |-> trip'[r].base, final |-> trip'[r].final]
  BY <1>3, <1>8 DEF fare
<1>10. FareCharged'
  BY <1>6, <1>9 DEF FareCharged, PricedTrips
<1>11. /\ seen' \in [Request -> Nat] /\ seen'[r] = n
       /\ \A q \in Request \ {r} : seen'[q] = seen[q]
  BY <1>41 DEF PriceTypeOK
<1> QED BY <1>6, <1>7, <1>8, <1>10, <1>11 DEF m

\* Every read of the counter, and the default after an error, prices the request.
LEMMA PricingSteps ==
  ASSUME PriceTypeOK, NEW r \in Request, ReadSurge(r) \/ EstimateOrder(r) \/ ReadSurgeFails(r)
  PROVE  \E n \in Nat : Priced(r, n)
BY DEF ReadSurge, EstimateOrder, ReadSurgeFails, PriceTypeOK

LEMMA FareStep ==
  ASSUME PriceTypeOK, FareCharged, [Next]_vars PROVE PriceTypeOK' /\ FareCharged'
<1> USE DEF PriceTypeOK, Goto, Booked
<1>1. ASSUME NEW r \in Request, NEW k \in {"order", "estimate"}, NEW v \in Vehicle,
             NEW dist \in Distance, NEW dur \in RouteEstimate(dist), Begin(r, k, v, dist, dur)
      PROVE  PriceTypeOK' /\ FareCharged'
  <2>1. dist \in Nat /\ dur \in Nat
    BY PricingAssumption, FallbackIsNat DEF RouteEstimate
  <2>2. before' \in [Request -> Nat]
    <3>1. Cardinality({q \in counted : at[q] \in Booked}) \in Nat
      BY CountedIsNat
    <3> QED BY <3>1, <1>1 DEF Begin
  <2> DEFINE new == [NoTrip EXCEPT !.vehicle = v, !.dist = dist, !.dur = dur]
  <2>3. new \in [vehicle : Vehicle, dist : Nat, dur : Nat, mult : {0}, base : Nat, final : Nat]
    <3>1. NoTrip \in [vehicle : Vehicle, dist : Nat, dur : Nat, mult : {0}, base : Nat, final : Nat]
      BY DEF NoTrip, Vehicle
    <3> QED BY <2>1, <3>1
  <2>4. /\ trip' = [trip EXCEPT ![r] = new]
        /\ at' = [at EXCEPT ![r] = "surge"] /\ kind' = [kind EXCEPT ![r] = k]
        /\ UNCHANGED <<demand, crowd, expired, counted, seen>>
    BY <1>1 DEF Begin
  <2> HIDE DEF new
  <2>5. PriceTypeOK'
    BY <2>2, <2>3, <2>4
  <2>6. \A q \in PricedTrips' : q \in PricedTrips /\ trip'[q] = trip[q]
    BY <2>3, <2>4 DEF PricedTrips
  <2> QED BY <2>5, <2>6 DEF FareCharged
<1>2. ASSUME NEW r \in Request, ReadSurge(r) \/ EstimateOrder(r) \/ ReadSurgeFails(r)
      PROVE  PriceTypeOK' /\ FareCharged'
  <2>1. PICK n \in Nat : Priced(r, n)
    BY <1>2, PricingSteps
  <2>2. FareCharged' /\ seen' \in [Request -> Nat] /\ trip' \in [Request -> [vehicle : Vehicle, dist : Nat, dur : Nat,
                                     mult : {0} \cup Multipliers, base : Nat, final : Nat]]
    BY <2>1, PricedTyped
  <2>3. /\ at' \in [Request -> {"idle", "surge", "record", "create", "done"} \cup Booked]
        /\ before' \in [Request -> Nat]
        /\ UNCHANGED <<kind, demand, crowd, expired, counted>>
    BY <1>2 DEF ReadSurge, EstimateOrder, ReadSurgeFails
  <2> QED BY <2>2, <2>3
<1>3. ASSUME NEW r \in Request, RecordDemand(r) \/ RecordDemandFails(r)
      PROVE  PriceTypeOK' /\ FareCharged'
  <2>1. PriceTypeOK'
    BY <1>3 DEF RecordDemand, RecordDemandFails
  <2>2. UNCHANGED trip
    BY <1>3 DEF RecordDemand, RecordDemandFails
  <2> QED BY <2>1, <2>2 DEF FareCharged, PricedTrips
<1>4. ASSUME NEW r \in Request,
             \/ CreateTrip(r) \/ CreateTripFails(r) \/ RecordCorrection(r) \/ RecordCorrectionFails(r)
             \/ \E secs \in Actual : CompleteTrip(r, secs) \/ CompleteTripUnanswered(r, secs)
      PROVE  PriceTypeOK' /\ FareCharged'
  <2>1. /\ at' \in [Request -> {"idle", "surge", "record", "create", "done"} \cup Booked]
        /\ UNCHANGED <<kind, trip, demand, crowd, expired, counted, before, seen>>
    BY <1>4 DEF CreateTrip, CreateTripFails, CompleteTrip, CompleteTripUnanswered, RecordCorrection, RecordCorrectionFails
  <2> QED BY <2>1 DEF FareCharged, PricedTrips
<1>5. CASE ExpireDemand
  BY <1>5 DEF ExpireDemand, FareCharged, PricedTrips
<1>6. CASE Crash
  BY <1>6 DEF Crash, FareCharged, PricedTrips
<1>7. CASE UNCHANGED vars
  BY <1>7 DEF vars, FareCharged, PricedTrips
<1> QED BY <1>1, <1>2, <1>3, <1>4, <1>5, <1>6, <1>7 DEF Next

-----------------------------------------------------------------------------
(* The counter *)

LEMMA CounterStep ==
  ASSUME PriceTypeOK, CounterExact, WillFind, [Next]_vars PROVE CounterExact' /\ WillFind'
<1> USE DEF PriceTypeOK, CounterExact, WillFind, Earlier, Goto, Booked
<1>0. Cardinality(counted) \in Nat /\ IsFiniteSet(counted)
  BY CountedIsNat
<1>1. ASSUME NEW r \in Request, NEW k \in {"order", "estimate"}, NEW v \in Vehicle,
             NEW dist \in Distance, NEW dur \in RouteEstimate(dist), Begin(r, k, v, dist, dur)
      PROVE  CounterExact' /\ WillFind'
  <2> DEFINE answered == {q \in counted : at[q] \in Booked}
  <2>1. Cardinality(answered) \in Nat /\ Cardinality(answered) <= Cardinality(counted)
    BY <1>0, CountedIsNat, FS_Subset
  <2>2. before' = [before EXCEPT ![r] = Earlier + Cardinality(answered)]
    BY <1>1 DEF Begin
  <2> HIDE DEF answered
  <2>3. before'[r] <= demand
    BY <1>0, <2>1, <2>2
  <2>4. r \notin counted
    BY <1>1 DEF Begin
  <2>5. /\ at' = [at EXCEPT ![r] = "surge"] /\ kind' = [kind EXCEPT ![r] = k]
        /\ UNCHANGED <<demand, crowd, expired, counted>>
    BY <1>1 DEF Begin
  <2> QED BY <2>2, <2>3, <2>4, <2>5
<1>2. ASSUME NEW r \in Request, ReadSurge(r) \/ EstimateOrder(r) \/ ReadSurgeFails(r)
      PROVE  CounterExact' /\ WillFind'
  <2>1. /\ \A q \in Request : before'[q] = before[q] \/ before'[q] = 0
        /\ UNCHANGED <<kind, demand, crowd, expired, counted>>
        /\ \A q \in Request \ {r} : at'[q] = at[q]
        /\ at[r] = "surge" /\ at'[r] # "surge" /\ (at'[r] = "record" => kind[r] = "order")
    BY <1>2 DEF ReadSurge, EstimateOrder, ReadSurgeFails
  <2> QED BY <2>1
<1>3. ASSUME NEW r \in Request, RecordDemand(r) \/ RecordDemandFails(r)
      PROVE  CounterExact' /\ WillFind'
  <2>1. /\ at[r] = "record" /\ at' = [at EXCEPT ![r] = "create"]
        /\ UNCHANGED <<kind, crowd, expired, before>>
        /\ \/ demand' = demand + 1 /\ counted' = counted \cup {r}
           \/ UNCHANGED <<demand, counted>>
    BY <1>3 DEF RecordDemand, RecordDemandFails
  <2>2. r \notin counted
    BY <2>1
  <2>3. Cardinality(counted \cup {r}) = Cardinality(counted) + 1
    BY <1>0, <2>2, FS_AddElement
  <2>4. CASE demand' = demand + 1 /\ counted' = counted \cup {r}
    <3>1. demand' = Earlier + Cardinality(counted')
      BY <1>0, <2>3, <2>4
    <3>2. \A q \in counted' : kind[q] = "order" /\ at'[q] \notin {"idle", "surge", "record"}
      BY <2>1, <2>4
    <3> QED BY <2>1, <2>4, <3>1, <3>2
  <2>5. CASE UNCHANGED <<demand, counted>>
    BY <2>1, <2>5
  <2> QED BY <2>1, <2>4, <2>5
<1>4. ASSUME NEW r \in Request,
             \/ CreateTrip(r) \/ CreateTripFails(r) \/ RecordCorrection(r) \/ RecordCorrectionFails(r)
             \/ \E secs \in Actual : CompleteTrip(r, secs) \/ CompleteTripUnanswered(r, secs)
      PROVE  CounterExact' /\ WillFind'
  <2>1. /\ UNCHANGED at \/ \E l \in {"searching", "done", "completed"} : at' = [at EXCEPT ![r] = l]
        /\ UNCHANGED <<kind, demand, crowd, expired, counted, before>>
    BY <1>4 DEF CreateTrip, CreateTripFails, CompleteTrip, CompleteTripUnanswered, RecordCorrection, RecordCorrectionFails
  <2> QED BY <2>1
<1>5. CASE ExpireDemand
  BY <1>5, FS_EmptySet DEF ExpireDemand
<1>6. CASE Crash
  <2>1. \A r \in Request : at'[r] = at[r] \/ at'[r] = "done"
    BY <1>6 DEF Crash
  <2> QED BY <1>6, <2>1 DEF Crash
<1>7. CASE UNCHANGED vars
  BY <1>7 DEF vars
<1> QED BY <1>1, <1>2, <1>3, <1>4, <1>5, <1>6, <1>7 DEF Next

LEMMA PriceInvStep == PriceInv /\ [Next]_vars => PriceInv'
BY FareStep, CounterStep DEF PriceInv

LEMMA PriceInvariant == Spec => []PriceInv
<1>1. Init => PriceInv
  BY PriceInit
<1> QED BY <1>1, PriceInvStep, PTL DEF Spec

-----------------------------------------------------------------------------
(* The theorems *)

\* The arithmetic of the minimum: b and f are the rounded fares, x is the exact one in
\* sixtieths.
LEMMA MinimumAfterSurge ==
  ASSUME NEW x \in Nat, NEW mult \in Multipliers, NEW min \in Nat,
         NEW b \in Nat, Near(60 * b, x, 3000),
         NEW f \in Nat, Near(10 * f, b * mult, 500), f < min
  PROVE  (x - 3000) * mult < 600 * (min + 50)
<1> DEFINE y == b * mult
           u == x - 3000
           w == 60 * b
<1>1. y \in Int /\ y <= 10 * f + 500
  BY DEF Multipliers, Near
<1>2. u \in Int /\ w \in Int /\ mult \in Nat /\ u <= w
  BY DEF Multipliers, Near
<1>3. w * mult = 60 * y
  BY DEF Multipliers
<1> HIDE DEF y, u, w
<1>4. u * mult <= w * mult /\ u * mult \in Int
  BY <1>2
<1> DEFINE z == u * mult
<1>5. z \in Int /\ z <= 60 * y
  BY <1>3, <1>4
<1> HIDE DEF z
<1>6. z < 600 * (min + 50)
  BY <1>1, <1>5
<1> QED BY <1>6 DEF z, u

\* In a state of the invariant every fare is right.
LEMMA PriceInvFareIsRight == PriceInv => FareIsRight
<1> SUFFICES ASSUME PriceInv, NEW r \in PricedTrips
             PROVE  LET t     == trip[r]
                        fc    == FareConfig[t.vehicle]
                        exact == 60 * fc.base + 60 * fc.perM * t.dist + fc.perMin * t.dur
                    IN  /\ t.base % 100 = 0 /\ t.final % 100 = 0 /\ t.final >= fc.min
                        /\ \/ Near(60 * t.base, exact, 3000) /\ Near(10 * t.final, t.base * t.mult, 500)
                           \/ /\ t.base = fc.min /\ t.final = fc.min
                              /\ (exact - 3000) * t.mult < 600 * (fc.min + 50)
  BY DEF FareIsRight
<1> DEFINE t  == trip[r]
           fc == FareConfig[t.vehicle]
           x  == Sixtieths(fc, t.dist, t.dur)
           p  == Nearest(x, 6000)
           s  == Nearest((100 * p) * t.mult, 1000)
           e  == 60 * fc.base + 60 * fc.perM * t.dist + fc.perMin * t.dur
           mult == t.mult
           min  == fc.min
<1> HIDE DEF t, fc, x, p, s, e, mult, min
<1>1. t.vehicle \in Vehicle /\ t.dist \in Nat /\ t.dur \in Nat /\ mult \in Multipliers
  BY DEF PriceInv, PriceTypeOK, PricedTrips, t, mult
<1>2. x \in Nat
  BY <1>1, SixtiethsIsNat DEF fc, x
<1>3. x = e
  <2>1. CASE t.vehicle = "motor"
    BY <1>1, <2>1 DEF Sixtieths, FareConfig, fc, x, e
  <2>2. CASE t.vehicle = "car"
    BY <1>1, <2>2 DEF Sixtieths, FareConfig, fc, x, e
  <2> QED BY <1>1, <2>1, <2>2 DEF Vehicle
<1>4. min \in Nat /\ min % 100 = 0
  BY <1>1 DEF Vehicle, FareConfig, fc, min
<1>5. CalculateFare(fc, t.dist, t.dur, mult) = [base |-> t.base, final |-> t.final]
  BY DEF PriceInv, FareCharged, t, fc, mult
<1>6. Base(fc, t.dist, t.dur) = 100 * p /\ Surged(100 * p, mult) = 100 * s
  BY DEF Base, Surged, x, p, s, mult
<1>7. p \in Nat /\ Near(6000 * p, x, 3000)
  BY <1>2, BaseRounds DEF p
<1>8. s \in Nat /\ Near(1000 * s, (100 * p) * mult, 500)
  <2> DEFINE n == (100 * p) * mult
  <2> HIDE DEF n
  <2>1. n \in Nat
    BY <1>1, <1>7, ProductIsNat DEF Multipliers, n
  <2>2. Nearest(n, 1000) \in Nat /\ Near(1000 * Nearest(n, 1000), n, 500)
    BY <2>1, SurgeRounds
  <2> QED BY <2>2 DEF n, s, mult
<1> DEFINE b == 100 * p
           f == 100 * s
<1>9. /\ b \in Nat /\ b % 100 = 0 /\ Near(60 * b, x, 3000)
      /\ f \in Nat /\ f % 100 = 0 /\ Near(10 * f, b * mult, 500)
  BY <1>7, <1>8 DEF Near
<1>10. \/ t.base = b /\ t.final = f /\ ~(f < min)
       \/ t.base = min /\ t.final = min /\ f < min
  BY <1>5, <1>6 DEF CalculateFare, min
<1> HIDE DEF b, f
<1>11. CASE t.base = b /\ t.final = f /\ ~(f < min)
  <2>1. f >= min
    BY <1>4, <1>9, <1>11
  <2> QED BY <1>3, <1>9, <1>11, <2>1 DEF t, fc, mult, min, e
<1>12. CASE t.base = min /\ t.final = min /\ f < min
  <2>1. (x - 3000) * mult < 600 * (min + 50)
    BY <1>1, <1>2, <1>4, <1>9, <1>12, MinimumAfterSurge
  <2>2. min >= min
    BY <1>4
  <2> QED BY <1>3, <1>4, <1>12, <2>1, <2>2 DEF t, fc, mult, min, e
<1> QED BY <1>10, <1>11, <1>12

\* What the passenger is charged is his route's price at his multiplier, rounded to
\* the nearest hundred twice, or the vehicle's minimum (CalculateFare).
THEOREM FaresRight == Spec => []FareIsRight
BY PriceInvariant, PriceInvFareIsRight, PTL

\* No passenger pays more than another one with the same vehicle for a route that
\* is neither longer nor slower, at no higher a multiplier.
THEOREM FaresOrdered == Spec => []FaresAreOrdered
<1> SUFFICES PriceInv => FaresAreOrdered
  BY PriceInvariant, PTL
<1> SUFFICES ASSUME PriceInv, NEW q \in PricedTrips, NEW r \in PricedTrips,
                    trip[q].vehicle = trip[r].vehicle, trip[q].mult <= trip[r].mult,
                    trip[q].dist <= trip[r].dist, trip[q].dur <= trip[r].dur
             PROVE  trip[q].final <= trip[r].final
  BY DEF FaresAreOrdered
<1>1. ASSUME NEW p \in PricedTrips
      PROVE  /\ trip[p].vehicle \in Vehicle /\ trip[p].dist \in Nat /\ trip[p].dur \in Nat
             /\ trip[p].mult \in Multipliers
             /\ CalculateFare(FareConfig[trip[p].vehicle], trip[p].dist, trip[p].dur, trip[p].mult).final
                  = trip[p].final
  <2>1. p \in Request /\ trip[p].mult # 0
    BY DEF PricedTrips
  <2>2. CalculateFare(FareConfig[trip[p].vehicle], trip[p].dist, trip[p].dur, trip[p].mult)
          = [base |-> trip[p].base, final |-> trip[p].final]
    BY DEF PriceInv, FareCharged
  <2> QED BY <2>1, <2>2 DEF PriceInv, PriceTypeOK
<1> QED BY <1>1, FareGrows

\* Requests that have come in stay in.
LEMMA OrdersGrow ==
  ASSUME PriceTypeOK, [Next]_vars, NEW r \in Request
  PROVE  Orders(r) \subseteq Orders(r)' /\ crowd' = crowd
<1> USE DEF PriceTypeOK, Goto
<1> SUFFICES /\ \A q \in Request : at[q] # "idle" => at'[q] # "idle" /\ kind'[q] = kind[q]
             /\ crowd' = crowd
  BY DEF Orders
<1>1. ASSUME NEW q \in Request, NEW k \in {"order", "estimate"}, NEW v \in Vehicle,
             NEW dist \in Distance, NEW dur \in RouteEstimate(dist), Begin(q, k, v, dist, dur)
      PROVE  /\ \A p \in Request : at[p] # "idle" => at'[p] # "idle" /\ kind'[p] = kind[p]
             /\ crowd' = crowd
  BY <1>1 DEF Begin
<1>2. ASSUME NEW q \in Request,
             \/ ReadSurge(q) \/ EstimateOrder(q) \/ ReadSurgeFails(q)
             \/ RecordDemand(q) \/ RecordDemandFails(q) \/ CreateTrip(q) \/ CreateTripFails(q)
             \/ \E secs \in Actual : CompleteTrip(q, secs) \/ CompleteTripUnanswered(q, secs)
             \/ RecordCorrection(q) \/ RecordCorrectionFails(q)
      PROVE  /\ \A p \in Request : at[p] # "idle" => at'[p] # "idle" /\ kind'[p] = kind[p]
             /\ crowd' = crowd
  <2>1. /\ \/ UNCHANGED at
           \/ \E l \in {"record", "create", "done", "searching", "completed"} : at' = [at EXCEPT ![q] = l]
        /\ UNCHANGED <<kind, crowd>>
    BY <1>2 DEF ReadSurge, EstimateOrder, ReadSurgeFails, RecordDemand, RecordDemandFails,
       CreateTrip, CreateTripFails, CompleteTrip, CompleteTripUnanswered, RecordCorrection, RecordCorrectionFails
  <2> QED BY <2>1
<1>3. CASE ExpireDemand \/ UNCHANGED vars
  BY <1>3 DEF ExpireDemand, vars
<1>4. CASE Crash
  BY <1>4 DEF Crash
<1> QED BY <1>1, <1>2, <1>3, <1>4 DEF Next

\* A step prices a request by a read of the counter (or as if there were none), or
\* leaves its price alone and at most forgets what it had to find.
LEMMA PriceMoves ==
  ASSUME PriceTypeOK, FareCharged, [Next]_vars, NEW r \in Request, trip'[r].mult # 0
  PROVE  \/ /\ trip'[r].mult = trip[r].mult /\ seen'[r] = seen[r]
            /\ before'[r] \in {before[r], 0}
         \/ /\ trip'[r].mult = Multiplier(seen'[r])
            /\ at[r] = "surge"
            /\ \/ seen'[r] = demand /\ before'[r] = before[r]
               \/ seen'[r] = 0 /\ before'[r] = 0
<1> DEFINE Same   == /\ trip'[r].mult = trip[r].mult /\ seen'[r] = seen[r]
                     /\ before'[r] \in {before[r], 0}
           Priced2 == /\ trip'[r].mult = Multiplier(seen'[r])
                     /\ at[r] = "surge"
                     /\ \/ seen'[r] = demand /\ before'[r] = before[r]
                        \/ seen'[r] = 0 /\ before'[r] = 0
<1>1. ASSUME NEW q \in Request, NEW k \in {"order", "estimate"}, NEW v \in Vehicle,
             NEW dist \in Distance, NEW dur \in RouteEstimate(dist), Begin(q, k, v, dist, dur)
      PROVE  Same
  <2>1. trip' = [trip EXCEPT ![q] = [NoTrip EXCEPT !.vehicle = v, !.dist = dist, !.dur = dur]]
    BY <1>1 DEF Begin
  <2>2. trip'[q].mult = 0
    BY <2>1 DEF NoTrip, PriceTypeOK
  <2>3. trip'[r] = trip[r] /\ before'[r] = before[r] /\ seen' = seen
    BY <1>1, <2>1, <2>2 DEF Begin, PriceTypeOK
  <2> QED BY <2>3
<1>2. ASSUME NEW q \in Request, ReadSurge(q) \/ EstimateOrder(q)
      PROVE  Same \/ Priced2
  <2>1. Priced(q, demand) /\ at[q] = "surge" /\ UNCHANGED before /\ demand \in Nat
    BY <1>2 DEF ReadSurge, EstimateOrder, PriceTypeOK
  <2>2. /\ trip'[q].mult = Multiplier(demand) /\ seen'[q] = demand
        /\ \A p \in Request \ {q} : trip'[p] = trip[p] /\ seen'[p] = seen[p]
    BY <2>1, PricedTyped
  <2> QED BY <2>1, <2>2
<1>3. ASSUME NEW q \in Request, ReadSurgeFails(q)
      PROVE  Same \/ Priced2
  <2>1. Priced(q, 0) /\ at[q] = "surge" /\ before' = [before EXCEPT ![q] = 0]
    BY <1>3 DEF ReadSurgeFails
  <2>2. /\ trip'[q].mult = Multiplier(0) /\ seen'[q] = 0
        /\ \A p \in Request \ {q} : trip'[p] = trip[p] /\ seen'[p] = seen[p]
    BY <2>1, PricedTyped
  <2> QED BY <2>1, <2>2 DEF PriceTypeOK
<1>4. ASSUME NEW q \in Request,
             \/ RecordDemand(q) \/ RecordDemandFails(q) \/ CreateTrip(q) \/ CreateTripFails(q)
             \/ \E secs \in Actual : CompleteTrip(q, secs) \/ CompleteTripUnanswered(q, secs)
             \/ RecordCorrection(q) \/ RecordCorrectionFails(q)
      PROVE  Same
  <2>1. UNCHANGED <<trip, before, seen>>
    BY <1>4 DEF RecordDemand, RecordDemandFails, CreateTrip, CreateTripFails, CompleteTrip,
       CompleteTripUnanswered, RecordCorrection, RecordCorrectionFails
  <2> QED BY <2>1
<1>5. CASE ExpireDemand
  BY <1>5 DEF ExpireDemand
<1>6. CASE Crash \/ UNCHANGED vars
  BY <1>6 DEF Crash, vars
<1> QED BY <1>1, <1>2, <1>3, <1>4, <1>5, <1>6 DEF Next

\* The counter is between what was answered before and what had come in.
LEMMA CounterBetween ==
  ASSUME PriceInv, NEW r \in Request, at[r] = "surge"
  PROVE  demand <= crowd + Cardinality(Orders(r))
<1>1. counted \subseteq Orders(r)
  BY DEF PriceInv, PriceTypeOK, CounterExact, Orders
<1>2. IsFiniteSet(Orders(r)) /\ Cardinality(Orders(r)) \in Nat /\ Cardinality(counted) \in Nat
  BY CountedIsNat DEF Orders, PriceInv, PriceTypeOK
<1>3. Cardinality(counted) <= Cardinality(Orders(r))
  BY <1>1, <1>2, FS_Subset
<1> QED BY <1>2, <1>3 DEF PriceInv, PriceTypeOK, CounterExact, Earlier

LEMMA SeenStep ==
  PriceInv /\ SeenBetween /\ [Next]_vars => SeenBetween'
<1> SUFFICES ASSUME PriceInv, SeenBetween, [Next]_vars,
                    NEW r \in Request, trip'[r].mult # 0
             PROVE  /\ trip'[r].mult = Multiplier(seen'[r])
                    /\ before'[r] <= seen'[r] /\ seen'[r] <= crowd' + Cardinality(Orders(r)')
  BY DEF SeenBetween, PricedTrips
<1> DEFINE n == crowd + Cardinality(Orders(r))
           k == crowd' + Cardinality(Orders(r)')
<1>1. n \in Nat /\ k \in Nat /\ n <= k
  <2>1. Orders(r) \subseteq Orders(r)' /\ crowd' = crowd
    BY OrdersGrow DEF PriceInv
  <2>2. IsFiniteSet(Orders(r)') /\ Cardinality(Orders(r)') \in Nat /\ Cardinality(Orders(r)) \in Nat
    BY CountedIsNat DEF Orders
  <2>3. Cardinality(Orders(r)) <= Cardinality(Orders(r)')
    BY <2>1, <2>2, FS_Subset
  <2> QED BY <2>1, <2>2, <2>3 DEF PriceInv, PriceTypeOK
<1>2. before[r] \in Nat /\ demand \in Nat /\ seen[r] \in Nat
  BY DEF PriceInv, PriceTypeOK
<1>3. trip[r].mult # 0 => trip[r].mult = Multiplier(seen[r]) /\ before[r] <= seen[r] /\ seen[r] <= n
  BY DEF SeenBetween, PricedTrips
<1> HIDE DEF n, k
<1>4. CASE trip'[r].mult = trip[r].mult /\ seen'[r] = seen[r] /\ before'[r] \in {before[r], 0}
  BY <1>1, <1>2, <1>3, <1>4 DEF k
<1>5. CASE /\ trip'[r].mult = Multiplier(seen'[r]) /\ at[r] = "surge"
           /\ seen'[r] = demand /\ before'[r] = before[r]
  <2>1. before[r] <= demand
    BY <1>5 DEF PriceInv, WillFind
  <2>2. demand <= n
    BY <1>5, CounterBetween DEF n
  <2> QED BY <1>1, <1>2, <1>5, <2>1, <2>2 DEF k
<1>6. CASE trip'[r].mult = Multiplier(seen'[r]) /\ seen'[r] = 0 /\ before'[r] = 0
  BY <1>1, <1>6 DEF k
<1> QED BY <1>4, <1>5, <1>6, PriceMoves DEF PriceInv

\* However orders and estimates interleave, an order's multiplier counts at least the
\* orders answered before it came and at most those that came (GetMultiplier reads
\* what RecordDemand of others counted, in separate pipelines), and grows with them.
THEOREM SurgeCountsOthers == Spec => []SurgeFollowsDemand
<1>1. Init => SeenBetween
  BY PriceInit
<1>2. PriceInv /\ SeenBetween => SurgeFollowsDemand
  <2> SUFFICES ASSUME PriceInv, SeenBetween, NEW r \in PricedTrips
               PROVE  /\ before[r] <= seen[r] /\ seen[r] <= crowd + Cardinality(Orders(r))
                      /\ \A q \in PricedTrips : seen[q] <= seen[r] => trip[q].mult <= trip[r].mult
                      /\ seen[r] <= 1 => trip[r].mult = 10
    BY DEF SurgeFollowsDemand, Orders
  <2>1. \A q \in PricedTrips : seen[q] \in Nat /\ trip[q].mult = Multiplier(seen[q])
    BY DEF PriceInv, PriceTypeOK, PricedTrips, SeenBetween
  <2>2. \A q \in PricedTrips : seen[q] <= seen[r] => trip[q].mult <= trip[r].mult
    BY <2>1, MultiplierGrows
  <2>3. \A n \in Nat : n <= 1 => Multiplier(n) = 10
    BY DEF Multiplier
  <2> QED BY <2>1, <2>2, <2>3 DEF SeenBetween
<1> QED BY <1>1, <1>2, SeenStep, PriceInvariant, PTL DEF Spec

-----------------------------------------------------------------------------
(* The rest of the types, and what is learned *)

\* A division by a variable, rounded.
LEMMA NearestRounds ==
  ASSUME NEW n \in Nat, NEW d \in Nat \ {0}
  PROVE  Nearest(n, d) \in Nat /\ Near(2 * Nearest(n, d) * d, 2 * n, d)
<1> DEFINE x == 2 * n + d
           k == 2 * d
           q == x \div k
<1>1. x \in Nat /\ k \in Nat /\ k > 0
  OBVIOUS
<1> HIDE DEF x, k
<1>2. q \in Int /\ k * q <= x /\ x < k * q + k /\ q >= 0
  BY <1>1, Z3
<1> HIDE DEF q
<1>3. q * d \in Int /\ k * q = 2 * (q * d) /\ 2 * q * d = 2 * (q * d)
  BY <1>2 DEF k
<1>4. 2 * (q * d) <= 2 * n + d /\ 2 * n <= 2 * (q * d) + d
  BY <1>2, <1>3 DEF x, k
<1> QED BY <1>2, <1>3, <1>4 DEF Nearest, Near, q, x, k

\* What the trip took, what was learned from it, and the bound of the mishaps.
EtaTyped ==
  /\ actual \in [Request -> Nat]
  /\ learning \in [Request -> Nat]
  /\ learned \in [Request -> Seq(0..9999)]
  /\ mishaps \in 0..MaxMishaps
  /\ crowd \in Crowds

\* There is no key exactly when nothing is counted.
WindowTyped ==
  /\ window \in {"none", "running", "endless"}
  /\ window = "none" <=> demand = 0

\* A completed trip has a goroutine, or one row with its ratio, or neither; no other
\* trip has either.
Unlearned(r) == learned[r] = <<>> /\ learning[r] = 0
Learning(r)  == learned[r] = <<>> /\ learning[r] = 1 /\ at[r] = "completed"
Exact(r)     == learned[r] = <<Ratio(r)>> /\ learning[r] = 0 /\ at[r] = "completed" /\ Learnable(r)

LearnedOnce == \A r \in Request : Unlearned(r) \/ Learning(r) \/ Exact(r)

LEMMA WindowStep == PriceTypeOK /\ WindowTyped /\ [Next]_vars => WindowTyped'
<1> SUFFICES ASSUME demand \in Nat, WindowTyped, [Next]_vars PROVE WindowTyped'
  BY DEF PriceTypeOK
<1> USE DEF WindowTyped
<1>1. ASSUME NEW r \in Request, RecordDemand(r) \/ RecordDemandFails(r) PROVE WindowTyped'
  BY <1>1 DEF RecordDemand, RecordDemandFails
<1>2. CASE ExpireDemand
  BY <1>2 DEF ExpireDemand
<1>3. CASE UNCHANGED <<demand, window>>
  BY <1>3
<1> QED BY <1>1, <1>2, <1>3 DEF Next, vars, Begin, ReadSurge, EstimateOrder, ReadSurgeFails, CreateTrip,
   CreateTripFails, CompleteTrip, CompleteTripUnanswered, RecordCorrection, RecordCorrectionFails, Crash

LEMMA RatioIsNat == ASSUME PriceTypeOK, EtaTyped, NEW r \in Request, Learnable(r) PROVE Ratio(r) \in 0..9999
<1> DEFINE n == 1000 * actual[r]
           d == trip[r].dur
           q == Nearest(n, d)
<1>1. d \in Nat \ {0} /\ n \in Nat
  BY DEF PriceTypeOK, EtaTyped, Learnable
<1>2. Ratio(r) = q /\ q <= 9999
  BY DEF Ratio, Learnable
<1> HIDE DEF n, d
<1>3. q \in Nat
  BY <1>1, NearestRounds
<1> HIDE DEF q
<1> QED BY <1>2, <1>3

LEMMA EtaTypeStep == PriceTypeOK /\ EtaTyped /\ LearnedOnce /\ [Next]_vars => EtaTyped'
<1> SUFFICES ASSUME PriceTypeOK, EtaTyped, LearnedOnce, [Next]_vars PROVE EtaTyped'
  OBVIOUS
<1>1. Mishap => mishaps' \in 0..MaxMishaps
  BY PricingAssumption DEF Mishap, EtaTyped
<1>2. ASSUME NEW r \in Request, NEW secs \in Actual, CompleteTrip(r, secs) \/ CompleteTripUnanswered(r, secs)
      PROVE  EtaTyped'
  <2>1. /\ actual' = [actual EXCEPT ![r] = secs] /\ secs \in Nat
        /\ learning' = learning \/ learning' = [learning EXCEPT ![r] = learning[r] + 1]
        /\ mishaps' \in 0..MaxMishaps /\ UNCHANGED <<learned, crowd>>
    BY <1>1, <1>2, PricingAssumption DEF CompleteTrip, CompleteTripUnanswered, EtaTyped
  <2>2. actual \in [Request -> Nat] /\ learning \in [Request -> Nat]
    BY DEF EtaTyped
  <2>3. actual' \in [Request -> Nat]
    BY <2>1, <2>2
  <2>4. learning' \in [Request -> Nat]
    BY <2>1, <2>2
  <2> QED BY <2>1, <2>3, <2>4 DEF EtaTyped
<1>3. ASSUME NEW r \in Request, RecordCorrection(r) \/ RecordCorrectionFails(r) PROVE EtaTyped'
  <2>1. Learnable(r) => Ratio(r) \in 0..9999
    BY RatioIsNat
  <2>2. /\ \/ learned' = [learned EXCEPT ![r] = IF Learnable(r) THEN Append(@, Ratio(r)) ELSE @]
           \/ learned' = learned
        /\ learning' = [learning EXCEPT ![r] = @ - 1] /\ learning[r] > 0
        /\ mishaps' \in 0..MaxMishaps /\ UNCHANGED <<actual, crowd>>
    BY <1>1, <1>3 DEF RecordCorrection, RecordCorrectionFails, EtaTyped
  <2>3. learned' \in [Request -> Seq(0..9999)]
    <3> DEFINE S == Seq(0..9999)
               row == IF Learnable(r) THEN Append(learned[r], Ratio(r)) ELSE learned[r]
    <3>1. learned[r] \in S /\ learned \in [Request -> S]
      BY DEF EtaTyped
    <3>2. row \in S
      BY <2>1, <3>1
    <3>3. learned' \in {learned, [learned EXCEPT ![r] = row]}
      BY <2>2
    <3> HIDE DEF S, row
    <3>4. learned' \in [Request -> S]
      BY <3>1, <3>2, <3>3
    <3> QED BY <3>4 DEF S
  <2>4. learning' \in [Request -> Nat]
    BY <2>2 DEF EtaTyped
  <2> QED BY <2>2, <2>3, <2>4 DEF EtaTyped
<1>4. CASE Crash
  BY <1>1, <1>4 DEF Crash, EtaTyped
<1>5. CASE UNCHANGED <<actual, learning, learned, crowd>> /\ (Mishap \/ UNCHANGED mishaps)
  BY <1>1, <1>5 DEF EtaTyped
<1> QED BY <1>2, <1>3, <1>4, <1>5 DEF Next, vars, etaVars, Begin, ReadSurge, EstimateOrder, ReadSurgeFails,
   RecordDemand, RecordDemandFails, CreateTrip, CreateTripFails, ExpireDemand

\* A trip that keeps its times keeps its ratio.
LEMMA SameTrip ==
  ASSUME NEW r \in Request, trip'[r] = trip[r], actual'[r] = actual[r]
  PROVE  Ratio(r)' = Ratio(r) /\ (Learnable(r)' <=> Learnable(r))
<1>1. Ratio(r)' = Ratio(r)
  BY DEF Ratio
<1> QED BY <1>1 DEF Learnable

\* Steps that are neither a completion, a goroutine's end nor a crash leave trips that
\* are completed alone, and what is learned of any.
LEMMA OtherSteps ==
  ASSUME PriceTypeOK, EtaTyped, [Next]_vars, ~Crash, NEW r \in Request,
         \A secs \in Actual : ~CompleteTrip(r, secs),
         ~RecordCorrection(r), ~RecordCorrectionFails(r)
  PROVE  /\ learning'[r] = learning[r] /\ learned'[r] = learned[r]
         /\ at[r] = "completed" => at'[r] = "completed" /\ trip'[r] = trip[r] /\ actual'[r] = actual[r]
<1> DEFINE Goal == /\ learning'[r] = learning[r] /\ learned'[r] = learned[r]
                   /\ at[r] = "completed" => at'[r] = "completed" /\ trip'[r] = trip[r] /\ actual'[r] = actual[r]
<1>0. actual \in [Request -> Nat] /\ learning \in [Request -> Nat] /\ DOMAIN learned = Request
  BY DEF EtaTyped
<1> USE DEF PriceTypeOK, Goto, Booked, etaVars
<1>1. ASSUME NEW q \in Request, NEW k \in {"order", "estimate"}, NEW v \in Vehicle,
             NEW dist \in Distance, NEW dur \in RouteEstimate(dist), Begin(q, k, v, dist, dur)
      PROVE  Goal
  BY <1>1 DEF Begin
<1>2. ASSUME NEW q \in Request, ReadSurge(q) \/ EstimateOrder(q) \/ ReadSurgeFails(q)
      PROVE  Goal
  <2>1. \E n \in Nat : Priced(q, n)
    BY <1>2, PricingSteps
  <2>2. UNCHANGED <<actual, learning, learned>> /\ at[q] = "surge" /\ \A p \in Request \ {q} : at'[p] = at[p]
    BY <1>2 DEF ReadSurge, EstimateOrder, ReadSurgeFails
  <2>3. \A p \in Request \ {q} : trip'[p] = trip[p]
    BY <2>1 DEF Priced
  <2> QED BY <2>2, <2>3
<1>3. ASSUME NEW q \in Request, RecordDemand(q) \/ RecordDemandFails(q) \/ CreateTrip(q) \/ CreateTripFails(q)
      PROVE  Goal
  BY <1>3 DEF RecordDemand, RecordDemandFails, CreateTrip, CreateTripFails
<1>4. ASSUME NEW q \in Request, NEW secs \in Actual, CompleteTrip(q, secs) \/ CompleteTripUnanswered(q, secs)
      PROVE  Goal
  <2>1. /\ at[q] = "searching" /\ at' = [at EXCEPT ![q] = "completed"]
        /\ actual' = [actual EXCEPT ![q] = secs] /\ UNCHANGED <<trip, learned>>
        /\ learning' = learning \/ (q # r /\ learning' = [learning EXCEPT ![q] = learning[q] + 1])
    BY <1>4 DEF CompleteTrip, CompleteTripUnanswered
  <2> QED BY <1>0, <2>1
<1>5. ASSUME NEW q \in Request, RecordCorrection(q) \/ RecordCorrectionFails(q) PROVE Goal
  <2>1. /\ q # r /\ UNCHANGED <<at, trip, actual>> /\ learning' = [learning EXCEPT ![q] = learning[q] - 1]
        /\ learned' = learned \/ \E rows : learned' = [learned EXCEPT ![q] = rows]
    BY <1>5 DEF RecordCorrection, RecordCorrectionFails
  <2> QED BY <1>0, <2>1
<1>6. CASE ExpireDemand \/ UNCHANGED vars
  BY <1>6 DEF ExpireDemand, vars
<1> QED BY <1>1, <1>2, <1>3, <1>4, <1>5, <1>6 DEF Next

\* A trip is completed by one request, whose goroutine records one row or none.
LEMMA LearnedStep == PriceTypeOK /\ EtaTyped /\ LearnedOnce /\ [Next]_vars => LearnedOnce'
<1> SUFFICES ASSUME PriceTypeOK, EtaTyped, LearnedOnce, [Next]_vars, NEW r \in Request
             PROVE  Unlearned(r)' \/ Learning(r)' \/ Exact(r)'
  BY DEF LearnedOnce
<1> DEFINE Goal == Unlearned(r)' \/ Learning(r)' \/ Exact(r)'
<1>1. Unlearned(r) \/ Learning(r) \/ Exact(r)
  BY DEF LearnedOnce
<1>2. CASE Crash
  <2>1. UNCHANGED <<trip, actual, learned>> /\ learning'[r] = 0 /\ (at[r] = "completed" => at'[r] = "completed")
    BY <1>2 DEF Crash, PriceTypeOK
  <2>2. Ratio(r)' = Ratio(r) /\ (Learnable(r)' <=> Learnable(r))
    BY <2>1, SameTrip
  <2> QED BY <1>1, <2>1, <2>2 DEF Unlearned, Learning, Exact
<1>3. ASSUME NEW secs \in Actual, CompleteTrip(r, secs) PROVE Goal
  <2>1. /\ at[r] = "searching" /\ at' = [at EXCEPT ![r] = "completed"]
        /\ learning' = [learning EXCEPT ![r] = @ + 1] /\ UNCHANGED learned
    BY <1>3 DEF CompleteTrip, Goto
  <2>2. Unlearned(r)
    BY <1>1, <2>1 DEF Learning, Exact
  <2>3. at'[r] = "completed" /\ learning'[r] = 1 /\ learned'[r] = <<>>
    BY <2>1, <2>2 DEF PriceTypeOK, EtaTyped, Unlearned
  <2> QED BY <2>3 DEF Learning
<1>4. CASE RecordCorrection(r) \/ RecordCorrectionFails(r)
  <2>1. /\ learning[r] > 0 /\ learning' = [learning EXCEPT ![r] = @ - 1] /\ UNCHANGED <<at, trip, actual>>
        /\ \/ learned' = [learned EXCEPT ![r] = IF Learnable(r) THEN Append(@, Ratio(r)) ELSE @]
           \/ learned' = learned
    BY <1>4 DEF RecordCorrection, RecordCorrectionFails
  <2>2. Learning(r)
    BY <1>1, <2>1 DEF Unlearned, Exact
  <2>3. /\ learning'[r] = 0 /\ at'[r] = "completed"
        /\ learned'[r] = <<>> \/ (Learnable(r) /\ learned'[r] = Append(<<>>, Ratio(r)))
    BY <2>1, <2>2 DEF Learning, EtaTyped
  <2>4. Ratio(r)' = Ratio(r) /\ (Learnable(r)' <=> Learnable(r))
    BY <2>1, SameTrip
  <2>5. Append(<<>>, Ratio(r)) = <<Ratio(r)>>
    OBVIOUS
  <2> QED BY <2>3, <2>4, <2>5 DEF Unlearned, Exact
<1>5. CASE /\ ~Crash /\ \A secs \in Actual : ~CompleteTrip(r, secs)
           /\ ~RecordCorrection(r) /\ ~RecordCorrectionFails(r)
  <2>1. /\ learning'[r] = learning[r] /\ learned'[r] = learned[r]
        /\ at[r] = "completed" => at'[r] = "completed" /\ trip'[r] = trip[r] /\ actual'[r] = actual[r]
    BY <1>5, OtherSteps
  <2>2. at[r] = "completed" => Ratio(r)' = Ratio(r) /\ (Learnable(r)' <=> Learnable(r))
    BY <2>1, SameTrip
  <2> QED BY <1>1, <2>1, <2>2 DEF Unlearned, Learning, Exact
<1> QED BY <1>2, <1>3, <1>4, <1>5

LEMMA EtaInvariant == Spec => [](PriceInv /\ EtaTyped /\ WindowTyped /\ LearnedOnce)
<1>1. Init => EtaTyped /\ WindowTyped /\ LearnedOnce
  BY PricingAssumption DEF Init, EtaTyped, WindowTyped, LearnedOnce, Unlearned
<1>2. PriceInv /\ EtaTyped /\ WindowTyped /\ LearnedOnce /\ [Next]_vars
        => EtaTyped' /\ WindowTyped' /\ LearnedOnce'
  BY EtaTypeStep, WindowStep, LearnedStep DEF PriceInv
<1> QED BY <1>1, <1>2, PriceInvariant, PTL DEF Spec

\* Every variable of the pricing model keeps its type: the multiplier stays between 1.0
\* and 2.5, a correction fits its column, and the counter has no value without a key.
THEOREM Typed == Spec => []TypeOK
<1>1. PriceInv /\ EtaTyped /\ WindowTyped => TypeOK
  BY DEF PriceInv, PriceTypeOK, EtaTyped, WindowTyped, TypeOK, Multipliers
<1> QED BY <1>1, EtaInvariant, PTL

\* However often a trip's completion is requested, repeated or cut short, one row is
\* learned from it at most, the ratio of the durations it has as exactly as the column
\* can say it (CompleteTrip starts a goroutine only where its UPDATE moved the row).
THEOREM CorrectionsReal == Spec => []EtaIsReal
<1>1. PriceInv /\ EtaTyped /\ LearnedOnce => EtaIsReal
  <2> SUFFICES ASSUME PriceTypeOK, EtaTyped, LearnedOnce, NEW r \in Request
               PROVE  /\ Len(learned[r]) <= 1
                      /\ \A i \in DOMAIN learned[r] :
                           /\ at[r] = "completed" /\ trip[r].dur > 0 /\ actual[r] > 0
                           /\ Near(2 * learned[r][i] * trip[r].dur, 2000 * actual[r], trip[r].dur)
    BY DEF PriceInv, EtaIsReal
  <2>1. CASE learned[r] = <<>>
    BY <2>1
  <2>2. CASE Exact(r)
    <3>1. trip[r].dur \in Nat \ {0} /\ actual[r] \in Nat /\ actual[r] > 0
      BY <2>2 DEF PriceTypeOK, EtaTyped, Learnable, Exact
    <3> DEFINE n == 1000 * actual[r]
               d == trip[r].dur
    <3>2. n \in Nat /\ d \in Nat \ {0} /\ 2 * n = 2000 * actual[r] /\ Ratio(r) = Nearest(n, d)
      BY <3>1 DEF Ratio
    <3> HIDE DEF n, d
    <3>3. Near(2 * Nearest(n, d) * d, 2 * n, d)
      BY <3>2, NearestRounds
    <3>4. Near(2 * Ratio(r) * d, 2000 * actual[r], d)
      BY <3>2, <3>3
    <3>5. Len(learned[r]) = 1 /\ DOMAIN learned[r] = {1} /\ learned[r][1] = Ratio(r)
      BY <2>2 DEF Exact
    <3> QED BY <2>2, <3>1, <3>4, <3>5 DEF Exact, d
  <2> QED BY <2>1, <2>2 DEF LearnedOnce, Unlearned, Learning
<1> QED BY <1>1, EtaInvariant, PTL

=============================================================================
