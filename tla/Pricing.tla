------------------------------- MODULE Pricing -------------------------------
(***************************************************************************)
(* The numbers of an order: the surge multiplier from the demand counter of *)
(* the cell of its pickup, the fare, and, once the trip is completed, the   *)
(* correction learned from how long it really took.  Orders and estimates   *)
(* of one cell, in flight at the same time.                                 *)
(*                                                                          *)
(* All arithmetic is in integers: rupiah, metres, seconds, tenths of a      *)
(* multiplier.                                                              *)
(***************************************************************************)
EXTENDS Integers, FiniteSets, Sequences

CONSTANTS
  Request,       \* orders and estimates
  Distance,      \* metres a route can have
  Duration,      \* seconds OSRM can give for it
  Actual,        \* seconds a trip can really take
  Crowds,        \* numbers of orders the cell can have had shortly before
  MaxMishaps     \* bound: failing calls and crashes, together

ASSUME PricingAssumption ==
  /\ Distance \subseteq Nat /\ Duration \subseteq Nat /\ Actual \subseteq Nat
  /\ Crowds \subseteq Nat /\ MaxMishaps \in Nat
  /\ IsFiniteSet(Request)

VARIABLES
  at,            \* what the request does next; "done" when it is over and there is no trip
  kind,          \* "order" or "estimate"
  trip,          \* [vehicle, dist, dur, mult, base, final] of the request, zero until known
  demand,        \* the counter surge_demand of the cell; 0 when the key is missing
  window,        \* its TTL: "none" (no key), "running" or "endless" (a key without TTL)
  actual,        \* completed_at - started_at
  learning,      \* goroutines under way that will record a correction of this trip
  learned,       \* the rows of eta_corrections with this trip: their multipliers, in thousandths
  mishaps,       \* failing calls and crashes so far
  crowd,         \* the orders the cell had before, all answered
  expired,       \* history: the counter expired since
  counted,       \* history: the requests that are
  before,        \* history: how many counted orders were answered before a request began
  seen           \* history: the demand its multiplier was made from

etaVars == <<actual, learning, learned>>
vars == <<at, kind, trip, demand, window, etaVars, mishaps, crowd, expired, counted, before, seen>>

Vehicle  == {"motor", "car"}
NoTrip   == [vehicle |-> "motor", dist |-> 0, dur |-> 0, mult |-> 0, base |-> 0, final |-> 0]
Booked   == {"searching", "completed"}

-----------------------------------------------------------------------------
(* Fares.                                                                   *)

\* n / d to the nearest integer, halves up, as math.Round does for what is not negative.
Nearest(n, d) == (2 * n + d) \div (2 * d)

\* fare_configs as seeded, the rate per km divided by 1000.
FareConfig ==
  [motor |-> [base |-> 5000, perM |-> 2, perMin |-> 300, min |-> 10000],
   car   |-> [base |-> 8000, perM |-> 4, perMin |-> 500, min |-> 20000]]

\* The fare before rounding, in sixtieths of a rupiah.
Sixtieths(fc, dist, dur) == 60 * (fc.base + dist * fc.perM) + dur * fc.perMin

\* Faulty: only the minutes of the last hour are paid.
BaseInHour(fc, dist, dur) == 100 * Nearest(Sixtieths(fc, dist, dur % 3600), 6000)

Base(fc, dist, dur) == 100 * Nearest(Sixtieths(fc, dist, dur), 6000)

Surged(base, mult) == 100 * Nearest(base * mult, 1000)

\* Faulty: the minimum is compared with the fare before surge, so a short ride costs the
\* minimum whatever the multiplier, and the surged fare is not rounded.
CalculateFareMinFirst(fc, dist, dur, mult) ==
  LET b == Base(fc, dist, dur)
  IN  IF b < fc.min THEN [base |-> fc.min, final |-> fc.min]
      ELSE [base |-> b, final |-> (b * mult) \div 10]

CalculateFare(fc, dist, dur, mult) ==
  LET b == Base(fc, dist, dur)
      f == Surged(b, mult)
  IN  IF f < fc.min THEN [base |-> fc.min, final |-> fc.min]
      ELSE [base |-> b, final |-> f]

\* When OSRM does not answer: 30 km/h along the great circle.  (In floating point
\* some distances give one second less.)
FallbackDuration(dist) == (dist * 3600) \div 30000

RouteEstimate(dist) == Duration \cup {FallbackDuration(dist)}

-----------------------------------------------------------------------------
(* The multiplier, in tenths.  Nobody writes surge_supply, which then is 1. *)
(* The formula is the code's: the comment above it (surge.go:12) has        *)
(* (demand - supply) / 5, docs/04-dispatch-algorithm.md:256 three tiers.    *)

\* Faulty: the cap is missing.
MultiplierUncapped(d) == 10 + 3 * (IF d > 1 THEN d - 1 ELSE 0)

Multiplier(d) ==
  LET over == IF d > 1 THEN d - 1 ELSE 0
  IN  IF 10 + 3 * over > 25 THEN 25 ELSE 10 + 3 * over

-----------------------------------------------------------------------------
TypeOK ==
  /\ at \in [Request -> {"idle", "surge", "record", "create", "done"} \cup Booked]
  /\ kind \in [Request -> {"order", "estimate"}]
  /\ trip \in [Request -> [vehicle : Vehicle, dist : Nat, dur : Nat,
                          mult : {0} \cup 10..25, base : Nat, final : Nat]]
  /\ demand \in Nat
  /\ window \in {"none", "running", "endless"}
  /\ window = "none" <=> demand = 0
  /\ actual \in [Request -> Nat]
  /\ learning \in [Request -> Nat]
  /\ learned \in [Request -> Seq(0..9999)]
  /\ mishaps \in 0..MaxMishaps
  /\ counted \in SUBSET Request
  /\ crowd \in Crowds /\ expired \in BOOLEAN
  /\ before \in [Request -> Nat] /\ seen \in [Request -> Nat]

Init ==
  /\ at = [r \in Request |-> "idle"]
  /\ kind = [r \in Request |-> "order"]
  /\ trip = [r \in Request |-> NoTrip]
  /\ crowd \in Crowds /\ expired = FALSE
  /\ demand = crowd /\ window = IF crowd = 0 THEN "none" ELSE "running"
  /\ actual = [r \in Request |-> 0]
  /\ learning = [r \in Request |-> 0]
  /\ learned = [r \in Request |-> <<>>]
  /\ mishaps = 0
  /\ counted = {}
  /\ before = [r \in Request |-> 0]
  /\ seen = [r \in Request |-> 0]

Mishap == mishaps < MaxMishaps /\ mishaps' = mishaps + 1

Goto(r, l) == at' = [at EXCEPT ![r] = l]

\* A request comes in: the configuration and the route are read, which changes
\* nothing.  The route is OSRM's, or the fallback's.
Begin(r, k, v, dist, dur) ==
  /\ at[r] = "idle"
  /\ Goto(r, "surge")
  /\ kind' = [kind EXCEPT ![r] = k]
  /\ trip' = [trip EXCEPT ![r] = [NoTrip EXCEPT !.vehicle = v, !.dist = dist, !.dur = dur]]
  /\ before' = [before EXCEPT ![r] = (IF expired THEN 0 ELSE crowd) + Cardinality({q \in counted : at[q] \in Booked})]
  /\ UNCHANGED <<demand, window, etaVars, mishaps, crowd, expired, counted, seen>>

\* Multiplier and fare follow from the demand d that was read.
Priced(r, d) ==
  LET t == trip[r]
      m == Multiplier(d)
      fare == CalculateFare(FareConfig[t.vehicle], t.dist, t.dur, m)
  IN  /\ trip' = [trip EXCEPT ![r].mult = m, ![r].base = fare.base, ![r].final = fare.final]
      /\ seen' = [seen EXCEPT ![r] = d]

\* Faulty: the order counts itself before it reads.
ReadSurgeOwnCounted(r) ==
  /\ at[r] = "surge" /\ kind[r] = "order"
  /\ Priced(r, demand + 1)
  /\ Goto(r, "record")
  /\ UNCHANGED <<kind, demand, window, etaVars, mishaps, crowd, expired, counted, before>>

\* GetMultiplier: both counters are read in one pipeline.
ReadSurge(r) ==
  /\ at[r] = "surge" /\ kind[r] = "order"
  /\ Priced(r, demand)
  /\ Goto(r, "record")
  /\ UNCHANGED <<kind, demand, window, etaVars, mishaps, crowd, expired, counted, before>>

\* An estimate is answered with what an order would have been charged now.
EstimateOrder(r) ==
  /\ at[r] = "surge" /\ kind[r] = "estimate"
  /\ Priced(r, demand)
  /\ Goto(r, "done")
  /\ UNCHANGED <<kind, demand, window, etaVars, mishaps, crowd, expired, counted, before>>

\* An error counts as no demand.
ReadSurgeFails(r) ==
  /\ at[r] = "surge"
  /\ Mishap
  /\ Priced(r, 0)
  /\ Goto(r, IF kind[r] = "order" THEN "record" ELSE "done")
  /\ before' = [before EXCEPT ![r] = 0]
  /\ UNCHANGED <<kind, demand, window, etaVars, crowd, expired, counted>>

\* Faulty: the counter is increased and its end is never set.
RecordDemandForever(r) ==
  /\ at[r] = "record"
  /\ demand' = demand + 1 /\ window' = IF window = "none" THEN "endless" ELSE window
  /\ counted' = counted \cup {r}
  /\ Goto(r, "create")
  /\ UNCHANGED <<kind, trip, etaVars, mishaps, crowd, expired, before, seen>>

\* INCR and EXPIRE in one pipeline: every order extends the window.
RecordDemand(r) ==
  /\ at[r] = "record"
  /\ demand' = demand + 1 /\ window' = "running"
  /\ counted' = counted \cup {r}
  /\ Goto(r, "create")
  /\ UNCHANGED <<kind, trip, etaVars, mishaps, crowd, expired, before, seen>>

\* The error is not looked at; neither of the two ran, or only the INCR.
RecordDemandFails(r) ==
  /\ at[r] = "record"
  /\ Mishap
  /\ \/ /\ demand' = demand + 1
        /\ window' = IF window = "none" THEN "endless" ELSE window
        /\ counted' = counted \cup {r}
     \/ UNCHANGED <<demand, window, counted>>
  /\ Goto(r, "create")
  /\ UNCHANGED <<kind, trip, etaVars, crowd, expired, before, seen>>

\* The row is inserted and the client answered 201.
CreateTrip(r) ==
  /\ at[r] = "create"
  /\ Goto(r, "searching")
  /\ UNCHANGED <<kind, trip, demand, window, etaVars, mishaps, crowd, expired, counted, before, seen>>

\* 500; the demand stays counted.
CreateTripFails(r) ==
  /\ at[r] = "create"
  /\ Mishap
  /\ Goto(r, "done")
  /\ UNCHANGED <<kind, trip, demand, window, etaVars, crowd, expired, counted, before, seen>>

ExpireDemand ==
  /\ window = "running"
  /\ demand' = 0 /\ window' = "none"
  /\ expired' = TRUE /\ counted' = {} /\ before' = [r \in Request |-> 0]
  /\ UNCHANGED <<at, kind, trip, etaVars, mishaps, crowd, seen>>

-----------------------------------------------------------------------------
(* After the trip.  What happens between order and end is TripDispatch's:   *)
(* a trip in "searching" here stands for one that has been started.         *)

\* Faulty: the UPDATE takes a completed trip as well.
CompleteTripAgain(r, secs) ==
  /\ at[r] \in {"searching", "completed"}
  /\ Goto(r, "completed")
  /\ actual' = [actual EXCEPT ![r] = secs]
  /\ learning' = [learning EXCEPT ![r] = @ + 1]
  /\ UNCHANGED <<kind, trip, demand, window, learned, mishaps, crowd, expired, counted, before, seen>>

\* The trip is completed and a goroutine started.  Of the requests of a driver who taps
\* twice, or repeats after an answer was lost, those that come later are refused by
\* the UPDATE's WHERE status = 'ongoing' and change nothing.
CompleteTrip(r, secs) ==
  /\ at[r] = "searching"
  /\ Goto(r, "completed")
  /\ actual' = [actual EXCEPT ![r] = secs]
  /\ learning' = [learning EXCEPT ![r] = @ + 1]
  /\ UNCHANGED <<kind, trip, demand, window, learned, mishaps, crowd, expired, counted, before, seen>>

\* The COMMIT took effect, or the process died after it: nothing is learned.
CompleteTripUnanswered(r, secs) ==
  /\ at[r] = "searching"
  /\ Mishap
  /\ Goto(r, "completed")
  /\ actual' = [actual EXCEPT ![r] = secs]
  /\ UNCHANGED <<kind, trip, demand, window, learning, learned, crowd, expired, counted, before, seen>>

\* The value of actual / estimate in a DECIMAL(4,3) column, in thousandths.
Ratio(r) == Nearest(1000 * actual[r], trip[r].dur)

\* What recordETACorrection reads allows a row: two positive durations, and a
\* ratio the column can hold (the INSERT fails with a log line otherwise).
Learnable(r) == trip[r].dur > 0 /\ actual[r] > 0 /\ Ratio(r) <= 9999

\* A goroutine reads the trip's times and inserts a row; nothing in the table tells a
\* second row of the same trip from the first.
RecordCorrection(r) ==
  /\ learning[r] > 0
  /\ learning' = [learning EXCEPT ![r] = @ - 1]
  /\ learned' = [learned EXCEPT ![r] = IF Learnable(r) THEN Append(@, Ratio(r)) ELSE @]
  /\ UNCHANGED <<at, kind, trip, demand, window, actual, mishaps, crowd, expired, counted, before, seen>>

RecordCorrectionFails(r) ==
  /\ learning[r] > 0
  /\ Mishap
  /\ learning' = [learning EXCEPT ![r] = @ - 1]
  /\ UNCHANGED <<at, kind, trip, demand, window, actual, learned, crowd, expired, counted, before, seen>>

\* A crash ends requests and goroutines; rows and counters stay.
Crash ==
  /\ Mishap
  /\ at' = [r \in Request |-> IF at[r] \in {"surge", "record", "create"} THEN "done" ELSE at[r]]
  /\ learning' = [r \in Request |-> 0]
  /\ UNCHANGED <<kind, trip, demand, window, actual, learned, crowd, expired, counted, before, seen>>

Next ==
  \/ \E r \in Request :
       \/ \E k \in {"order", "estimate"}, v \in Vehicle, dist \in Distance :
            \E dur \in RouteEstimate(dist) : Begin(r, k, v, dist, dur)
       \/ ReadSurge(r) \/ EstimateOrder(r) \/ ReadSurgeFails(r)
       \/ RecordDemand(r) \/ RecordDemandFails(r)
       \/ CreateTrip(r) \/ CreateTripFails(r)
       \/ \E secs \in Actual : CompleteTrip(r, secs) \/ CompleteTripUnanswered(r, secs)
       \/ RecordCorrection(r) \/ RecordCorrectionFails(r)
  \/ ExpireDemand
  \/ Crash

\* Redis expires a key whose time has come.
Spec     == Init /\ [][Next]_vars
FairSpec == Spec /\ WF_vars(ExpireDemand)

-----------------------------------------------------------------------------
PricedTrips == {r \in Request : trip[r].mult # 0}

Near(a, b, tolerance) == a <= b + tolerance /\ b <= a + tolerance

\* A fare is what tariff, route and multiplier say, to the nearest 100 rupiah at
\* each of the two roundings, or the minimum when that is more; in particular it
\* is at least the minimum after surge.
FareIsRight ==
  \A r \in PricedTrips :
    LET t     == trip[r]
        fc    == FareConfig[t.vehicle]
        exact == 60 * fc.base + 60 * fc.perM * t.dist + fc.perMin * t.dur
    IN  /\ t.base % 100 = 0 /\ t.final % 100 = 0 /\ t.final >= fc.min
        /\ \/ Near(60 * t.base, exact, 3000) /\ Near(10 * t.final, t.base * t.mult, 500)
           \/ /\ t.base = fc.min /\ t.final = fc.min
              /\ (exact - 3000) * t.mult < 600 * (fc.min + 50)

\* Nobody pays more for a route that is not longer in metres or seconds, at a
\* multiplier that is not higher, than somebody else with the same vehicle.
FaresAreOrdered ==
  \A q, r \in PricedTrips :
    /\ trip[q].vehicle = trip[r].vehicle /\ trip[q].mult <= trip[r].mult
    /\ trip[q].dist <= trip[r].dist /\ trip[q].dur <= trip[r].dur
    => trip[q].final <= trip[r].final

\* With orders in flight at the same time, the demand a multiplier is made from counts
\* at least the orders that were answered before, in the window that runs, and at most
\* those that had come in, never the order's own and no estimate.  (An order whose
\* counter failed is not counted; a read that failed counts as none.)  More demand never
\* means a lower multiplier, and none or one order no surge, on which the code agrees
\* with the formulas of surge.go:12 and docs/04-dispatch-algorithm.md:256.
SurgeFollowsDemand ==
  \A r \in PricedTrips :
    LET others == {q \in Request \ {r} : kind[q] = "order" /\ at[q] # "idle"}
    IN  /\ before[r] <= seen[r] /\ seen[r] <= crowd + Cardinality(others)
        /\ \A q \in PricedTrips : seen[q] <= seen[r] => trip[q].mult <= trip[r].mult
        /\ seen[r] <= 1 => trip[r].mult = 10

\* A cell's surge ends when orders stop, also after one order's pipeline stopped
\* half way if another order's went through; it stays only when the key was
\* left without a TTL and nobody ordered again.
SurgeEnds ==
  <>[](demand = 0) \/ <>[](window = "endless" /\ mishaps > 0)

\* A trip is learned from once, however often its completion is requested, repeated or
\* cut short: at most one row of eta_corrections is of this trip, and it is the ratio of
\* the two durations the trip has, to half a thousandth.
EtaIsReal ==
  \A r \in Request :
    /\ Len(learned[r]) <= 1
    /\ \A i \in DOMAIN learned[r] :
         /\ at[r] = "completed" /\ trip[r].dur > 0 /\ actual[r] > 0
         /\ Near(2 * learned[r][i] * trip[r].dur, 2000 * actual[r], trip[r].dur)

=============================================================================
