---------------------------- MODULE Ratings_proofs ----------------------------
(***************************************************************************)
(* Proofs about Ratings, for any trips, any number of concurrent            *)
(* submissions and any number of failures.                                  *)
(***************************************************************************)
EXTENDS Ratings, TLAPS

\* End leaves the transaction's request idle and gives up its lock.
LEMMA EndTyped ==
  ASSUME TypeOK, NEW r \in Request, End(r)
  PROVE  /\ pc' = [pc EXCEPT ![r] = "idle"]
         /\ pc' \in [Request -> {"idle", "insert", "update", "lock", "commit"}]
         /\ subject' \in [Request -> Subject \cup {None}]
         /\ seen' \in [Request -> SUBSET Trip]
         /\ rowLock' \in Request \cup {None}
         /\ \A q \in Request :
              rowLock' = q <=> pc'[q] = "commit" /\ subject'[q][2] = "passenger"
BY RatingAssumption DEF End, Goto, TypeOK

\* COMMIT of a transaction adds its row, and an average made of rows that are there.
LEMMA CommitSound ==
  ASSUME RatingInv, NEW r \in Request, pc[r] = "commit", Committed(r)
  PROVE  /\ rows' \in [Subject -> Nat]
         /\ rows'[subject[r]] = 1
         /\ \A s \in Subject \ {subject[r]} : rows'[s] = rows[s]
         /\ averaged' \subseteq RatedByPassenger'
         /\ RatedByPassenger \subseteq RatedByPassenger'
         /\ RatedByPassenger' \subseteq completed
<1>1. subject[r] \in Subject /\ subject[r][1] \in completed /\ rows[subject[r]] = 0
  BY DEF RatingInv, RequestOK, Uncommitted
<1>2. rows \in [Subject -> Nat] /\ rows' = [rows EXCEPT ![subject[r]] = @ + 1]
  BY DEF Committed, RatingInv, TypeOK
<1>3. /\ rows' \in [Subject -> Nat]
      /\ rows'[subject[r]] = 1
      /\ \A s \in Subject \ {subject[r]} : rows'[s] = rows[s]
  BY <1>1, <1>2
<1>4. PICK t \in Trip, by \in Rater : subject[r] = <<t, by>>
  BY <1>1 DEF Subject
<1>5. \A u \in Trip : <<u, "passenger">> \in Subject
  BY DEF Subject, Rater
<1>6. RatedByPassenger \subseteq RatedByPassenger'
  BY <1>1, <1>3, <1>5 DEF RatedByPassenger
<1>7. RatedByPassenger' \subseteq RatedByPassenger \cup {t}
  BY <1>3, <1>4, <1>5 DEF RatedByPassenger
<1>8. RatedByPassenger' \subseteq completed
  BY <1>1, <1>4, <1>7 DEF RatingInv, AverageIsReal
<1>9. averaged' \subseteq RatedByPassenger'
  <2>1. CASE by = "passenger"
    <3>1. rowLock = r
      BY <1>4, <2>1 DEF RatingInv, TypeOK
    <3>2. averaged' = seen[r] /\ seen[r] \subseteq RatedByPassenger \cup {t}
      BY <3>1, <1>4, <2>1 DEF Committed, RatingInv, SnapshotOK, Visible
    <3>3. t \in RatedByPassenger'
      BY <1>3, <1>4, <2>1 DEF RatedByPassenger
    <3> QED BY <3>2, <3>3, <1>6
  <2>2. CASE by = "driver"
    BY <1>4, <1>6, <2>2 DEF Committed, RatingInv, AverageIsReal
  <2> QED BY <2>1, <2>2 DEF Rater
<1> QED BY <1>3, <1>6, <1>8, <1>9

-----------------------------------------------------------------------------
(* The invariant *)

LEMMA InvInit == Init => RatingInv
<1> SUFFICES ASSUME Init PROVE RatingInv
  OBVIOUS
<1>1. TypeOK
  BY RatingAssumption DEF Init, TypeOK
<1>2. RatedOnce /\ AverageIsReal
  BY DEF Init, RatedOnce, AverageIsReal, RatedByPassenger, Subject, Rater
<1>3. ASSUME NEW r \in Request PROVE RequestOK(r) /\ SnapshotOK(r)
  BY RatingAssumption DEF Init, RequestOK, SnapshotOK, Uncommitted
<1> QED BY <1>1, <1>2, <1>3 DEF RatingInv

\* A transaction ends, having changed nothing or having committed.
LEMMA EndStep ==
  ASSUME RatingInv, NEW r \in Request, pc[r] # "idle", End(r),
         UNCHANGED <<rows, averaged>> \/ (pc[r] = "commit" /\ Committed(r)),
         UNCHANGED <<completed, raced>>, faults' \in 0 .. MaxFaults
  PROVE  RatingInv'
<1> USE DEF RatingInv
<1>1. /\ TypeOK /\ pc' = [pc EXCEPT ![r] = "idle"]
      /\ \A q \in Request \ {r} : /\ pc'[q] = pc[q] /\ subject'[q] = subject[q]
                                  /\ seen'[q] = seen[q]
                                  /\ rowLock' = q => rowLock = q
      /\ pc'[r] = "idle" /\ rowLock' # r
  BY RatingAssumption DEF End, Goto, TypeOK
<1>2. /\ rows' \in [Subject -> Nat]
      /\ averaged' \subseteq RatedByPassenger' /\ RatedByPassenger' \subseteq completed
      /\ RatedByPassenger \subseteq RatedByPassenger'
      /\ \A s \in Subject : rows'[s] = rows[s] \/ (rows'[s] = 1 /\ s = subject[r] /\ Uncommitted(r))
  <2>1. CASE UNCHANGED <<rows, averaged>>
    BY <2>1 DEF TypeOK, AverageIsReal, RatedByPassenger
  <2>2. CASE pc[r] = "commit" /\ Committed(r)
    BY <2>2, CommitSound DEF Uncommitted
  <2> QED BY <2>1, <2>2
<1>3. TypeOK'
  BY <1>1, <1>2, EndTyped DEF TypeOK, RatedByPassenger, AverageIsReal
<1>4. RatedOnce'
  BY <1>2 DEF RatedOnce
<1>5. AverageIsReal'
  BY <1>2 DEF AverageIsReal
<1>6. ASSUME NEW q \in Request PROVE (RequestOK(q) /\ SnapshotOK(q))'
  <2>1. CASE q = r
    BY <1>1, <2>1 DEF RequestOK, SnapshotOK, Uncommitted
  <2>2. CASE q # r
    <3>1. RequestOK(q) /\ SnapshotOK(q) /\ RequestOK(r)
      OBVIOUS
    <3>2. Uncommitted(q)' => Uncommitted(q) /\ subject[q] \in Subject
      BY <1>1, <2>2, <3>1 DEF Uncommitted, RequestOK
    <3>3. Uncommitted(q)' => rows'[subject[q]] = 0
      BY <1>2, <2>2, <3>1, <3>2 DEF RequestOK
    <3>4. RequestOK(q)'
      BY <1>1, <2>2, <3>1, <3>3 DEF RequestOK, Uncommitted
    <3>5. SnapshotOK(q)'
      BY <1>1, <1>2, <2>2, <3>1 DEF SnapshotOK, Visible
    <3> QED BY <3>4, <3>5
  <2> QED BY <2>1, <2>2
<1> QED BY <1>3, <1>4, <1>5, <1>6

LEMMA InvStep == RatingInv /\ [Next]_vars => RatingInv'
<1> SUFFICES ASSUME RatingInv, [Next]_vars PROVE RatingInv'
  OBVIOUS
<1> USE DEF RatingInv
<1>1. ASSUME NEW t \in Trip, CompleteTrip(t) PROVE RatingInv'
  BY <1>1 DEF CompleteTrip, requestVars, TypeOK, RatedOnce, AverageIsReal, RatedByPassenger, RequestOK,
     SnapshotOK, Visible, Uncommitted
<1>2. ASSUME NEW r \in Request, Submit(r) PROVE RatingInv'
  <2>1. PICK t \in completed, by \in Rater : subject' = [subject EXCEPT ![r] = <<t, by>>]
    BY <1>2 DEF Submit
  <2>2. TypeOK'
    BY <1>2, <2>1 DEF Submit, Goto, TypeOK, Subject
  <2>3. RatedOnce' /\ AverageIsReal'
    BY <1>2 DEF Submit, RatedOnce, AverageIsReal, RatedByPassenger
  <2>4. ASSUME NEW q \in Request PROVE (RequestOK(q) /\ SnapshotOK(q))'
    BY <1>2, <2>1, <2>2 DEF Submit, Goto, TypeOK, Subject, RequestOK, SnapshotOK, Visible, RatedByPassenger,
       Uncommitted
  <2> QED BY <2>2, <2>3, <2>4
<1>3. ASSUME NEW r \in Request, InsertRating(r) PROVE RatingInv'
  <2>1. \/ AfterInsert(r) = "update" /\ subject[r][2] = "passenger"
        \/ AfterInsert(r) = "commit" /\ subject[r][2] # "passenger"
    BY DEF AfterInsert
  <2>2. TypeOK'
    BY <1>3, <2>1 DEF InsertRating, Goto, TypeOK
  <2>3. RatedOnce' /\ AverageIsReal'
    BY <1>3 DEF InsertRating, RatedOnce, AverageIsReal, RatedByPassenger
  <2>4. ASSUME NEW q \in Request PROVE RequestOK(q)'
    BY <1>3, <2>1 DEF InsertRating, Goto, TypeOK, RequestOK, Uncommitted
  <2>5. ASSUME NEW q \in Request PROVE SnapshotOK(q)'
    BY <1>3, <2>1 DEF InsertRating, Goto, TypeOK, SnapshotOK, Visible, RatedByPassenger
  <2> QED BY <2>2, <2>3, <2>4, <2>5
<1>4. ASSUME NEW r \in Request, AlreadyRated(r) PROVE RatingInv'
  BY <1>4, EndStep DEF AlreadyRated, TypeOK
<1>5. ASSUME NEW r \in Request, BeginUpdate(r) PROVE RatingInv'
  <2>1. subject[r] \in Subject /\ Visible(r) \subseteq Trip /\ RacedBy(r) \subseteq Trip
    <3>1. \A q \in Request : pc[q] # "idle" => subject[q][1] \in Trip
      BY DEF RequestOK, Subject
    <3> QED BY <1>5, <3>1 DEF BeginUpdate, RequestOK, RacedBy, Hidden, Visible, RatedByPassenger, Uncommitted
  <2>2. TypeOK'
    BY <1>5, <2>1 DEF BeginUpdate, Goto, TypeOK
  <2>3. RatedOnce' /\ AverageIsReal'
    BY <1>5 DEF BeginUpdate, RatedOnce, AverageIsReal, RatedByPassenger
  <2>4. ASSUME NEW q \in Request PROVE (RequestOK(q) /\ SnapshotOK(q))'
    BY <1>5 DEF BeginUpdate, Goto, TypeOK, RequestOK, SnapshotOK, Visible, RatedByPassenger, Uncommitted
  <2> QED BY <2>2, <2>3, <2>4
<1>6. ASSUME NEW r \in Request, LockDriver(r) PROVE RatingInv'
  <2>1. TypeOK'
    BY <1>6, RatingAssumption DEF LockDriver, Goto, TypeOK, RequestOK
  <2>2. RatedOnce' /\ AverageIsReal'
    BY <1>6 DEF LockDriver, RatedOnce, AverageIsReal, RatedByPassenger
  <2>3. ASSUME NEW q \in Request PROVE (RequestOK(q) /\ SnapshotOK(q))'
    BY <1>6 DEF LockDriver, Goto, TypeOK, RequestOK, SnapshotOK, Visible, RatedByPassenger, Uncommitted
  <2> QED BY <2>1, <2>2, <2>3
<1>7. ASSUME NEW r \in Request, Commit(r) PROVE RatingInv'
  BY <1>7, EndStep DEF Commit, TypeOK
<1>8. ASSUME NEW r \in Request, Abort(r) PROVE RatingInv'
  <2>1. faults' \in 0 .. MaxFaults
    BY <1>8, RatingAssumption DEF Abort, TypeOK
  <2> QED BY <1>8, <2>1, EndStep DEF Abort
<1>9. CASE UNCHANGED vars
  BY <1>9 DEF vars, requestVars, TypeOK, RatedOnce, AverageIsReal, RatedByPassenger, RequestOK, SnapshotOK,
     Visible, Uncommitted
<1> QED BY <1>1, <1>2, <1>3, <1>4, <1>5, <1>6, <1>7, <1>8, <1>9 DEF Next

\* Every reachable state satisfies the invariant.
THEOREM Invariance == Spec => []RatingInv
BY InvInit, InvStep, PTL DEF Spec

\* No trip is ever rated twice from one side (the unique index of ratings), with any
\* number of repeated and concurrent submissions.
THEOREM RatedOnceSafe == Spec => []RatedOnce
<1>1. RatingInv => RatedOnce
  BY DEF RatingInv
<1> QED BY <1>1, Invariance, PTL

\* The driver's average (rating.go:51) is made of ratings that were committed, of trips
\* that were completed.
THEOREM AverageSafe == Spec => []AverageIsReal
<1>1. RatingInv => AverageIsReal
  BY DEF RatingInv
<1> QED BY <1>1, Invariance, PTL

-----------------------------------------------------------------------------
(* Which ratings an average may miss *)

\* Every variable of the ratings model keeps its type; in particular the driver's row is
\* locked by exactly the transaction that is about to commit his average.
THEOREM TypedSafe == Spec => []TypeOK
<1>1. RatingInv => TypeOK
  BY DEF RatingInv
<1> QED BY <1>1, Invariance, PTL

\* The transaction has its snapshot and will write the average.
Averaging(r) == pc[r] = "lock" \/ rowLock = r

\* What it will write misses raced ratings only, and two such transactions race.
RaceOK ==
  /\ MissedOnlyWhenRaced
  /\ \A r \in Request :
       Averaging(r) => subject[r][1] \in seen[r] /\ RatedByPassenger \ seen[r] \subseteq raced
  /\ \A r, q \in Request : r # q /\ Averaging(r) /\ Averaging(q) => subject[r][1] \in raced

\* COMMIT adds the passenger's rating of its own trip, or none.
LEMMA CommitAdds ==
  ASSUME RatingInv, NEW r \in Request, pc[r] = "commit", Committed(r)
  PROVE  \/ /\ rowLock = r /\ averaged' = seen[r]
            /\ RatedByPassenger' \subseteq RatedByPassenger \cup {subject[r][1]}
         \/ averaged' = averaged /\ RatedByPassenger' = RatedByPassenger
<1>1. subject[r] \in Subject /\ rows \in [Subject -> Nat]
  BY DEF RatingInv, RequestOK, TypeOK
<1>2. PICK t \in Trip, by \in Rater : subject[r] = <<t, by>>
  BY <1>1 DEF Subject
<1>3. rows' = [rows EXCEPT ![<<t, by>>] = @ + 1]
  BY <1>2 DEF Committed
<1>4. \A u \in Trip : <<u, "passenger">> \in Subject
  BY DEF Subject, Rater
<1>5. CASE by = "passenger"
  <2>1. RatedByPassenger' \subseteq RatedByPassenger \cup {t}
    BY <1>1, <1>3, <1>4 DEF RatedByPassenger
  <2>2. rowLock = r
    BY <1>2, <1>5 DEF RatingInv, TypeOK
  <2> QED BY <1>2, <1>5, <2>1, <2>2 DEF Committed
<1>6. CASE by = "driver"
  <2>1. \A u \in Trip : rows'[<<u, "passenger">>] = rows[<<u, "passenger">>]
    BY <1>1, <1>3, <1>4, <1>6
  <2> QED BY <1>2, <1>6, <2>1 DEF Committed, RatedByPassenger
<1> QED BY <1>5, <1>6 DEF Rater

\* A transaction ends.
LEMMA RaceEnd ==
  ASSUME RatingInv, RaceOK, NEW r \in Request, pc[r] # "idle", End(r),
         UNCHANGED <<rows, averaged>> \/ (pc[r] = "commit" /\ Committed(r)), UNCHANGED raced
  PROVE  RaceOK'
<1>1. \A q \in Request : Averaging(q)' => /\ q # r /\ Averaging(q)
                                          /\ subject'[q] = subject[q] /\ seen'[q] = seen[q]
  BY RatingAssumption DEF End, Goto, RatingInv, TypeOK, Averaging
<1>2. CASE UNCHANGED <<rows, averaged>>
  BY <1>1, <1>2 DEF RaceOK, MissedOnlyWhenRaced, RatedByPassenger
<1>3. CASE averaged' = averaged /\ RatedByPassenger' = RatedByPassenger
  BY <1>1, <1>3 DEF RaceOK, MissedOnlyWhenRaced
<1>4. CASE /\ rowLock = r /\ averaged' = seen[r]
           /\ RatedByPassenger' \subseteq RatedByPassenger \cup {subject[r][1]}
  <2>1. Averaging(r)
    BY <1>4 DEF Averaging
  <2>2. MissedOnlyWhenRaced'
    BY <1>4, <2>1 DEF RaceOK, MissedOnlyWhenRaced
  <2>3. ASSUME NEW q \in Request, Averaging(q)'
        PROVE  subject'[q][1] \in seen'[q] /\ RatedByPassenger' \ seen'[q] \subseteq raced'
    BY <1>1, <1>4, <2>1, <2>3 DEF RaceOK
  <2>4. ASSUME NEW p \in Request, NEW q \in Request, p # q, Averaging(p)', Averaging(q)'
        PROVE  subject'[p][1] \in raced'
    BY <1>1, <2>4 DEF RaceOK
  <2> QED BY <2>2, <2>3, <2>4 DEF RaceOK
<1> QED BY <1>2, <1>3, <1>4, CommitAdds

LEMMA RaceStep == RatingInv /\ RaceOK /\ [Next]_vars => RaceOK'
<1> SUFFICES ASSUME RatingInv, RaceOK, [Next]_vars PROVE RaceOK'
  OBVIOUS
<1>1. TypeOK /\ \A r \in Request : RequestOK(r)
  BY DEF RatingInv
<1>2. ASSUME UNCHANGED <<rows, averaged, raced>>,
             \A r \in Request : Averaging(r)' => /\ Averaging(r)
                                                 /\ subject'[r] = subject[r] /\ seen'[r] = seen[r]
      PROVE  RaceOK'
  BY <1>2 DEF RaceOK, MissedOnlyWhenRaced, RatedByPassenger
<1>3. ASSUME NEW t \in Trip, CompleteTrip(t) PROVE RaceOK'
  BY <1>2, <1>3 DEF CompleteTrip, requestVars, Averaging
<1>4. ASSUME NEW r \in Request, Submit(r) PROVE RaceOK'
  BY <1>1, <1>2, <1>4 DEF Submit, Goto, Averaging, TypeOK
<1>5. ASSUME NEW r \in Request, InsertRating(r) PROVE RaceOK'
  BY <1>1, <1>2, <1>5 DEF InsertRating, AfterInsert, Goto, Averaging, TypeOK
<1>6. ASSUME NEW r \in Request, AlreadyRated(r) PROVE RaceOK'
  BY <1>6, RaceEnd DEF AlreadyRated
<1>7. ASSUME NEW r \in Request, BeginUpdate(r) PROVE RaceOK'
  <2>1. /\ seen' = [seen EXCEPT ![r] = Visible(r)] /\ raced' = raced \cup RacedBy(r)
        /\ pc' = [pc EXCEPT ![r] = "lock"] /\ UNCHANGED <<rows, averaged, rowLock, subject>>
        /\ pc[r] = "update"
    BY <1>7 DEF BeginUpdate, Goto
  <2>2. \A q \in Request : q # r /\ Averaging(q)' => Averaging(q) /\ seen'[q] = seen[q]
    BY <1>1, <2>1 DEF Averaging, TypeOK
  <2>3. seen'[r] = Visible(r)
    BY <1>1, <2>1 DEF TypeOK
  <2>4. ASSUME NEW q \in Request, q # r, Averaging(q)
        PROVE  subject[q][1] \in raced' /\ subject[r][1] \in raced'
    <3>1. Uncommitted(q) /\ subject[q][2] = "passenger"
      BY <1>1, <2>4 DEF Averaging, Uncommitted, RequestOK, TypeOK
    <3>2. subject[q][1] \in Hidden(r)
      BY <2>4, <3>1 DEF Hidden
    <3> QED BY <2>1, <3>2 DEF RacedBy
  <2>5. RatedByPassenger' = RatedByPassenger
    BY <2>1 DEF RatedByPassenger
  <2>6. MissedOnlyWhenRaced'
    BY <2>1, <2>5 DEF RaceOK, MissedOnlyWhenRaced
  <2>7. ASSUME NEW q \in Request, Averaging(q)'
        PROVE  subject'[q][1] \in seen'[q] /\ RatedByPassenger' \ seen'[q] \subseteq raced'
    BY <2>1, <2>2, <2>3, <2>5, <2>7 DEF RaceOK, Visible
  <2>8. ASSUME NEW p \in Request, NEW q \in Request, p # q, Averaging(p)', Averaging(q)'
        PROVE  subject'[p][1] \in raced'
    <3>1. CASE p = r
      BY <2>1, <2>2, <2>4, <2>8, <3>1
    <3>2. CASE q = r
      BY <2>1, <2>2, <2>4, <2>8, <3>2
    <3>3. CASE p # r /\ q # r
      BY <2>1, <2>2, <2>8, <3>3 DEF RaceOK
    <3> QED BY <3>1, <3>2, <3>3
  <2> QED BY <2>6, <2>7, <2>8 DEF RaceOK
<1>8. ASSUME NEW r \in Request, LockDriver(r) PROVE RaceOK'
  <2>1. \A q \in Request : Averaging(q)' => Averaging(q)
    BY <1>1, <1>8, RatingAssumption DEF LockDriver, Goto, Averaging, TypeOK
  <2> QED BY <1>2, <1>8, <2>1 DEF LockDriver
<1>9. ASSUME NEW r \in Request, Commit(r) PROVE RaceOK'
  BY <1>9, RaceEnd DEF Commit
<1>10. ASSUME NEW r \in Request, Abort(r) PROVE RaceOK'
  BY <1>10, RaceEnd DEF Abort
<1>11. CASE UNCHANGED vars
  BY <1>2, <1>11 DEF vars, requestVars, Averaging
<1> QED BY <1>3, <1>4, <1>5, <1>6, <1>7, <1>8, <1>9, <1>10, <1>11 DEF Next

\* An average misses a rating only when the transactions of the two overlapped (the
\* subselect of rating.go:51 keeps the snapshot from before the wait for the lock).
THEOREM OnlyRacedMissed == Spec => []MissedOnlyWhenRaced
<1>1. Init => RaceOK
  <2> SUFFICES ASSUME Init PROVE RaceOK
    OBVIOUS
  <2>1. \A t \in Trip : <<t, "passenger">> \in Subject
    BY DEF Subject, Rater
  <2>2. RatedByPassenger = {}
    BY <2>1 DEF Init, RatedByPassenger
  <2>3. \A r \in Request : ~Averaging(r)
    BY RatingAssumption DEF Init, Averaging
  <2> QED BY <2>2, <2>3 DEF RaceOK, MissedOnlyWhenRaced
<1>2. RaceOK => MissedOnlyWhenRaced
  BY DEF RaceOK
<1> QED BY <1>1, <1>2, RaceStep, Invariance, PTL DEF Spec

=============================================================================
