------------------------------- MODULE Ratings -------------------------------
(***************************************************************************)
(* SubmitRating for the trips of one driver.  Each request is a READ        *)
(* COMMITTED transaction of two statements: INSERT the rating, under the    *)
(* unique index on trip and rater, and, when the passenger rates, UPDATE    *)
(* the driver's average from the ratings its statement can see.  The UPDATE *)
(* takes the lock of the driver's row; the subselect keeps the snapshot the *)
(* statement started with, also when it had to wait for that lock.          *)
(*                                                                          *)
(* Scores are left out: drivers.rating is represented by the set of trips   *)
(* whose scores it averages, {} for the default of 5.00.                    *)
(***************************************************************************)
EXTENDS Naturals

CONSTANTS
  Trip,       \* the driver's trips
  Request,    \* submissions in flight at a time
  None,
  MaxFaults   \* bound: submissions that fail after they began

ASSUME RatingAssumption ==
  /\ None \notin Request
  /\ MaxFaults \in Nat

Rater == {"passenger", "driver"}

VARIABLES
  completed,  \* trips that are completed
  rows,       \* committed rows of ratings, for each trip and rater
  averaged,   \* what the committed drivers.rating averages
  rowLock,    \* the request that holds the lock of the driver's row, or None
  pc,         \* where each request is
  subject,    \* its <<trip, rater>>
  seen,       \* the ratings its UPDATE sees
  raced,      \* trips whose rating overlapped another: one was uncommitted when the
              \* UPDATE of the other began
  faults

requestVars == <<pc, subject, seen>>
vars == <<completed, rows, averaged, rowLock, requestVars, raced, faults>>

Subject == Trip \X Rater

TypeOK ==
  /\ completed \in SUBSET Trip
  /\ rows \in [Subject -> Nat]
  /\ averaged \in SUBSET Trip
  /\ rowLock \in Request \cup {None}
  /\ \A r \in Request :
       rowLock = r <=> pc[r] = "commit" /\ subject[r][2] = "passenger"
  /\ pc \in [Request -> {"idle", "insert", "update", "lock", "commit"}]
  /\ subject \in [Request -> Subject \cup {None}]
  /\ seen \in [Request -> SUBSET Trip]
  /\ raced \in SUBSET Trip
  /\ faults \in 0 .. MaxFaults

Init ==
  /\ completed = {}
  /\ rows = [s \in Subject |-> 0]
  /\ averaged = {}
  /\ rowLock = None
  /\ pc = [r \in Request |-> "idle"]
  /\ subject = [r \in Request |-> None]
  /\ seen = [r \in Request |-> {}]
  /\ raced = {}
  /\ faults = 0

RatedByPassenger == {t \in Trip : rows[<<t, "passenger">>] > 0}

\* The transaction of r has inserted its row and not committed it.
Uncommitted(r) == pc[r] \in {"update", "lock", "commit"}

Goto(r, there) == pc' = [pc EXCEPT ![r] = there]

\* The transaction ends: its lock and its snapshot are gone.
End(r) ==
  /\ Goto(r, "idle")
  /\ subject' = [subject EXCEPT ![r] = None]
  /\ seen' = [seen EXCEPT ![r] = {}]
  /\ rowLock' = IF rowLock = r THEN None ELSE rowLock

-----------------------------------------------------------------------------
\* A trip of the driver is completed (TripTable!CompleteTrip).
CompleteTrip(t) ==
  /\ t \notin completed
  /\ completed' = completed \cup {t}
  /\ UNCHANGED <<rows, averaged, rowLock, requestVars, raced, faults>>

\* rate: only completed trips, by their passenger or by their driver.
Submit(r) ==
  /\ pc[r] = "idle"
  /\ \E t \in completed, by \in Rater : subject' = [subject EXCEPT ![r] = <<t, by>>]
  /\ Goto(r, "insert")
  /\ UNCHANGED <<completed, rows, averaged, rowLock, seen, raced, faults>>

AfterInsert(r) == IF subject[r][2] = "passenger" THEN "update" ELSE "commit"

\* Faulty: looks for an earlier rating itself instead of having a unique index.
InsertRatingIfAbsent(r) ==
  /\ pc[r] = "insert"
  /\ rows[subject[r]] = 0
  /\ Goto(r, AfterInsert(r))
  /\ UNCHANGED <<completed, rows, averaged, rowLock, subject, seen, raced, faults>>

\* The INSERT waits while another transaction has the same key uncommitted.
InsertRating(r) ==
  /\ pc[r] = "insert"
  /\ rows[subject[r]] = 0
  /\ \A q \in Request \ {r} : Uncommitted(q) => subject[q] # subject[r]
  /\ Goto(r, AfterInsert(r))
  /\ UNCHANGED <<completed, rows, averaged, rowLock, subject, seen, raced, faults>>

\* The key is taken: rollback and 500.
AlreadyRated(r) ==
  /\ pc[r] = "insert"
  /\ rows[subject[r]] > 0
  /\ End(r)
  /\ UNCHANGED <<completed, rows, averaged, raced, faults>>

\* What r's snapshot holds: what is committed, and r's own row.
Visible(r) == RatedByPassenger \cup {subject[r][1]}

\* The ratings of others that are uncommitted when r's UPDATE begins ...
Hidden(r) ==
  {subject[q][1] : q \in {p \in Request \ {r} : Uncommitted(p) /\ subject[p][2] = "passenger"}}

\* ... which, and r's own rating, overlap then.
RacedBy(r) == IF Hidden(r) = {} THEN {} ELSE Hidden(r) \cup {subject[r][1]}

\* Faulty: the average is taken without the row the transaction inserted.
BeginUpdateStale(r) ==
  /\ pc[r] = "update"
  /\ seen' = [seen EXCEPT ![r] = RatedByPassenger]
  /\ raced' = raced \cup RacedBy(r)
  /\ Goto(r, "lock")
  /\ UNCHANGED <<completed, rows, averaged, rowLock, subject, faults>>

\* Faulty: READ UNCOMMITTED.
BeginUpdateDirty(r) ==
  /\ pc[r] = "update"
  /\ seen' = [seen EXCEPT ![r] = Visible(r) \cup Hidden(r)]
  /\ raced' = raced \cup RacedBy(r)
  /\ Goto(r, "lock")
  /\ UNCHANGED <<completed, rows, averaged, rowLock, subject, faults>>

\* The UPDATE starts: its snapshot is taken.
BeginUpdate(r) ==
  /\ pc[r] = "update"
  /\ seen' = [seen EXCEPT ![r] = Visible(r)]
  /\ raced' = raced \cup RacedBy(r)
  /\ Goto(r, "lock")
  /\ UNCHANGED <<completed, rows, averaged, rowLock, subject, faults>>

\* It gets the lock of the driver's row and writes the average of its snapshot.
LockDriver(r) ==
  /\ pc[r] = "lock"
  /\ rowLock = None
  /\ rowLock' = r
  /\ Goto(r, "commit")
  /\ UNCHANGED <<completed, rows, averaged, subject, seen, raced, faults>>

\* COMMIT makes the row and, if there is one, the new average visible.
Committed(r) ==
  /\ rows' = [rows EXCEPT ![subject[r]] = @ + 1]
  /\ averaged' = IF subject[r][2] = "passenger" THEN seen[r] ELSE averaged

Commit(r) ==
  /\ pc[r] = "commit"
  /\ Committed(r)
  /\ End(r)
  /\ UNCHANGED <<completed, raced, faults>>

\* Faulty: without the deferred Rollback.
AbortNoRollback(r) ==
  /\ pc[r] # "idle"
  /\ faults < MaxFaults
  /\ faults' = faults + 1
  /\ Goto(r, "idle")
  /\ subject' = [subject EXCEPT ![r] = None]
  /\ seen' = [seen EXCEPT ![r] = {}]
  /\ UNCHANGED <<completed, rows, averaged, rowLock, raced>>

\* The request fails (an error, a client that hangs up, a crash): rollback, unless
\* it was the COMMIT's answer that was lost.
Abort(r) ==
  /\ pc[r] # "idle"
  /\ faults < MaxFaults
  /\ faults' = faults + 1
  /\ \/ UNCHANGED <<rows, averaged>>
     \/ pc[r] = "commit" /\ Committed(r)
  /\ End(r)
  /\ UNCHANGED <<completed, raced>>

-----------------------------------------------------------------------------
Next ==
  \/ \E t \in Trip : CompleteTrip(t)
  \/ \E r \in Request :
       \/ Submit(r) \/ InsertRating(r) \/ AlreadyRated(r)
       \/ BeginUpdate(r) \/ LockDriver(r) \/ Commit(r) \/ Abort(r)

Spec == Init /\ [][Next]_vars

-----------------------------------------------------------------------------
(* What holds *)

\* A trip is rated once from each side, however often a request is repeated and
\* whether or not the client got an answer.
RatedOnce == \A s \in Subject : rows[s] <= 1

\* The average is made of ratings that are there: none that was rolled back, none of
\* a trip that was not completed.
AverageIsReal ==
  /\ averaged \subseteq RatedByPassenger
  /\ RatedByPassenger \subseteq completed

\* A rating is missing from the average only if its transaction overlapped the one
\* that wrote it; ratings that come one after the other are all counted.
MissedOnlyWhenRaced == RatedByPassenger \ averaged \subseteq raced

-----------------------------------------------------------------------------
(* Why it holds: an invariant every step preserves *)

\* What a transaction may count on: its subject is a completed trip, nobody has the key
\* of the row it inserted, and only passengers' ratings get to the UPDATE.
RequestOK(r) ==
  /\ pc[r] # "idle" => subject[r] \in Subject /\ subject[r][1] \in completed
  /\ pc[r] \in {"update", "lock"} => subject[r][2] = "passenger"
  /\ Uncommitted(r) => rows[subject[r]] = 0
  /\ \A q \in Request \ {r} :
       Uncommitted(r) /\ Uncommitted(q) => subject[q] # subject[r]

\* A snapshot holds no rating that may still be rolled back, but the reader's own.
SnapshotOK(r) ==
  rowLock = r \/ pc[r] = "lock" => seen[r] \subseteq Visible(r)

RatingInv ==
  /\ TypeOK
  /\ RatedOnce
  /\ AverageIsReal
  /\ \A r \in Request : RequestOK(r) /\ SnapshotOK(r)

=============================================================================
