----------------------------- MODULE DriverRedis -----------------------------
(***************************************************************************)
(* What Redis keeps of each driver: membership of the GEO set               *)
(* drivers:online and the hash driver:{id}.  One operator per write the     *)
(* program makes.                                                           *)
(*                                                                          *)
(* A hash is "volatile" when it carries the 60 s TTL that only a GPS ping   *)
(* sets, "lasting" when an HSET created it anew and no ping has followed    *)
(* (HSET sets no TTL), and "gone" when it does not exist.  Of its fields    *)
(* only active_trip_id is ever read back; status is written by many and     *)
(* read by none, so it is left out, and so are the coordinates.             *)
(***************************************************************************)
CONSTANTS
  Trip,
  Driver,
  None           \* active_trip_id missing or ""

VARIABLES
  geo,           \* members of drivers:online
  hash,          \* driver:{id}: "gone", "volatile" or "lasting"
  active         \* its field active_trip_id

RedisTypeOK ==
  /\ geo \in SUBSET Driver
  /\ hash \in [Driver -> {"gone", "volatile", "lasting"}]
  /\ active \in [Driver -> Trip \cup {None}]

RedisInit ==
  /\ geo = {}
  /\ hash = [d \in Driver |-> "gone"]
  /\ active = [d \in Driver |-> None]

\* HSET keeps the TTL of a hash that has one and gives none to a new hash.
Touched(h) == IF h = "gone" THEN "lasting" ELSE h

\* HSET driver:{d} status .. active_trip_id a
SetActive(d, a) ==
  /\ hash' = [hash EXCEPT ![d] = Touched(@)]
  /\ active' = [active EXCEPT ![d] = a]
  /\ UNCHANGED geo

\* HSET driver:{d} status online: the GEO set is not touched.
SetOnline(d) ==
  /\ hash' = [hash EXCEPT ![d] = Touched(@)]
  /\ UNCHANGED <<geo, active>>

\* ZREM drivers:online d; HSET driver:{d} status offline
SetOffline(d) ==
  /\ geo' = geo \ {d}
  /\ hash' = [hash EXCEPT ![d] = Touched(@)]
  /\ UNCHANGED active

\* A GPS ping: GEOADD, HSET of the position, EXPIRE 60 s.  It asks nobody
\* whether the driver is online.
TrackDriver(d) ==
  /\ geo' = geo \cup {d}
  /\ hash' = [hash EXCEPT ![d] = "volatile"]
  /\ UNCHANGED active

\* The TTL runs out: the whole hash goes, the GEO member stays.
ExpireHash(d) ==
  /\ hash[d] = "volatile"
  /\ hash' = [hash EXCEPT ![d] = "gone"]
  /\ active' = [active EXCEPT ![d] = None]
  /\ UNCHANGED geo

=============================================================================
