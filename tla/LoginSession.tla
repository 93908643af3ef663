----------------------------- MODULE LoginSession -----------------------------
(***************************************************************************)
(* Signing in by a one-time code and staying signed in by refresh tokens,   *)
(* for one phone number in one role: the Redis keys otp, otp_rate and       *)
(* refresh, and the HTTP requests that read and write them one command at   *)
(* a time.  Requests of the same phone run concurrently, may fail between   *)
(* two commands, and nothing is locked.                                     *)
(*                                                                          *)
(* Codes and tokens are numbered in the order they are made (random ones    *)
(* are taken to be different).  Signatures and the account, an idempotent   *)
(* upsert of one row, are left out.                                         *)
(***************************************************************************)
EXTENDS Naturals, FiniteSets

CONSTANTS
  Handler,     \* requests in flight at a time
  RateLimit,   \* otpRateLimit
  MaxCodes,    \* bound: codes made
  MaxTokens,   \* bound: refresh tokens made
  MaxFaults    \* bound: requests that fail midway and commands that fail unnoticed

ASSUME LoginAssumption ==
  /\ RateLimit \in Nat \ {0}
  /\ MaxCodes \in Nat
  /\ MaxTokens \in Nat
  /\ MaxFaults \in Nat
  /\ IsFiniteSet(Handler)

VARIABLES
  stored,      \* the code in otp:{role}:{phone}, 0 when there is none
  codes,       \* codes made so far
  sent,        \* codes the phone has received
  verified,    \* history: how many requests a code was accepted from
  raced,       \* history: codes one request read before another that had read them deleted them
  undeleted,   \* history: codes whose DEL failed
  count,       \* otp_rate:{role}:{phone}
  expiring,    \* whether that key has a TTL
  live,        \* tokens with a refresh:{id} key
  tokens,      \* tokens made so far
  sessionOf,   \* the session of a token, which its first token names
  known,       \* tokens the client has received
  over,        \* sessions that ran out of time or lost a request
  pc, arg,     \* where each request is, and the code, session or token it carries
  faults

history   == <<verified, raced, undeleted>>
otpVars   == <<stored, codes, sent, history>>
rateVars  == <<count, expiring>>
tokenVars == <<live, tokens, sessionOf, known, over>>
vars == <<otpVars, rateVars, tokenVars, pc, arg, faults>>

Code  == 1 .. MaxCodes
Token == 1 .. MaxTokens

TypeOK ==
  /\ stored \in Code \cup {0}
  /\ codes \in Code \cup {0}
  /\ sent \in SUBSET Code
  /\ verified \in [Code -> Nat] /\ raced \in SUBSET Code /\ undeleted \in SUBSET Code
  /\ count \in 0 .. RateLimit + 1
  /\ expiring \in BOOLEAN
  /\ live \in SUBSET Token
  /\ tokens \in Token \cup {0}
  /\ sessionOf \in [Token -> Token \cup {0}]
  /\ known \in SUBSET Token
  /\ over \in SUBSET Token
  /\ pc \in [Handler -> {"idle", "expire", "save", "send", "delete", "issue", "reply"}]
  /\ arg \in [Handler -> Nat]
  /\ \A h \in Handler :
       /\ pc[h] \in {"idle", "expire", "save"} => arg[h] = 0
       /\ pc[h] \in {"send", "delete"} => arg[h] \in Code
       /\ pc[h] = "issue" => arg[h] \in Token \cup {0}
       /\ pc[h] = "reply" => arg[h] \in Token
  /\ faults \in 0 .. MaxFaults

Init ==
  /\ stored = 0 /\ codes = 0 /\ sent = {}
  /\ verified = [c \in Code |-> 0] /\ raced = {} /\ undeleted = {}
  /\ count = 0 /\ expiring = FALSE
  /\ live = {} /\ tokens = 0 /\ known = {} /\ over = {}
  /\ sessionOf = [t \in Token |-> 0]
  /\ pc = [h \in Handler |-> "idle"]
  /\ arg = [h \in Handler |-> 0]
  /\ faults = 0

At(h, here) == pc[h] = here

Goto(h, there, what) ==
  /\ pc' = [pc EXCEPT ![h] = there]
  /\ arg' = [arg EXCEPT ![h] = what]

Finish(h) == Goto(h, "idle", 0)

Fault ==
  /\ faults < MaxFaults
  /\ faults' = faults + 1

-----------------------------------------------------------------------------
(* RequestOTP *)

RoomForCode ==
  codes + Cardinality({h \in Handler : pc[h] \in {"expire", "save"}}) < MaxCodes

\* Faulty: the window is not started.
CountRequestNoWindow(h) ==
  /\ At(h, "idle")
  /\ RoomForCode
  /\ count <= RateLimit
  /\ count' = count + 1
  /\ IF count < RateLimit THEN Goto(h, "save", 0) ELSE UNCHANGED <<pc, arg>>
  /\ UNCHANGED <<otpVars, expiring, tokenVars, faults>>

\* CheckRateLimit, the INCR.  The first request of a window starts it; one above the
\* limit is refused (counting further makes no difference).
CountRequest(h) ==
  /\ At(h, "idle")
  /\ RoomForCode
  /\ count <= RateLimit
  /\ count' = count + 1
  /\ \/ count = 0 /\ Goto(h, "expire", 0)
     \/ count \in 1 .. RateLimit - 1 /\ Goto(h, "save", 0)
     \/ count >= RateLimit /\ UNCHANGED <<pc, arg>>
  /\ UNCHANGED <<otpVars, expiring, tokenVars, faults>>

\* CheckRateLimit, the EXPIRE.
StartWindow(h) ==
  /\ At(h, "expire")
  /\ expiring' = TRUE
  /\ Goto(h, "save", 0)
  /\ UNCHANGED <<otpVars, count, tokenVars, faults>>

\* Its error is not looked at.
StartWindowFails(h) ==
  /\ At(h, "expire")
  /\ Fault
  /\ Goto(h, "save", 0)
  /\ UNCHANGED <<otpVars, rateVars, tokenVars>>

\* Faulty: the message is built without the code.
SaveCodeUnsent(h) ==
  /\ At(h, "save")
  /\ codes' = codes + 1
  /\ stored' = codes + 1
  /\ Goto(h, "send", 0)
  /\ UNCHANGED <<sent, history, rateVars, tokenVars, faults>>

\* generateOTP and SaveOTP, which replaces an earlier code.
SaveCode(h) ==
  /\ At(h, "save")
  /\ codes' = codes + 1
  /\ stored' = codes + 1
  /\ Goto(h, "send", codes + 1)
  /\ UNCHANGED <<sent, history, rateVars, tokenVars, faults>>

SendCode(h) ==
  /\ At(h, "send")
  /\ sent' = sent \cup {arg[h]}
  /\ Finish(h)
  /\ UNCHANGED <<stored, codes, history, rateVars, tokenVars, faults>>

-----------------------------------------------------------------------------
(* VerifyOTP *)

RoomForToken ==
  tokens + Cardinality({h \in Handler : pc[h] \in {"delete", "issue"}}) < MaxTokens

\* The GET: the code the user typed is the one stored.  Otherwise nothing happens.
MatchCode(h) ==
  /\ At(h, "idle")
  /\ RoomForToken
  /\ stored \in sent
  /\ Goto(h, "delete", stored)
  /\ raced' = IF \E g \in Handler : At(g, "delete") /\ arg[g] = stored
               THEN raced \cup {stored} ELSE raced
  /\ UNCHANGED <<stored, codes, sent, verified, undeleted, rateVars, tokenVars, faults>>

\* VerifyOTP returns true.
Accept(h) ==
  /\ verified' = [verified EXCEPT ![arg[h]] = @ + 1]
  /\ Goto(h, "issue", 0)

\* Faulty: the key deleted is not the one that was read.
DeleteCodeMissed(h) ==
  /\ At(h, "delete")
  /\ Accept(h)
  /\ UNCHANGED <<stored, codes, sent, raced, undeleted, rateVars, tokenVars, faults>>

\* The DEL, of whatever code the key holds by now.
DeleteCode(h) ==
  /\ At(h, "delete")
  /\ stored' = 0
  /\ Accept(h)
  /\ UNCHANGED <<codes, sent, raced, undeleted, rateVars, tokenVars, faults>>

\* Its error is not looked at: the code is accepted and stays.
DeleteCodeFails(h) ==
  /\ At(h, "delete")
  /\ Fault
  /\ Accept(h)
  /\ undeleted' = undeleted \cup {arg[h]}
  /\ UNCHANGED <<stored, codes, sent, raced, rateVars, tokenVars>>

-----------------------------------------------------------------------------
(* RefreshTokens and issueTokenPair *)

\* Faulty: GET where the code says GETDEL.
RotateTokenKept(h) ==
  /\ At(h, "idle")
  /\ RoomForToken
  /\ \E t \in known \cap live : Goto(h, "issue", sessionOf[t])
  /\ UNCHANGED <<otpVars, rateVars, tokenVars, faults>>

\* GETDEL: whoever takes the token continues its session.  A token that is not there
\* is refused.
RotateToken(h) ==
  /\ At(h, "idle")
  /\ RoomForToken
  /\ \E t \in known \cap live :
       /\ live' = live \ {t}
       /\ Goto(h, "issue", sessionOf[t])
  /\ UNCHANGED <<otpVars, rateVars, tokens, sessionOf, known, over, faults>>

\* Faulty: the pair is returned without SaveRefreshToken.
IssueTokenUnsaved(h) ==
  /\ At(h, "issue")
  /\ tokens' = tokens + 1
  /\ sessionOf' = [sessionOf EXCEPT ![tokens + 1] = IF arg[h] = 0 THEN tokens + 1 ELSE arg[h]]
  /\ Goto(h, "reply", tokens + 1)
  /\ UNCHANGED <<otpVars, rateVars, live, known, over, faults>>

\* issueTokenPair with its SaveRefreshToken; a login opens a session.
IssueToken(h) ==
  /\ At(h, "issue")
  /\ tokens' = tokens + 1
  /\ live' = live \cup {tokens + 1}
  /\ sessionOf' = [sessionOf EXCEPT ![tokens + 1] = IF arg[h] = 0 THEN tokens + 1 ELSE arg[h]]
  /\ Goto(h, "reply", tokens + 1)
  /\ UNCHANGED <<otpVars, rateVars, known, over, faults>>

Reply(h) ==
  /\ At(h, "reply")
  /\ known' = known \cup {arg[h]}
  /\ Finish(h)
  /\ UNCHANGED <<otpVars, rateVars, live, tokens, sessionOf, over, faults>>

-----------------------------------------------------------------------------
(* Failures and time *)

\* The session whose only token is on its way in the request, if there is one.
Carried(h) ==
  CASE pc[h] = "issue" -> arg[h]
    [] pc[h] = "reply" -> sessionOf[arg[h]]
    [] OTHER           -> 0

\* A command returns an error, the client hangs up (which cancels the context every
\* later command uses), or the server dies: what is done stays done.
Abort(h) ==
  /\ pc[h] # "idle"
  /\ Fault
  /\ over' = over \cup ({Carried(h)} \ {0})
  /\ Finish(h)
  /\ UNCHANGED <<otpVars, rateVars, live, tokens, sessionOf, known>>

ExpireCode ==
  /\ stored # 0
  /\ stored' = 0
  /\ UNCHANGED <<codes, sent, history, rateVars, tokenVars, pc, arg, faults>>

ExpireCounter ==
  /\ expiring
  /\ count' = 0
  /\ expiring' = FALSE
  /\ UNCHANGED <<otpVars, tokenVars, pc, arg, faults>>

ExpireToken(t) ==
  /\ t \in live
  /\ live' = live \ {t}
  /\ over' = over \cup {sessionOf[t]}
  /\ UNCHANGED <<otpVars, rateVars, tokens, sessionOf, known, pc, arg, faults>>

-----------------------------------------------------------------------------
Handle(h) ==
  \/ CountRequest(h) \/ StartWindow(h) \/ SaveCode(h) \/ SendCode(h)
  \/ MatchCode(h) \/ DeleteCode(h)
  \/ RotateToken(h) \/ IssueToken(h) \/ Reply(h)

Fail(h) == StartWindowFails(h) \/ DeleteCodeFails(h) \/ Abort(h)

Next ==
  \/ \E h \in Handler : Handle(h) \/ Fail(h)
  \/ ExpireCode \/ ExpireCounter
  \/ \E t \in Token : ExpireToken(t)

Spec == Init /\ [][Next]_vars

-----------------------------------------------------------------------------
(* What holds *)

\* A code opens one session (repository.go:60, "one-time use"), but for two cases: two
\* requests had both read it before the first deleted it, or a DEL failed unnoticed.
\* Codes saved over it, expired or deleted by the requests of others, and requests
\* that stop between the GET and the DEL, never bring a code back.
OneTimeCode == \A c \in Code : verified[c] > 1 => c \in raced \cup undeleted

\* A session never forks: however often a client presents a token, in however many
\* requests at once, at most one request continues the session and at most one live
\* token belongs to it (token.go:128, "rotation").
SessionNeverForks ==
  /\ \A t, u \in live : sessionOf[t] = sessionOf[u] => t = u
  /\ \A h \in Handler : At(h, "issue") /\ arg[h] # 0 =>
       /\ \A t \in live : sessionOf[t] # arg[h]
       /\ \A g \in Handler : At(g, "issue") /\ arg[g] = arg[h] => g = h

\* A session is not lost either: until seven days pass without a refresh, or one of
\* its requests fails, its live token is in the client's hands or on its way there.
SessionKept ==
  \A s \in {sessionOf[t] : t \in known} \ over :
    \/ \E t \in live \cap known : sessionOf[t] = s
    \/ \E h \in Handler : Carried(h) = s

\* Every window comes to an end: unless a command failed, a counter that has counted
\* anything carries a TTL, or the request that will set it is on its way.  Without,
\* the phone could never ask for a code again.
CounterWillExpire ==
  count > 0 /\ ~expiring /\ faults = 0 => \E h \in Handler : At(h, "expire")

=============================================================================
