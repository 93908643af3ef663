------------------------- MODULE LoginSession_proofs -------------------------
(***************************************************************************)
(* Codes, sessions and the rate limit, for any finite set of concurrent     *)
(* requests and any bounds: TypeOK, OneTimeCode, SessionNeverForks,         *)
(* SessionKept and CounterWillExpire.                                       *)
(***************************************************************************)
EXTENDS LoginSession, FiniteSetTheorems, TLAPS

USE DEF otpVars, history, rateVars, tokenVars

Place == {"idle", "expire", "save", "send", "delete", "issue", "reply"}

\* The requests that are at one of these places.
In(places) == {h \in Handler : pc[h] \in places}

-----------------------------------------------------------------------------
(* The invariant *)

\* The bounds leave room for what the requests under way will make.
RoomKept ==
  /\ codes + Cardinality(In({"expire", "save"})) <= MaxCodes
  /\ tokens + Cardinality(In({"delete", "issue"})) <= MaxTokens

Kinds ==
  /\ codes \in Nat /\ tokens \in Nat
  /\ count \in 0 .. RateLimit + 1
  /\ expiring \in BOOLEAN
  /\ verified \in [Code -> Nat]
  /\ sessionOf \in [Token -> Token \cup {0}]
  /\ over \in SUBSET Token
  /\ pc \in [Handler -> Place]
  /\ arg \in [Handler -> Nat]
  /\ faults \in 0 .. MaxFaults

\* Only what has been made is stored, sent, known or carried.
Made ==
  /\ stored \in 0 .. codes /\ sent \in SUBSET (1 .. codes)
  /\ raced \in SUBSET (1 .. codes) /\ undeleted \in SUBSET (1 .. codes)
  /\ live \in SUBSET (1 .. tokens) /\ known \in SUBSET (1 .. tokens)
  /\ \A t \in 1 .. tokens : sessionOf[t] \in 1 .. tokens

Carries(h) ==
  /\ pc[h] \in {"idle", "expire", "save"} => arg[h] = 0
  /\ pc[h] \in {"send", "delete"} => arg[h] \in 1 .. codes
  /\ pc[h] = "issue" => arg[h] \in 0 .. tokens
  /\ pc[h] = "reply" => arg[h] \in 1 .. tokens

\* A token on its way to the client is new to him, in one response only, and works
\* unless its session is over.
Fresh ==
  \A h \in Handler : pc[h] = "reply" =>
    /\ arg[h] \notin known
    /\ arg[h] \in live \/ sessionOf[arg[h]] \in over
    /\ \A g \in Handler : pc[g] = "reply" /\ arg[g] = arg[h] => g = h

LoginInv == Kinds /\ RoomKept /\ Made /\ \A h \in Handler : Carries(h)

-----------------------------------------------------------------------------
(* Moving requests *)

LEMMA InIsNat ==
  ASSUME NEW S PROVE IsFiniteSet(In(S)) /\ Cardinality(In(S)) \in Nat
BY LoginAssumption, FS_Subset, FS_CardinalityType DEF In

\* A request that moves leaves one place and comes to another.
LEMMA Moves ==
  ASSUME NEW S, pc \in [Handler -> Place], NEW h \in Handler, NEW l \in Place,
         pc' = [pc EXCEPT ![h] = l]
  PROVE  Cardinality(In(S)') = CASE l \in S /\ pc[h] \notin S -> Cardinality(In(S)) + 1
                                 [] l \notin S /\ pc[h] \in S -> Cardinality(In(S)) - 1
                                 [] OTHER                     -> Cardinality(In(S))
<1>1. CASE l \in S /\ pc[h] \notin S
  <2>1. In(S)' = In(S) \cup {h} /\ h \notin In(S)
    BY <1>1 DEF In
  <2> QED BY <1>1, <2>1, InIsNat, FS_AddElement
<1>2. CASE l \notin S /\ pc[h] \in S
  <2>1. In(S)' = In(S) \ {h} /\ h \in In(S)
    BY <1>2 DEF In
  <2> QED BY <1>2, <2>1, InIsNat, FS_RemoveElement
<1>3. CASE (l \in S /\ pc[h] \in S) \/ (l \notin S /\ pc[h] \notin S)
  <2>1. In(S)' = In(S)
    BY <1>3 DEF In
  <2> QED BY <1>3, <2>1
<1> QED BY <1>1, <1>2, <1>3

LEMMA InitLogin == Init => LoginInv /\ Fresh
<1> SUFFICES ASSUME Init PROVE LoginInv /\ Fresh
  OBVIOUS
<1>1. In({"expire", "save"}) = {} /\ In({"delete", "issue"}) = {}
  BY DEF Init, In
<1>2. Cardinality({}) = 0
  BY FS_EmptySet
<1>3. RoomKept
  BY <1>1, <1>2, LoginAssumption DEF Init, RoomKept
<1>4. Kinds /\ Made /\ Fresh /\ \A h \in Handler : Carries(h)
  <2>1. Kinds
    <3>1. RateLimit \in Nat /\ MaxFaults \in Nat
      BY LoginAssumption
    <3>2. count = 0 /\ faults = 0 /\ expiring = FALSE /\ codes = 0 /\ tokens = 0 /\ over = {}
      BY DEF Init
    <3>3. 0 \in 0 .. RateLimit + 1 /\ 0 \in 0 .. MaxFaults
      BY <3>1
    <3>4. sessionOf \in [Token -> {0}] /\ pc \in [Handler -> {"idle"}] /\ arg \in [Handler -> {0}]
      BY DEF Init
    <3>5. sessionOf \in [Token -> Token \cup {0}] /\ pc \in [Handler -> Place] /\ arg \in [Handler -> Nat]
      BY <3>4 DEF Place
    <3>6. verified \in [Code -> Nat]
      BY DEF Init
    <3> QED BY <3>2, <3>3, <3>5, <3>6, Zenon DEF Kinds
  <2>2. Made
    BY DEF Init, Made
  <2>3. \A h \in Handler : pc[h] = "idle" /\ arg[h] = 0
    BY DEF Init
  <2> QED BY <2>1, <2>2, <2>3 DEF Fresh, Carries
<1> QED BY <1>3, <1>4 DEF LoginInv

\* RoomForCode and RoomForToken, where requests start, are what the bounds need.
LEMMA RoomStep ==
  ASSUME LoginInv, [Next]_vars PROVE RoomKept'
<1> DEFINE C == {"expire", "save"}
           T == {"delete", "issue"}
           c == Cardinality(In(C))
           t == Cardinality(In(T))
<1>1. c \in Nat /\ t \in Nat /\ codes \in Nat /\ tokens \in Nat /\ MaxCodes \in Nat /\ MaxTokens \in Nat
  BY InIsNat, LoginAssumption DEF LoginInv, Kinds
<1>2. codes + c <= MaxCodes /\ tokens + t <= MaxTokens
  BY DEF LoginInv, RoomKept
<1>3. pc \in [Handler -> Place]
  BY DEF LoginInv, Kinds
<1>4. ASSUME NEW h \in Handler, NEW l \in Place, pc' = [pc EXCEPT ![h] = l],
             \/ /\ pc[h] = "idle" /\ l \in C /\ codes + c < MaxCodes
                /\ UNCHANGED <<codes, tokens>>
             \/ /\ pc[h] = "idle" /\ l \in T /\ tokens + t < MaxTokens
                /\ UNCHANGED <<codes, tokens>>
             \/ /\ l \in C => pc[h] \in C
                /\ l \in T => pc[h] \in T
                /\ \/ UNCHANGED <<codes, tokens>>
                   \/ codes' = codes + 1 /\ tokens' = tokens /\ pc[h] \in C /\ l \notin C
                   \/ tokens' = tokens + 1 /\ codes' = codes /\ pc[h] \in T /\ l \notin T
      PROVE  RoomKept'
  <2>1. Cardinality(In(C)') = CASE l \in C /\ pc[h] \notin C -> c + 1
                                [] l \notin C /\ pc[h] \in C -> c - 1
                                [] OTHER                     -> c
    BY <1>3, <1>4, Moves
  <2>2. Cardinality(In(T)') = CASE l \in T /\ pc[h] \notin T -> t + 1
                                [] l \notin T /\ pc[h] \in T -> t - 1
                                [] OTHER                     -> t
    BY <1>3, <1>4, Moves
  <2> HIDE DEF c, t
  <2>3. codes' + Cardinality(In(C)') <= MaxCodes
    BY <1>1, <1>2, <1>4, <2>1
  <2>4. tokens' + Cardinality(In(T)') <= MaxTokens
    BY <1>1, <1>2, <1>4, <2>2
  <2> QED BY <2>3, <2>4 DEF RoomKept
<1>5. ASSUME UNCHANGED <<pc, codes, tokens>> PROVE RoomKept'
  BY <1>2, <1>5 DEF RoomKept, In
<1>6. ASSUME NEW h \in Handler, Handle(h) PROVE RoomKept'
  <2>1. CASE CountRequest(h)
    <3>1. CASE UNCHANGED <<pc, arg>>
      BY <1>5, <2>1, <3>1 DEF CountRequest
    <3>2. ASSUME NEW l \in C, Goto(h, l, 0) PROVE RoomKept'
      BY <1>4, <2>1, <3>2 DEF CountRequest, RoomForCode, In, At, Goto, Place
    <3> QED BY <2>1, <3>1, <3>2 DEF CountRequest
  <2>2. CASE StartWindow(h)
    BY <1>4, <2>2 DEF StartWindow, At, Goto, Place
  <2>3. CASE SaveCode(h)
    BY <1>4, <2>3 DEF SaveCode, At, Goto, Place
  <2>4. CASE SendCode(h)
    BY <1>4, <2>4 DEF SendCode, At, Finish, Goto, Place
  <2>5. CASE MatchCode(h)
    BY <1>4, <2>5 DEF MatchCode, RoomForToken, In, At, Goto, Place
  <2>6. CASE DeleteCode(h)
    BY <1>4, <2>6 DEF DeleteCode, Accept, At, Goto, Place
  <2>7. CASE RotateToken(h)
    BY <1>4, <2>7 DEF RotateToken, RoomForToken, In, At, Goto, Place
  <2>8. CASE IssueToken(h)
    BY <1>4, <2>8 DEF IssueToken, At, Goto, Place
  <2>9. CASE Reply(h)
    BY <1>4, <2>9 DEF Reply, At, Finish, Goto, Place
  <2> QED BY <1>6, <2>1, <2>2, <2>3, <2>4, <2>5, <2>6, <2>7, <2>8, <2>9 DEF Handle
<1>7. ASSUME NEW h \in Handler, Fail(h) PROVE RoomKept'
  <2>1. CASE StartWindowFails(h)
    BY <1>4, <2>1 DEF StartWindowFails, At, Goto, Place
  <2>2. CASE DeleteCodeFails(h)
    BY <1>4, <2>2 DEF DeleteCodeFails, Accept, At, Goto, Place
  <2>3. CASE Abort(h)
    BY <1>4, <2>3 DEF Abort, Finish, Goto, Place
  <2> QED BY <1>7, <2>1, <2>2, <2>3 DEF Fail
<1>8. CASE ExpireCode \/ ExpireCounter \/ (\E u \in Token : ExpireToken(u)) \/ UNCHANGED vars
  BY <1>5, <1>8 DEF ExpireCode, ExpireCounter, ExpireToken, vars
<1> QED BY <1>6, <1>7, <1>8 DEF Next

-----------------------------------------------------------------------------
(* Types *)

\* Numbers made are in the bounds, and one more where a request is to make it.
LEMMA Bounds ==
  ASSUME LoginInv
  PROVE  /\ codes \in Nat /\ codes <= MaxCodes /\ tokens \in Nat /\ tokens <= MaxTokens
         /\ \A h \in Handler : pc[h] = "save" => codes + 1 <= MaxCodes
         /\ \A h \in Handler : pc[h] = "issue" => tokens + 1 <= MaxTokens
<1> DEFINE c == Cardinality(In({"expire", "save"}))
           t == Cardinality(In({"delete", "issue"}))
<1>1. c \in Nat /\ t \in Nat /\ codes \in Nat /\ tokens \in Nat /\ MaxCodes \in Nat /\ MaxTokens \in Nat
  BY InIsNat, LoginAssumption DEF LoginInv, Kinds
<1>2. codes + c <= MaxCodes /\ tokens + t <= MaxTokens
  BY DEF LoginInv, RoomKept
<1>3. ASSUME NEW h \in Handler, NEW S, pc[h] \in S PROVE Cardinality(In(S)) >= 1
  <2>1. h \in In(S) /\ IsFiniteSet(In(S)) /\ Cardinality(In(S)) \in Nat
    BY <1>3, InIsNat DEF In
  <2>2. Cardinality(In(S)) # 0
    BY <2>1, FS_EmptySet
  <2> QED BY <2>1, <2>2
<1>4. \A h \in Handler : pc[h] = "save" => c >= 1
  BY <1>3
<1>5. \A h \in Handler : pc[h] = "issue" => t >= 1
  BY <1>3
<1> HIDE DEF c, t
<1> QED BY <1>1, <1>2, <1>4, <1>5

\* A request that moves, and makes nothing, keeps what the others carry.
LEMMA CarriesStep ==
  ASSUME LoginInv, NEW h \in Handler, NEW l \in Place, NEW a \in Nat, Goto(h, l, a),
         codes' \in Nat, tokens' \in Nat, codes <= codes', tokens <= tokens',
         /\ l \in {"idle", "expire", "save"} => a = 0
         /\ l \in {"send", "delete"} => a \in 1 .. codes'
         /\ l = "issue" => a \in 0 .. tokens'
         /\ l = "reply" => a \in 1 .. tokens'
  PROVE  /\ pc' \in [Handler -> Place] /\ arg' \in [Handler -> Nat]
         /\ \A g \in Handler : Carries(g)'
<1>1. pc \in [Handler -> Place] /\ arg \in [Handler -> Nat] /\ codes \in Nat /\ tokens \in Nat
  BY DEF LoginInv, Kinds
<1>2. pc' = [pc EXCEPT ![h] = l] /\ arg' = [arg EXCEPT ![h] = a]
  BY DEF Goto
<1>3. Carries(h)'
  BY <1>1, <1>2 DEF Carries
<1>4. ASSUME NEW g \in Handler \ {h} PROVE Carries(g)'
  <2>1. Carries(g) /\ pc'[g] = pc[g] /\ arg'[g] = arg[g]
    BY <1>1, <1>2 DEF LoginInv
  <2> QED BY <1>1, <2>1 DEF Carries
<1> QED BY <1>1, <1>2, <1>3, <1>4

\* Every step keeps types and origin of what is stored, known and carried.
LEMMA MadeStep ==
  ASSUME LoginInv, [Next]_vars PROVE Kinds' /\ Made' /\ \A g \in Handler : Carries(g)'
<1> DEFINE Goal == Kinds' /\ Made' /\ \A g \in Handler : Carries(g)'
<1>1. /\ codes \in Nat /\ codes <= MaxCodes /\ tokens \in Nat /\ tokens <= MaxTokens
      /\ MaxCodes \in Nat /\ MaxTokens \in Nat /\ RateLimit \in Nat \ {0} /\ MaxFaults \in Nat
  BY Bounds, LoginAssumption
<1>2. /\ \A h \in Handler : pc[h] = "save" => codes + 1 <= MaxCodes
      /\ \A h \in Handler : pc[h] = "issue" => tokens + 1 <= MaxTokens
  BY Bounds
<1>3. Kinds /\ Made /\ \A h \in Handler : Carries(h)
  BY DEF LoginInv
<1>4. ASSUME NEW h \in Handler, CountRequest(h) PROVE Goal
  <2>1. UNCHANGED <<otpVars, expiring, tokenVars, faults>> /\ count' \in 0 .. RateLimit + 1
    BY <1>1, <1>3, <1>4 DEF CountRequest, Kinds
  <2>2. CASE UNCHANGED <<pc, arg>>
    BY <1>3, <2>1, <2>2 DEF Kinds, Made, Carries
  <2>3. ASSUME NEW l \in {"expire", "save"}, Goto(h, l, 0) PROVE Goal
    BY <1>1, <1>3, <2>1, <2>3, CarriesStep DEF Kinds, Made, Place
  <2> QED BY <1>4, <2>2, <2>3 DEF CountRequest
<1>5. ASSUME NEW h \in Handler, StartWindow(h) \/ StartWindowFails(h) PROVE Goal
  <2>1. /\ Goto(h, "save", 0) /\ UNCHANGED <<otpVars, count, tokenVars>>
        /\ expiring' \in BOOLEAN /\ faults' \in 0 .. MaxFaults
    <3>1. CASE StartWindow(h)
      BY <1>3, <3>1 DEF StartWindow, Kinds
    <3>2. CASE StartWindowFails(h)
      BY <1>1, <1>3, <3>2 DEF StartWindowFails, Kinds, Fault
    <3> QED BY <1>5, <3>1, <3>2
  <2> QED BY <1>1, <1>3, <2>1, CarriesStep DEF Kinds, Made, Place
<1>6. ASSUME NEW h \in Handler, SaveCode(h) PROVE Goal
  <2>1. /\ Goto(h, "send", codes + 1) /\ codes' = codes + 1 /\ stored' = codes + 1
        /\ UNCHANGED <<sent, history, rateVars, tokenVars, faults>>
    BY <1>6 DEF SaveCode
  <2>2. pc' \in [Handler -> Place] /\ arg' \in [Handler -> Nat] /\ \A g \in Handler : Carries(g)'
    BY <1>1, <2>1, CarriesStep DEF Place
  <2> QED BY <1>1, <1>3, <2>1, <2>2 DEF Kinds, Made
<1>7. ASSUME NEW h \in Handler, SendCode(h) PROVE Goal
  <2>1. /\ Goto(h, "idle", 0) /\ sent' = sent \cup {arg[h]} /\ arg[h] \in 1 .. codes
        /\ UNCHANGED <<stored, codes, history, rateVars, tokenVars, faults>>
    BY <1>3, <1>7 DEF SendCode, At, Finish, Carries
  <2>2. pc' \in [Handler -> Place] /\ arg' \in [Handler -> Nat] /\ \A g \in Handler : Carries(g)'
    BY <1>1, <2>1, CarriesStep DEF Place
  <2> QED BY <1>1, <1>3, <2>1, <2>2 DEF Kinds, Made
<1>8. ASSUME NEW h \in Handler, MatchCode(h) PROVE Goal
  <2>1. /\ Goto(h, "delete", stored) /\ stored \in 1 .. codes
        /\ raced' \in {raced, raced \cup {stored}}
        /\ UNCHANGED <<stored, codes, sent, verified, undeleted, rateVars, tokenVars, faults>>
    BY <1>3, <1>8 DEF MatchCode, Made
  <2> QED BY <1>1, <1>3, <2>1, CarriesStep DEF Kinds, Made, Place
<1>9. ASSUME NEW h \in Handler, DeleteCode(h) \/ DeleteCodeFails(h) PROVE Goal
  <2>1. /\ Goto(h, "issue", 0) /\ stored' \in {stored, 0}
        /\ verified' = [verified EXCEPT ![arg[h]] = @ + 1]
        /\ undeleted' \in {undeleted, undeleted \cup {arg[h]}}
        /\ faults' \in 0 .. MaxFaults /\ arg[h] \in 1 .. codes
        /\ UNCHANGED <<codes, sent, raced, rateVars, tokenVars>>
    BY <1>1, <1>3, <1>9 DEF DeleteCode, DeleteCodeFails, Accept, At, Carries, Kinds, Fault
  <2>2. verified' \in [Code -> Nat]
    BY <1>1, <1>3, <2>1 DEF Kinds, Code
  <2>3. pc' \in [Handler -> Place] /\ arg' \in [Handler -> Nat] /\ \A g \in Handler : Carries(g)'
    BY <1>1, <2>1, CarriesStep DEF Place
  <2>4. Kinds'
    BY <1>3, <2>1, <2>2, <2>3 DEF Kinds
  <2>5. Made'
    BY <1>1, <1>3, <2>1 DEF Made
  <2> QED BY <2>3, <2>4, <2>5
<1>10. ASSUME NEW h \in Handler, RotateToken(h) PROVE Goal
  <2>1. PICK t \in known \cap live : live' = live \ {t} /\ Goto(h, "issue", sessionOf[t])
    BY <1>10 DEF RotateToken
  <2>2. sessionOf[t] \in 1 .. tokens
    BY <1>3, <2>1 DEF Made
  <2>3. UNCHANGED <<otpVars, rateVars, tokens, sessionOf, known, over, faults>>
    BY <1>10 DEF RotateToken
  <2> QED BY <1>1, <1>3, <2>1, <2>2, <2>3, CarriesStep DEF Kinds, Made, Place
<1>11. ASSUME NEW h \in Handler, IssueToken(h) PROVE Goal
  <2> DEFINE s == IF arg[h] = 0 THEN tokens + 1 ELSE arg[h]
  <2>1. /\ Goto(h, "reply", tokens + 1) /\ tokens' = tokens + 1 /\ live' = live \cup {tokens + 1}
        /\ sessionOf' = [sessionOf EXCEPT ![tokens + 1] = s]
        /\ UNCHANGED <<otpVars, rateVars, known, over, faults>>
    BY <1>11 DEF IssueToken
  <2>2. s \in 1 .. tokens + 1 /\ tokens + 1 <= MaxTokens
    BY <1>1, <1>2, <1>3, <1>11 DEF IssueToken, At, Carries
  <2>3. pc' \in [Handler -> Place] /\ arg' \in [Handler -> Nat] /\ \A g \in Handler : Carries(g)'
    BY <1>1, <2>1, CarriesStep DEF Place
  <2> HIDE DEF s
  <2> QED BY <1>1, <1>3, <2>1, <2>2, <2>3 DEF Kinds, Made, Token
<1>12. ASSUME NEW h \in Handler, Reply(h) PROVE Goal
  <2>1. /\ Goto(h, "idle", 0) /\ known' = known \cup {arg[h]} /\ arg[h] \in 1 .. tokens
        /\ UNCHANGED <<otpVars, rateVars, live, tokens, sessionOf, over, faults>>
    BY <1>3, <1>12 DEF Reply, At, Finish, Carries
  <2>2. pc' \in [Handler -> Place] /\ arg' \in [Handler -> Nat] /\ \A g \in Handler : Carries(g)'
    BY <1>1, <2>1, CarriesStep DEF Place
  <2> QED BY <1>1, <1>3, <2>1, <2>2 DEF Kinds, Made
<1>13. ASSUME NEW h \in Handler, Abort(h) PROVE Goal
  <2>1. /\ Goto(h, "idle", 0) /\ faults' \in 0 .. MaxFaults /\ over' = over \cup ({Carried(h)} \ {0})
        /\ UNCHANGED <<otpVars, rateVars, live, tokens, sessionOf, known>>
    BY <1>1, <1>3, <1>13 DEF Abort, Fault, Finish, Kinds
  <2>2. Carried(h) \in 0 .. tokens
    BY <1>1, <1>3 DEF Carried, Carries, Made
  <2>3. over' \in SUBSET Token
    <3>1. {Carried(h)} \ {0} \subseteq Token
      BY <1>1, <2>2 DEF Token
    <3> QED BY <1>3, <2>1, <3>1 DEF Kinds
  <2> QED BY <1>1, <1>3, <2>1, <2>3, CarriesStep DEF Kinds, Made, Place
<1>14. CASE ExpireCode \/ ExpireCounter \/ UNCHANGED vars
  <2>1. /\ stored' \in {stored, 0} /\ count' \in {count, 0} /\ expiring' \in {expiring, FALSE}
        /\ UNCHANGED <<codes, sent, history, tokenVars, pc, arg, faults>>
    BY <1>14 DEF ExpireCode, ExpireCounter, vars
  <2>2. Kinds'
    <3>1. count' \in 0 .. RateLimit + 1
      BY <1>1, <1>3, <2>1 DEF Kinds
    <3>2. expiring' \in BOOLEAN
      BY <1>3, <2>1, Zenon DEF Kinds
    <3> QED BY <1>3, <2>1, <3>1, <3>2 DEF Kinds
  <2>3. Made'
    BY <1>1, <1>3, <2>1 DEF Made
  <2> QED BY <1>3, <2>1, <2>2, <2>3 DEF Carries
<1>15. ASSUME NEW t \in Token, ExpireToken(t) PROVE Goal
  <2>1. sessionOf[t] \in Token
    BY <1>1, <1>3, <1>15 DEF ExpireToken, Made, Token
  <2> QED BY <1>3, <1>15, <2>1 DEF ExpireToken, Kinds, Made, Carries
<1> QED BY <1>4, <1>5, <1>6, <1>7, <1>8, <1>9, <1>10, <1>11, <1>12, <1>13, <1>14, <1>15
    DEF Next, Handle, Fail

LEMMA LoginStep == LoginInv /\ [Next]_vars => LoginInv'
BY RoomStep, MadeStep DEF LoginInv

LEMMA Login == Spec => []LoginInv
<1>1. Init => LoginInv
  BY InitLogin
<1> QED BY <1>1, LoginStep, PTL DEF Spec

\* Every variable keeps its type; the bounds are never passed, whichever requests
\* are under way.
THEOREM Typed == Spec => []TypeOK
<1>1. LoginInv => TypeOK
  <2> SUFFICES ASSUME LoginInv PROVE TypeOK
    OBVIOUS
  <2>1. codes \in Nat /\ codes <= MaxCodes /\ tokens \in Nat /\ tokens <= MaxTokens
    BY Bounds
  <2> QED BY <2>1, LoginAssumption DEF LoginInv, Kinds, Made, Carries, TypeOK, Code, Token, Place
<1> QED BY <1>1, Login, PTL

-----------------------------------------------------------------------------
(* Codes and the rate limit *)

\* The requests that have read code c and not deleted it yet.
Holders(c) == {h \in Handler : pc[h] = "delete" /\ arg[h] = c}

\* A code that no two requests hold and whose DEL did not fail is accepted once at
\* most; once it is, it is neither stored nor held by a request any more.
UsedUp ==
  \A c \in Code \ (raced \cup undeleted) :
    /\ verified[c] \in {0, 1}
    /\ verified[c] = 1 => stored # c /\ c <= codes /\ Holders(c) = {}
    /\ \A g, h \in Holders(c) : g = h

\* Requests come to "delete" by MatchCode only, and carry what they carried.
LEMMA HoldersStay ==
  ASSUME LoginInv, [Next]_vars, \A h \in Handler : ~MatchCode(h), NEW c
  PROVE  Holders(c)' \subseteq Holders(c)
<1> DEFINE Goal == Holders(c)' \subseteq Holders(c)
<1>1. pc \in [Handler -> Place] /\ arg \in [Handler -> Nat]
  BY DEF LoginInv, Kinds
<1>2. ASSUME NEW h \in Handler, NEW l \in Place \ {"delete"}, NEW a, Goto(h, l, a) PROVE Goal
  BY <1>1, <1>2 DEF Goto, Holders
<1>3. ASSUME UNCHANGED <<pc, arg>> PROVE Goal
  BY <1>3 DEF Holders
<1>4. ASSUME NEW h \in Handler, Handle(h) PROVE Goal
  <2>1. CASE CountRequest(h)
    BY <1>2, <1>3, <2>1 DEF CountRequest, Place
  <2>2. CASE StartWindow(h) \/ SaveCode(h) \/ SendCode(h) \/ DeleteCode(h)
    BY <1>2, <2>2 DEF StartWindow, SaveCode, SendCode, DeleteCode, Accept, Finish, Place
  <2>3. CASE RotateToken(h) \/ IssueToken(h) \/ Reply(h)
    BY <1>2, <2>3 DEF RotateToken, IssueToken, Reply, Finish, Place
  <2> QED BY <1>4, <2>1, <2>2, <2>3 DEF Handle
<1>5. ASSUME NEW h \in Handler, Fail(h) PROVE Goal
  BY <1>2, <1>5 DEF Fail, StartWindowFails, DeleteCodeFails, Accept, Abort, Finish, Place
<1>6. CASE ExpireCode \/ ExpireCounter \/ (\E t \in Token : ExpireToken(t)) \/ UNCHANGED vars
  BY <1>3, <1>6 DEF ExpireCode, ExpireCounter, ExpireToken, vars
<1> QED BY <1>4, <1>5, <1>6 DEF Next

LEMMA UsedUpStep ==
  ASSUME LoginInv, UsedUp, [Next]_vars PROVE UsedUp'
<1> SUFFICES ASSUME NEW c \in Code, c \notin raced', c \notin undeleted'
             PROVE  /\ verified'[c] \in {0, 1}
                    /\ verified'[c] = 1 => stored' # c /\ c <= codes' /\ Holders(c)' = {}
                    /\ \A g, h \in Holders(c)' : g = h
  BY DEF UsedUp
<1> DEFINE Goal == /\ verified'[c] \in {0, 1}
                   /\ verified'[c] = 1 => stored' # c /\ c <= codes' /\ Holders(c)' = {}
                   /\ \A g, h \in Holders(c)' : g = h
<1>1. /\ codes \in Nat /\ stored \in 0 .. codes /\ verified \in [Code -> Nat]
      /\ pc \in [Handler -> Place] /\ arg \in [Handler -> Nat]
      /\ \A h \in Handler : pc[h] = "delete" => arg[h] \in 1 .. codes
  BY DEF LoginInv, Kinds, Made, Carries
<1>2. c \in Nat \ {0}
  BY LoginAssumption DEF Code
<1>3. ASSUME c \notin raced, c \notin undeleted
      PROVE  /\ verified[c] \in {0, 1}
             /\ verified[c] = 1 => stored # c /\ c <= codes /\ Holders(c) = {}
             /\ \A g, h \in Holders(c) : g = h
  BY <1>3 DEF UsedUp
<1>4. ASSUME NEW h \in Handler, MatchCode(h) PROVE Goal
  <2>1. /\ pc' = [pc EXCEPT ![h] = "delete"] /\ arg' = [arg EXCEPT ![h] = stored]
        /\ UNCHANGED <<stored, codes, verified, undeleted>> /\ raced \subseteq raced'
    BY <1>4 DEF MatchCode, Goto
  <2>2. CASE c = stored
    <3>1. Holders(c) = {}
      BY <1>4, <2>2 DEF MatchCode, Holders, At
    <3>2. Holders(c)' \subseteq {h}
      BY <1>1, <2>1, <3>1 DEF Holders
    <3>3. verified[c] = 0
      BY <1>3, <2>1, <2>2
    <3> QED BY <2>1, <3>2, <3>3
  <2>3. CASE c # stored
    <3>1. Holders(c)' \subseteq Holders(c)
      BY <1>1, <2>1, <2>3 DEF Holders
    <3> QED BY <1>3, <2>1, <3>1
  <2> QED BY <2>2, <2>3
<1>5. ASSUME NEW h \in Handler, DeleteCode(h) \/ DeleteCodeFails(h) PROVE Goal
  <2>1. /\ pc[h] = "delete" /\ pc' = [pc EXCEPT ![h] = "issue"] /\ arg' = [arg EXCEPT ![h] = 0]
        /\ verified' = [verified EXCEPT ![arg[h]] = @ + 1] /\ UNCHANGED <<codes, raced>>
        /\ \/ stored' = 0 /\ undeleted' = undeleted
           \/ stored' = stored /\ undeleted' = undeleted \cup {arg[h]}
    BY <1>5 DEF DeleteCode, DeleteCodeFails, Accept, Goto, At
  <2>2. Holders(c)' \subseteq Holders(c) \ {h}
    BY <1>1, <2>1 DEF Holders
  <2>3. CASE arg[h] = c
    <3>1. h \in Holders(c)
      BY <2>1, <2>3 DEF Holders
    <3>2. verified[c] = 0 /\ Holders(c)' = {}
      BY <1>3, <2>1, <2>2, <3>1
    <3>3. verified'[c] = 1 /\ stored' = 0 /\ c <= codes
      BY <1>1, <2>1, <2>3, <3>2
    <3> QED BY <1>2, <2>1, <3>2, <3>3
  <2>4. CASE arg[h] # c
    <3>1. verified'[c] = verified[c] /\ stored' \in {stored, 0}
      BY <1>1, <2>1, <2>4
    <3> QED BY <1>2, <1>3, <2>1, <2>2, <3>1
  <2> QED BY <2>3, <2>4
<1>6. ASSUME \A h \in Handler : ~MatchCode(h) /\ ~DeleteCode(h) /\ ~DeleteCodeFails(h) PROVE Goal
  <2>1. Holders(c)' \subseteq Holders(c)
    BY <1>6, HoldersStay
  <2>2. /\ UNCHANGED <<verified, raced, undeleted>> /\ codes' \in {codes, codes + 1}
        /\ stored' \in {stored, 0} \/ stored' = codes + 1
    <3>1. CASE \E h \in Handler : Handle(h)
      BY <1>6, <3>1 DEF Handle, CountRequest, StartWindow, SaveCode, SendCode, RotateToken, IssueToken, Reply
    <3>2. CASE \E h \in Handler : Fail(h)
      BY <1>6, <3>2 DEF Fail, StartWindowFails, Abort
    <3>3. CASE ExpireCode \/ ExpireCounter \/ (\E t \in Token : ExpireToken(t)) \/ UNCHANGED vars
      BY <3>3 DEF ExpireCode, ExpireCounter, ExpireToken, vars
    <3> QED BY <3>1, <3>2, <3>3 DEF Next
  <2> HIDE DEF Code
  <2> QED BY <1>1, <1>2, <1>3, <2>1, <2>2
<1> QED BY <1>4, <1>5, <1>6

\* A code is accepted from one request, unless two had read it before either deleted it
\* or a DEL failed (VerifyOTP, one-time use), however requests for codes and logins
\* interleave, stop and expire.
THEOREM CodesAreOneTime == Spec => []OneTimeCode
<1>1. Init => UsedUp
  BY DEF Init, UsedUp, Holders
<1>2. LoginInv /\ UsedUp /\ [Next]_vars => UsedUp'
  BY UsedUpStep
<1>3. LoginInv /\ UsedUp => OneTimeCode
  BY DEF UsedUp, OneTimeCode, LoginInv, Kinds
<1> QED BY <1>1, <1>2, <1>3, Login, PTL DEF Spec

\* Every window of the rate limit ends, whichever request is first (CheckRateLimit),
\* unless a command failed.
THEOREM WindowsEnd == Spec => []CounterWillExpire
<1>1. Init => CounterWillExpire
  BY DEF Init, CounterWillExpire
<1>2. LoginInv /\ CounterWillExpire /\ [Next]_vars => CounterWillExpire'
  <2> SUFFICES ASSUME LoginInv, CounterWillExpire, [Next]_vars, faults' = 0, count' > 0, ~expiring'
               PROVE  \E h \in Handler : At(h, "expire")'
    BY DEF CounterWillExpire
  <2>1. pc \in [Handler -> Place] /\ faults \in Nat /\ count \in Nat
    BY LoginAssumption DEF LoginInv, Kinds
  <2>2. ASSUME NEW h \in Handler, pc[h] # "expire", UNCHANGED <<rateVars, faults>>,
               pc' = pc \/ \E l \in Place : pc' = [pc EXCEPT ![h] = l]
        PROVE  \E g \in Handler : At(g, "expire")'
    BY <2>1, <2>2 DEF CounterWillExpire, At
  <2>3. ASSUME NEW h \in Handler, CountRequest(h) PROVE \E g \in Handler : At(g, "expire")'
    <3>1. CASE count = 0
      BY <2>1, <2>3, <3>1, LoginAssumption DEF CountRequest, At, Goto
    <3>2. CASE count > 0
      <4>1. PICK g \in Handler : At(g, "expire")
        BY <2>1, <2>3, <3>2 DEF CountRequest, CounterWillExpire
      <4>2. g # h /\ pc'[g] = pc[g]
        BY <2>1, <2>3, <4>1 DEF CountRequest, At, Goto
      <4> QED BY <4>1, <4>2 DEF At
    <3> QED BY <2>1, <3>1, <3>2
  <2>4. ASSUME NEW h \in Handler, StartWindow(h) PROVE FALSE
    BY <2>4 DEF StartWindow
  <2>5. ASSUME NEW h \in Handler, Handle(h), ~CountRequest(h), ~StartWindow(h)
        PROVE  \E g \in Handler : At(g, "expire")'
    <3>1. pc[h] # "expire" /\ UNCHANGED <<rateVars, faults>> /\ \E l \in Place : pc' = [pc EXCEPT ![h] = l]
      BY <2>5 DEF Handle, SaveCode, SendCode, MatchCode, DeleteCode, Accept, RotateToken, IssueToken, Reply,
         At, Finish, Goto, Place
    <3> QED BY <2>2, <3>1
  <2>6. ASSUME NEW h \in Handler, Fail(h) PROVE FALSE
    BY <2>1, <2>6 DEF Fail, StartWindowFails, DeleteCodeFails, Abort, Fault
  <2>7. CASE ExpireCounter
    BY <2>1, <2>7 DEF ExpireCounter
  <2>8. CASE ExpireCode \/ (\E t \in Token : ExpireToken(t)) \/ UNCHANGED vars
    BY <2>8 DEF ExpireCode, ExpireToken, vars, CounterWillExpire, At
  <2> QED BY <2>3, <2>4, <2>5, <2>6, <2>7, <2>8 DEF Next
<1> QED BY <1>1, <1>2, Login, PTL DEF Spec

-----------------------------------------------------------------------------
(* Sessions *)

\* Which session tokens belong to is settled when they are made.
LEMMA SessionsSettled ==
  ASSUME LoginInv, [Next]_vars
  PROVE  \A t \in 1 .. tokens : sessionOf'[t] = sessionOf[t]
<1>1. ASSUME NEW h \in Handler, IssueToken(h) PROVE \A t \in 1 .. tokens : sessionOf'[t] = sessionOf[t]
  BY <1>1, Bounds DEF IssueToken, LoginInv, Kinds, Token
<1>2. ASSUME NEW h \in Handler, Handle(h), ~IssueToken(h) PROVE UNCHANGED sessionOf
  BY <1>2 DEF Handle, CountRequest, StartWindow, SaveCode, SendCode, MatchCode, DeleteCode, RotateToken, Reply
<1>3. ASSUME NEW h \in Handler, Fail(h) PROVE UNCHANGED sessionOf
  BY <1>3 DEF Fail, StartWindowFails, DeleteCodeFails, Abort
<1>4. CASE ExpireCode \/ ExpireCounter \/ (\E t \in Token : ExpireToken(t)) \/ UNCHANGED vars
  BY <1>4 DEF ExpireCode, ExpireCounter, ExpireToken, vars
<1> QED BY <1>1, <1>2, <1>3, <1>4 DEF Next

\* Steps that are neither GETDEL, SET nor answer, nor a loss, leave sessions alone.
LEMMA Elsewhere ==
  ASSUME LoginInv, [Next]_vars,
         \A h \in Handler : ~RotateToken(h) /\ ~IssueToken(h) /\ ~Reply(h) /\ ~Abort(h),
         \A t \in Token : ~ExpireToken(t)
  PROVE  /\ UNCHANGED <<live, tokens, sessionOf, known, over>>
         /\ \A g \in Handler :
              \/ pc'[g] = pc[g] /\ arg'[g] = arg[g]
              \/ pc[g] \notin {"issue", "reply"} /\ pc'[g] = "issue" /\ arg'[g] = 0
              \/ pc[g] \notin {"issue", "reply"} /\ pc'[g] \notin {"issue", "reply"}
<1> DEFINE Goal == /\ UNCHANGED <<live, tokens, sessionOf, known, over>>
                   /\ \A g \in Handler :
                        \/ pc'[g] = pc[g] /\ arg'[g] = arg[g]
                        \/ pc[g] \notin {"issue", "reply"} /\ pc'[g] = "issue" /\ arg'[g] = 0
                        \/ pc[g] \notin {"issue", "reply"} /\ pc'[g] \notin {"issue", "reply"}
<1>1. pc \in [Handler -> Place] /\ arg \in [Handler -> Nat]
  BY DEF LoginInv, Kinds
<1>2. ASSUME NEW h \in Handler, NEW l \in Place, NEW a, Goto(h, l, a), pc[h] \notin {"issue", "reply"},
             (l = "issue" /\ a = 0) \/ l \notin {"issue", "reply"},
             UNCHANGED <<live, tokens, sessionOf, known, over>>
      PROVE  Goal
  BY <1>1, <1>2 DEF Goto
<1>3. ASSUME NEW h \in Handler, CountRequest(h) PROVE Goal
  <2>1. CASE UNCHANGED <<pc, arg>>
    BY <1>3, <2>1 DEF CountRequest
  <2>2. ASSUME NEW l \in {"expire", "save"}, Goto(h, l, 0) PROVE Goal
    BY <1>2, <1>3, <2>2 DEF CountRequest, At, Place
  <2> QED BY <1>3, <2>1, <2>2 DEF CountRequest
<1>4. ASSUME NEW h \in Handler, StartWindow(h) \/ StartWindowFails(h) PROVE Goal
  BY <1>2, <1>4 DEF StartWindow, StartWindowFails, At, Place
<1>5. ASSUME NEW h \in Handler, SaveCode(h) \/ SendCode(h) \/ MatchCode(h) PROVE Goal
  BY <1>2, <1>5 DEF SaveCode, SendCode, MatchCode, At, Finish, Place
<1>6. ASSUME NEW h \in Handler, DeleteCode(h) \/ DeleteCodeFails(h) PROVE Goal
  BY <1>2, <1>6 DEF DeleteCode, DeleteCodeFails, Accept, At, Place
<1>7. CASE ExpireCode \/ ExpireCounter \/ UNCHANGED vars
  BY <1>7 DEF ExpireCode, ExpireCounter, vars
<1> QED BY <1>3, <1>4, <1>5, <1>6, <1>7 DEF Next, Handle, Fail

\* A refresh token is taken by one request (GETDEL), so its session has one successor.
LEMMA NeverForksStep ==
  ASSUME LoginInv, SessionNeverForks, [Next]_vars PROVE SessionNeverForks'
<1>1. /\ pc \in [Handler -> Place] /\ arg \in [Handler -> Nat] /\ tokens \in Nat
      /\ live \in SUBSET (1 .. tokens) /\ \A t \in 1 .. tokens : sessionOf[t] \in 1 .. tokens
      /\ \A h \in Handler : pc[h] = "issue" => arg[h] \in 0 .. tokens
      /\ sessionOf \in [Token -> Token \cup {0}]
  BY DEF LoginInv, Kinds, Made, Carries
<1>2. ASSUME NEW h \in Handler, RotateToken(h) PROVE SessionNeverForks'
  <2>1. PICK t \in known \cap live : live' = live \ {t} /\ Goto(h, "issue", sessionOf[t])
    BY <1>2 DEF RotateToken
  <2>2. UNCHANGED sessionOf /\ pc[h] = "idle"
    BY <1>2 DEF RotateToken, At
  <2> QED BY <1>1, <2>1, <2>2 DEF SessionNeverForks, At, Goto
<1>3. ASSUME NEW h \in Handler, IssueToken(h) PROVE SessionNeverForks'
  <2> DEFINE s == IF arg[h] = 0 THEN tokens + 1 ELSE arg[h]
  <2>1. /\ pc' = [pc EXCEPT ![h] = "reply"] /\ arg' = [arg EXCEPT ![h] = tokens + 1]
        /\ live' = live \cup {tokens + 1} /\ sessionOf' = [sessionOf EXCEPT ![tokens + 1] = s]
        /\ pc[h] = "issue"
    BY <1>3 DEF IssueToken, At, Goto
  <2>2. tokens + 1 \in Token
    BY <1>1, <2>1, Bounds DEF Token
  <2>3. sessionOf'[tokens + 1] = s /\ \A t \in live : t # tokens + 1 /\ sessionOf'[t] = sessionOf[t]
    BY <1>1, <2>1, <2>2
  <2>4. \A t \in live : sessionOf[t] # s
    BY <1>1, <2>1 DEF SessionNeverForks, At
  <2>5. \A g \in Handler \ {h} : pc[g] = "issue" /\ arg[g] # 0 => arg[g] # s
    BY <1>1, <2>1 DEF SessionNeverForks, At
  <2> HIDE DEF s
  <2>6. \A t, u \in live' : sessionOf'[t] = sessionOf'[u] => t = u
    BY <2>1, <2>3, <2>4 DEF SessionNeverForks
  <2>7. \A g \in Handler : pc'[g] = "issue" => g # h /\ pc[g] = "issue" /\ arg'[g] = arg[g]
    BY <1>1, <2>1
  <2> QED BY <2>1, <2>3, <2>5, <2>6, <2>7 DEF SessionNeverForks, At
<1>4. ASSUME NEW h \in Handler, Reply(h) \/ Abort(h) PROVE SessionNeverForks'
  BY <1>1, <1>4 DEF Reply, Abort, Finish, Goto, SessionNeverForks, At
<1>5. ASSUME NEW t \in Token, ExpireToken(t) PROVE SessionNeverForks'
  BY <1>5 DEF ExpireToken, SessionNeverForks, At
<1>6. ASSUME \A h \in Handler : ~RotateToken(h) /\ ~IssueToken(h) /\ ~Reply(h) /\ ~Abort(h),
             \A t \in Token : ~ExpireToken(t)
      PROVE  SessionNeverForks'
  BY <1>6, Elsewhere DEF SessionNeverForks, At
<1> QED BY <1>2, <1>3, <1>4, <1>5, <1>6

\* However often a token is presented, one request goes on with its session (token.go:128).
THEOREM SessionsNeverFork == Spec => []SessionNeverForks
<1>1. Init => SessionNeverForks
  BY DEF Init, SessionNeverForks, At
<1> QED BY <1>1, NeverForksStep, Login, PTL DEF Spec

\* A token is new when it is made, and known once it is answered.
LEMMA FreshStep ==
  ASSUME LoginInv, Fresh, [Next]_vars PROVE Fresh'
<1>1. /\ pc \in [Handler -> Place] /\ arg \in [Handler -> Nat] /\ tokens \in Nat
      /\ live \in SUBSET (1 .. tokens) /\ known \in SUBSET (1 .. tokens)
      /\ \A h \in Handler : pc[h] = "reply" => arg[h] \in 1 .. tokens
      /\ sessionOf \in [Token -> Token \cup {0}]
  BY DEF LoginInv, Kinds, Made, Carries
<1>2. \A h \in Handler : pc[h] = "reply" => sessionOf'[arg[h]] = sessionOf[arg[h]]
  BY <1>1, SessionsSettled
<1>3. ASSUME NEW h \in Handler, RotateToken(h) PROVE Fresh'
  <2>1. PICK t \in known \cap live : live' = live \ {t} /\ Goto(h, "issue", sessionOf[t])
    BY <1>3 DEF RotateToken
  <2>2. UNCHANGED <<sessionOf, known, over>> /\ pc[h] = "idle"
    BY <1>3 DEF RotateToken, At
  <2> QED BY <1>1, <2>1, <2>2 DEF Fresh, Goto
<1>4. ASSUME NEW h \in Handler, IssueToken(h) PROVE Fresh'
  <2>1. /\ pc' = [pc EXCEPT ![h] = "reply"] /\ arg' = [arg EXCEPT ![h] = tokens + 1]
        /\ live' = live \cup {tokens + 1} /\ UNCHANGED <<known, over>>
    BY <1>4 DEF IssueToken, Goto
  <2>2. pc'[h] = "reply" /\ arg'[h] = tokens + 1 /\ tokens + 1 \in live' /\ tokens + 1 \notin known
    BY <1>1, <2>1
  <2>3. \A g \in Handler \ {h} : pc'[g] = pc[g] /\ arg'[g] = arg[g]
    BY <1>1, <2>1
  <2>4. \A g \in Handler \ {h} : pc[g] = "reply" => arg[g] # tokens + 1
    BY <1>1
  <2>5. ASSUME NEW g \in Handler, pc'[g] = "reply"
        PROVE  /\ arg'[g] \notin known'
               /\ arg'[g] \in live' \/ sessionOf'[arg'[g]] \in over'
               /\ \A i \in Handler : pc'[i] = "reply" /\ arg'[i] = arg'[g] => i = g
    <3>1. CASE g = h
      BY <2>1, <2>2, <2>3, <2>4, <3>1
    <3>2. CASE g # h
      <4>1. arg[g] \notin known /\ (arg[g] \in live \/ sessionOf[arg[g]] \in over)
        BY <2>3, <2>5, <3>2 DEF Fresh
      <4>2. \A i \in Handler : pc'[i] = "reply" /\ arg'[i] = arg[g] => i = g
        BY <2>2, <2>3, <2>4, <2>5, <3>2 DEF Fresh
      <4> QED BY <1>2, <2>1, <2>3, <2>5, <3>2, <4>1, <4>2
    <3> QED BY <3>1, <3>2
  <2> QED BY <2>5 DEF Fresh
<1>5. ASSUME NEW h \in Handler, Reply(h) PROVE Fresh'
  <2>1. /\ pc[h] = "reply" /\ known' = known \cup {arg[h]} /\ Goto(h, "idle", 0)
        /\ UNCHANGED <<live, sessionOf, over>>
    BY <1>5 DEF Reply, At, Finish
  <2> QED BY <1>1, <2>1 DEF Fresh, Goto
<1>6. ASSUME NEW h \in Handler, Abort(h) PROVE Fresh'
  <2>1. Goto(h, "idle", 0) /\ over \subseteq over' /\ UNCHANGED <<live, sessionOf, known>>
    BY <1>6 DEF Abort, Finish
  <2> QED BY <1>1, <2>1 DEF Fresh, Goto
<1>7. ASSUME NEW t \in Token, ExpireToken(t) PROVE Fresh'
  BY <1>7 DEF ExpireToken, Fresh
<1>8. ASSUME \A h \in Handler : ~RotateToken(h) /\ ~IssueToken(h) /\ ~Reply(h) /\ ~Abort(h),
             \A t \in Token : ~ExpireToken(t)
      PROVE  Fresh'
  <2>1. UNCHANGED <<live, sessionOf, known, over>>
    BY <1>8, Elsewhere
  <2>2. \A g \in Handler : pc'[g] = "reply" => pc[g] = "reply" /\ arg'[g] = arg[g]
    BY <1>8, Elsewhere
  <2> QED BY <2>1, <2>2 DEF Fresh
<1> QED BY <1>3, <1>4, <1>5, <1>6, <1>7, <1>8

\* The session of every known token has a token in the client's hands or on its way.
LEMMA KeptStep ==
  ASSUME LoginInv, Fresh, SessionKept, [Next]_vars PROVE SessionKept'
<1>1. /\ pc \in [Handler -> Place] /\ arg \in [Handler -> Nat] /\ tokens \in Nat
      /\ live \in SUBSET (1 .. tokens) /\ known \in SUBSET (1 .. tokens)
      /\ \A t \in 1 .. tokens : sessionOf[t] \in 1 .. tokens
      /\ \A h \in Handler : pc[h] = "reply" => arg[h] \in 1 .. tokens
      /\ sessionOf \in [Token -> Token \cup {0}]
  BY DEF LoginInv, Kinds, Made, Carries
<1>2. \A t \in 1 .. tokens : sessionOf'[t] = sessionOf[t]
  BY SessionsSettled
<1> SUFFICES ASSUME NEW u \in known', sessionOf'[u] \notin over'
             PROVE  \/ \E t \in live' \cap known' : sessionOf'[t] = sessionOf'[u]
                    \/ \E h \in Handler : Carried(h)' = sessionOf'[u]
  BY DEF SessionKept
<1> DEFINE s    == sessionOf[u]
           Goal == \/ \E t \in live' \cap known' : sessionOf'[t] = sessionOf'[u]
                   \/ \E h \in Handler : Carried(h)' = sessionOf'[u]
<1>3. ASSUME u \in known, over \subseteq over'
      PROVE  /\ s # 0 /\ sessionOf'[u] = s
             /\ \/ \E t \in live \cap known : sessionOf[t] = s
                \/ \E h \in Handler : Carried(h) = s
  BY <1>1, <1>2, <1>3 DEF SessionKept
<1>4. ASSUME NEW h \in Handler, RotateToken(h) PROVE Goal
  <2>1. PICK v \in known \cap live : live' = live \ {v} /\ Goto(h, "issue", sessionOf[v])
    BY <1>4 DEF RotateToken
  <2>2. UNCHANGED <<sessionOf, known, over>> /\ pc[h] = "idle"
    BY <1>4 DEF RotateToken, At
  <2>3. s # 0 /\ sessionOf'[u] = s
    BY <1>3, <2>2
  <2>4. CASE \E t \in live \cap known : sessionOf[t] = s
    <3>1. PICK t \in live \cap known : sessionOf[t] = s
      BY <2>4
    <3>2. CASE t = v
      <4>1. Carried(h)' = s
        BY <1>1, <2>1, <3>1, <3>2 DEF Carried, Goto
      <4> QED BY <2>3, <4>1
    <3>3. CASE t # v
      BY <2>1, <2>2, <2>3, <3>1, <3>3
    <3> QED BY <3>2, <3>3
  <2>5. CASE \E g \in Handler : Carried(g) = s
    <3>1. PICK g \in Handler : Carried(g) = s
      BY <2>5
    <3>2. g # h
      BY <2>2, <2>3, <3>1 DEF Carried
    <3>3. Carried(g)' = s
      BY <1>1, <2>1, <2>2, <3>1, <3>2 DEF Carried, Goto
    <3> QED BY <2>3, <3>3
  <2> QED BY <1>3, <2>2, <2>4, <2>5
<1>5. ASSUME NEW h \in Handler, IssueToken(h) PROVE Goal
  <2> DEFINE n == IF arg[h] = 0 THEN tokens + 1 ELSE arg[h]
  <2>1. /\ pc[h] = "issue" /\ Goto(h, "reply", tokens + 1) /\ live' = live \cup {tokens + 1}
        /\ sessionOf' = [sessionOf EXCEPT ![tokens + 1] = n] /\ UNCHANGED <<known, over>>
    BY <1>5 DEF IssueToken, At
  <2>2. s # 0 /\ sessionOf'[u] = s
    BY <1>3, <2>1
  <2>3. tokens + 1 \in Token
    BY <1>1, <2>1, Bounds DEF Token
  <2>4. CASE \E t \in live \cap known : sessionOf[t] = s
    BY <1>1, <1>2, <2>1, <2>2, <2>4
  <2>5. CASE \E g \in Handler : Carried(g) = s
    <3>1. PICK g \in Handler : Carried(g) = s
      BY <2>5
    <3>2. CASE g = h
      <4>1. arg[h] = s
        BY <2>1, <3>1, <3>2 DEF Carried
      <4>2. sessionOf'[tokens + 1] = s
        BY <1>1, <2>1, <2>2, <2>3, <4>1
      <4>3. pc'[h] = "reply" /\ arg'[h] = tokens + 1
        BY <1>1, <2>1 DEF Goto
      <4>4. Carried(h)' = s
        BY <4>2, <4>3 DEF Carried
      <4> QED BY <2>2, <4>4
    <3>3. CASE g # h
      <4>1. pc'[g] = pc[g] /\ arg'[g] = arg[g]
        BY <1>1, <2>1, <3>3 DEF Goto
      <4>2. Carried(g)' = s
        BY <1>1, <1>2, <3>1, <4>1 DEF Carried
      <4> QED BY <2>2, <4>2
    <3> QED BY <3>2, <3>3
  <2> QED BY <1>3, <2>1, <2>4, <2>5
<1>6. ASSUME NEW h \in Handler, Reply(h) PROVE Goal
  <2>1. /\ pc[h] = "reply" /\ known' = known \cup {arg[h]} /\ Goto(h, "idle", 0)
        /\ UNCHANGED <<live, sessionOf, over>>
    BY <1>6 DEF Reply, At, Finish
  <2>2. arg[h] \in live \/ sessionOf[arg[h]] \in over
    BY <2>1 DEF Fresh
  <2>3. CASE sessionOf[arg[h]] = s
    BY <2>1, <2>2, <2>3
  <2>4. CASE sessionOf[arg[h]] # s
    <3>1. u \in known /\ s # 0 /\ sessionOf'[u] = s
      BY <1>3, <2>1, <2>4
    <3>2. CASE \E t \in live \cap known : sessionOf[t] = s
      BY <2>1, <3>1, <3>2
    <3>3. ASSUME NEW g \in Handler, Carried(g) = s PROVE Goal
      <4>1. g # h
        BY <2>1, <2>4, <3>3 DEF Carried
      <4>2. Carried(g)' = s
        BY <1>1, <2>1, <3>3, <4>1 DEF Carried, Goto
      <4> QED BY <3>1, <4>2
    <3> QED BY <1>3, <2>1, <3>1, <3>2, <3>3
  <2> QED BY <2>3, <2>4
<1>7. ASSUME NEW h \in Handler, Abort(h) PROVE Goal
  <2>1. /\ Goto(h, "idle", 0) /\ over' = over \cup ({Carried(h)} \ {0})
        /\ UNCHANGED <<live, sessionOf, known>>
    BY <1>7 DEF Abort, Finish
  <2>2. s # 0 /\ sessionOf'[u] = s
    BY <1>3, <2>1
  <2>3. CASE \E t \in live \cap known : sessionOf[t] = s
    BY <2>1, <2>2, <2>3
  <2>4. ASSUME NEW g \in Handler, Carried(g) = s PROVE Goal
    <3>1. g # h
      BY <2>1, <2>2, <2>4
    <3>2. Carried(g)' = s
      BY <1>1, <2>1, <2>4, <3>1 DEF Carried, Goto
    <3> QED BY <2>2, <3>2
  <2> QED BY <1>3, <2>1, <2>3, <2>4
<1>8. ASSUME NEW v \in Token, ExpireToken(v) PROVE Goal
  <2>1. live' = live \ {v} /\ over' = over \cup {sessionOf[v]} /\ UNCHANGED <<sessionOf, known, pc, arg>>
    BY <1>8 DEF ExpireToken
  <2>2. s # sessionOf[v]
    BY <2>1
  <2>3. \A g \in Handler : Carried(g)' = Carried(g)
    BY <2>1 DEF Carried
  <2> QED BY <1>3, <2>1, <2>2, <2>3
<1>9. ASSUME \A h \in Handler : ~RotateToken(h) /\ ~IssueToken(h) /\ ~Reply(h) /\ ~Abort(h),
             \A t \in Token : ~ExpireToken(t)
      PROVE  Goal
  <2>1. UNCHANGED <<live, sessionOf, known, over>>
    BY <1>9, Elsewhere
  <2>2. ASSUME NEW g \in Handler, Carried(g) = s, s # 0 PROVE Carried(g)' = s
    <3>1. pc'[g] = pc[g] /\ arg'[g] = arg[g]
      BY <1>9, <2>2, Elsewhere DEF Carried
    <3> QED BY <2>1, <2>2, <3>1 DEF Carried
  <2> QED BY <1>3, <2>1, <2>2
<1> QED BY <1>4, <1>5, <1>6, <1>7, <1>8, <1>9

\* A session lasts as long as none of its requests fails and it is refreshed in time,
\* with any number of requests at once (RefreshTokens: GETDEL, SET, answer).
THEOREM SessionsKept == Spec => []SessionKept
<1>1. Init => SessionKept
  BY DEF Init, SessionKept
<1>2. Init => Fresh
  BY InitLogin
<1>3. LoginInv /\ Fresh /\ [Next]_vars => Fresh'
  BY FreshStep
<1>4. LoginInv /\ Fresh /\ SessionKept /\ [Next]_vars => SessionKept'
  BY KeptStep
<1> QED BY <1>1, <1>2, <1>3, <1>4, Login, PTL DEF Spec

=============================================================================
