-------------------------- MODULE AccessTokensProofs --------------------------
(***************************************************************************)
(* Proofs about AccessTokens for any users, devices, requests, token       *)
(* lifetime and clock resolution.                                          *)
(*                                                                         *)
(* That a blacklist entry outlives its token does not follow from the      *)
(* entry alone: the remaining lifetime is computed in one step and the key *)
(* set in a later one, and logouts of one token may overlap.  The          *)
(* invariant follows the promise from the computed number to the key to    *)
(* the answered logout: Covered(t) is what a logout leaves behind.         *)
(***************************************************************************)
EXTENDS AccessTokens, TLAPS

Covered(t) == t \in lost \/ sec >= Exp(t) \/ \E k \in keys : k.token = t

KeysOutliveTokens == \A k \in keys : k.sec >= Exp(k.token)

Bearing(r) ==
    /\ IF pc[r] = "idle" THEN r \notin late ELSE tok[r] \in Token
    /\ r \in late => tok[r] \in loggedOut
    /\ pc[r] = "setex" => remaining[r] + sec >= Exp(tok[r])
    /\ pc[r] = "revoke" => Covered(tok[r])

IInv ==
    /\ TypeOK
    /\ KeysOutliveTokens
    /\ \A t \in loggedOut : Covered(t)
    /\ \A r \in Reqs : Bearing(r)
    /\ LateAcceptOnlyInLastSecond

-----------------------------------------------------------------------------
LEMMA ExpNat == \A t \in Token : Exp(t) \in Nat
BY DEF Token, Exp

LEMMA CoveredIsBlacklisted ==
    ASSUME TypeOK, KeysOutliveTokens, NEW t \in Token, Covered(t)
    PROVE  t \in lost \/ sec >= Exp(t) \/ Blacklisted(t)
<1> SUFFICES ASSUME ~ (sec >= Exp(t)), NEW k \in keys, k.token = t PROVE Alive(k)
  BY DEF Covered, Blacklisted
<1>1. k.sec >= Exp(t) /\ k.sec \in Nat
  BY DEF KeysOutliveTokens, TypeOK, Key
<1> QED
  BY <1>1, ExpNat DEF Alive, TypeOK

LEMMA InitInv == Init => IInv
BY DEF Init, IInv, TypeOK, KeysOutliveTokens, Bearing, LateAcceptOnlyInLastSecond, Waiting

\* The clock moves, and Redis drops only keys whose token has expired.
LEMMA TickInv == ASSUME IInv, Tick PROVE IInv'
<1> USE DEF IInv, Tick
<1>1. sec \in Nat /\ sec' \in Nat /\ sec' >= sec /\ tick' \in Nat
  BY DEF TypeOK
<1>2. TypeOK'
  BY <1>1 DEF TypeOK
<1>3. KeysOutliveTokens'
  BY DEF KeysOutliveTokens
<1>4. ASSUME NEW t \in Token, Covered(t) PROVE Covered(t)'
  <2>1. CASE t \in lost
    BY <2>1 DEF Covered
  <2>2. CASE sec >= Exp(t)
    BY <1>1, <2>2, ExpNat DEF Covered
  <2>3. ASSUME NEW k \in keys, k.token = t PROVE Covered(t)'
    <3>1. k.sec >= Exp(t) /\ k.sec \in Nat /\ k.tick \in Nat
      BY <2>3 DEF KeysOutliveTokens, TypeOK, Key
    <3>2. CASE Alive(k)'
      BY <2>3, <3>2 DEF Covered
    <3>3. CASE ~ Alive(k)'
      <4>1. sec' >= k.sec
        BY <1>1, <3>1, <3>3 DEF Alive
      <4>2. sec' >= Exp(t)
        BY <1>1, <3>1, <4>1, ExpNat
      <4> QED
        BY <4>2 DEF Covered
    <3> QED
      BY <3>2, <3>3
  <2> QED
    BY <1>4, <2>1, <2>2, <2>3 DEF Covered
<1>5. \A t \in loggedOut' : Covered(t)'
  BY <1>4 DEF TypeOK
<1>6. \A r \in Reqs : Bearing(r)'
  BY <1>1, <1>4, ExpNat DEF Bearing, TypeOK
<1>7. LateAcceptOnlyInLastSecond'
  BY <1>1, ExpNat DEF LateAcceptOnlyInLastSecond, Bearing, TypeOK, Waiting
<1> QED
  BY <1>2, <1>3, <1>5, <1>6, <1>7

SameRequest(q) ==
    /\ pc'[q] = pc[q] /\ tok'[q] = tok[q]
    /\ remaining'[q] = remaining[q] /\ (q \in late' <=> q \in late)

\* The last conjunct of IInv, for one request.
LateAccepted(r) ==
    r \in late /\ pc[r] \in Waiting \ {"blacklist"} => tok[r] \in lost \/ sec >= Exp(tok[r])

\* A step of r under which no token loses its cover and no logout is forgotten.
LEMMA RequestStep ==
    ASSUME IInv, NEW r \in Reqs, TypeOK', KeysOutliveTokens', sec' = sec,
           lost \subseteq lost', loggedOut \subseteq loggedOut',
           \A t \in Token : Covered(t) => Covered(t)',
           \A t \in loggedOut' \ loggedOut : Covered(t)',
           \A q \in Reqs \ {r} : SameRequest(q),
           Bearing(r)', LateAccepted(r)'
    PROVE  IInv'
<1>1. \A t \in loggedOut' : Covered(t)'
  BY DEF IInv, TypeOK
<1>2. \A q \in Reqs \ {r} : Bearing(q)'
  BY DEF IInv, Bearing, SameRequest
<1>3. \A q \in Reqs \ {r} : LateAccepted(q)'
  BY DEF IInv, LateAcceptOnlyInLastSecond, SameRequest, LateAccepted
<1>4. LateAcceptOnlyInLastSecond'
  BY <1>3 DEF TypeOK, LateAcceptOnlyInLastSecond, LateAccepted
<1> QED
  BY <1>1, <1>2, <1>4 DEF IInv

\* A step that ends the request, or moves it on without touching keys or tokens.
LEMMA FinishInv ==
    ASSUME IInv, NEW r \in Reqs, Finish(r),
           UNCHANGED <<clock, held, keys, lost, active>>,
           loggedOut' = loggedOut \/ (pc[r] = "revoke" /\ loggedOut' = loggedOut \cup {tok[r]})
    PROVE  IInv'
<1> USE DEF clock, Finish
<1>1. Bearing(r)
  BY DEF IInv
<1>2. TypeOK'
  BY <1>1 DEF IInv, TypeOK, Bearing
<1>3. KeysOutliveTokens' /\ \A t \in Token : Covered(t) => Covered(t)'
  BY DEF IInv, KeysOutliveTokens, Covered
<1>4. \A t \in loggedOut' \ loggedOut : Covered(t)'
  BY <1>1 DEF Bearing, Covered
<1>5. \A q \in Reqs \ {r} : SameRequest(q)
  BY DEF IInv, TypeOK, SameRequest
<1>6. pc'[r] = "idle" /\ r \notin late'
  BY DEF IInv, TypeOK
<1>7. Bearing(r)' /\ LateAccepted(r)'
  BY <1>6 DEF Bearing, LateAccepted, Waiting
<1>8. sec' = sec /\ lost \subseteq lost' /\ loggedOut \subseteq loggedOut'
  OBVIOUS
<1> QED
  BY <1>2, <1>3, <1>4, <1>5, <1>7, <1>8, RequestStep

LEMMA IssuedTokens == ASSUME TypeOK PROVE Issued \subseteq Token
BY DEF TypeOK, Issued

LEMMA ArriveInv ==
    ASSUME IInv, NEW r \in Reqs, NEW t \in Issued, Authenticate(r, t) \/ WsConnect(r, t)
    PROVE  IInv'
<1> USE DEF Authenticate, WsConnect, clock
<1>1. t \in Token
  BY IssuedTokens DEF IInv
<1>2. TypeOK'
  BY <1>1 DEF IInv, TypeOK, Waiting
<1>3. UNCHANGED <<sec, keys, lost, loggedOut, remaining>>
  OBVIOUS
<1>4. KeysOutliveTokens' /\ \A u \in Token : Covered(u) => Covered(u)'
  BY <1>3 DEF IInv, KeysOutliveTokens, Covered
<1>5. \A q \in Reqs \ {r} : SameRequest(q)
  <2>1. \A q \in Reqs \ {r} : pc'[q] = pc[q] /\ tok'[q] = tok[q]
    BY DEF IInv, TypeOK
  <2>2. \A q \in Reqs \ {r} : q \in late' <=> q \in late
    OBVIOUS
  <2> QED
    BY <1>3, <2>1, <2>2 DEF SameRequest
<1>6. Bearing(r)' /\ LateAccepted(r)'
  BY <1>1 DEF IInv, TypeOK, Bearing, LateAccepted, Waiting
<1> QED
  BY <1>2, <1>3, <1>4, <1>5, <1>6, RequestStep

LEMMA CheckBlacklistInv == ASSUME IInv, NEW r \in Reqs, CheckBlacklist(r) PROVE IInv'
<1> USE DEF CheckBlacklist, clock
<1>1. tok[r] \in Token /\ (r \in late => tok[r] \in loggedOut)
  BY DEF IInv, Bearing
<1>2. ~ Blacklisted(tok[r])
  BY DEF IsBlacklisted
<1>3. r \in late => tok[r] \in lost \/ sec >= Exp(tok[r])
  BY <1>1, <1>2, CoveredIsBlacklisted DEF IInv
<1>4. TypeOK'
  BY DEF IInv, TypeOK, Waiting
<1>5. KeysOutliveTokens' /\ \A u \in Token : Covered(u) => Covered(u)'
  BY DEF IInv, KeysOutliveTokens, Covered
<1>6. \A q \in Reqs \ {r} : SameRequest(q)
  BY DEF IInv, TypeOK, SameRequest
<1>7. Bearing(r)' /\ LateAccepted(r)'
  BY <1>1, <1>3 DEF IInv, TypeOK, Bearing, LateAccepted
<1> QED
  BY <1>4, <1>5, <1>6, <1>7, RequestStep

LEMMA AuthoriseLogoutInv == ASSUME IInv, NEW r \in Reqs, AuthoriseLogout(r) PROVE IInv'
<1> USE DEF AuthoriseLogout, clock
<1>1. Bearing(r) /\ LateAccepted(r)
  BY DEF IInv, LateAcceptOnlyInLastSecond, LateAccepted
<1>2. TypeOK'
  BY DEF IInv, TypeOK, Waiting
<1>3. KeysOutliveTokens' /\ \A u \in Token : Covered(u) => Covered(u)'
  BY DEF IInv, KeysOutliveTokens, Covered
<1>4. \A q \in Reqs \ {r} : SameRequest(q)
  BY DEF IInv, TypeOK, SameRequest
<1>5. Bearing(r)' /\ LateAccepted(r)'
  BY <1>1 DEF IInv, TypeOK, Bearing, LateAccepted, Waiting
<1> QED
  BY <1>2, <1>3, <1>4, <1>5, RequestStep

LEMMA ComputeRemainingInv == ASSUME IInv, NEW r \in Reqs, ComputeRemaining(r) PROVE IInv'
<1> USE DEF ComputeRemaining, clock
<1>1. Bearing(r) /\ LateAccepted(r) /\ tok[r] \in Token
  BY DEF IInv, LateAcceptOnlyInLastSecond, LateAccepted, Bearing
<1>2. sec \in Nat /\ Exp(tok[r]) \in Nat
  BY <1>1, ExpNat DEF IInv, TypeOK
<1>3. /\ Remaining(tok[r]) \in Nat
      /\ Remaining(tok[r]) + sec >= Exp(tok[r])
      /\ ~ (Remaining(tok[r]) > 0) => sec >= Exp(tok[r])
  BY <1>2 DEF Remaining
<1>4. TypeOK'
  BY <1>3 DEF IInv, TypeOK, Waiting
<1>5. KeysOutliveTokens' /\ \A u \in Token : Covered(u) => Covered(u)'
  BY DEF IInv, KeysOutliveTokens, Covered
<1>6. \A q \in Reqs \ {r} : SameRequest(q)
  BY DEF IInv, TypeOK, SameRequest
<1>7. Bearing(r)'
  BY <1>1, <1>3 DEF IInv, TypeOK, Bearing, Covered
<1>8. LateAccepted(r)'
  BY <1>1 DEF IInv, TypeOK, LateAccepted, Waiting
<1> QED
  BY <1>4, <1>5, <1>6, <1>7, <1>8, RequestStep

LEMMA BlacklistTokenInv == ASSUME IInv, NEW r \in Reqs, BlacklistToken(r) PROVE IInv'
<1> USE DEF BlacklistToken, clock
<1> DEFINE t == tok[r]
           ttl == IF remaining[r] > 1 THEN remaining[r] ELSE 1
           k == [token |-> t, sec |-> sec + ttl, tick |-> tick]
<1>1. Bearing(r) /\ LateAccepted(r) /\ t \in Token
  BY DEF IInv, LateAcceptOnlyInLastSecond, LateAccepted, Bearing
<1>2. sec \in Nat /\ tick \in Nat /\ remaining[r] \in Nat /\ Exp(t) \in Nat
  BY <1>1, ExpNat DEF IInv, TypeOK
<1>3. keys' = {j \in keys : j.token # t} \cup {k}
  BY DEF SetEx
<1>4. k \in Key /\ k.token = t /\ k.sec >= Exp(t)
  BY <1>1, <1>2 DEF Key, Bearing
<1>5. TypeOK'
  BY <1>3, <1>4 DEF IInv, TypeOK, Waiting
<1>6. KeysOutliveTokens'
  BY <1>3, <1>4 DEF IInv, KeysOutliveTokens
<1>7. \A u \in Token : Covered(u) => Covered(u)'
  <2> SUFFICES ASSUME NEW u \in Token, NEW j \in keys, j.token = u PROVE Covered(u)'
    BY DEF Covered
  <2> HIDE DEF k
  <2>1. CASE u = t
    BY <1>3, <1>4, <2>1 DEF Covered
  <2>2. CASE u # t
    BY <1>3, <2>2 DEF Covered
  <2> QED
    BY <2>1, <2>2
<1>8. \A q \in Reqs \ {r} : SameRequest(q)
  BY DEF IInv, TypeOK, SameRequest
<1>9. Covered(t)'
  <2> HIDE DEF k
  <2> QED
    BY <1>3, <1>4 DEF Covered
<1>10. Bearing(r)'
  BY <1>1, <1>9 DEF IInv, TypeOK, Bearing, Covered
<1>11. LateAccepted(r)'
  BY <1>1 DEF IInv, TypeOK, LateAccepted, Waiting
<1> QED
  BY <1>5, <1>6, <1>7, <1>8, <1>10, <1>11, RequestStep

\* What a restart of Redis drops is on record in lost.
LEMMA RedisRestartInv == ASSUME IInv, RedisRestart PROVE IInv'
<1> USE DEF clock
<1>1. PICK gone \in SUBSET keys :
          /\ keys' = keys \ gone
          /\ lost' = lost \cup {k.token : k \in gone}
          /\ UNCHANGED <<clock, held, loggedOut, active, pc, tok, remaining, late>>
  BY DEF RedisRestart
<1>2. TypeOK'
  BY <1>1 DEF IInv, TypeOK, Key
<1>3. KeysOutliveTokens'
  BY <1>1 DEF IInv, KeysOutliveTokens
<1>4. \A t : Covered(t) => Covered(t)'
  BY <1>1 DEF Covered
<1>5. \A r \in Reqs : Bearing(r)'
  BY <1>1, <1>4 DEF IInv, Bearing
<1>6. LateAcceptOnlyInLastSecond'
  BY <1>1 DEF IInv, LateAcceptOnlyInLastSecond
<1> QED
  BY <1>1, <1>2, <1>3, <1>4, <1>5, <1>6 DEF IInv

\* New tokens and the operator touch neither keys nor requests.
LEMMA EnvironmentInv ==
    ASSUME IInv, UNCHANGED <<clock, keys, lost, loggedOut, pc, tok, remaining, late>>,
           held' \subseteq Devices \X Token, active' \subseteq Users
    PROVE  IInv'
BY DEF IInv, TypeOK, KeysOutliveTokens, Covered, Bearing, LateAcceptOnlyInLastSecond, clock

LEMMA StepInv == IInv /\ [Next]_vars => IInv'
<1> SUFFICES ASSUME IInv, [Next]_vars PROVE IInv'
  OBVIOUS
<1>1. ASSUME NEW d \in Devices, NEW u \in Users, Issue(d, u) PROVE IInv'
  <2>1. held' \subseteq Devices \X Token
    BY <1>1, LifetimeAssumption DEF Issue, NewToken, Token, IInv, TypeOK
  <2> QED
    BY <1>1, <2>1, EnvironmentInv DEF Issue, IInv, TypeOK
<1>2. ASSUME NEW u \in Users, SetActive(u) PROVE IInv'
  BY <1>2, EnvironmentInv DEF SetActive, IInv, TypeOK
<1>3. ASSUME NEW r \in Reqs,
             RefuseBlacklisted(r) \/ Authorise(r) \/ RefuseInactive(r) \/ LogoutDone(r)
             \/ Fail(r) \/ WsDisconnect(r)
      PROVE  IInv'
  BY <1>3, FinishInv DEF RefuseBlacklisted, Authorise, RefuseInactive, LogoutDone, Fail,
                         WsDisconnect, Deny
<1>4. ASSUME NEW r \in Reqs, Step(r) PROVE IInv'
  BY <1>3, <1>4, CheckBlacklistInv, AuthoriseLogoutInv, ComputeRemainingInv,
     BlacklistTokenInv DEF Step
<1>5. CASE UNCHANGED vars
  BY <1>5, EnvironmentInv DEF vars, clock, IInv, TypeOK
<1> QED
  BY <1>1, <1>2, <1>3, <1>4, <1>5, TickInv, RedisRestartInv, ArriveInv DEF Next

\* The strengthened invariant: what a logout has promised at each of its steps.
THEOREM Invariance == Spec => []IInv
BY InitInv, StepInv, PTL DEF Spec

\* Every variable keeps its type.
THEOREM TypeCorrect == Spec => []TypeOK
<1>1. IInv => TypeOK
  BY DEF IInv
<1> QED
  BY <1>1, Invariance, PTL

\* The token of an answered logout is blacklisted until the second it expires in.
THEOREM LogoutHolds == Spec => []BlacklistHoldsToExp
<1>1. IInv => BlacklistHoldsToExp
  BY CoveredIsBlacklisted, ExpNat DEF IInv, BlacklistHoldsToExp, TypeOK
<1> QED
  BY <1>1, Invariance, PTL

\* A request that arrives after the logout of its token passes the blacklist only
\* in the token's last second, or after a restart of Redis.
THEOREM LateAcceptIsBounded == Spec => []LateAcceptOnlyInLastSecond
<1>1. IInv => LateAcceptOnlyInLastSecond
  BY DEF IInv
<1> QED
  BY <1>1, Invariance, PTL
=============================================================================
