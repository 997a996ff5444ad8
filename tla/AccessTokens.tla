---------------------------- MODULE AccessTokens ----------------------------
(***************************************************************************)
(* Access tokens: creation, the authenticated-request dependency           *)
(* (get_current_user), the Redis half of logout, and the chat websocket's  *)
(* own check of the token.                                                 *)
(*                                                                         *)
(* What matters here is time.  A JWT carries its expiry in whole seconds   *)
(* and nothing else that tells two tokens of one user apart; jose compares *)
(* it with the clock truncated to seconds; a Redis key expires to the      *)
(* millisecond.  The clock is therefore a second and a tick within it.     *)
(*                                                                         *)
(* A request is a coroutine that waits for Redis, then for the database;   *)
(* each action is what runs between two waits.  Logout's database half is  *)
(* the module RefreshTokens.                                               *)
(***************************************************************************)
EXTENDS Naturals

CONSTANTS Users,        \* users.id
          Devices,      \* clients that log in or refresh
          Reqs,         \* slots for requests in progress
          NoToken,
          Lifetime,     \* ACCESS_TOKEN_EXPIRE_MINUTES, in seconds
          Ticks,        \* ticks in a second
          MaxSec        \* bound: the clock stops at the end of this second

ASSUME LifetimeAssumption == Lifetime \in Nat \ {0}
ASSUME TicksAssumption == Ticks \in Nat \ {0}
ASSUME MaxSecAssumption == MaxSec \in Nat

VARIABLES
    sec, tick,      \* the clock
    held,           \* <<device, access token>>: what clients have been given
    keys,           \* the token_blacklist: keys of Redis, with their expiry
    lost,           \* tokens whose key Redis has lost in a restart
    loggedOut,      \* tokens whose logout was answered 204
    active,         \* users with is_active set
    pc,             \* where each request is; "socket": an open chat websocket
    tok,            \* the request's bearer token
    remaining,      \* logout: seconds left, as computed before SETEX
    late            \* the requests that arrived after a logout with their token

clock == <<sec, tick>>
vars == <<sec, tick, held, keys, lost, loggedOut, active,
          pc, tok, remaining, late>>

\* A token is determined by its claims: sub and exp.
Token == Users \X Nat
Exp(t) == t[2]

Key == [token : Token, sec : Nat, tick : Nat]
Alive(k) == k.sec > sec \/ (k.sec = sec /\ k.tick >= tick)
Issued == {h[2] : h \in held}
Blacklisted(t) == \E k \in keys : k.token = t /\ Alive(k)

\* jwt.decode: exp < now is refused, both in whole seconds.
Decodes(t) == sec <= Exp(t)

\* get_access_token_remaining_seconds
BugRemaining(t) == IF sec + 1 < Exp(t) THEN Exp(t) - sec - 1 ELSE 0
BugRemainingNoFloor(t) == Exp(t) - sec
Remaining(t) == IF sec < Exp(t) THEN Exp(t) - sec ELSE 0

\* cache_set's SETEX: the key lives ttl seconds from now, and replaces the old one.
SetEx(t, ttl) ==
    keys' = {k \in keys : k.token # t} \cup
               {[token |-> t, sec |-> sec + ttl, tick |-> tick]}

Waiting == {"blacklist", "loadUser", "logout", "setex", "revoke"}

TypeOK ==
    /\ sec \in Nat /\ tick \in Nat
    /\ held \subseteq Devices \X Token
    /\ keys \subseteq Key
    /\ lost \subseteq Token
    /\ loggedOut \subseteq Token
    /\ active \subseteq Users
    /\ pc \in [Reqs -> {"idle", "socket"} \cup Waiting]
    /\ tok \in [Reqs -> Token \cup {NoToken}]
    /\ remaining \in [Reqs -> Nat]
    /\ late \subseteq Reqs

Init ==
    /\ sec = 0 /\ tick = 0
    /\ held = {} /\ keys = {} /\ lost = {} /\ loggedOut = {}
    /\ active = Users
    /\ pc = [r \in Reqs |-> "idle"]
    /\ tok = [r \in Reqs |-> NoToken]
    /\ remaining = [r \in Reqs |-> 0]
    /\ late = {}

-----------------------------------------------------------------------------
\* Redis drops a key when it has expired.
Tick ==
    /\ IF tick + 1 < Ticks
          THEN tick' = tick + 1 /\ sec' = sec
          ELSE sec < MaxSec /\ sec' = sec + 1 /\ tick' = 0
    /\ keys' = {k \in keys : Alive(k)'}
    /\ UNCHANGED <<held, lost, loggedOut, active, pc, tok, remaining, late>>

\* create_access_token, called by _issue_token_pair for a login or a refresh.
\* Bound: only tokens whose last second the clock reaches.
NewToken(u) == <<u, sec + Lifetime>>
Issue(d, u) ==
    /\ u \in active
    /\ sec + Lifetime <= MaxSec
    /\ held' = held \cup {<<d, NewToken(u)>>}
    /\ UNCHANGED <<clock, keys, lost, loggedOut, active, pc, tok, remaining, late>>

\* The request is answered, whatever the answer.
Finish(r) ==
    /\ pc' = [pc EXCEPT ![r] = "idle"]
    /\ tok' = [tok EXCEPT ![r] = NoToken]
    /\ remaining' = [remaining EXCEPT ![r] = 0]
    /\ late' = late \ {r}

Deny(r) ==
    /\ Finish(r)
    /\ UNCHANGED <<clock, held, keys, lost, loggedOut, active>>

\* get_current_user, up to the wait for is_token_blacklisted
Authenticate(r, t) ==
    /\ pc[r] = "idle"
    /\ Decodes(t)
    /\ pc' = [pc EXCEPT ![r] = "blacklist"]
    /\ tok' = [tok EXCEPT ![r] = t]
    /\ late' = IF t \in loggedOut THEN late \cup {r} ELSE late
    /\ UNCHANGED <<clock, held, keys, lost, loggedOut, active, remaining>>

BugNotChecked(t) == FALSE
IsBlacklisted(t) == Blacklisted(t)
CheckBlacklist(r) ==
    /\ pc[r] = "blacklist"
    /\ ~ IsBlacklisted(tok[r])
    /\ pc' = [pc EXCEPT ![r] = "loadUser"]
    /\ UNCHANGED <<clock, held, keys, lost, loggedOut, active, tok, remaining, late>>

RefuseBlacklisted(r) ==
    /\ pc[r] = "blacklist"
    /\ IsBlacklisted(tok[r])
    /\ Deny(r)

\* The user row is there and active: the endpoint runs.  Logout goes on; every
\* other endpoint is another module's business.
Authorise(r) ==
    /\ pc[r] = "loadUser"
    /\ tok[r][1] \in active
    /\ Finish(r)
    /\ UNCHANGED <<clock, held, keys, lost, loggedOut, active>>

AuthoriseLogout(r) ==
    /\ pc[r] = "loadUser"
    /\ tok[r][1] \in active
    /\ pc' = [pc EXCEPT ![r] = "logout"]
    /\ UNCHANGED <<clock, held, keys, lost, loggedOut, active, tok, remaining, late>>

RefuseInactive(r) ==
    /\ pc[r] = "loadUser"
    /\ tok[r][1] \notin active
    /\ Deny(r)

-----------------------------------------------------------------------------
\* UserService.logout: the remaining seconds are computed when the endpoint runs,
\* the key is set when Redis gets to it.
ComputeRemaining(r) ==
    /\ pc[r] = "logout"
    /\ remaining' = [remaining EXCEPT ![r] = Remaining(tok[r])]
    /\ pc' = [pc EXCEPT ![r] = IF Remaining(tok[r]) > 0 THEN "setex" ELSE "revoke"]
    /\ UNCHANGED <<clock, held, keys, lost, loggedOut, active, tok, late>>

BlacklistToken(r) ==
    /\ pc[r] = "setex"
    /\ SetEx(tok[r], IF remaining[r] > 1 THEN remaining[r] ELSE 1)
    /\ pc' = [pc EXCEPT ![r] = "revoke"]
    /\ UNCHANGED <<clock, held, lost, loggedOut, active, tok, remaining, late>>

\* The refresh token row is revoked (RefreshTokens) and the client gets its 204.
LogoutDone(r) ==
    /\ pc[r] = "revoke"
    /\ loggedOut' = loggedOut \cup {tok[r]}
    /\ Finish(r)
    /\ UNCHANGED <<clock, held, keys, lost, active>>

\* Redis or the database fails, the worker is killed: the client gets no answer
\* or a 500, but a key that was set stays set.
Fail(r) ==
    /\ pc[r] \in Waiting
    /\ Finish(r)
    /\ UNCHANGED <<clock, held, keys, lost, loggedOut, active>>

\* Redis restarts from its last snapshot, which any of the keys may not be in.
RedisRestart ==
    \E gone \in SUBSET keys \ {{}} :
        /\ keys' = keys \ gone
        /\ lost' = lost \cup {k.token : k \in gone}
        /\ UNCHANGED <<clock, held, loggedOut, active, pc, tok, remaining, late>>

\* chat_ws: the handshake decodes the token; nothing looks at it again.
WsConnect(r, t) ==
    /\ pc[r] = "idle"
    /\ Decodes(t)
    /\ pc' = [pc EXCEPT ![r] = "socket"]
    /\ tok' = [tok EXCEPT ![r] = t]
    /\ late' = IF t \in loggedOut THEN late \cup {r} ELSE late
    /\ UNCHANGED <<clock, held, keys, lost, loggedOut, active, remaining>>

WsDisconnect(r) ==
    /\ pc[r] = "socket"
    /\ Finish(r)
    /\ UNCHANGED <<clock, held, keys, lost, loggedOut, active>>

\* An operator clears or sets is_active; no endpoint does.
SetActive(u) ==
    /\ active' = IF u \in active THEN active \ {u} ELSE active \cup {u}
    /\ UNCHANGED <<clock, held, keys, lost, loggedOut, pc, tok, remaining, late>>

Step(r) ==
    \/ CheckBlacklist(r) \/ RefuseBlacklisted(r)
    \/ Authorise(r) \/ AuthoriseLogout(r) \/ RefuseInactive(r)
    \/ ComputeRemaining(r) \/ BlacklistToken(r) \/ LogoutDone(r)

Next ==
    \/ Tick \/ RedisRestart
    \/ \E d \in Devices, u \in Users : Issue(d, u)
    \/ \E u \in Users : SetActive(u)
    \/ \E r \in Reqs, t \in Issued : Authenticate(r, t) \/ WsConnect(r, t)
    \/ \E r \in Reqs : Step(r) \/ Fail(r) \/ WsDisconnect(r)

Spec == Init /\ [][Next]_vars

-----------------------------------------------------------------------------
\* After a logout was answered its token stays blacklisted until the second in
\* which it expires, however long the request waited between computing the
\* remaining seconds and setting the key, and whoever sets the key again; only a
\* Redis restart undoes it.
BlacklistHoldsToExp ==
    \A t \in loggedOut \ lost : sec < Exp(t) => Blacklisted(t)

\* A request that arrives after the logout of its token gets past the blacklist
\* only in the last second of the token's life (or after a Redis restart).
LateAcceptOnlyInLastSecond ==
    \A r \in late :
        pc[r] \in Waiting \ {"blacklist"} =>
            tok[r] \in lost \/ sec >= Exp(tok[r])
=============================================================================
