---------------------------- MODULE RefreshTokens ----------------------------
(***************************************************************************)
(* Login, refresh-token rotation and the database half of logout           *)
(* (UserService.login, refresh, logout over RefreshTokenRepository), as    *)
(* concurrent requests over one PostgreSQL table.                          *)
(*                                                                         *)
(* A request is a coroutine with its own session.  It can be interleaved   *)
(* at every await, so each action below is what runs between two awaits.   *)
(* A session is one READ COMMITTED transaction: its writes are flushed     *)
(* early, hold their row locks, and reach the table only when get_db       *)
(* commits after the endpoint has returned; any exception rolls them back. *)
(***************************************************************************)
EXTENDS Naturals, FiniteSets

CONSTANTS Users,          \* users.id
          Tokens,         \* raw refresh tokens; hash_token is injective on them
          Reqs,           \* slots for requests in progress
          NoUser, NoToken,
          ResponseFirst   \* TRUE: the FastAPI release runs get_db's exit code
                          \* after the response is sent; FALSE: before

ASSUME NoTokenAssumption == NoToken \notin Tokens
ASSUME NoUserAssumption == NoUser \notin Users
ASSUME ResponseFirstAssumption == ResponseFirst \in BOOLEAN

VARIABLES
    stored, used, revoked, owner,   \* the committed refresh_tokens table
    rotations,                      \* history: committed <<old, new>> pairs
    expired,                        \* rows whose expires_at has passed
    active,                         \* users with is_active set
    delivered,                      \* tokens some client has received
    pc,                             \* where each request is
    tok, user,                      \* the token and the user it works on
    ins, marks, revs,               \* flushed, uncommitted: INSERT, used_at, is_revoked
    todo                            \* rows revoke_all_for_user has still to visit

table == <<stored, used, revoked, owner, rotations>>
env == <<expired, active, delivered>>
local == <<tok, user, ins, marks, revs, todo>>
vars == <<table, env, pc, local>>

Final == {"idle", "ok", "denied", "failed"}
InFlight == {"loadUser", "markUsed", "issue", "reuse", "revoking", "logout",
             "returned", "committed", "responded"}

\* Depending on whether the response leaves before get_db's session.commit(): the pc
\* of a request about to commit, of one about to respond, and where each step leads.
AtCommit == IF ResponseFirst THEN "responded" ELSE "returned"
BugAnswerEarly == "returned"
AtRespond == IF ResponseFirst THEN "returned" ELSE "committed"
AfterCommit == IF ResponseFirst THEN "ok" ELSE "committed"
AfterRespond == IF ResponseFirst THEN "responded" ELSE "ok"

Ledger == INSTANCE SessionLedger WITH stored <- stored, used <- used, revoked <- revoked,
                                      owner <- owner, rotations <- rotations

-----------------------------------------------------------------------------
\* Row locks: a row with an uncommitted UPDATE makes other UPDATEs wait.
Touched(r) == marks[r] \cup revs[r]
Locked(r, t) == \E q \in Reqs \ {r} : t \in Touched(q)

\* secrets.token_urlsafe never repeats a token.
Fresh == Tokens \ (stored \cup delivered \cup UNION {ins[r] : r \in Reqs})

\* Bound: a request that will issue a token starts only while an unused one is
\* left for it, so that a finite Tokens never blocks a request half-way.
WillIssue == {r \in Reqs : pc[r] \in {"loadUser", "markUsed", "issue"}}
Room == Cardinality(WillIssue) < Cardinality(Fresh)

\* refresh: the row exists, is not revoked and has not expired.
Valid(t) == t \in stored /\ t \notin revoked /\ t \notin expired

BugNoReuseCheck(t) == FALSE
AlreadyUsed(t) == t \in used

\* The transaction's changes, as the commit applies them.
BugUsedLost(r) == used
CommittedUsed(r) == used \cup marks[r]
BugStaleWriteBack(r) == (revoked \ marks[r]) \cup revs[r]
CommittedRevoked(r) == revoked \cup revs[r]

TypeOK ==
    /\ stored \subseteq Tokens
    /\ used \subseteq Tokens
    /\ revoked \subseteq Tokens
    /\ expired \subseteq Tokens
    /\ delivered \subseteq Tokens
    /\ active \subseteq Users
    /\ owner \in [Tokens -> Users \cup {NoUser}]
    /\ rotations \subseteq Tokens \X Tokens
    /\ pc \in [Reqs -> Final \cup InFlight]
    /\ tok \in [Reqs -> Tokens \cup {NoToken}]
    /\ user \in [Reqs -> Users \cup {NoUser}]
    /\ ins \in [Reqs -> SUBSET Tokens]
    /\ marks \in [Reqs -> SUBSET Tokens]
    /\ revs \in [Reqs -> SUBSET Tokens]
    /\ todo \in [Reqs -> SUBSET Tokens]

Init ==
    /\ Ledger!Init
    /\ expired = {}
    /\ active = Users
    /\ delivered = {}
    /\ pc = [r \in Reqs |-> "idle"]
    /\ tok = [r \in Reqs |-> NoToken]
    /\ user = [r \in Reqs |-> NoUser]
    /\ ins = [r \in Reqs |-> {}]
    /\ marks = [r \in Reqs |-> {}]
    /\ revs = [r \in Reqs |-> {}]
    /\ todo = [r \in Reqs |-> {}]

\* The request ends and its session is closed: nothing it flushed remains.
BugNoRollback(r, answer) ==
    /\ pc' = [pc EXCEPT ![r] = answer]
    /\ UNCHANGED local
Close(r, answer) ==
    /\ pc' = [pc EXCEPT ![r] = answer]
    /\ tok' = [tok EXCEPT ![r] = NoToken]
    /\ user' = [user EXCEPT ![r] = NoUser]
    /\ ins' = [ins EXCEPT ![r] = {}]
    /\ marks' = [marks EXCEPT ![r] = {}]
    /\ revs' = [revs EXCEPT ![r] = {}]
    /\ todo' = [todo EXCEPT ![r] = {}]

\* get_db: the exception an endpoint raises is thrown into the dependency, which
\* rolls the session back before the handler turns it into a response.
Raise(r, answer) == Close(r, answer) /\ UNCHANGED <<table, env>>

Goto(r, where) == pc' = [pc EXCEPT ![r] = where]

-----------------------------------------------------------------------------
\* UserService.login
Login(r, u, goodPassword) ==
    /\ pc[r] \in Final
    /\ goodPassword /\ u \in active
    /\ Room
    /\ Goto(r, "issue")
    /\ user' = [user EXCEPT ![r] = u]
    /\ UNCHANGED <<table, env, tok, ins, marks, revs, todo>>

LoginDenied(r, u, goodPassword) ==
    /\ pc[r] \in Final
    /\ ~ goodPassword \/ u \notin active
    /\ Raise(r, "denied")

\* UserService.refresh, up to the first await after get_by_hash
Refresh(r, t) ==
    /\ pc[r] \in Final
    /\ Valid(t) /\ ~ AlreadyUsed(t)
    /\ Room
    /\ Goto(r, "loadUser")
    /\ tok' = [tok EXCEPT ![r] = t]
    /\ UNCHANGED <<table, env, user, ins, marks, revs, todo>>

\* An unknown string, a revoked or an expired token
RefreshDenied(r, t) ==
    /\ pc[r] \in Final
    /\ ~ Valid(t)
    /\ Raise(r, "denied")

DetectReuse(r, t) ==
    /\ pc[r] \in Final
    /\ Valid(t) /\ AlreadyUsed(t)
    /\ Goto(r, "reuse")
    /\ tok' = [tok EXCEPT ![r] = t]
    /\ UNCHANGED <<table, env, user, ins, marks, revs, todo>>

\* revoke_all_for_user: the statement's snapshot, then row by row; a row that
\* another transaction holds is waited for and judged again afterwards.
RevokeAll(r) ==
    /\ pc[r] = "reuse"
    /\ Goto(r, "revoking")
    /\ todo' = [todo EXCEPT ![r] = {t \in stored \ revoked : owner[t] = owner[tok[r]]}]
    /\ UNCHANGED <<table, env, tok, user, ins, marks, revs>>

RevokeRow(r, t) ==
    /\ pc[r] = "revoking"
    /\ t \in todo[r]
    /\ ~ Locked(r, t)
    /\ todo' = [todo EXCEPT ![r] = @ \ {t}]
    /\ revs' = [revs EXCEPT ![r] = @ \cup ({t} \ revoked)]
    /\ UNCHANGED <<table, env, pc, tok, user, ins, marks>>

\* refresh raises PermissionDeniedException right after revoke_all_for_user
DenyReuse(r) ==
    /\ pc[r] = "revoking"
    /\ todo[r] = {}
    /\ Raise(r, "denied")

\* PostgreSQL aborts a statement that waits in a cycle of lock waits.
Blockers(r) == {q \in Reqs \ {r} : todo[r] \cap Touched(q) # {}}
Stuck(r) ==
    /\ pc[r] = "revoking"
    /\ todo[r] # {}
    /\ \A t \in todo[r] : Locked(r, t)
DeadlockVictim(r) ==
    /\ \E D \in SUBSET Reqs :
          /\ r \in D
          /\ \A q \in D : Stuck(q) /\ Blockers(q) \cap D # {}
    /\ Raise(r, "failed")

LoadUser(r) ==
    /\ pc[r] = "loadUser"
    /\ owner[tok[r]] \in active
    /\ Goto(r, "markUsed")
    /\ user' = [user EXCEPT ![r] = owner[tok[r]]]
    /\ UNCHANGED <<table, env, tok, ins, marks, revs, todo>>

LoadUserDenied(r) ==
    /\ pc[r] = "loadUser"
    /\ owner[tok[r]] \notin active
    /\ Raise(r, "denied")

\* RefreshTokenRepository.mark_used
BugMarkedByUser(r) == {user[r]}
Marked(r) == {tok[r]}
MarkUsed(r) ==
    /\ pc[r] = "markUsed"
    /\ ~ Locked(r, tok[r])
    /\ Goto(r, "issue")
    /\ marks' = [marks EXCEPT ![r] = Marked(r)]
    /\ UNCHANGED <<table, env, tok, user, ins, revs, todo>>

\* UserService._issue_token_pair
IssuePair(r) ==
    /\ pc[r] = "issue"
    /\ \E new \in Fresh :
          /\ ins' = [ins EXCEPT ![r] = {new}]
          /\ Goto(r, "returned")
    /\ UNCHANGED <<table, env, tok, user, marks, revs, todo>>

\* UserService.logout after the access token has been blacklisted
Logout(r, t) ==
    /\ pc[r] \in Final
    /\ t \in stored \ revoked
    /\ Goto(r, "logout")
    /\ tok' = [tok EXCEPT ![r] = t]
    /\ UNCHANGED <<table, env, user, ins, marks, revs, todo>>

\* No refresh token in the body, an unknown one, or one already revoked
LogoutNoRow(r, t) ==
    /\ pc[r] \in Final
    /\ t \notin stored \ revoked
    /\ Goto(r, "returned")
    /\ UNCHANGED <<table, env, local>>

RevokeOwn(r) ==
    /\ pc[r] = "logout"
    /\ ~ Locked(r, tok[r])
    /\ Goto(r, "returned")
    /\ revs' = [revs EXCEPT ![r] = {tok[r]}]
    /\ UNCHANGED <<table, env, tok, user, ins, marks, todo>>

-----------------------------------------------------------------------------
\* get_db after the endpoint has returned
Commit(r) ==
    /\ pc[r] = AtCommit
    /\ stored' = stored \cup ins[r]
    /\ used' = CommittedUsed(r)
    /\ revoked' = CommittedRevoked(r)
    /\ owner' = [t \in Tokens |-> IF t \in ins[r] THEN user[r] ELSE owner[t]]
    /\ rotations' = rotations \cup (marks[r] \X ins[r])
    /\ marks' = [marks EXCEPT ![r] = {}]
    /\ revs' = [revs EXCEPT ![r] = {}]
    /\ IF ResponseFirst
          THEN /\ ins' = [ins EXCEPT ![r] = {}]
               /\ tok' = [tok EXCEPT ![r] = NoToken]
               /\ user' = [user EXCEPT ![r] = NoUser]
          ELSE UNCHANGED <<ins, tok, user>>
    /\ Goto(r, AfterCommit)
    /\ UNCHANGED <<env, todo>>

\* The client receives the pair (or the 204).
Respond(r) ==
    /\ pc[r] = AtRespond
    /\ delivered' = delivered \cup ins[r]
    /\ IF ResponseFirst
          THEN Goto(r, AfterRespond) /\ UNCHANGED local
          ELSE Close(r, AfterRespond)
    /\ UNCHANGED <<table, expired, active>>

\* A worker killed or restarted, a lost database connection, a lost response:
\* PostgreSQL rolls back what was not committed.
Fail(r) ==
    /\ pc[r] \in InFlight
    /\ Raise(r, "failed")

\* expires_at passes; an operator clears is_active (no endpoint does).
Expire(t) ==
    /\ t \in stored \ expired
    /\ expired' = expired \cup {t}
    /\ UNCHANGED <<table, active, delivered, pc, local>>

Deactivate(u) ==
    /\ u \in active
    /\ active' = active \ {u}
    /\ UNCHANGED <<table, expired, delivered, pc, local>>

\* A client presents a token it was given, or a string that was never issued.
Presented == delivered \cup {NoToken}

Start(r) ==
    \/ \E u \in Users, good \in BOOLEAN : Login(r, u, good) \/ LoginDenied(r, u, good)
    \/ \E t \in Presented :
          Refresh(r, t) \/ RefreshDenied(r, t) \/ DetectReuse(r, t)
    \/ \E t \in Presented : Logout(r, t) \/ LogoutNoRow(r, t)

\* Steps that may wait for a row lock, and the others.
LockStep(r) == MarkUsed(r) \/ RevokeOwn(r) \/ \E t \in Tokens : RevokeRow(r, t)
RunStep(r) ==
    \/ RevokeAll(r) \/ DenyReuse(r) \/ DeadlockVictim(r)
    \/ LoadUser(r) \/ LoadUserDenied(r) \/ IssuePair(r)
    \/ Commit(r) \/ Respond(r)

Next ==
    \/ \E r \in Reqs : Start(r) \/ LockStep(r) \/ RunStep(r) \/ Fail(r)
    \/ \E t \in Tokens : Expire(t)
    \/ \E u \in Users : Deactivate(u)

Spec == Init /\ [][Next]_vars

\* The event loop runs every ready coroutine and PostgreSQL grants row locks in
\* the order they were asked for.
Fairness == \A r \in Reqs : WF_vars(RunStep(r)) /\ SF_vars(LockStep(r))
FairSpec == Spec /\ Fairness

-----------------------------------------------------------------------------
Children(p) == {c \in Tokens : <<p, c>> \in rotations}
Dead(p) == p \in used \cup revoked \cup expired

\* The requests that have passed the checks of refresh on p and can still
\* commit a rotation of it.
Rotating(p) ==
    {r \in Reqs : \/ tok[r] = p /\ pc[r] \in {"loadUser", "markUsed", "issue"}
                  \/ p \in marks[r]}

\* A rotation reaches the table whole: used_at is set on exactly the tokens that
\* have a successor, the successor is a row of the same user, and no token is
\* the successor of two.  (mark_used and the INSERT of _issue_token_pair are two
\* flushes of one transaction that a crash, a rollback or a concurrent refresh
\* of the same row can come between.)
RotationAtomic ==
    /\ used = {p \in Tokens : Children(p) # {}}
    /\ \A e \in rotations : {e[1], e[2]} \subseteq stored /\ owner[e[1]] = owner[e[2]]
    /\ \A d, e \in rotations : d[2] = e[2] => d = e

\* From the moment a token is used, revoked or expired no request begins to
\* rotate it, and a successor appears only when a request that had already
\* passed the checks of refresh finishes: what a dead token can still yield is
\* bounded by the requests in flight when it died, and only winds down.
DeadTokensWindDown ==
    [][\A p \in Tokens : Dead(p) =>
          /\ Rotating(p)' \subseteq Rotating(p)
          /\ \/ Children(p)' = Children(p)
             \/ \E r \in Rotating(p) \ Rotating(p)' :
                   Children(p)' = Children(p) \cup ins[r]]_vars

\* When get_db commits before the response is sent, a client never holds a
\* refresh token without a row, whatever request fails at whatever step.
DeliveredDurable == delivered \subseteq stored

\* The committed table is the ledger of SessionLedger: concurrent UPDATEs of one
\* row from stale ORM objects (refresh stamps used_at while logout sets
\* is_revoked) never undo each other, and no request commits a part of its work.
LedgerSpec == Ledger!Spec

\* Every request ends: two revocations of one user's tokens, or a revocation and
\* a refresh, wait for each other's rows but not for ever.
Answered == \A r \in Reqs : pc[r] \in InFlight ~> pc[r] \in Final

\* auth.py: "If the same refresh token is presented twice, all sessions for the
\* user are revoked (reuse / theft detection)": once a refresh has been refused for
\* reuse, every row of that user is revoked.
ReuseRevokesAll ==
    [][\A r \in Reqs : DenyReuse(r) =>
          \A t \in stored : owner[t] = owner[tok[r]] => t \in revoked']_vars
=============================================================================
