------------------------- MODULE RefreshTokensProofs -------------------------
(***************************************************************************)
(* Proofs about RefreshTokens for any users, tokens and requests, and for  *)
(* both orders of commit and response.                                     *)
(*                                                                         *)
(* RotationAtomic is not inductive: what a commit writes depends on what   *)
(* the request's session has flushed and on who its user is.  Prepared     *)
(* says, for each pc, what a session holds; Disjoint says that no two      *)
(* sessions insert the same token.                                         *)
(***************************************************************************)
EXTENDS RefreshTokens, TLAPS

\* The session has flushed nothing.
Clean(r) == ins[r] = {} /\ marks[r] = {} /\ revs[r] = {}

\* The stamp of a refresh is on the request's own token, whose owner the new
\* token will have; a login has no stamp.
StampOf(r) ==
    \/ marks[r] = {}
    \/ marks[r] = {tok[r]} /\ tok[r] \in stored /\ user[r] = owner[tok[r]]

\* What a commit may find: nothing (a logout without a row), a new token with or
\* without the stamp of its predecessor, or one revocation.
PairReady(r) ==
    /\ \E n \in Tokens \ stored : ins[r] = {n}
    /\ revs[r] = {}
    /\ user[r] \in Users
    /\ StampOf(r)
RevocationReady(r) ==
    /\ ins[r] = {} /\ marks[r] = {}
    /\ \E t \in stored : revs[r] = {t}
Ready(r) == Clean(r) \/ PairReady(r) \/ RevocationReady(r)

Uncommitted(r) == pc[r] = "returned" \/ (ResponseFirst /\ pc[r] = "responded")
Committed(r) == pc[r] = "committed" \/ (~ ResponseFirst /\ pc[r] = "responded")

Prepared(r) ==
    /\ pc[r] \in Final => Clean(r) /\ tok[r] = NoToken
    /\ pc[r] \in {"loadUser", "logout"} => Clean(r) /\ tok[r] \in stored
    /\ pc[r] = "markUsed" =>
          /\ Clean(r) /\ tok[r] \in stored
          /\ user[r] = owner[tok[r]] /\ user[r] \in Users
    /\ pc[r] = "issue" =>
          /\ ins[r] = {} /\ revs[r] = {}
          /\ user[r] \in Users /\ StampOf(r)
    /\ pc[r] \in {"reuse", "revoking"} => ins[r] = {} /\ marks[r] = {}
    /\ Uncommitted(r) => Ready(r)
    /\ Committed(r) => marks[r] = {} /\ revs[r] = {} /\ ins[r] \subseteq stored

Disjoint == \A r, q \in Reqs : r # q => ins[r] \cap ins[q] = {}

ReqInv == (\A r \in Reqs : Prepared(r)) /\ Disjoint

IInv == TypeOK /\ ReqInv /\ RotationAtomic

-----------------------------------------------------------------------------
LEMMA InitInv == Init => IInv
BY DEF Init, IInv, TypeOK, ReqInv, Prepared, Disjoint, Clean, Uncommitted,
       Committed, RotationAtomic, Children, Ledger!Init, Final

\* A step of r that leaves the table and the other requests alone.
SameRequest(q) ==
    /\ pc'[q] = pc[q] /\ tok'[q] = tok[q] /\ user'[q] = user[q]
    /\ ins'[q] = ins[q] /\ marks'[q] = marks[q] /\ revs'[q] = revs[q]

LEMMA LocalStep ==
    ASSUME IInv, TypeOK', UNCHANGED table,
           NEW r \in Reqs,
           \A q \in Reqs \ {r} : SameRequest(q) /\ ins'[r] \cap ins[q] = {},
           Prepared(r)'
    PROVE  IInv'
<1> USE DEF table
<1>1. RotationAtomic'
  BY DEF IInv, RotationAtomic, Children
<1>2. \A q \in Reqs : Prepared(q)'
  <2> SUFFICES ASSUME NEW q \in Reqs \ {r} PROVE Prepared(q)'
    OBVIOUS
  <2>1. Prepared(q) /\ SameRequest(q)
    BY DEF IInv, ReqInv
  <2> QED
    BY <2>1 DEF SameRequest, Prepared, Clean, StampOf, PairReady, RevocationReady,
                Ready, Uncommitted, Committed
<1>3. Disjoint'
  BY DEF IInv, ReqInv, Disjoint, SameRequest
<1> QED
  BY <1>1, <1>2, <1>3 DEF IInv, ReqInv

LEMMA RaiseInv ==
    ASSUME IInv, NEW r \in Reqs, NEW a \in Final, Raise(r, a)
    PROVE  IInv'
<1> USE DEF Raise, Close, IInv
<1>1. TypeOK'
  BY DEF TypeOK, table, env
<1>2. Prepared(r)'
  BY DEF TypeOK, Prepared, Clean, Uncommitted, Committed, Final
<1>3. \A q \in Reqs \ {r} : SameRequest(q) /\ ins'[r] \cap ins[q] = {}
  BY DEF TypeOK, SameRequest
<1> QED
  BY <1>1, <1>2, <1>3, LocalStep

\* The steps that flush nothing: the request moves on, with a token or a user.
LEMMA MoveInv ==
    ASSUME IInv, TypeOK', UNCHANGED <<table, ins, marks>>,
           NEW r \in Reqs,
           \A q \in Reqs \ {r} : SameRequest(q),
           Prepared(r)'
    PROVE  IInv'
<1>1. \A q \in Reqs \ {r} : ins'[r] \cap ins[q] = {}
  BY DEF IInv, ReqInv, Disjoint
<1> QED
  BY <1>1, LocalStep

LEMMA LoginInv ==
    ASSUME IInv, NEW r \in Reqs, NEW u \in Users, NEW g \in BOOLEAN, Login(r, u, g)
    PROVE  IInv'
<1> USE DEF Login, Goto, IInv
<1>1. TypeOK'
  BY DEF TypeOK, table, env, InFlight
<1>2. Prepared(r)'
  BY DEF TypeOK, ReqInv, Prepared, Clean, StampOf, Uncommitted, Committed, Final, InFlight
<1>3. \A q \in Reqs \ {r} : SameRequest(q)
  BY DEF TypeOK, SameRequest
<1> QED
  BY <1>1, <1>2, <1>3, MoveInv

LEMMA RefreshInv ==
    ASSUME IInv, NEW r \in Reqs, NEW t \in Presented, Refresh(r, t)
    PROVE  IInv'
<1> USE DEF Refresh, Goto, IInv
<1>1. t \in stored /\ t \in Tokens
  BY DEF Valid, TypeOK
<1>2. TypeOK'
  BY <1>1 DEF TypeOK, table, env, InFlight
<1>3. Prepared(r)'
  BY <1>1 DEF TypeOK, ReqInv, Prepared, Clean, Uncommitted, Committed, Final, InFlight, table
<1>4. \A q \in Reqs \ {r} : SameRequest(q)
  BY DEF TypeOK, SameRequest
<1> QED
  BY <1>2, <1>3, <1>4, MoveInv

LEMMA DetectReuseInv ==
    ASSUME IInv, NEW r \in Reqs, NEW t \in Presented, DetectReuse(r, t)
    PROVE  IInv'
<1> USE DEF DetectReuse, Goto, IInv
<1>1. t \in Tokens
  BY DEF Valid, TypeOK
<1>2. TypeOK'
  BY <1>1 DEF TypeOK, table, env, InFlight
<1>3. Prepared(r)'
  BY <1>1 DEF TypeOK, ReqInv, Prepared, Clean, Uncommitted, Committed, Final, InFlight, table
<1>4. \A q \in Reqs \ {r} : SameRequest(q)
  BY DEF TypeOK, SameRequest
<1> QED
  BY <1>2, <1>3, <1>4, MoveInv

LEMMA RevokeAllInv ==
    ASSUME IInv, NEW r \in Reqs, RevokeAll(r)
    PROVE  IInv'
<1> USE DEF RevokeAll, Goto, IInv
<1>1. TypeOK'
  BY DEF TypeOK, table, env, InFlight
<1>2. Prepared(r)'
  BY DEF TypeOK, ReqInv, Prepared, Clean, Uncommitted, Committed, Final, InFlight, table
<1>3. \A q \in Reqs \ {r} : SameRequest(q)
  BY DEF TypeOK, SameRequest
<1> QED
  BY <1>1, <1>2, <1>3, MoveInv

LEMMA RevokeRowInv ==
    ASSUME IInv, NEW r \in Reqs, NEW t \in Tokens, RevokeRow(r, t)
    PROVE  IInv'
<1> USE DEF RevokeRow, IInv
<1>1. TypeOK'
  BY DEF TypeOK, table, env, InFlight
<1>2. Prepared(r)'
  BY DEF TypeOK, ReqInv, Prepared, Uncommitted, Committed, Final, InFlight, table
<1>3. \A q \in Reqs \ {r} : SameRequest(q)
  BY DEF TypeOK, SameRequest
<1> QED
  BY <1>1, <1>2, <1>3, MoveInv

LEMMA LoadUserInv ==
    ASSUME IInv, NEW r \in Reqs, LoadUser(r)
    PROVE  IInv'
<1> USE DEF LoadUser, Goto, IInv
<1>1. TypeOK'
  BY DEF TypeOK, table, env, InFlight
<1>2. Prepared(r)'
  BY DEF TypeOK, ReqInv, Prepared, Clean, Uncommitted, Committed, Final, InFlight, table
<1>3. \A q \in Reqs \ {r} : SameRequest(q)
  BY DEF TypeOK, SameRequest
<1> QED
  BY <1>1, <1>2, <1>3, MoveInv

LEMMA MarkUsedInv ==
    ASSUME IInv, NEW r \in Reqs, MarkUsed(r)
    PROVE  IInv'
<1> USE DEF MarkUsed, Marked, Goto, IInv
<1>1. tok[r] \in stored /\ tok[r] \in Tokens
  BY DEF ReqInv, Prepared, TypeOK
<1>2. TypeOK'
  BY <1>1 DEF TypeOK, table, env, InFlight
<1>3. Prepared(r)'
  BY <1>1 DEF TypeOK, ReqInv, Prepared, Clean, StampOf, Uncommitted, Committed, Final, InFlight, table
<1>4. \A q \in Reqs \ {r} : SameRequest(q) /\ ins'[r] \cap ins[q] = {}
  BY DEF TypeOK, SameRequest, ReqInv, Disjoint
<1> QED
  BY <1>2, <1>3, <1>4, LocalStep

LEMMA IssuePairInv ==
    ASSUME IInv, NEW r \in Reqs, IssuePair(r)
    PROVE  IInv'
<1> USE DEF IssuePair, Goto, IInv
<1>1. PICK n \in Fresh : ins' = [ins EXCEPT ![r] = {n}] /\ pc' = [pc EXCEPT ![r] = "returned"]
  OBVIOUS
<1>2. n \in Tokens \ stored /\ \A q \in Reqs : n \notin ins[q]
  BY DEF Fresh
<1>3. TypeOK'
  BY <1>1, <1>2 DEF TypeOK, table, env, InFlight
<1>4. Prepared(r)'
  <2>1. PairReady(r)'
    BY <1>1, <1>2 DEF TypeOK, ReqInv, Prepared, PairReady, StampOf, table
  <2> QED
    BY <1>1, <2>1 DEF TypeOK, Prepared, Ready, Uncommitted, Committed, Final
<1>5. \A q \in Reqs \ {r} : SameRequest(q) /\ ins'[r] \cap ins[q] = {}
  BY <1>1, <1>2 DEF TypeOK, SameRequest
<1> QED
  BY <1>3, <1>4, <1>5, LocalStep

LEMMA LogoutInv ==
    ASSUME IInv, NEW r \in Reqs, NEW t \in Presented, Logout(r, t)
    PROVE  IInv'
<1> USE DEF Logout, Goto, IInv
<1>1. t \in Tokens
  BY DEF TypeOK
<1>2. TypeOK'
  BY <1>1 DEF TypeOK, table, env, InFlight
<1>3. Prepared(r)'
  BY <1>1 DEF TypeOK, ReqInv, Prepared, Clean, Uncommitted, Committed, Final, InFlight, table
<1>4. \A q \in Reqs \ {r} : SameRequest(q)
  BY DEF TypeOK, SameRequest
<1> QED
  BY <1>2, <1>3, <1>4, MoveInv

LEMMA LogoutNoRowInv ==
    ASSUME IInv, NEW r \in Reqs, NEW t \in Presented, LogoutNoRow(r, t)
    PROVE  IInv'
<1> USE DEF LogoutNoRow, Goto, IInv
<1>1. TypeOK'
  BY DEF TypeOK, table, env, local, InFlight
<1>2. Prepared(r)'
  BY DEF TypeOK, ReqInv, Prepared, Clean, Ready, Uncommitted, Committed, Final, InFlight, local
<1>3. \A q \in Reqs \ {r} : SameRequest(q)
  BY DEF TypeOK, SameRequest, local
<1> QED
  BY <1>1, <1>2, <1>3, MoveInv DEF local

LEMMA RevokeOwnInv ==
    ASSUME IInv, NEW r \in Reqs, RevokeOwn(r)
    PROVE  IInv'
<1> USE DEF RevokeOwn, Goto, IInv
<1>1. tok[r] \in stored /\ tok[r] \in Tokens
  BY DEF ReqInv, Prepared, TypeOK
<1>2. TypeOK'
  BY <1>1 DEF TypeOK, table, env, InFlight
<1>3. Prepared(r)'
  <2>1. RevocationReady(r)'
    BY <1>1 DEF TypeOK, ReqInv, Prepared, Clean, RevocationReady, table
  <2> QED
    BY <2>1 DEF TypeOK, Prepared, Ready, Uncommitted, Committed, Final
<1>4. \A q \in Reqs \ {r} : SameRequest(q)
  BY DEF TypeOK, SameRequest
<1> QED
  BY <1>2, <1>3, <1>4, MoveInv

-----------------------------------------------------------------------------
\* The request about to commit is prepared, and where the commit leads.
LEMMA CommitShape ==
    ASSUME IInv, NEW r \in Reqs, Commit(r)
    PROVE  /\ Ready(r)
           /\ IF ResponseFirst THEN pc'[r] = "ok" ELSE pc'[r] = "committed"
           /\ ins'[r] = IF ResponseFirst THEN {} ELSE ins[r]
           /\ marks'[r] = {} /\ revs'[r] = {}
           /\ ResponseFirst => tok'[r] = NoToken
           /\ \A q \in Reqs \ {r} : SameRequest(q)
BY DEF IInv, TypeOK, ReqInv, Prepared, Uncommitted, Commit, Goto, SameRequest,
       AtCommit, AfterCommit

LEMMA CommitType == ASSUME IInv, NEW r \in Reqs, Commit(r) PROVE TypeOK'
<1> USE DEF IInv, TypeOK, Commit, Goto
<1>1. owner' \in [Tokens -> Users \cup {NoUser}]
  OBVIOUS
<1>2. rotations' \subseteq Tokens \X Tokens
  OBVIOUS
<1>3. pc' \in [Reqs -> Final \cup InFlight]
  BY DEF AfterCommit, Final, InFlight
<1>4. stored' \subseteq Tokens /\ used' \subseteq Tokens /\ revoked' \subseteq Tokens
  BY DEF CommittedUsed, CommittedRevoked
<1> QED
  BY <1>1, <1>2, <1>3, <1>4, CommitShape DEF env

\* A commit changes no row but those its own request inserts.
LEMMA CommitKeepsOwners ==
    ASSUME IInv, NEW r \in Reqs, Commit(r)
    PROVE  /\ ins[r] \cap stored = {}
           /\ \A t \in stored : t \in stored' /\ owner'[t] = owner[t]
           /\ \A t \in ins[r] : t \in stored' /\ owner'[t] = user[r]
<1> USE DEF IInv, TypeOK
<1>1. ins[r] \cap stored = {}
  BY CommitShape DEF Ready, Clean, PairReady, RevocationReady
<1>2. stored' = stored \cup ins[r]
  BY DEF Commit
<1>3. \A t \in Tokens : owner'[t] = IF t \in ins[r] THEN user[r] ELSE owner[t]
  BY DEF Commit
<1>4. ins[r] \subseteq Tokens
  OBVIOUS
<1> QED
  BY <1>1, <1>2, <1>3, <1>4

LEMMA CommitOthers ==
    ASSUME IInv, NEW r \in Reqs, Commit(r), NEW q \in Reqs \ {r}
    PROVE  Prepared(q)'
<1>1. SameRequest(q) /\ Prepared(q) /\ ins[q] \cap ins[r] = {}
  BY CommitShape DEF IInv, ReqInv, Disjoint
<1>2. stored' = stored \cup ins[r]
  BY DEF Commit
<1>3. \A t \in stored : t \in stored' /\ owner'[t] = owner[t]
  BY CommitKeepsOwners
<1>4. StampOf(q) => StampOf(q)'
  BY <1>1, <1>3 DEF SameRequest, StampOf
<1>5. Ready(q) => Ready(q)'
  BY <1>1, <1>2, <1>4
     DEF SameRequest, Ready, Clean, PairReady, RevocationReady
<1> QED
  BY <1>1, <1>3, <1>4, <1>5 DEF SameRequest, Prepared, Clean, Uncommitted, Committed

LEMMA CommitRotations ==
    ASSUME IInv, NEW r \in Reqs, Commit(r)
    PROVE  RotationAtomic'
<1> USE DEF IInv
<1>1. /\ used' = used \cup marks[r]
      /\ stored' = stored \cup ins[r]
      /\ rotations' = rotations \cup (marks[r] \X ins[r])
  BY DEF Commit, CommittedUsed
<1>2. CASE marks[r] = {}
  <2>1. rotations' = rotations /\ used' = used
    BY <1>1, <1>2
  <2> QED
    BY <2>1, CommitKeepsOwners DEF RotationAtomic, Children
<1>3. CASE marks[r] # {}
  <2>1. PICK n \in Tokens \ stored : ins[r] = {n}
    BY <1>3, CommitShape DEF Ready, Clean, PairReady, RevocationReady
  <2> DEFINE p == tok[r]
  <2>2. marks[r] = {p} /\ p \in stored /\ p \in Tokens /\ user[r] = owner[p]
    BY <1>3, CommitShape
       DEF Ready, Clean, PairReady, RevocationReady, StampOf, TypeOK
  <2>3. rotations' = rotations \cup {<<p, n>>} /\ used' = used \cup {p}
    BY <1>1, <2>1, <2>2
  <2>4. used' = {t \in Tokens : Children(t)' # {}}
    BY <2>1, <2>2, <2>3 DEF RotationAtomic, Children
  <2>5. \A e \in rotations' : {e[1], e[2]} \subseteq stored' /\ owner'[e[1]] = owner'[e[2]]
    BY <2>1, <2>2, <2>3, CommitKeepsOwners DEF RotationAtomic
  <2>6. \A d, e \in rotations' : d[2] = e[2] => d = e
    BY <2>1, <2>2, <2>3 DEF RotationAtomic
  <2> QED
    BY <2>4, <2>5, <2>6 DEF RotationAtomic
<1> QED
  BY <1>2, <1>3

LEMMA CommitInv == ASSUME IInv, NEW r \in Reqs, Commit(r) PROVE IInv'
<1>1. Prepared(r)'
  BY CommitShape, CommitKeepsOwners
     DEF Prepared, Clean, Uncommitted, Committed, Final
<1>2. Disjoint'
  BY CommitShape DEF IInv, ReqInv, Disjoint, SameRequest
<1> QED
  BY <1>1, <1>2, CommitType, CommitOthers, CommitRotations DEF IInv, ReqInv

LEMMA RespondInv == ASSUME IInv, NEW r \in Reqs, Respond(r) PROVE IInv'
<1> USE DEF IInv, Respond, AtRespond, AfterRespond
<1>1. TypeOK'
  BY DEF TypeOK, Close, Goto, table, local, Final, InFlight
<1>2. Prepared(r)'
  <2>1. CASE ResponseFirst
    BY <2>1 DEF TypeOK, ReqInv, Prepared, Goto, table, local, Ready, Clean, PairReady,
                StampOf, RevocationReady, Uncommitted, Committed, Final
  <2>2. CASE ~ ResponseFirst
    BY <2>2 DEF TypeOK, Prepared, Close, Clean, Uncommitted, Committed, Final
  <2> QED
    BY <2>1, <2>2
<1>3. \A q \in Reqs \ {r} : SameRequest(q) /\ ins'[r] \cap ins[q] = {}
  BY DEF TypeOK, SameRequest, Close, Goto, local, ReqInv, Disjoint
<1> QED
  BY <1>1, <1>2, <1>3, LocalStep

\* The clock and the operator touch neither the table nor a request.
LEMMA EnvironmentInv ==
    ASSUME IInv, UNCHANGED <<table, pc, local>>, expired' \subseteq Tokens,
           active' \subseteq Users, UNCHANGED delivered
    PROVE  IInv'
BY DEF IInv, TypeOK, ReqInv, Prepared, Disjoint, Clean, StampOf, PairReady,
       RevocationReady, Ready, Uncommitted, Committed, RotationAtomic, Children,
       table, local

LEMMA StepInv == IInv /\ [Next]_vars => IInv'
<1> SUFFICES ASSUME IInv, [Next]_vars PROVE IInv'
  OBVIOUS
<1>1. ASSUME NEW r \in Reqs, Start(r) PROVE IInv'
  BY <1>1, LoginInv, RefreshInv, DetectReuseInv, LogoutInv, LogoutNoRowInv, RaiseInv
     DEF Start, LoginDenied, RefreshDenied, Final
<1>2. ASSUME NEW r \in Reqs, LockStep(r) PROVE IInv'
  BY <1>2, MarkUsedInv, RevokeOwnInv, RevokeRowInv DEF LockStep
<1>3. ASSUME NEW r \in Reqs, RunStep(r) PROVE IInv'
  BY <1>3, RevokeAllInv, LoadUserInv, IssuePairInv, CommitInv, RespondInv, RaiseInv
     DEF RunStep, DenyReuse, DeadlockVictim, LoadUserDenied, Final
<1>4. ASSUME NEW r \in Reqs, Fail(r) PROVE IInv'
  BY <1>4, RaiseInv DEF Fail, Final
<1>5. ASSUME NEW t \in Tokens, Expire(t) PROVE IInv'
  BY <1>5, EnvironmentInv DEF Expire, IInv, TypeOK
<1>6. ASSUME NEW u \in Users, Deactivate(u) PROVE IInv'
  BY <1>6, EnvironmentInv DEF Deactivate, IInv, TypeOK
<1>7. CASE UNCHANGED vars
  BY <1>7, EnvironmentInv DEF vars, env, IInv, TypeOK
<1> QED
  BY <1>1, <1>2, <1>3, <1>4, <1>5, <1>6, <1>7 DEF Next

\* The strengthened invariant: what every request in progress may have flushed.
THEOREM Invariance == Spec => []IInv
BY InitInv, StepInv, PTL DEF Spec

\* Every variable keeps its type.
THEOREM TypeCorrect == Spec => []TypeOK
<1>1. IInv => TypeOK
  BY DEF IInv
<1> QED
  BY <1>1, Invariance, PTL

\* A rotation is never half done: used_at is set exactly where a successor of the
\* same user exists, and a token has one predecessor at most.
THEOREM RotationAtomicity == Spec => []RotationAtomic
<1>1. IInv => RotationAtomic
  BY DEF IInv
<1> QED
  BY <1>1, Invariance, PTL

-----------------------------------------------------------------------------
\* A step of r that commits nothing winds p down if it does not bring r itself
\* into a rotation of p.
LEMMA WindsDown ==
    ASSUME NEW p \in Tokens, NEW r \in Reqs, UNCHANGED rotations,
           \A q \in Reqs \ {r} : SameRequest(q),
           r \in Rotating(p)' => r \in Rotating(p)
    PROVE  Rotating(p)' \subseteq Rotating(p) /\ Children(p)' = Children(p)
BY DEF SameRequest, Rotating, Children

LEMMA StartWindsDown ==
    ASSUME IInv, NEW p \in Tokens, Dead(p), NEW r \in Reqs, Start(r)
    PROVE  Rotating(p)' \subseteq Rotating(p) /\ Children(p)' = Children(p)
<1> USE DEF Goto, IInv
<1>1. pc[r] \in Final /\ Clean(r) /\ tok[r] = NoToken
  BY DEF Start, Login, LoginDenied, Refresh, RefreshDenied, DetectReuse, Logout,
         LogoutNoRow, ReqInv, Prepared
<1>2. UNCHANGED rotations /\ \A q \in Reqs \ {r} : SameRequest(q)
  BY DEF Start, Login, LoginDenied, Refresh, RefreshDenied, DetectReuse, Logout,
         LogoutNoRow, Raise, Close, table, local, SameRequest, TypeOK
<1>3. ASSUME NEW u \in Users, NEW g \in BOOLEAN, Login(r, u, g)
      PROVE  r \notin Rotating(p)'
  BY <1>1, <1>3, NoTokenAssumption DEF Login, Rotating, Clean, TypeOK
<1>4. ASSUME NEW t \in Presented, Refresh(r, t)
      PROVE  r \notin Rotating(p)'
  <2>1. t # p
    BY <1>4 DEF Refresh, Valid, AlreadyUsed, Dead
  <2> QED
    BY <1>1, <1>4, <2>1 DEF Refresh, Rotating, Clean, TypeOK
<1>5. ASSUME NEW t \in Presented, DetectReuse(r, t) \/ Logout(r, t) \/ LogoutNoRow(r, t)
      PROVE  r \notin Rotating(p)'
  BY <1>1, <1>5 DEF DetectReuse, Logout, LogoutNoRow, Rotating, Clean, TypeOK, local
<1>6. ASSUME NEW a \in Final, Raise(r, a)
      PROVE  r \notin Rotating(p)'
  BY <1>6 DEF Raise, Close, Rotating, TypeOK, Final
<1>7. r \notin Rotating(p)'
  BY <1>3, <1>4, <1>5, <1>6 DEF Start, LoginDenied, RefreshDenied, Final
<1> QED
  BY <1>2, <1>7, WindsDown

LEMMA RunWindsDown ==
    ASSUME IInv, NEW p \in Tokens, NEW r \in Reqs,
           LockStep(r) \/ RunStep(r) \/ Fail(r), ~ Commit(r)
    PROVE  Rotating(p)' \subseteq Rotating(p) /\ Children(p)' = Children(p)
<1> USE DEF Goto, IInv
<1>1. ASSUME NEW a \in Final, Raise(r, a)
      PROVE  /\ UNCHANGED rotations /\ \A q \in Reqs \ {r} : SameRequest(q)
             /\ r \notin Rotating(p)'
  BY <1>1 DEF Raise, Close, Rotating, TypeOK, Final, table, SameRequest
<1>2. CASE MarkUsed(r)
  <2>1. r \in Rotating(p)' => r \in Rotating(p)
    BY <1>2 DEF MarkUsed, Marked, Rotating, TypeOK
  <2> QED
    BY <1>2, <2>1, WindsDown DEF MarkUsed, table, TypeOK, SameRequest
<1>3. CASE RevokeOwn(r)
  <2>1. r \in Rotating(p)' => r \in Rotating(p)
    BY <1>3 DEF RevokeOwn, Rotating, TypeOK
  <2> QED
    BY <1>3, <2>1, WindsDown DEF RevokeOwn, table, TypeOK, SameRequest
<1>4. ASSUME NEW t \in Tokens, RevokeRow(r, t)
      PROVE  Rotating(p)' \subseteq Rotating(p) /\ Children(p)' = Children(p)
  <2>1. r \in Rotating(p)' => r \in Rotating(p)
    BY <1>4 DEF RevokeRow, Rotating, TypeOK
  <2> QED
    BY <1>4, <2>1, WindsDown DEF RevokeRow, table, TypeOK, SameRequest
<1>5. CASE RevokeAll(r)
  <2>1. r \in Rotating(p)' => r \in Rotating(p)
    BY <1>5 DEF RevokeAll, Rotating, TypeOK
  <2> QED
    BY <1>5, <2>1, WindsDown DEF RevokeAll, table, TypeOK, SameRequest
<1>6. CASE LoadUser(r)
  <2>1. r \in Rotating(p)' => r \in Rotating(p)
    BY <1>6 DEF LoadUser, Rotating, TypeOK
  <2> QED
    BY <1>6, <2>1, WindsDown DEF LoadUser, table, TypeOK, SameRequest
<1>7. CASE IssuePair(r)
  <2>1. r \in Rotating(p)' => r \in Rotating(p)
    BY <1>7 DEF IssuePair, Rotating, TypeOK
  <2> QED
    BY <1>7, <2>1, WindsDown DEF IssuePair, table, TypeOK, SameRequest
<1>8. CASE Respond(r)
  <2>1. r \in Rotating(p)' => r \in Rotating(p)
    BY <1>8 DEF Respond, Close, AtRespond, AfterRespond, local, Rotating, TypeOK
  <2> QED
    BY <1>8, <2>1, WindsDown DEF Respond, Close, table, local, TypeOK, SameRequest
<1> QED
  BY <1>1, <1>2, <1>3, <1>4, <1>5, <1>6, <1>7, <1>8, WindsDown
     DEF LockStep, RunStep, Fail, DenyReuse, DeadlockVictim, LoadUserDenied, Final

LEMMA CommitWindsDown ==
    ASSUME IInv, NEW p \in Tokens, NEW r \in Reqs, Commit(r)
    PROVE  /\ Rotating(p)' \subseteq Rotating(p)
           /\ \/ Children(p)' = Children(p)
              \/ \E q \in Rotating(p) \ Rotating(p)' :
                    Children(p)' = Children(p) \cup ins[q]
<1>1. r \notin Rotating(p)'
  BY CommitShape DEF Rotating
<1>2. Rotating(p)' \subseteq Rotating(p)
  BY <1>1, CommitShape DEF Rotating, SameRequest
<1>3. rotations' = rotations \cup (marks[r] \X ins[r]) /\ ins[r] \subseteq Tokens
  BY DEF Commit, IInv, TypeOK
<1>4. CASE p \in marks[r]
  <2>1. \A c \in Tokens : <<p, c>> \in rotations' <=> <<p, c>> \in rotations \/ c \in ins[r]
    BY <1>3, <1>4
  <2>2. Children(p)' = Children(p) \cup ins[r]
    BY <1>3, <2>1 DEF Children
  <2> QED
    BY <1>1, <1>2, <1>4, <2>2 DEF Rotating
<1>5. CASE p \notin marks[r]
  <2>1. \A c \in Tokens : <<p, c>> \in rotations' <=> <<p, c>> \in rotations
    BY <1>3, <1>5
  <2> QED
    BY <1>2, <2>1 DEF Children
<1> QED
  BY <1>2, <1>4, <1>5

\* Once a token is used, revoked or expired, its possible successors can only run
\* out: no request begins to rotate it, and each successor that still appears
\* ends one request that had passed the checks of refresh before.
THEOREM DeadTokensRunOut == Spec => DeadTokensWindDown
<1> DEFINE WindDown(p) ==
      Dead(p) =>
          /\ Rotating(p)' \subseteq Rotating(p)
          /\ \/ Children(p)' = Children(p)
             \/ \E r \in Rotating(p) \ Rotating(p)' :
                   Children(p)' = Children(p) \cup ins[r]
<1>1. IInv /\ [Next]_vars => [\A p \in Tokens : WindDown(p)]_vars
  <2> SUFFICES ASSUME IInv, Next, NEW p \in Tokens, Dead(p) PROVE WindDown(p)
    BY DEF WindDown
  <2>1. CASE \E r \in Reqs : Start(r)
    BY <2>1, StartWindsDown
  <2>2. CASE \E r \in Reqs : (LockStep(r) \/ RunStep(r) \/ Fail(r)) /\ ~ Commit(r)
    BY <2>2, RunWindsDown
  <2>3. CASE \E r \in Reqs : Commit(r)
    BY <2>3, CommitWindsDown
  <2>4. CASE (\E t \in Tokens : Expire(t)) \/ (\E u \in Users : Deactivate(u))
    BY <2>4 DEF Expire, Deactivate, table, local, Rotating, Children
  <2> QED
    BY <2>1, <2>2, <2>3, <2>4 DEF Next
<1> QED
  BY <1>1, Invariance, PTL DEF Spec, DeadTokensWindDown

-----------------------------------------------------------------------------
\* A commit is one entry of the ledger, or none.
LEMMA CommitIsLedgerStep ==
    ASSUME IInv, NEW r \in Reqs, Commit(r)
    PROVE  [Ledger!Next]_(Ledger!ledger)
<1> USE DEF IInv, TypeOK
<1>1. /\ stored' = stored \cup ins[r]
      /\ used' = used \cup marks[r]
      /\ revoked' = revoked \cup revs[r]
      /\ rotations' = rotations \cup (marks[r] \X ins[r])
      /\ owner' = [t \in Tokens |-> IF t \in ins[r] THEN user[r] ELSE owner[t]]
  BY DEF Commit, CommittedUsed, CommittedRevoked
<1>2. Ready(r)
  BY CommitShape
<1>3. CASE Clean(r)
  BY <1>1, <1>3 DEF Clean, Ledger!ledger
<1>4. CASE PairReady(r)
  <2>1. PICK n \in Tokens \ stored : ins[r] = {n}
    BY <1>4 DEF PairReady
  <2>2. revoked' = revoked /\ owner' = [owner EXCEPT ![n] = user[r]] /\ user[r] \in Users
    BY <1>1, <1>4, <2>1 DEF PairReady
  <2>3. CASE marks[r] = {}
    <3>1. Ledger!Open(user[r], n)
      BY <1>1, <2>1, <2>2, <2>3 DEF Ledger!Open
    <3> QED
      BY <2>1, <2>2, <3>1 DEF Ledger!Next
  <2>4. CASE marks[r] = {tok[r]} /\ tok[r] \in stored /\ user[r] = owner[tok[r]]
    <3>1. rotations' = rotations \cup {<<tok[r], n>>}
      BY <1>1, <2>1, <2>4
    <3>2. Ledger!Rotate(tok[r], n)
      BY <1>1, <2>1, <2>2, <2>4, <3>1 DEF Ledger!Rotate
    <3> QED
      BY <2>1, <2>4, <3>2 DEF Ledger!Next
  <2> QED
    BY <1>4, <2>3, <2>4 DEF PairReady, StampOf
<1>5. CASE RevocationReady(r)
  <2>1. PICK t \in stored : revs[r] = {t}
    BY <1>5 DEF RevocationReady
  <2>2. UNCHANGED <<stored, used, owner, rotations>>
    BY <1>1, <1>5 DEF RevocationReady
  <2>3. CASE t \in revoked
    BY <1>1, <2>1, <2>2, <2>3 DEF Ledger!ledger
  <2>4. CASE t \notin revoked
    <3>1. Ledger!Revoke(t)
      BY <1>1, <2>1, <2>2, <2>4 DEF Ledger!Revoke
    <3> QED
      BY <3>1 DEF Ledger!Next
  <2> QED
    BY <2>3, <2>4
<1> QED
  BY <1>2, <1>3, <1>4, <1>5 DEF Ready

\* The concurrent, transactional program implements the ledger: every commit is
\* one login, one rotation or one revocation, and nothing else reaches the table.
THEOREM ImplementsLedger == Spec => LedgerSpec
<1>1. Init => Ledger!Init
  BY DEF Init
<1>2. IInv /\ [Next]_vars => [Ledger!Next]_(Ledger!ledger)
  <2> SUFFICES ASSUME IInv, [Next]_vars PROVE [Ledger!Next]_(Ledger!ledger)
    OBVIOUS
  <2>1. CASE \E r \in Reqs : Commit(r)
    BY <2>1, CommitIsLedgerStep
  <2>2. ASSUME NEW r \in Reqs, Start(r) PROVE UNCHANGED table
    BY <2>2 DEF Start, Login, LoginDenied, Refresh, RefreshDenied, DetectReuse,
                Logout, LogoutNoRow, Raise
  <2>3. ASSUME NEW r \in Reqs, LockStep(r) PROVE UNCHANGED table
    BY <2>3 DEF LockStep, MarkUsed, RevokeOwn, RevokeRow
  <2>4. ASSUME NEW r \in Reqs, RunStep(r), ~ Commit(r) PROVE UNCHANGED table
    BY <2>4 DEF RunStep, RevokeAll, DenyReuse, DeadlockVictim, LoadUser,
                LoadUserDenied, IssuePair, Respond, Raise
  <2>5. ASSUME NEW r \in Reqs, Fail(r) PROVE UNCHANGED table
    BY <2>5 DEF Fail, Raise
  <2>6. ASSUME NEW t \in Tokens, Expire(t) PROVE UNCHANGED table
    BY <2>6 DEF Expire
  <2>7. ASSUME NEW u \in Users, Deactivate(u) PROVE UNCHANGED table
    BY <2>7 DEF Deactivate
  <2>8. CASE UNCHANGED vars
    BY <2>8 DEF vars, table, Ledger!ledger
  <2>9. UNCHANGED table => (Ledger!ledger)' = Ledger!ledger
    BY DEF table, Ledger!ledger
  <2> QED
    BY <2>1, <2>2, <2>3, <2>4, <2>5, <2>6, <2>7, <2>8, <2>9 DEF Next
<1> QED
  BY <1>1, <1>2, Invariance, PTL DEF Spec, LedgerSpec, Ledger!Spec

-----------------------------------------------------------------------------
\* When get_db commits before the response is sent, no crash, rollback or race
\* leaves a client with a refresh token that has no row.
THEOREM DeliveryIsDurable ==
    ASSUME ~ ResponseFirst PROVE Spec => []DeliveredDurable
<1>1. Init => DeliveredDurable
  BY DEF Init, DeliveredDurable
<1>2. IInv /\ DeliveredDurable /\ [Next]_vars => DeliveredDurable'
  <2> SUFFICES ASSUME IInv, DeliveredDurable, [Next]_vars PROVE DeliveredDurable'
    OBVIOUS
  <2>1. ASSUME NEW r \in Reqs, Respond(r) PROVE DeliveredDurable'
    <3>1. Committed(r) /\ ins[r] \subseteq stored
      BY <2>1 DEF Respond, AtRespond, Committed, IInv, ReqInv, Prepared
    <3> QED
      BY <2>1, <3>1 DEF Respond, DeliveredDurable, table
  <2>2. ASSUME NEW r \in Reqs, Commit(r) PROVE DeliveredDurable'
    BY <2>2 DEF Commit, DeliveredDurable, env
  <2>3. ASSUME NEW r \in Reqs, Start(r) \/ LockStep(r) \/ Fail(r) PROVE DeliveredDurable'
    BY <2>3 DEF Start, Login, LoginDenied, Refresh, RefreshDenied, DetectReuse, Logout,
                LogoutNoRow, LockStep, MarkUsed, RevokeOwn, RevokeRow, Fail, Raise,
                table, env, DeliveredDurable
  <2>4. ASSUME NEW r \in Reqs, RunStep(r), ~ Commit(r), ~ Respond(r) PROVE DeliveredDurable'
    BY <2>4 DEF RunStep, RevokeAll, DenyReuse, DeadlockVictim, LoadUser, LoadUserDenied,
                IssuePair, Raise, table, env, DeliveredDurable
  <2>5. CASE \/ \E t \in Tokens : Expire(t)
             \/ \E u \in Users : Deactivate(u)
             \/ UNCHANGED vars
    BY <2>5 DEF Expire, Deactivate, vars, table, env, DeliveredDurable
  <2> QED
    BY <2>1, <2>2, <2>3, <2>4, <2>5 DEF Next
<1> QED
  BY <1>1, <1>2, Invariance, PTL DEF Spec

-----------------------------------------------------------------------------
\* r waits for q: for the row its UPDATE needs, or for one of the rows that
\* revoke_all_for_user has still to visit.
WaitsFor(r, q) ==
    /\ q # r
    /\ \/ pc[r] \in {"markUsed", "logout"} /\ tok[r] \in Touched(q)
       \/ pc[r] = "revoking" /\ todo[r] \cap Touched(q) # {}

\* A revocation visits and holds rows of one user only, the presented token's.
Chase(r) ==
    /\ pc[r] = "reuse" => revs[r] = {} /\ tok[r] \in stored
    /\ pc[r] = "revoking" =>
          /\ tok[r] \in stored
          /\ \A t \in todo[r] \cup revs[r] : t \in stored /\ owner[t] = owner[tok[r]]
Chases == \A r \in Reqs : Chase(r)

LEMMA ChaseOthers ==
    ASSUME IInv, Chases, UNCHANGED <<stored, owner>>, NEW r \in Reqs,
           \A q \in Reqs \ {r} : SameRequest(q) /\ todo'[q] = todo[q],
           Chase(r)'
    PROVE  Chases'
<1> SUFFICES ASSUME NEW q \in Reqs \ {r} PROVE Chase(q)'
  BY DEF Chases
<1>1. Chase(q) /\ SameRequest(q) /\ todo'[q] = todo[q]
  BY DEF Chases
<1> QED
  BY <1>1 DEF Chase, SameRequest

LEMMA RaiseChase ==
    ASSUME IInv, Chases, NEW r \in Reqs, NEW a \in Final, Raise(r, a)
    PROVE  Chases'
<1> USE DEF Raise, Close, IInv, TypeOK
<1>1. Chase(r)'
  BY DEF Chase, Final
<1>2. \A q \in Reqs \ {r} : SameRequest(q) /\ todo'[q] = todo[q]
  BY DEF SameRequest
<1> QED
  BY <1>1, <1>2, ChaseOthers DEF table

LEMMA CommitChase ==
    ASSUME IInv, Chases, NEW r \in Reqs, Commit(r)
    PROVE  Chases'
<1>1. Chase(r)'
  BY CommitShape DEF Chase
<1>2. ASSUME NEW q \in Reqs \ {r} PROVE Chase(q)'
  <2>1. Chase(q) /\ SameRequest(q) /\ todo'[q] = todo[q]
    BY CommitShape DEF Chases, Commit
  <2>2. \A t \in stored : t \in stored' /\ owner'[t] = owner[t]
    BY CommitKeepsOwners
  <2> QED
    BY <2>1, <2>2 DEF Chase, SameRequest
<1> QED
  BY <1>1, <1>2 DEF Chases

\* The steps of a request that neither commits nor raises.
LEMMA LocalChase ==
    ASSUME IInv, Chases, NEW r \in Reqs,
           \/ \E u \in Users, good \in BOOLEAN : Login(r, u, good)
           \/ \E t \in Presented : Refresh(r, t) \/ DetectReuse(r, t)
           \/ \E t \in Presented : Logout(r, t) \/ LogoutNoRow(r, t)
           \/ MarkUsed(r) \/ RevokeOwn(r) \/ \E t \in Tokens : RevokeRow(r, t)
           \/ RevokeAll(r) \/ LoadUser(r) \/ IssuePair(r) \/ Respond(r)
    PROVE  Chases'
<1> USE DEF IInv, TypeOK
<1>1. UNCHANGED <<stored, owner>>
  BY DEF Login, Refresh, DetectReuse, Logout, LogoutNoRow, MarkUsed, RevokeOwn,
         RevokeRow, RevokeAll, LoadUser, IssuePair, Respond, table
<1>2. \A q \in Reqs \ {r} : SameRequest(q) /\ todo'[q] = todo[q]
  BY DEF Login, Refresh, DetectReuse, Logout, LogoutNoRow, MarkUsed, RevokeOwn,
         RevokeRow, RevokeAll, LoadUser, IssuePair, Respond, Close, Goto, local, SameRequest
<1>3. Chase(r)'
  <2>1. CASE \E t \in Presented : DetectReuse(r, t)
    BY <1>1, <2>1 DEF DetectReuse, Goto, Valid, ReqInv, Prepared, Clean, Chase
  <2>2. CASE RevokeAll(r)
    BY <1>1, <2>2 DEF RevokeAll, Goto, Chases, Chase
  <2>3. CASE \E t \in Tokens : RevokeRow(r, t)
    BY <1>1, <2>3 DEF RevokeRow, Chases, Chase
  <2>4. CASE pc'[r] \notin {"reuse", "revoking"}
    BY <2>4 DEF Chase
  <2> QED
    BY <2>1, <2>2, <2>3, <2>4
       DEF Login, Refresh, Logout, LogoutNoRow, MarkUsed, RevokeOwn, LoadUser, IssuePair,
           Respond, Close, Goto, AtRespond, AfterRespond
<1> QED
  BY <1>1, <1>2, <1>3, ChaseOthers

LEMMA ChaseStep == IInv /\ Chases /\ [Next]_vars => Chases'
<1> SUFFICES ASSUME IInv, Chases, [Next]_vars PROVE Chases'
  OBVIOUS
<1>1. ASSUME NEW r \in Reqs, Start(r) PROVE Chases'
  BY <1>1, LocalChase, RaiseChase DEF Start, LoginDenied, RefreshDenied, Final
<1>2. ASSUME NEW r \in Reqs, LockStep(r) PROVE Chases'
  BY <1>2, LocalChase DEF LockStep
<1>3. ASSUME NEW r \in Reqs, RunStep(r) PROVE Chases'
  BY <1>3, LocalChase, CommitChase, RaiseChase
     DEF RunStep, DenyReuse, DeadlockVictim, LoadUserDenied, Final
<1>4. ASSUME NEW r \in Reqs, Fail(r) PROVE Chases'
  BY <1>4, RaiseChase DEF Fail, Final
<1>5. CASE \/ \E t \in Tokens : Expire(t)
           \/ \E u \in Users : Deactivate(u)
           \/ UNCHANGED vars
  BY <1>5 DEF Expire, Deactivate, vars, table, local, Chases, Chase
<1> QED
  BY <1>1, <1>2, <1>3, <1>4, <1>5 DEF Next

\* What a cycle of lock waits takes: two reports of reuse about one user's tokens.
DeadlockTakesTwoReports ==
    \A D \in SUBSET Reqs :
        D # {} /\ (\A r \in D : \E q \in D : WaitsFor(r, q)) =>
            \E r, q \in D :
                /\ r # q
                /\ pc[r] = "revoking" /\ pc[q] = "revoking"
                /\ owner[tok[r]] = owner[tok[q]]

\* A rotation or a logout waits before it holds anything, so it is never part of
\* a cycle: only two revoke_all_for_user of one user, which visit the rows in an
\* order no code fixes, can wait for each other.  (So DeadlockVictim looks at
\* revocations only.)
THEOREM DeadlocksNeedReports == Spec => []DeadlockTakesTwoReports
<1>1. Init => Chases
  BY DEF Init, Chases, Chase
<1>2. IInv /\ Chases => DeadlockTakesTwoReports
  <2> SUFFICES ASSUME IInv, Chases, NEW D \in SUBSET Reqs, D # {},
                      \A r \in D : \E q \in D : WaitsFor(r, q)
               PROVE  \E r, q \in D :
                          /\ r # q
                          /\ pc[r] = "revoking" /\ pc[q] = "revoking"
                          /\ owner[tok[r]] = owner[tok[q]]
    BY DEF DeadlockTakesTwoReports
  <2>1. ASSUME NEW p \in D, NEW r \in D, WaitsFor(p, r)
        PROVE  pc[r] = "revoking" /\ marks[r] = {}
    <3>1. Touched(r) # {}
      BY <2>1 DEF WaitsFor
    <3>2. PICK q \in D : WaitsFor(r, q)
      OBVIOUS
    <3>3. Prepared(r)
      BY DEF IInv, ReqInv
    <3> QED
      BY <3>1, <3>2, <3>3 DEF WaitsFor, Touched, Prepared, Clean
  <2>2. PICK p \in D, r \in D : WaitsFor(p, r)
    OBVIOUS
  <2>3. PICK q \in D : WaitsFor(r, q)
    OBVIOUS
  <2>4. pc[r] = "revoking" /\ pc[q] = "revoking" /\ marks[q] = {}
    BY <2>1, <2>2, <2>3
  <2>5. PICK t \in todo[r] : t \in revs[q]
    BY <2>3, <2>4 DEF WaitsFor, Touched
  <2>6. owner[t] = owner[tok[r]] /\ owner[t] = owner[tok[q]]
    BY <2>4, <2>5 DEF Chases, Chase
  <2> QED
    BY <2>3, <2>4, <2>6 DEF WaitsFor
<1> QED
  BY <1>1, <1>2, ChaseStep, Invariance, PTL DEF Spec
=============================================================================
