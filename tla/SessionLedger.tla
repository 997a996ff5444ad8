---------------------------- MODULE SessionLedger ----------------------------
(***************************************************************************)
(* What the refresh_tokens table promises to the rest of the system, with  *)
(* requests, transactions and locks forgotten: the committed table is a    *)
(* ledger that is only ever extended, by three whole entries.  A login     *)
(* opens a session, a refresh rotates a token into its successor, a logout *)
(* revokes a token.  RefreshTokens is shown to implement this module.      *)
(***************************************************************************)
CONSTANTS Users,      \* primary keys of users
          Tokens,     \* raw refresh tokens, one row each
          NoUser      \* owner of a token that has no row

VARIABLES stored,     \* tokens with a committed row
          used,       \* rows with used_at set
          revoked,    \* rows with is_revoked set
          owner,      \* user_id of each row
          rotations   \* <<old, new>> pairs: new was issued in exchange for old

ledger == <<stored, used, revoked, owner, rotations>>

Init ==
    /\ stored = {}
    /\ used = {}
    /\ revoked = {}
    /\ owner = [t \in Tokens |-> NoUser]
    /\ rotations = {}

\* A login adds the first token of a session.
Open(u, t) ==
    /\ t \notin stored
    /\ stored' = stored \cup {t}
    /\ owner' = [owner EXCEPT ![t] = u]
    /\ UNCHANGED <<used, revoked, rotations>>

\* A refresh stamps the old token and adds its successor, both or neither; the
\* successor belongs to the same user.
Rotate(old, new) ==
    /\ old \in stored
    /\ new \notin stored
    /\ stored' = stored \cup {new}
    /\ used' = used \cup {old}
    /\ owner' = [owner EXCEPT ![new] = owner[old]]
    /\ rotations' = rotations \cup {<<old, new>>}
    /\ UNCHANGED revoked

\* A logout revokes one token, once, and touches nothing else.
Revoke(t) ==
    /\ t \in stored \ revoked
    /\ revoked' = revoked \cup {t}
    /\ UNCHANGED <<stored, used, owner, rotations>>

Next ==
    \/ \E u \in Users, t \in Tokens : Open(u, t)
    \/ \E old, new \in Tokens : Rotate(old, new)
    \/ \E t \in Tokens : Revoke(t)

Spec == Init /\ [][Next]_ledger
=============================================================================
