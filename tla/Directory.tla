------------------------------ MODULE Directory ------------------------------
(***************************************************************************)
(* What the table of users promises: accounts come into being and change   *)
(* one at a time, and no two of them ever share an email or a username.    *)
(***************************************************************************)
CONSTANTS Ids, Columns, Values, NoAccount

VARIABLE accounts

Profile == [Columns -> Values]

\* No account but x has a value of p.
Free(x, p) ==
    \A y \in Ids \ {x} : accounts[y] # NoAccount => \A c \in Columns : accounts[y][c] # p[c]

Init == accounts = [x \in Ids |-> NoAccount]

Register(x, p) ==
    /\ accounts[x] = NoAccount
    /\ Free(x, p)
    /\ accounts' = [accounts EXCEPT ![x] = p]

Change(x, p) ==
    /\ accounts[x] # NoAccount
    /\ Free(x, p)
    /\ accounts' = [accounts EXCEPT ![x] = p]

Next == \E x \in Ids : \E p \in Profile : Register(x, p) \/ Change(x, p)

Spec == Init /\ [][Next]_accounts
=============================================================================
