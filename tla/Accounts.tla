------------------------------ MODULE Accounts ------------------------------
(***************************************************************************)
(* Registration and PATCH /users/me: concurrent READ COMMITTED             *)
(* transactions over the table users with its two unique indexes.          *)
(*                                                                         *)
(* A request first asks, in one SELECT per value, whether the value is     *)
(* taken.  By its INSERT or UPDATE the answer may be old: the unique       *)
(* indexes decide, in the order they were created.  An index waits for an  *)
(* uncommitted row with the value and for an uncommitted UPDATE of a       *)
(* committed one, then fails on a committed row.                           *)
(***************************************************************************)
EXTENDS FiniteSets

CONSTANTS Ids,          \* users.id
          Values,       \* emails and usernames, never compared with each other
          Reqs,         \* slots for requests in progress
          Null, Unset, NoAccount, NoId

Columns == {"email", "username"}

ASSUME ValuesAssumption == Null \notin Values /\ Unset \notin Values \cup {Null}
ASSUME NoAccountAssumption == NoAccount \notin [Columns -> Values]
ASSUME NoIdAssumption == NoId \notin Ids

VARIABLES
    account,        \* the committed rows
    pc,             \* where each request is
    kind,           \* register or update
    id,             \* the account it creates or updates
    ask,            \* the values it was sent, Unset for none
    loaded,         \* its account, as get_current_user loaded it
    entered,        \* indexes in which its uncommitted row is
    mailed,         \* history: ids whose welcome mail the broker was given
    raced           \* history: another request has written since it began

request == <<kind, id, ask>>
vars == <<account, pc, request, loaded, entered, mailed, raced>>

InFlight == {"load", "email", "username", "flush", "index", "mail", "returned"}
Profile == [Columns -> Values]
Asks == [Columns -> Values \cup {Null, Unset}]
NoAsk == [c \in Columns |-> Unset]

TypeOK ==
    /\ account \in [Ids -> Profile \cup {NoAccount}]
    /\ pc \in [Reqs -> {"idle"} \cup InFlight]
    /\ kind \in [Reqs -> {"register", "update"}]
    /\ id \in [Reqs -> Ids \cup {NoId}]
    /\ ask \in [Reqs -> Asks]
    /\ loaded \in [Reqs -> Profile \cup {NoAccount}]
    /\ entered \in [Reqs -> SUBSET Columns]
    /\ mailed \subseteq Ids
    /\ raced \in [Reqs -> BOOLEAN]

Init ==
    /\ account = [x \in Ids |-> NoAccount]
    /\ pc = [r \in Reqs |-> "idle"]
    /\ kind = [r \in Reqs |-> "register"]
    /\ id = [r \in Reqs |-> NoId]
    /\ ask = [r \in Reqs |-> NoAsk]
    /\ loaded = [r \in Reqs |-> NoAccount]
    /\ entered = [r \in Reqs |-> {}]
    /\ mailed = {}
    /\ raced = [r \in Reqs |-> FALSE]

-----------------------------------------------------------------------------
Goto(r, where) == pc' = [pc EXCEPT ![r] = where]

\* The session is closed, and rolled back unless it was committed before.
Close(r) ==
    /\ Goto(r, "idle")
    /\ kind' = [kind EXCEPT ![r] = "register"]
    /\ id' = [id EXCEPT ![r] = NoId]
    /\ ask' = [ask EXCEPT ![r] = NoAsk]
    /\ loaded' = [loaded EXCEPT ![r] = NoAccount]
    /\ entered' = [entered EXCEPT ![r] = {}]

Raise(r) ==
    /\ Close(r)
    /\ raced' = [raced EXCEPT ![r] = FALSE]
    /\ UNCHANGED <<account, mailed>>

Begin(r, k, x, a, where) ==
    /\ pc[r] = "idle"
    /\ Goto(r, where)
    /\ kind' = [kind EXCEPT ![r] = k]
    /\ id' = [id EXCEPT ![r] = x]
    /\ ask' = [ask EXCEPT ![r] = a]
    /\ UNCHANGED <<account, loaded, entered, mailed, raced>>

\* x stands for the id that the sequence will give: no row, request or mail has it.
Register(r, x, p) ==
    /\ account[x] = NoAccount
    /\ x \notin mailed /\ \A q \in Reqs : id[q] # x
    /\ Begin(r, "register", x, p, "email")

UpdateMe(r, x, a) ==
    /\ account[x] # NoAccount
    /\ Begin(r, "update", x, a, "load")

-----------------------------------------------------------------------------
\* The username is looked up after the email, each only when it was sent.
AfterEmail(r) == IF ask[r]["username"] # Unset THEN "username" ELSE "flush"

\* get_current_user, in the session that the endpoint goes on to use
LoadMe(r) ==
    /\ pc[r] = "load"
    /\ loaded' = [loaded EXCEPT ![r] = account[id[r]]]
    /\ Goto(r, IF ask[r]["email"] # Unset THEN "email" ELSE AfterEmail(r))
    /\ UNCHANGED <<account, request, entered, mailed, raced>>

\* Another account has the value; null is never equal to one.
BugEmailOnly(r, c) ==
    c = "email" /\ \E z \in Ids \ {id[r]} : account[z] # NoAccount /\ account[z][c] = ask[r][c]
Taken(r, c) == \E z \in Ids \ {id[r]} : account[z] # NoAccount /\ account[z][c] = ask[r][c]

CheckPasses(r) ==
    /\ pc[r] \in Columns
    /\ ~ Taken(r, pc[r])
    /\ Goto(r, IF pc[r] = "email" THEN AfterEmail(r) ELSE "flush")
    /\ UNCHANGED <<account, request, loaded, entered, mailed, raced>>

AlreadyExists(r) ==
    /\ pc[r] \in Columns
    /\ Taken(r, pc[r])
    /\ Raise(r)

-----------------------------------------------------------------------------
\* What the flush writes: all of a new row, of an old one what differs from the load.
Changes(r) == {c \in Columns : ask[r][c] # Unset /\ (kind[r] = "update" => ask[r][c] # loaded[r][c])}
New(r) == [c \in Columns |-> IF c \in Changes(r) THEN ask[r][c] ELSE account[id[r]][c]]
Writing(r) == pc[r] \in {"index", "mail"} \/ (pc[r] = "returned" /\ Changes(r) # {})

\* Requests that hold the lock of the row r is about to update.
RowHolders(r) == {q \in Reqs \ {r} : id[q] = id[r] /\ Writing(q)}
BugNullable(r) == FALSE
NullRefused(r) == \E c \in Changes(r) : ask[r][c] = Null

NothingToWrite(r) ==
    /\ pc[r] = "flush"
    /\ Changes(r) = {}
    /\ Goto(r, "returned")
    /\ UNCHANGED <<account, request, loaded, entered, mailed, raced>>

WriteRow(r) ==
    /\ pc[r] = "flush"
    /\ Changes(r) # {}
    /\ ~ NullRefused(r)
    /\ RowHolders(r) = {}
    /\ Goto(r, "index")
    /\ UNCHANGED <<account, request, loaded, entered, mailed, raced>>

NotNullViolated(r) ==
    /\ pc[r] = "flush"
    /\ NullRefused(r)
    /\ Raise(r)

\* The index of c is next; the requests it waits for; its duplicate.
Turn(r, c) == pc[r] = "index" /\ c \notin entered[r] /\ (c = "username" => "email" \in entered[r])
IndexHolders(r, c) ==
    {q \in Reqs \ {r} : /\ Writing(q)
                        /\ \/ c \in entered[q] /\ New(q)[c] = New(r)[c]
                           \/ kind[q] = "update" /\ account[id[q]][c] = New(r)[c]}
BugNotUnique(r, c) == FALSE
Duplicate(r, c) == \E z \in Ids \ {id[r]} : account[z] # NoAccount /\ account[z][c] = New(r)[c]

EnterIndex(r, c) ==
    /\ Turn(r, c)
    /\ IndexHolders(r, c) = {}
    /\ ~ Duplicate(r, c)
    /\ entered' = [entered EXCEPT ![r] = @ \cup {c}]
    /\ Goto(r, IF c = "email" THEN "index"
               ELSE IF kind[r] = "register" THEN "mail" ELSE "returned")
    /\ UNCHANGED <<account, request, loaded, mailed, raced>>

UniqueViolated(r, c) ==
    /\ Turn(r, c)
    /\ IndexHolders(r, c) = {}
    /\ Duplicate(r, c)
    /\ Raise(r)

\* send_welcome_email.delay: in the broker at once, whatever becomes of the account
Welcome(r) ==
    /\ pc[r] = "mail"
    /\ mailed' = mailed \cup {id[r]}
    /\ Goto(r, "returned")
    /\ UNCHANGED <<account, request, loaded, entered, raced>>

\* get_db commits after the endpoint has returned.
Commit(r) ==
    /\ pc[r] = "returned"
    /\ account' = IF Changes(r) = {} THEN account ELSE [account EXCEPT ![id[r]] = New(r)]
    /\ raced' = [q \in Reqs |-> q # r /\ (raced[q] \/ (pc[q] # "idle" /\ Changes(r) # {}))]
    /\ Close(r)
    /\ UNCHANGED mailed

-----------------------------------------------------------------------------
\* PostgreSQL aborts one of the transactions that wait for each other in a cycle.
Blockers(r) ==
    IF pc[r] = "flush" /\ Changes(r) # {} THEN RowHolders(r)
    ELSE UNION {IndexHolders(r, c) : c \in {d \in Columns : Turn(r, d)}}
Cycle(D) == D # {} /\ \A q \in D : Blockers(q) \cap D # {}
Deadlocked(r) == \E D \in SUBSET Reqs : r \in D /\ Cycle(D)
DeadlockVictim(r) == Deadlocked(r) /\ Raise(r)

\* A killed worker, a lost connection, or a broker that refuses the mail.
Fail(r) == pc[r] \in InFlight /\ Raise(r)

Start(r) ==
    \E x \in Ids : \/ \E p \in Profile : Register(r, x, p)
                   \/ \E a \in Asks : UpdateMe(r, x, a)
Step(r) ==
    \/ LoadMe(r) \/ CheckPasses(r) \/ AlreadyExists(r)
    \/ NothingToWrite(r) \/ WriteRow(r) \/ NotNullViolated(r)
    \/ \E c \in Columns : EnterIndex(r, c) \/ UniqueViolated(r, c)
    \/ Commit(r) \/ DeadlockVictim(r)
Other(r) == Start(r) \/ Step(r) \/ Fail(r)

Next == \E r \in Reqs : Other(r) \/ Welcome(r)

Spec == Init /\ [][Next]_vars

-----------------------------------------------------------------------------
\* Overlapping registrations and updates never leave two accounts with one email or
\* one username: the table is the abstract directory.
Book == INSTANCE Directory WITH accounts <- account, Ids <- Ids, Columns <- Columns,
                                Values <- Values, NoAccount <- NoAccount
DirectorySpec == Book!Spec

\* The checks are enough for requests that do not overlap: the database refuses a row
\* (500 instead of 409) only when another request has written one meanwhile.  A unique
\* index refuses a request that was overtaken itself; where requests wait for each
\* other's index entries in a cycle, one that holds a value and one that wants it have
\* both passed the check, so at least one in the cycle was overtaken.
RefusedOnlyByRace ==
    [][\A r \in Reqs :
          /\ (\E c \in Columns : UniqueViolated(r, c)) => raced[r]
          /\ DeadlockVictim(r) =>
                \A D \in SUBSET Reqs : r \in D /\ Cycle(D) => \E q \in D : raced[q]]_vars
=============================================================================
