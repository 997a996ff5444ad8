---------------------------- MODULE AccountsProofs ----------------------------
(***************************************************************************)
(* Proofs about Accounts and AccountMail for any ids, values, requests and *)
(* worker processes: the table of users implements Directory, and no       *)
(* welcome mail is forgotten.                                              *)
(*                                                                         *)
(* The check of Directory is made at the commit, that of the code earlier, *)
(* when a row enters the unique indexes.  Claim keeps that answer true in  *)
(* between: no committed account and no other uncommitted row has a value  *)
(* that is already in an index for this request.                           *)
(***************************************************************************)
EXTENDS AccountMail, FiniteSetTheorems, TLAPS

\* What is known of one request.
Stage(q) ==
    /\ pc[q] = "idle" => id[q] = NoId /\ entered[q] = {}
    /\ pc[q] # "idle" => id[q] \in Ids
    /\ pc[q] # "idle" /\ kind[q] = "register" => account[id[q]] = NoAccount /\ ask[q] \in Profile
    /\ pc[q] # "idle" /\ kind[q] = "update" => account[id[q]] # NoAccount
    /\ pc[q] = "mail" => kind[q] = "register"
    /\ entered[q] # {} => Writing(q)
    /\ pc[q] \in {"index", "mail"} => Changes(q) # {}
    /\ Writing(q) => ~ NullRefused(q)
    /\ pc[q] \in {"mail", "returned"} /\ Changes(q) # {} => entered[q] = Columns

\* Two requests write different rows, and an id to be is known to one request.
Separate(q, r) ==
    /\ id[q] = id[r] /\ pc[q] # "idle" /\ pc[r] # "idle" =>
          kind[q] = "update" /\ kind[r] = "update"
    /\ Writing(q) /\ Writing(r) => id[q] # id[r]

Claim(q) ==
    \A c \in entered[q] :
        /\ \A z \in Ids \ {id[q]} : account[z] # NoAccount => account[z][c] # New(q)[c]
        /\ \A r \in Reqs \ {q} : c \in entered[r] => New(r)[c] # New(q)[c]

IInv ==
    /\ TypeOK
    /\ \A q \in Reqs : Stage(q) /\ Claim(q)
    /\ \A q, r \in Reqs : q # r => Separate(q, r)

-----------------------------------------------------------------------------
LEMMA InitInv == Init => IInv
BY DEF Init, IInv, TypeOK, Asks, NoAsk, Stage, Separate, Claim, Writing, Changes, NullRefused, Columns

SameRequest(q) ==
    /\ pc'[q] = pc[q] /\ kind'[q] = kind[q] /\ id'[q] = id[q] /\ ask'[q] = ask[q]
    /\ loaded'[q] = loaded[q] /\ entered'[q] = entered[q]

\* What the primes of the operators are for a request that is left alone.
LEMMA Unmoved ==
    ASSUME NEW q \in Reqs, SameRequest(q), account' = account
    PROVE  /\ Changes(q)' = Changes(q) /\ New(q)' = New(q) /\ Writing(q)' = Writing(q)
           /\ NullRefused(q)' = NullRefused(q) /\ Stage(q)' = Stage(q)
BY DEF SameRequest, Changes, New, Writing, NullRefused, Stage

\* A step of r that commits nothing and enters no index.
LEMMA LocalStep ==
    ASSUME IInv, TypeOK', account' = account, NEW r \in Reqs,
           \A q \in Reqs \ {r} : SameRequest(q),
           Stage(r)',
           entered'[r] = {} \/ (entered'[r] = entered[r] /\ New(r)' = New(r) /\ id'[r] = id[r]),
           \A q \in Reqs \ {r} : Separate(q, r)'
    PROVE  IInv'
<1>1. \A q \in Reqs : Stage(q)'
  BY Unmoved DEF IInv
<1>2. \A q \in Reqs : Claim(q)'
  <2> SUFFICES ASSUME NEW q \in Reqs, NEW c \in entered'[q] PROVE
          /\ \A z \in Ids \ {id'[q]} : account'[z] # NoAccount => account'[z][c] # New(q)'[c]
          /\ \A s \in Reqs \ {q} : c \in entered'[s] => New(s)'[c] # New(q)'[c]
    BY DEF Claim
  <2>1. \A s \in Reqs : entered'[s] # {} =>
            entered'[s] = entered[s] /\ New(s)' = New(s) /\ id'[s] = id[s]
    BY Unmoved DEF SameRequest
  <2> QED
    BY <2>1 DEF IInv, Claim
<1>3. \A q, s \in Reqs : q # s => Separate(q, s)'
  <2> SUFFICES ASSUME NEW q \in Reqs, NEW s \in Reqs, q # s PROVE Separate(q, s)'
    OBVIOUS
  <2>1. CASE q = r \/ s = r
    BY <2>1 DEF Separate
  <2>2. CASE q # r /\ s # r
    BY <2>2, Unmoved DEF IInv, Separate, SameRequest
  <2> QED
    BY <2>1, <2>2
<1> QED
  BY <1>1, <1>2, <1>3 DEF IInv

LEMMA RaiseInv ==
    ASSUME IInv, NEW r \in Reqs, Raise(r)
    PROVE  IInv'
<1> USE DEF Raise, Close, Goto
<1>1. TypeOK'
  BY DEF IInv, TypeOK, NoAsk, Asks
<1>2. pc'[r] = "idle" /\ entered'[r] = {} /\ id'[r] = NoId
  BY DEF IInv, TypeOK
<1>3. Stage(r)'
  BY <1>2 DEF Stage, Writing
<1>4. \A q \in Reqs \ {r} : SameRequest(q)
  BY DEF IInv, TypeOK, SameRequest
<1>5. \A q \in Reqs \ {r} : Separate(q, r)'
  BY <1>2 DEF Separate, Writing
<1> QED
  BY <1>1, <1>2, <1>3, <1>4, <1>5, LocalStep

LEMMA StartInv ==
    ASSUME IInv, NEW r \in Reqs, Start(r)
    PROVE  IInv'
<1> USE DEF Begin, Goto
<1> PICK x \in Ids : (\E p \in Profile : Register(r, x, p)) \/ (\E a \in Asks : UpdateMe(r, x, a))
  BY DEF Start
<1>1. TypeOK'
  <2>1. Profile \subseteq Asks
    BY DEF Profile, Asks
  <2>2. CASE \E p \in Profile : Register(r, x, p)
    BY <2>1, <2>2 DEF Register, IInv, TypeOK, InFlight
  <2>3. CASE \E a \in Asks : UpdateMe(r, x, a)
    BY <2>3 DEF UpdateMe, IInv, TypeOK, InFlight
  <2> QED
    BY <2>2, <2>3
<1>2. \A q \in Reqs \ {r} : SameRequest(q)
  BY DEF Register, UpdateMe, IInv, TypeOK, SameRequest
<1>3. pc[r] = "idle" /\ pc'[r] \in {"email", "load"} /\ id'[r] = x /\ entered'[r] = {}
  BY DEF Register, UpdateMe, IInv, TypeOK, Stage
<1>4. Stage(r)'
  BY <1>3 DEF Register, UpdateMe, IInv, TypeOK, Stage, Writing
<1>5. \A q \in Reqs \ {r} : Separate(q, r)'
  BY <1>2, <1>3 DEF Register, UpdateMe, IInv, TypeOK, Stage, Separate, SameRequest, Writing
<1> QED
  BY <1>1, <1>2, <1>3, <1>4, <1>5, LocalStep DEF Register, UpdateMe

\* The steps of r up to its flush: it has no index entry, and gets none.
LEMMA EarlyInv ==
    ASSUME IInv, NEW r \in Reqs, LoadMe(r) \/ CheckPasses(r) \/ NothingToWrite(r) \/ WriteRow(r)
    PROVE  IInv'
<1> USE DEF LoadMe, CheckPasses, NothingToWrite, WriteRow, AfterEmail, Goto, request
<1>1. TypeOK'
  <2>1. loaded' \in [Reqs -> Profile \cup {NoAccount}]
    BY DEF IInv, TypeOK, Stage
  <2> QED
    BY <2>1 DEF IInv, TypeOK, InFlight, Columns
<1>2. \A q \in Reqs \ {r} : SameRequest(q)
  BY DEF IInv, TypeOK, SameRequest
<1>3. /\ pc[r] \in {"load", "email", "username", "flush"} /\ entered[r] = {}
      /\ id'[r] = id[r] /\ kind'[r] = kind[r] /\ entered'[r] = {}
  BY DEF IInv, TypeOK, Stage, Writing, Columns
<1>4. /\ pc'[r] \in {"email", "username", "flush", "index", "returned"}
      /\ pc'[r] \in {"index", "returned"} => UNCHANGED <<ask, loaded, kind, account>>
      /\ pc'[r] = "index" => WriteRow(r)
      /\ pc'[r] = "returned" => NothingToWrite(r)
  BY DEF IInv, TypeOK, Columns
<1>5. pc'[r] \in {"index", "returned"} => Changes(r)' = Changes(r) /\ NullRefused(r)' = NullRefused(r)
  BY <1>4 DEF Changes, NullRefused
<1>6. Writing(r)' => WriteRow(r)
  BY <1>4, <1>5 DEF Writing
<1>7. Stage(r)'
  <2>1. account' = account /\ ask' = ask /\ pc[r] # "idle"
    BY <1>3
  <2>2. pc'[r] = "index" => Changes(r) # {} /\ ~ NullRefused(r)
    BY <1>4
  <2>3. pc'[r] = "returned" => Changes(r) = {}
    BY <1>4
  <2>4. Writing(r)' => pc'[r] = "index"
    BY <1>4, <1>5, <2>3 DEF Writing
  <2> QED
    BY <1>3, <1>4, <1>5, <2>1, <2>2, <2>3, <2>4 DEF IInv, Stage
<1>8. ASSUME NEW q \in Reqs \ {r} PROVE Separate(q, r)'
  <2>1. Writing(q)' = Writing(q) /\ SameRequest(q)
    BY <1>2, Unmoved
  <2> QED
    BY <1>3, <1>6, <2>1 DEF IInv, Separate, RowHolders, SameRequest
<1> QED
  BY <1>1, <1>2, <1>3, <1>7, <1>8, LocalStep

\* The row of r enters an index: no account and no other row there has the value.
LEMMA IndexInv ==
    ASSUME IInv, NEW r \in Reqs, NEW c \in Columns, EnterIndex(r, c)
    PROVE  IInv'
<1> USE DEF EnterIndex, Turn, Goto, request
<1>1. TypeOK'
  <2>1. entered' \in [Reqs -> SUBSET Columns]
    BY DEF IInv, TypeOK
  <2>2. pc' \in [Reqs -> {"idle"} \cup InFlight]
    BY DEF IInv, TypeOK, InFlight
  <2>3. UNCHANGED <<account, kind, id, ask, loaded, mailed, raced>>
    OBVIOUS
  <2> HIDE DEF EnterIndex, Turn
  <2> QED
    BY <2>1, <2>2, <2>3 DEF IInv, TypeOK
<1>2. \A q \in Reqs \ {r} : SameRequest(q)
  BY DEF IInv, TypeOK, SameRequest
<1>3. \A q \in Reqs : New(q)' = New(q) /\ Changes(q)' = Changes(q) /\ NullRefused(q)' = NullRefused(q)
  BY DEF New, Changes, NullRefused
<1>4. /\ entered'[r] = entered[r] \cup {c} /\ pc[r] = "index"
      /\ pc'[r] = (IF c = "email" THEN "index" ELSE IF kind[r] = "register" THEN "mail" ELSE "returned")
      /\ c = "username" => "email" \in entered[r]
  BY DEF IInv, TypeOK
<1>5. Writing(r) /\ Changes(r) # {} /\ Writing(r)'
  BY <1>3, <1>4 DEF IInv, Stage, Writing
<1>6. \A q \in Reqs : Writing(q)' <=> Writing(q)
  <2>1. \A q \in Reqs \ {r} : Writing(q)' <=> Writing(q)
    BY <1>2, <1>3 DEF SameRequest, Writing
  <2> QED
    BY <1>5, <2>1
<1>7. \A q \in Reqs : Stage(q)'
  <2>1. Stage(r)'
    BY <1>1, <1>3, <1>4, <1>5 DEF IInv, Stage, TypeOK, Columns
  <2> QED
    BY <1>2, <2>1, Unmoved DEF IInv
<1>8. \A q \in Reqs : Claim(q)'
  <2>1. \A z \in Ids \ {id[r]} : account[z] # NoAccount => account[z][c] # New(r)[c]
    BY DEF Duplicate
  <2>2. \A s \in Reqs \ {r} : c \in entered[s] => New(s)[c] # New(r)[c]
    BY DEF IInv, Stage, IndexHolders
  <2>3. \A q \in Reqs : \A d \in entered'[q] : d \in entered[q] \/ (q = r /\ d = c)
    BY <1>2, <1>4 DEF SameRequest
  <2> SUFFICES ASSUME NEW q \in Reqs, NEW d \in entered'[q]
               PROVE  /\ \A z \in Ids \ {id[q]} : account[z] # NoAccount => account[z][d] # New(q)[d]
                      /\ \A s \in Reqs \ {q} : d \in entered'[s] => New(s)[d] # New(q)[d]
    BY <1>3 DEF Claim
  <2>4. \A z \in Ids \ {id[q]} : account[z] # NoAccount => account[z][d] # New(q)[d]
    BY <2>1, <2>3 DEF IInv, Claim
  <2>5. ASSUME NEW s \in Reqs \ {q}, d \in entered'[s] PROVE New(s)[d] # New(q)[d]
    <3>1. CASE d \in entered[q] /\ d \in entered[s]
      BY <3>1 DEF IInv, Claim
    <3>2. CASE d \notin entered[q]
      BY <2>2, <2>3, <2>5, <3>2
    <3>3. CASE d \notin entered[s]
      BY <2>2, <2>3, <2>5, <3>3
    <3> QED
      BY <3>1, <3>2, <3>3
  <2> QED
    BY <2>4, <2>5
<1>9. \A q, s \in Reqs : q # s => Separate(q, s)'
  <2>1. \A q \in Reqs : pc'[q] = "idle" <=> pc[q] = "idle"
    BY <1>2, <1>4 DEF SameRequest
  <2> QED
    BY <1>6, <2>1 DEF IInv, Separate
<1> QED
  BY <1>1, <1>7, <1>8, <1>9 DEF IInv

LEMMA WelcomeInv ==
    ASSUME IInv, NEW r \in Reqs, Welcome(r)
    PROVE  IInv'
<1> USE DEF Welcome, Goto, request
<1>1. TypeOK'
  BY DEF IInv, TypeOK, InFlight, Stage
<1>2. \A q \in Reqs \ {r} : SameRequest(q)
  BY DEF IInv, TypeOK, SameRequest
<1>3. pc[r] = "mail" /\ pc'[r] = "returned" /\ entered'[r] = entered[r] /\ id'[r] = id[r]
  BY DEF IInv, TypeOK
<1>4. New(r)' = New(r) /\ Changes(r)' = Changes(r) /\ NullRefused(r)' = NullRefused(r)
  BY DEF New, Changes, NullRefused
<1>5. Writing(r) /\ Writing(r)' /\ Changes(r) # {}
  BY <1>3, <1>4 DEF IInv, Stage, Writing
<1>6. Stage(r)'
  BY <1>3, <1>4, <1>5 DEF IInv, Stage
<1>7. \A q \in Reqs \ {r} : Separate(q, r)'
  BY <1>2, <1>3, <1>5, Unmoved DEF IInv, Separate, SameRequest
<1> QED
  BY <1>1, <1>2, <1>3, <1>4, <1>6, <1>7, LocalStep

-----------------------------------------------------------------------------
\* What is committed is a whole profile, and nobody else has a value of it.
LEMMA CommitWrites ==
    ASSUME IInv, NEW r \in Reqs, Commit(r), Changes(r) # {}
    PROVE  /\ id[r] \in Ids /\ entered[r] = Columns /\ Writing(r)
           /\ New(r) \in Profile /\ New(r) # NoAccount
           /\ account' = [account EXCEPT ![id[r]] = New(r)]
           /\ \A y \in Ids \ {id[r]} :
                 account[y] # NoAccount => \A c \in Columns : account[y][c] # New(r)[c]
<1>1. pc[r] = "returned" /\ Writing(r) /\ id[r] \in Ids /\ entered[r] = Columns
  BY DEF Commit, IInv, Stage, Writing
<1>2. New(r) \in Profile
  <2> SUFFICES ASSUME NEW c \in Columns PROVE New(r)[c] \in Values
    BY DEF New, Profile
  <2>1. CASE c \in Changes(r)
    <3>1. ask[r][c] \in Values \cup {Null, Unset}
      BY DEF IInv, TypeOK, Asks
    <3>2. ask[r][c] # Unset /\ ask[r][c] # Null
      BY <1>1, <2>1 DEF IInv, Stage, NullRefused, Changes
    <3> QED
      BY <2>1, <3>1, <3>2 DEF New
  <2>2. CASE c \notin Changes(r)
    <3>1. kind[r] = "update"
      <4>1. kind[r] \in {"register", "update"}
        BY DEF IInv, TypeOK
      <4>2. ASSUME kind[r] = "register" PROVE FALSE
        <5>1. ask[r][c] \in Values
          BY <1>1, <4>2 DEF IInv, Stage, Profile
        <5> QED
          BY <2>2, <4>2, <5>1, ValuesAssumption DEF Changes
      <4> QED
        BY <4>1, <4>2
    <3>2. account[id[r]] \in Profile
      BY <1>1, <3>1 DEF IInv, Stage, TypeOK
    <3> QED
      BY <2>2, <3>2 DEF New, Profile
  <2> QED
    BY <2>1, <2>2
<1>3. New(r) # NoAccount
  BY <1>2, NoAccountAssumption DEF Profile
<1>4. \A y \in Ids \ {id[r]} :
        account[y] # NoAccount => \A c \in Columns : account[y][c] # New(r)[c]
  BY <1>1 DEF IInv, Claim
<1> QED
  BY <1>1, <1>2, <1>3, <1>4 DEF Commit

LEMMA CommitInv ==
    ASSUME IInv, NEW r \in Reqs, Commit(r)
    PROVE  IInv'
<1> USE DEF Commit, Close, Goto
<1>1. pc[r] = "returned" /\ pc'[r] = "idle" /\ entered'[r] = {} /\ id'[r] = NoId
  BY DEF IInv, TypeOK
<1>2. \A q \in Reqs \ {r} : SameRequest(q)
  BY DEF IInv, TypeOK, SameRequest
<1>3. /\ pc' \in [Reqs -> {"idle"} \cup InFlight] /\ kind' \in [Reqs -> {"register", "update"}]
      /\ id' \in [Reqs -> Ids \cup {NoId}] /\ ask' \in [Reqs -> Asks]
      /\ loaded' \in [Reqs -> Profile \cup {NoAccount}] /\ entered' \in [Reqs -> SUBSET Columns]
      /\ mailed' \subseteq Ids /\ raced' \in [Reqs -> BOOLEAN]
  BY DEF IInv, TypeOK, NoAsk, Asks
<1>4. Stage(r)' /\ Claim(r)'
  BY <1>1 DEF Stage, Claim, Writing
<1>5. \A q \in Reqs : q # r => Separate(q, r)' /\ Separate(r, q)'
  BY <1>1 DEF Separate, Writing
<1>6. \A q \in Reqs \ {r} : /\ Changes(q)' = Changes(q) /\ NullRefused(q)' = NullRefused(q)
                            /\ Writing(q)' = Writing(q)
  BY <1>2 DEF SameRequest, Changes, NullRefused, Writing
<1>7. \A q, s \in Reqs \ {r} : q # s => Separate(q, s)'
  BY <1>2, <1>6 DEF IInv, Separate, SameRequest
<1>8. CASE Changes(r) = {}
  <2>1. account' = account
    BY <1>8
  <2>2. TypeOK'
    BY <1>3, <2>1 DEF IInv, TypeOK
  <2> QED
    BY <1>1, <1>2, <1>4, <1>5, <2>1, <2>2, LocalStep
<1>9. CASE Changes(r) # {}
  <2>1. TypeOK'
    BY <1>3, <1>9, CommitWrites DEF IInv, TypeOK
  <2>2. /\ account'[id[r]] = New(r) /\ New(r) # NoAccount
        /\ \A z \in Ids \ {id[r]} : account'[z] = account[z]
    BY <1>9, CommitWrites DEF IInv, TypeOK
  <2>3. ASSUME NEW q \in Reqs \ {r} PROVE Stage(q)'
    <3>1. pc[q] # "idle" /\ kind[q] = "register" => id[q] \in Ids \ {id[r]}
      BY <1>1 DEF IInv, Stage, Separate
    <3>2. pc[q] # "idle" /\ kind[q] = "register" => account'[id[q]] = NoAccount
      BY <2>2, <3>1 DEF IInv, Stage
    <3>3. pc[q] # "idle" /\ kind[q] = "update" => account'[id[q]] # NoAccount
      BY <2>2 DEF IInv, Stage
    <3> QED
      BY <1>2, <1>6, <3>2, <3>3 DEF IInv, Stage, SameRequest
  <2>4. ASSUME NEW q \in Reqs \ {r}, entered[q] # {}
        PROVE  id[q] \in Ids \ {id[r]} /\ New(q)' = New(q)
    <3>1. Writing(q) /\ Writing(r)
      BY <1>9, <2>4, CommitWrites DEF IInv, Stage
    <3>2. id[q] \in Ids \ {id[r]}
      BY <3>1 DEF IInv, Stage, Separate, Writing
    <3> QED
      BY <1>2, <1>6, <2>2, <3>2 DEF New, SameRequest
  <2>5. ASSUME NEW q \in Reqs \ {r} PROVE Claim(q)'
    <3> SUFFICES ASSUME NEW c \in entered[q]
                 PROVE  /\ \A z \in Ids \ {id[q]} : account'[z] # NoAccount => account'[z][c] # New(q)[c]
                        /\ \A s \in Reqs \ {q} : c \in entered'[s] => New(s)'[c] # New(q)[c]
      BY <1>2, <2>4 DEF Claim, SameRequest
    <3>1. New(r)[c] # New(q)[c]
      BY <1>9, CommitWrites DEF IInv, TypeOK, Claim
    <3>2. \A z \in Ids \ {id[q]} : account'[z] # NoAccount => account'[z][c] # New(q)[c]
      BY <2>2, <3>1 DEF IInv, Claim
    <3>3. \A s \in Reqs \ {q} : c \in entered'[s] => New(s)'[c] # New(q)[c]
      BY <1>1, <1>2, <2>4 DEF IInv, Claim, SameRequest
    <3> QED
      BY <3>2, <3>3
  <2> QED
    BY <1>4, <1>5, <1>7, <2>1, <2>3, <2>5 DEF IInv
<1> QED
  BY <1>8, <1>9

-----------------------------------------------------------------------------
\* The actions of Next, one by one.
LEMMA NextCases ==
    ASSUME Next
    PROVE  \E r \in Reqs :
              \/ Start(r)
              \/ LoadMe(r) \/ CheckPasses(r) \/ NothingToWrite(r) \/ WriteRow(r)
              \/ \E c \in Columns : EnterIndex(r, c)
              \/ Welcome(r) \/ Commit(r) \/ Raise(r)
BY DEF Next, Other, Step, AlreadyExists, NotNullViolated, UniqueViolated, DeadlockVictim, Fail

LEMMA NextInv == IInv /\ [Next]_vars => IInv'
<1> SUFFICES ASSUME IInv, [Next]_vars PROVE IInv'
  OBVIOUS
<1>1. CASE UNCHANGED vars
  BY <1>1 DEF vars, request, IInv, TypeOK, Stage, Separate, Claim, Writing, Changes, New, NullRefused
<1>2. CASE Next
  BY <1>2, NextCases, StartInv, EarlyInv, IndexInv, WelcomeInv, CommitInv, RaiseInv
<1> QED
  BY <1>1, <1>2

LEMMA Invariance == Spec => []IInv
BY InitInv, NextInv, PTL DEF Spec

\* The rows and the requests keep their types.
THEOREM TypeCorrect == Spec => []TypeOK
<1>1. IInv => TypeOK
  BY DEF IInv
<1> QED
  BY <1>1, Invariance, PTL

-----------------------------------------------------------------------------
\* The only step that changes the table is a commit of a row.
LEMMA OnlyCommitWrites ==
    ASSUME Next, account' # account
    PROVE  \E r \in Reqs : Commit(r) /\ Changes(r) # {}
BY NextCases DEF Start, Register, UpdateMe, Begin, LoadMe, CheckPasses, NothingToWrite, WriteRow,
                 EnterIndex, Welcome, Commit, Raise

\* Overlapping registrations and updates of profiles never leave two accounts with
\* one email or one username: the table implements Directory.
THEOREM ImplementsDirectory == Spec => DirectorySpec
<1>1. Init => Book!Init
  BY DEF Init, Book!Init
<1>2. IInv /\ [Next]_vars => [Book!Next]_account
  <2> SUFFICES ASSUME IInv, Next, account' # account PROVE Book!Next
    BY DEF vars
  <2> PICK r \in Reqs : Commit(r) /\ Changes(r) # {}
    BY OnlyCommitWrites
  <2>1. Book!Free(id[r], New(r))
    BY CommitWrites DEF Book!Free
  <2>2. New(r) \in Book!Profile /\ id[r] \in Ids
    BY CommitWrites DEF Profile, Book!Profile
  <2>3. Book!Register(id[r], New(r)) \/ Book!Change(id[r], New(r))
    BY <2>1, CommitWrites DEF Book!Register, Book!Change
  <2> QED
    BY <2>2, <2>3 DEF Book!Next
<1> QED
  BY <1>1, <1>2, Invariance, PTL DEF Spec, DirectorySpec, Book!Spec

-----------------------------------------------------------------------------
\* No two accounts share a value; and while nobody else commits, what the checks
\* of a request have found stays true.
Unique ==
    \A y, z \in Ids : y # z /\ account[y] # NoAccount /\ account[z] # NoAccount =>
        \A c \in Columns : account[y][c] # account[z][c]
Checked(q, c) ==
    pc[q] \in {"flush", "index", "mail", "returned"} \/ (pc[q] = "username" /\ c = "email")
Fresh(q) ==
    raced[q] = FALSE => \A c \in Columns : Checked(q, c) /\ ask[q][c] # Unset => ~ Taken(q, c)
JInv == Unique /\ \A q \in Reqs : Fresh(q)

LEMMA JInvInit == Init => JInv
BY DEF Init, JInv, Unique, Fresh, Checked, Columns

LEMMA JInvKeep ==
    ASSUME IInv, JInv, Next, account' = account
    PROVE  JInv'
<1>1. Unique'
  BY DEF JInv, Unique
<1>2. PICK r \in Reqs :
        \/ Start(r)
        \/ LoadMe(r) \/ CheckPasses(r) \/ NothingToWrite(r) \/ WriteRow(r)
        \/ \E c \in Columns : EnterIndex(r, c)
        \/ Welcome(r) \/ Commit(r) \/ Raise(r)
  BY NextCases
<1>3. \A q \in Reqs \ {r} : SameRequest(q) /\ (raced'[q] = FALSE => raced[q] = FALSE \/ pc'[q] = "idle")
  BY <1>2 DEF Start, Register, UpdateMe, Begin, LoadMe, CheckPasses, NothingToWrite, WriteRow,
              EnterIndex, Welcome, Commit, Raise, Close, Goto, request, IInv, TypeOK, SameRequest
<1>4. \A q \in Reqs \ {r} : Fresh(q)'
  BY <1>3 DEF JInv, Fresh, Checked, Taken, SameRequest
<1>5. Fresh(r)'
  <2>1. CASE Start(r) \/ Raise(r) \/ Commit(r)
    <3>1. pc'[r] \in {"idle", "email", "load"}
      BY <2>1 DEF Start, Register, UpdateMe, Begin, Commit, Raise, Close, Goto, IInv, TypeOK
    <3> QED
      BY <3>1 DEF Fresh, Checked
  <2>2. CASE NothingToWrite(r) \/ WriteRow(r) \/ (\E c \in Columns : EnterIndex(r, c)) \/ Welcome(r)
    <3>1. /\ pc[r] \in {"flush", "index", "mail", "returned"}
          /\ UNCHANGED <<account, id, ask, raced>>
      BY <2>2 DEF NothingToWrite, WriteRow, EnterIndex, Turn, Welcome, request
    <3> QED
      BY <3>1 DEF JInv, Fresh, Checked, Taken
  <2>3. CASE LoadMe(r)
    <3>1. /\ UNCHANGED <<account, id, ask, raced>>
          /\ pc'[r] = "email" \/ (pc'[r] = "username" /\ ask[r]["email"] = Unset)
               \/ (pc'[r] = "flush" /\ ask[r]["email"] = Unset /\ ask[r]["username"] = Unset)
      BY <2>3 DEF LoadMe, AfterEmail, Goto, request, IInv, TypeOK
    <3> QED
      BY <3>1 DEF Fresh, Checked, Columns
  <2>4. CASE CheckPasses(r)
    <3>1. /\ UNCHANGED <<account, id, ask, raced>>
          /\ pc[r] \in Columns /\ ~ Taken(r, pc[r])
          /\ pc[r] = "email" => pc'[r] = "username" \/ (pc'[r] = "flush" /\ ask[r]["username"] = Unset)
      BY <2>4 DEF CheckPasses, AfterEmail, Goto, request, IInv, TypeOK
    <3>2. \A c \in Columns : Taken(r, c)' <=> Taken(r, c)
      BY <3>1 DEF Taken
    <3>3. CASE pc[r] = "email"
      BY <3>1, <3>2, <3>3 DEF Fresh, Checked, Columns
    <3>4. CASE pc[r] = "username"
      BY <3>1, <3>2, <3>4 DEF JInv, Fresh, Checked, Columns
    <3> QED
      BY <3>1, <3>3, <3>4 DEF Columns
  <2> QED
    BY <1>2, <2>1, <2>2, <2>3, <2>4
<1> QED
  BY <1>1, <1>4, <1>5 DEF JInv

LEMMA JInvCommit ==
    ASSUME IInv, JInv, NEW r \in Reqs, Commit(r), Changes(r) # {}
    PROVE  JInv'
<1>1. /\ account'[id[r]] = New(r) /\ New(r) # NoAccount
      /\ \A z \in Ids \ {id[r]} : account'[z] = account[z]
  BY CommitWrites DEF IInv, TypeOK
<1>2. Unique'
  BY <1>1, CommitWrites DEF JInv, Unique
<1>3. \A q \in Reqs : raced'[q] = FALSE => pc'[q] = "idle"
  BY DEF Commit, Close, Goto, IInv, TypeOK
<1>4. \A q \in Reqs : Fresh(q)'
  BY <1>3 DEF Fresh, Checked
<1> QED
  BY <1>2, <1>4 DEF JInv

LEMMA JInvariance == Spec => [](IInv /\ JInv)
<1>1. IInv /\ JInv /\ [Next]_vars => JInv'
  <2> SUFFICES ASSUME IInv, JInv, [Next]_vars PROVE JInv'
    OBVIOUS
  <2>1. CASE UNCHANGED vars
    BY <2>1 DEF vars, request, JInv, Unique, Fresh, Checked, Taken
  <2>2. CASE Next
    BY <2>2, JInvKeep, JInvCommit, OnlyCommitWrites
  <2> QED
    BY <2>1, <2>2
<1> QED
  BY <1>1, JInvInit, InitInv, NextInv, PTL DEF Spec

\* While r has not been overtaken, no committed account has what r is about to enter.
LEMMA NoDuplicate ==
    ASSUME IInv, JInv, NEW r \in Reqs, NEW c \in Columns, pc[r] = "index", ~ raced[r],
           NEW z \in Ids \ {id[r]}, account[z] # NoAccount
    PROVE  account[z][c] # New(r)[c]
<1>1. Checked(r, c) /\ id[r] \in Ids
  BY DEF Checked, IInv, Stage
<1>2. CASE c \in Changes(r)
  <2>1. ask[r][c] # Unset /\ ~ Taken(r, c)
    BY <1>1, <1>2 DEF Changes, JInv, Fresh, IInv, TypeOK
  <2> QED
    BY <1>2, <2>1 DEF New, Taken
<1>3. CASE c \notin Changes(r)
  <2>1. kind[r] # "register"
    <3>1. ASSUME kind[r] = "register" PROVE ask[r][c] # Unset
      BY <3>1, ValuesAssumption DEF IInv, Stage, Profile
    <3> QED
      BY <1>3, <3>1 DEF Changes
  <2>2. account[id[r]] # NoAccount
    BY <2>1 DEF IInv, Stage, TypeOK
  <2>3. New(r)[c] = account[id[r]][c]
    BY <1>3 DEF New
  <2> QED
    BY <1>1, <2>2, <2>3 DEF JInv, Unique
<1> QED
  BY <1>2, <1>3

-----------------------------------------------------------------------------
\* A request that still waits for an index has entered that of the email at most.
Midway == \A q \in Reqs : pc[q] = "index" => "username" \notin entered[q]

LEMMA MidwayNext == IInv /\ Midway /\ [Next]_vars => Midway'
<1> SUFFICES ASSUME IInv, Midway, [Next]_vars PROVE Midway'
  OBVIOUS
<1>1. CASE UNCHANGED vars
  BY <1>1 DEF vars, Midway
<1>2. ASSUME NEW r \in Reqs,
             Start(r) \/ LoadMe(r) \/ CheckPasses(r) \/ NothingToWrite(r) \/ WriteRow(r) \/ Welcome(r)
      PROVE  Midway'
  <2>1. entered' = entered /\ \A q \in Reqs \ {r} : pc'[q] = pc[q]
    BY <1>2 DEF Start, Register, UpdateMe, Begin, LoadMe, CheckPasses, NothingToWrite, WriteRow,
                Welcome, Goto, IInv, TypeOK
  <2>2. pc'[r] = "index" => entered[r] = {}
    BY <1>2 DEF Start, Register, UpdateMe, Begin, LoadMe, CheckPasses, AfterEmail, NothingToWrite,
                WriteRow, Welcome, Goto, IInv, TypeOK, Stage, Writing
  <2> QED
    BY <2>1, <2>2 DEF Midway
<1>3. ASSUME NEW r \in Reqs, NEW c \in Columns, EnterIndex(r, c) PROVE Midway'
  BY <1>3 DEF EnterIndex, Turn, Goto, IInv, TypeOK, Columns, Midway
<1>4. ASSUME NEW r \in Reqs, Commit(r) \/ Raise(r) PROVE Midway'
  BY <1>4 DEF Commit, Raise, Close, Goto, IInv, TypeOK, Midway
<1> QED
  BY <1>1, <1>2, <1>3, <1>4, NextCases

\* Who waits in a cycle waits at an index; a value that it wants there and another
\* row has in the table, was free when it asked.
LEMMA CyclesTakeRaces ==
    ASSUME IInv, JInv, Midway, NEW D \in SUBSET Reqs, Cycle(D)
    PROVE  \E q \in D : raced[q]
<1> SUFFICES ASSUME \A q \in D : ~ raced[q] PROVE FALSE
  OBVIOUS
<1>1. ASSUME NEW r \in D, NEW q \in D, q \in Blockers(r)
      PROVE  pc[q] = "index"
  <2>1. Writing(q)
    BY <1>1 DEF Blockers, RowHolders, IndexHolders
  <2>2. Blockers(q) # {}
    BY DEF Cycle
  <2> QED
    BY <2>1, <2>2 DEF Blockers, Turn, Writing
<1>2. ASSUME NEW r \in D, NEW q \in D, q \in Blockers(r), pc[r] = "index"
      PROVE  "email" \notin entered[r] /\ "email" \in entered[q]
  <2>1. PICK c \in Columns : Turn(r, c) /\ q \in IndexHolders(r, c)
    BY <1>2 DEF Blockers
  <2>2. q # r /\ Writing(q) /\ Writing(r)
    BY <1>2, <2>1 DEF IndexHolders, Writing
  <2>3. id[q] # id[r] /\ id[q] \in Ids /\ (kind[q] = "update" => account[id[q]] # NoAccount)
    BY <2>2 DEF IInv, Separate, Stage, Writing
  <2>4. ~ (kind[q] = "update" /\ account[id[q]][c] = New(r)[c])
    BY <1>2, <2>3, NoDuplicate
  <2>5. c \in entered[q]
    BY <2>1, <2>4 DEF IndexHolders
  <2>6. c = "email"
    BY <1>1, <1>2, <2>5 DEF Midway, Columns
  <2> QED
    BY <2>1, <2>5, <2>6 DEF Turn
<1>3. PICK r \in D : TRUE
  BY DEF Cycle
<1>4. PICK q \in D : q \in Blockers(r)
  BY DEF Cycle
<1>5. PICK p \in D : p \in Blockers(q)
  BY DEF Cycle
<1>6. PICK o \in D : o \in Blockers(p)
  BY DEF Cycle
<1>7. pc[q] = "index" /\ pc[p] = "index"
  BY <1>1, <1>4, <1>5
<1>8. "email" \in entered[p] /\ "email" \notin entered[p]
  BY <1>2, <1>5, <1>6, <1>7
<1> QED
  BY <1>8

\* A request whose checks have passed is refused by a unique index only when another
\* request has written a row since it began, and is aborted for a deadlock only in a
\* cycle where that has happened to one of them.
THEOREM RefusalMeansRace == Spec => RefusedOnlyByRace
<1>1. ASSUME IInv, JInv, NEW r \in Reqs, NEW c \in Columns, UniqueViolated(r, c)
      PROVE  raced[r]
  <2>1. pc[r] = "index"
    BY <1>1 DEF UniqueViolated, Turn
  <2>2. PICK z \in Ids \ {id[r]} : account[z] # NoAccount /\ account[z][c] = New(r)[c]
    BY <1>1 DEF UniqueViolated, Duplicate
  <2> QED
    BY <1>1, <2>1, <2>2, NoDuplicate
<1>2. IInv /\ JInv /\ Midway =>
        \A r \in Reqs :
           /\ (\E c \in Columns : UniqueViolated(r, c)) => raced[r]
           /\ DeadlockVictim(r) =>
                 \A D \in SUBSET Reqs : r \in D /\ Cycle(D) => \E q \in D : raced[q]
  BY <1>1, CyclesTakeRaces
<1>3. Init => Midway
  BY DEF Init, Midway
<1> QED
  BY <1>2, <1>3, MidwayNext, JInvariance, PTL DEF Spec, RefusedOnlyByRace

-----------------------------------------------------------------------------
\* The mail of a registration is queued once, between its INSERT and its commit.
Announced(q) ==
    pc[q] # "idle" /\ kind[q] = "register" => (pc[q] = "returned" <=> id[q] \in mailed)
AInv ==
    /\ \A x \in Ids : account[x] # NoAccount => x \in mailed
    /\ \A q \in Reqs : Announced(q)

LEMMA AInvInit == Init => AInv
BY DEF Init, AInv, Announced

LEMMA RegistrationWrites ==
    ASSUME IInv, NEW r \in Reqs, pc[r] # "idle", kind[r] = "register"
    PROVE  Changes(r) = Columns
<1>1. ask[r] \in Profile
  BY DEF IInv, Stage
<1>2. \A c \in Columns : ask[r][c] # Unset
  BY <1>1, ValuesAssumption DEF Profile
<1> QED
  BY <1>2 DEF Changes

LEMMA AInvNext == IInv /\ AInv /\ [Next]_vars => AInv'
<1> SUFFICES ASSUME IInv, AInv, [Next]_vars PROVE AInv'
  OBVIOUS
<1>1. CASE UNCHANGED vars
  BY <1>1 DEF vars, request, AInv, Announced
<1>2. ASSUME NEW r \in Reqs, Raise(r) PROVE AInv'
  BY <1>2 DEF Raise, Close, Goto, AInv, Announced, IInv, TypeOK
<1>3. ASSUME NEW r \in Reqs, Start(r) PROVE AInv'
  <2>1. UNCHANGED <<account, mailed>> /\ pc'[r] # "returned" /\ (kind'[r] = "register" => id'[r] \notin mailed)
    BY <1>3 DEF Start, Register, UpdateMe, Begin, Goto, IInv, TypeOK
  <2>2. \A q \in Reqs \ {r} : SameRequest(q)
    BY <1>3 DEF Start, Register, UpdateMe, Begin, Goto, IInv, TypeOK, SameRequest
  <2> QED
    BY <2>1, <2>2 DEF AInv, Announced, SameRequest
<1>4. ASSUME NEW r \in Reqs,
             LoadMe(r) \/ CheckPasses(r) \/ WriteRow(r) \/ NothingToWrite(r)
               \/ \E c \in Columns : EnterIndex(r, c)
      PROVE  AInv'
  <2>1. /\ UNCHANGED <<account, mailed, kind, id>> /\ pc[r] \notin {"idle", "returned"}
        /\ \A q \in Reqs \ {r} : pc'[q] = pc[q]
    BY <1>4 DEF LoadMe, CheckPasses, WriteRow, NothingToWrite, EnterIndex, Turn, Goto, request,
                IInv, TypeOK, Columns
  <2>2. kind[r] = "register" => pc'[r] # "returned"
    BY <1>4, <2>1, RegistrationWrites DEF LoadMe, CheckPasses, AfterEmail, WriteRow,
        NothingToWrite, EnterIndex, Turn, Goto, IInv, TypeOK, Columns
  <2> QED
    BY <2>1, <2>2 DEF AInv, Announced
<1>5. ASSUME NEW r \in Reqs, Welcome(r) PROVE AInv'
  <2>1. pc'[r] = "returned" /\ mailed' = mailed \cup {id[r]} /\ UNCHANGED <<account, kind, id>>
    BY <1>5 DEF Welcome, Goto, request, IInv, TypeOK
  <2>2. \A q \in Reqs \ {r} : pc'[q] = pc[q]
    BY <1>5 DEF Welcome, Goto, IInv, TypeOK
  <2>3. \A q \in Reqs \ {r} : pc[q] # "idle" /\ kind[q] = "register" => id[q] # id[r]
    BY <1>5 DEF Welcome, IInv, Separate
  <2> QED
    BY <2>1, <2>2, <2>3 DEF AInv, Announced
<1>6. ASSUME NEW r \in Reqs, Commit(r) PROVE AInv'
  <2>1. pc'[r] = "idle" /\ mailed' = mailed /\ \A q \in Reqs \ {r} : SameRequest(q)
    BY <1>6 DEF Commit, Close, Goto, IInv, TypeOK, SameRequest
  <2>2. account' = account \/ account' = [account EXCEPT ![id[r]] = New(r)]
    BY <1>6 DEF Commit
  <2>3. id[r] \in mailed
    <3>1. CASE kind[r] = "register"
      BY <1>6, <3>1 DEF Commit, AInv, Announced
    <3>2. CASE kind[r] = "update"
      BY <1>6, <3>2 DEF Commit, IInv, Stage, AInv
    <3> QED
      BY <3>1, <3>2 DEF IInv, TypeOK
  <2> QED
    BY <2>1, <2>2, <2>3 DEF AInv, Announced, SameRequest, IInv, TypeOK
<1>7. CASE Next
  BY <1>2, <1>3, <1>4, <1>5, <1>6, <1>7, NextCases
<1> QED
  BY <1>1, <1>7

LEMMA AInvariance == Spec => [](IInv /\ AInv)
BY InitInv, AInvInit, NextInv, AInvNext, PTL DEF Spec

\* No account is committed before its welcome mail has been handed to the broker.
THEOREM MailBeforeCommit == Spec => [](\A x \in Ids : account[x] # NoAccount => x \in mailed)
<1>1. AInv => \A x \in Ids : account[x] # NoAccount => x \in mailed
  BY DEF AInv
<1> QED
  BY <1>1, AInvariance, PTL

-----------------------------------------------------------------------------
\* Among registrations somebody always waits for none of the others.
NoRegistrationCycle ==
    \A D \in SUBSET Reqs :
        D # {} /\ (\A q \in D : kind[q] = "register") => \E r \in D : Blockers(r) \cap D = {}

\* Registrations alone never wait for each other in a cycle, whatever emails and
\* usernames they share: all of them enter the two unique indexes in one order.  A
\* deadlock takes an update of a profile, which holds its old values as well.
THEOREM RegistrationsNeverDeadlock == Spec => []NoRegistrationCycle
<1>1. Init => Midway
  BY DEF Init, Midway
<1>2. IInv /\ Midway => NoRegistrationCycle
  <2> SUFFICES ASSUME IInv, Midway, NEW D \in SUBSET Reqs, D # {}, \A q \in D : kind[q] = "register",
                      \A r \in D : Blockers(r) \cap D # {}
               PROVE  FALSE
    BY DEF NoRegistrationCycle
  <2>1. ASSUME NEW r \in D, NEW q \in D, q \in Blockers(r)
        PROVE  /\ pc[r] = "index"
               /\ \E c \in Columns : Turn(r, c) /\ c \in entered[q]
    <3>1. ~ (pc[r] = "flush" /\ q \in RowHolders(r))
      BY DEF RowHolders, Writing, IInv, Separate
    <3>2. PICK c \in Columns : Turn(r, c) /\ q \in IndexHolders(r, c)
      BY <2>1, <3>1 DEF Blockers
    <3> QED
      BY <3>2 DEF IndexHolders, Turn
  <2>2. PICK r \in D : TRUE
    OBVIOUS
  <2>3. PICK q \in D : q \in Blockers(r)
    OBVIOUS
  <2>4. PICK p \in D : p \in Blockers(q)
    OBVIOUS
  <2>5. PICK o \in D : o \in Blockers(p)
    OBVIOUS
  <2>6. pc[q] = "index" /\ entered[q] = {"email"}
    BY <2>1, <2>3, <2>4 DEF Midway, Columns, IInv, TypeOK
  <2>7. "username" \in entered[p]
    BY <2>1, <2>4, <2>6 DEF Turn, Columns
  <2> QED
    BY <2>1, <2>5, <2>7 DEF Midway
<1> QED
  BY <1>1, <1>2, MidwayNext, Invariance, PTL DEF Spec

-----------------------------------------------------------------------------
(***************************************************************************)
(* The two parts together.  Worked says what is known of a message where   *)
(* it is: one that was tried has an outcome, and the deliveries that were  *)
(* made and those that are still to come, one per child that has not tried *)
(* and one for the queue, are at most one more than its returns.           *)
(***************************************************************************)
InHand(m, c) == at[c] = m
Untried(m) == {c \in Children \ tried : InHand(m, c)}
ToCome(m) == IF m \in queue \/ m \notin mailed THEN 1 ELSE 0
Outcome(m) == delivered[m] > 0 \/ m \in swallowed \/ ~ configured

Counted(m) == delivered[m] + Cardinality(Untried(m)) + ToCome(m) <= 1 + again[m]
Sent(m) ==
    /\ Counted(m)
    /\ m \in acked \/ (\E c \in tried : InHand(m, c)) => Outcome(m)
    /\ m \in queue \cup Mail!Held \cup acked => m \in mailed
    /\ Restores /\ m \in mailed => m \in queue \cup Mail!Held \cup acked
Worked ==
    /\ Mail!TypeOK
    /\ \A c \in tried \cup lapsed : at[c] # NoMail
    /\ \A m \in Ids : Sent(m)

\* A set of children has a size, and one child more or less changes it by one.
LEMMA Sizes ==
    ASSUME NEW S \in SUBSET Children, NEW c
    PROVE  /\ Cardinality(S) \in Nat
           /\ Cardinality(S \cup {c}) = IF c \in S THEN Cardinality(S) ELSE Cardinality(S) + 1
           /\ Cardinality(S \ {c}) = IF c \in S THEN Cardinality(S) - 1 ELSE Cardinality(S)
           /\ \A T \in SUBSET S : Cardinality(T) \in Nat /\ Cardinality(T) <= Cardinality(S)
<1>1. IsFiniteSet(S)
  BY ChildrenAssumption, FS_Subset
<1>2. \A T \in SUBSET S : IsFiniteSet(T) /\ Cardinality(T) <= Cardinality(S)
  BY <1>1, FS_Subset
<1> QED
  BY <1>1, <1>2, FS_CardinalityType, FS_AddElement, FS_RemoveElement

\* Where no attempt is added and nothing is delivered, the count stays.
LEMMA CountKept ==
    ASSUME Worked, NEW m \in Ids, Untried(m)' \subseteq Untried(m),
           delivered'[m] = delivered[m], again'[m] \in Nat,
           ToCome(m)' - ToCome(m) <= again'[m] - again[m]
    PROVE  Counted(m)'
<1>1. Untried(m) \in SUBSET Children
  BY DEF Untried
<1>2. Cardinality(Untried(m)) \in Nat /\ Cardinality(Untried(m)') \in Nat
      /\ Cardinality(Untried(m)') <= Cardinality(Untried(m))
  BY <1>1, Sizes
<1>3. Counted(m) /\ delivered[m] \in Nat /\ again[m] \in Nat
  BY DEF Worked, Sent, Mail!TypeOK
<1>4. ToCome(m) \in 0..1 /\ ToCome(m)' \in 0..1
  BY DEF ToCome
<1> QED
  BY <1>2, <1>3, <1>4 DEF Counted

LEMMA WorkedInit == SystemInit => Worked
<1> SUFFICES ASSUME SystemInit PROVE Worked
  OBVIOUS
<1> USE DEF SystemInit, Init, Mail!Init
<1>1. Mail!TypeOK
  BY MaxLossesAssumption DEF Mail!TypeOK
<1>2. \A c \in tried \cup lapsed : at[c] # NoMail
  OBVIOUS
<1>3. ASSUME NEW m \in Ids PROVE Sent(m)
  <2>1. Untried(m) = {}
    BY NoMailAssumption DEF Untried, InHand
  <2>2. Counted(m)
    BY <2>1, FS_EmptySet DEF Counted, ToCome
  <2> QED
    BY <2>2, NoMailAssumption DEF Sent, InHand, Outcome, Mail!Held
<1> QED
  BY <1>1, <1>2, <1>3 DEF Worked

LEMMA TakeKeeps ==
    ASSUME Worked, UNCHANGED mailed, NEW c \in Children, NEW m \in Ids, Mail!Take(c, m)
    PROVE  Worked'
<1> USE DEF Mail!Take, Mail!history
<1>1. Mail!TypeOK'
  BY DEF Worked, Mail!TypeOK
<1>2. c \notin tried /\ c \notin lapsed
  BY DEF Worked
<1>3. \A d \in tried' \cup lapsed' : at'[d] # NoMail
  BY <1>2 DEF Worked, Mail!TypeOK
<1>4. Counted(m)'
  <2>1. Untried(m)' = Untried(m) \cup {c} /\ c \notin Untried(m)
    BY <1>2, NoMailAssumption DEF Untried, InHand, Worked, Mail!TypeOK
  <2>2. Cardinality(Untried(m)) \in Nat /\ Cardinality(Untried(m)') = Cardinality(Untried(m)) + 1
    <3>1. Untried(m) \in SUBSET Children
      BY DEF Untried
    <3> QED
      BY <2>1, <3>1, Sizes
  <2>3. m \in mailed /\ Counted(m) /\ delivered[m] \in Nat /\ again[m] \in Nat
    BY DEF Worked, Sent, Mail!TypeOK
  <2>4. ToCome(m) = 1 /\ ToCome(m)' = 0
    BY <2>3 DEF ToCome
  <2> QED
    BY <2>2, <2>3, <2>4 DEF Counted
<1>5. ASSUME NEW x \in Ids PROVE Sent(x)'
  <2>1. Counted(x)'
    <3>1. ASSUME x # m PROVE Untried(x)' \subseteq Untried(x) /\ ToCome(x)' = ToCome(x)
      BY <3>1 DEF Untried, InHand, ToCome, Worked, Mail!TypeOK
    <3>2. again[x] \in Nat /\ ToCome(x) \in 0..1
      BY DEF Worked, Mail!TypeOK, ToCome
    <3> QED
      BY <1>4, <3>1, <3>2, CountKept
  <2>2. (\E d \in tried' : InHand(x, d)') => \E d \in tried : InHand(x, d)
    BY <1>2 DEF InHand, Worked, Mail!TypeOK
  <2>3. x \in (queue \cup Mail!Held)' <=> x \in queue \cup Mail!Held
    BY <1>2, NoMailAssumption DEF Mail!Held, Worked, Mail!TypeOK
  <2> QED
    BY <2>1, <2>2, <2>3 DEF Worked, Sent, Outcome
<1> QED
  BY <1>1, <1>3, <1>5 DEF Worked

LEMMA AttemptKeeps ==
    ASSUME Worked, UNCHANGED mailed, NEW c \in Children,
           Mail!Skip(c) \/ Mail!Send(c) \/ Mail!SmtpError(c)
    PROVE  Worked'
<1> USE DEF Mail!Skip, Mail!Send, Mail!SmtpError, Mail!history
<1>1. Mail!TypeOK'
  BY DEF Worked, Mail!TypeOK
<1>2. \A d \in tried' \cup lapsed' : at'[d] # NoMail
  BY DEF Worked
<1>3. /\ UNCHANGED <<queue, at, lapsed, acked, again, configured>> /\ tried' = tried \cup {c}
      /\ c \notin tried /\ at[c] \in Ids
  BY DEF Worked, Mail!TypeOK
<1>4. ASSUME NEW x \in Ids PROVE Sent(x)'
  <2>1. Mail!Held' = Mail!Held /\ ToCome(x)' = ToCome(x) /\ ToCome(x) \in 0..1
    BY <1>3 DEF Mail!Held, ToCome
  <2>2. delivered[x] \in Nat /\ again[x] \in Nat /\ Counted(x)
    BY DEF Worked, Mail!TypeOK, Sent
  <2>3. CASE x = at[c]
    <3>1. Untried(x)' = Untried(x) \ {c} /\ c \in Untried(x) /\ Untried(x) \in SUBSET Children
      BY <1>3, <2>3 DEF Untried, InHand
    <3>2. Cardinality(Untried(x)) \in Nat /\ Cardinality(Untried(x)') = Cardinality(Untried(x)) - 1
      BY <3>1, Sizes
    <3>3. Outcome(x)' /\ delivered'[x] \in Nat /\ delivered'[x] <= delivered[x] + 1
      BY <2>2, <2>3 DEF Outcome, Worked, Mail!TypeOK
    <3>4. Counted(x)'
      BY <1>3, <2>1, <2>2, <3>2, <3>3 DEF Counted
    <3> QED
      BY <1>3, <2>1, <3>3, <3>4 DEF Worked, Sent
  <2>4. CASE x # at[c]
    <3>1. delivered'[x] = delivered[x] /\ (Outcome(x) => Outcome(x)')
      BY <2>4 DEF Outcome, Worked, Mail!TypeOK
    <3>2. (\E d \in tried' : InHand(x, d)') => \E d \in tried : InHand(x, d)
      BY <1>3, <2>4 DEF InHand
    <3>3. Untried(x)' \subseteq Untried(x)
      BY <1>3 DEF Untried, InHand
    <3>4. Counted(x)'
      BY <1>3, <2>1, <2>2, <3>1, <3>3, CountKept
    <3> QED
      BY <1>3, <2>1, <3>1, <3>2, <3>4 DEF Worked, Sent
  <2> QED
    BY <2>3, <2>4
<1> QED
  BY <1>1, <1>2, <1>4 DEF Worked

LEMMA AckKeeps ==
    ASSUME Worked, UNCHANGED mailed, NEW c \in Children, Mail!Ack(c)
    PROVE  Worked'
<1> USE DEF Mail!Ack, Mail!Finished, Mail!history
<1>1. Mail!TypeOK'
  BY DEF Worked, Mail!TypeOK
<1>2. \A d \in tried' \cup lapsed' : at'[d] # NoMail
  BY DEF Worked, Mail!TypeOK
<1>3. ASSUME NEW x \in Ids PROVE Sent(x)'
  <2>1. Untried(x)' \subseteq Untried(x)
    BY NoMailAssumption DEF Untried, InHand, Worked, Mail!TypeOK
  <2>2. ToCome(x)' = ToCome(x) /\ ToCome(x) \in 0..1 /\ again[x] \in Nat
    BY DEF ToCome, Worked, Mail!TypeOK
  <2>3. Counted(x)'
    BY <2>1, <2>2, CountKept
  <2>4. x \in acked' \/ (\E d \in tried' : InHand(x, d)') => x \in acked \/ \E d \in tried : InHand(x, d)
    BY DEF InHand, Worked, Mail!TypeOK
  <2>5. x \in (queue \cup Mail!Held \cup acked)' <=> x \in queue \cup Mail!Held \cup acked
    BY NoMailAssumption DEF Mail!Held, Worked, Mail!TypeOK
  <2> QED
    BY <2>3, <2>4, <2>5 DEF Worked, Sent, Outcome
<1> QED
  BY <1>1, <1>2, <1>3 DEF Worked

\* Messages that come back are counted, whether their child died or still works;
\* without a broker that restores them they are nowhere.
LEMMA ReturnKeeps ==
    ASSUME Worked, UNCHANGED mailed, NEW C \in SUBSET Children, NEW back \in BOOLEAN,
           Restores => back,
           Mail!Die(C, back) \/ \E c \in Children : C = {c} /\ back /\ Mail!Lapse(c)
    PROVE  Worked'
<1> DEFINE B == Mail!Returned(C, back)
<1> USE DEF Mail!Die, Mail!Lapse
<1>0. Mail!Return(C, back)
  OBVIOUS
<1>1. B \subseteq Ids /\ \A m \in B : m \in Mail!Held
  BY NoMailAssumption DEF Mail!Returned, Mail!Held, Worked, Mail!TypeOK
<1>2. Mail!TypeOK'
  <2>1. /\ queue' \subseteq Ids /\ again' \in [Ids -> Nat] /\ losses' \in 0..MaxLosses
        /\ UNCHANGED <<configured, acked, delivered, swallowed>>
    BY <1>0, <1>1, MaxLossesAssumption DEF Mail!Return, Worked, Mail!TypeOK
  <2>2. at' \in [Children -> Ids \cup {NoMail}] /\ tried' \subseteq Children /\ lapsed' \subseteq Children
    BY DEF Worked, Mail!TypeOK
  <2> QED
    BY <2>1, <2>2 DEF Worked, Mail!TypeOK
<1>3. \A d \in tried' \cup lapsed' : at'[d] # NoMail
  BY DEF Worked, Mail!TypeOK
<1>4. /\ UNCHANGED <<delivered, acked, configured, swallowed>>
      /\ queue' = queue \cup B
      /\ \A x \in Ids : again'[x] = IF x \in B THEN again[x] + 1 ELSE again[x]
  BY <1>0 DEF Mail!Return
<1>5. /\ \A d \in Children : at'[d] = at[d] \/ at'[d] = NoMail
      /\ \A d \in Children : d \in tried' => d \in tried
      /\ \A d \in Children : d \in tried /\ at'[d] = at[d] /\ at[d] # NoMail => d \in tried'
      /\ \A d \in Children \ lapsed' : at'[d] # NoMail => d \notin lapsed
      /\ \A d \in Children \ lapsed : d \notin C => d \notin lapsed' /\ at'[d] = at[d]
  BY DEF Worked, Mail!TypeOK
<1>6. ASSUME NEW x \in Ids PROVE Sent(x)'
  <2>1. Untried(x)' \subseteq Untried(x)
    BY <1>5, NoMailAssumption DEF Untried, InHand
  <2>2. /\ again[x] \in Nat /\ again'[x] \in Nat
        /\ ToCome(x)' - ToCome(x) <= again'[x] - again[x]
    BY <1>4 DEF ToCome, Worked, Mail!TypeOK
  <2>3. Counted(x)'
    BY <1>4, <2>1, <2>2, CountKept
  <2>4. (\E d \in tried' : InHand(x, d)') => \E d \in tried : InHand(x, d)
    BY <1>2, <1>5, NoMailAssumption DEF InHand, Mail!TypeOK
  <2>5. x \in Mail!Held' => x \in Mail!Held
    BY <1>5, NoMailAssumption DEF Mail!Held
  <2>6. x \in (queue \cup Mail!Held \cup acked)' => x \in queue \cup Mail!Held \cup acked
    BY <1>1, <1>4, <2>5
  <2>7. Restores /\ x \in Mail!Held => x \in queue' \cup Mail!Held'
    BY <1>4, <1>5, NoMailAssumption DEF Mail!Held, Mail!Returned
  <2> QED
    BY <1>4, <2>3, <2>4, <2>6, <2>7 DEF Worked, Sent, Outcome
<1> QED
  BY <1>2, <1>3, <1>6 DEF Worked

\* A registration hands over a mail that the broker has never had.
LEMMA DelayKeeps ==
    ASSUME IInv, AInv, Worked, NEW r \in Reqs, Delay(r)
    PROVE  Worked'
<1> USE DEF Delay, Mail!Enqueue, Mail!history
<1>1. id[r] \in Ids /\ id[r] \notin mailed /\ mailed' = mailed \cup {id[r]}
  BY DEF Welcome, IInv, Stage, AInv, Announced
<1>2. Mail!TypeOK'
  BY <1>1 DEF Worked, Mail!TypeOK
<1>3. \A d \in tried' \cup lapsed' : at'[d] # NoMail
  BY DEF Worked
<1>4. ASSUME NEW x \in Ids PROVE Sent(x)'
  <2>1. Untried(x)' = Untried(x) /\ Mail!Held' = Mail!Held
    BY DEF Untried, InHand, Mail!Held
  <2>2. ToCome(x)' = ToCome(x) /\ ToCome(x) \in 0..1 /\ again[x] \in Nat
    BY <1>1 DEF ToCome, Worked, Mail!TypeOK
  <2>3. Counted(x)'
    BY <2>1, <2>2, CountKept
  <2>4. (\E d \in tried' : InHand(x, d)') => \E d \in tried : InHand(x, d)
    BY DEF InHand
  <2> QED
    BY <1>1, <2>1, <2>3, <2>4 DEF Worked, Sent, Outcome
<1> QED
  BY <1>2, <1>3, <1>4 DEF Worked

LEMMA OtherMails ==
    ASSUME NEW r \in Reqs, Other(r)
    PROVE  UNCHANGED mailed
BY DEF Other, Start, Register, UpdateMe, Begin, Step, LoadMe, CheckPasses, AlreadyExists,
       NothingToWrite, WriteRow, NotNullViolated, EnterIndex, UniqueViolated, Commit,
       DeadlockVictim, Fail, Raise

LEMMA WorkedSame ==
    ASSUME Worked, UNCHANGED mailed, UNCHANGED mail
    PROVE  Worked'
BY DEF mail, Worked, Sent, Counted, ToCome, Untried, InHand, Outcome, Mail!TypeOK, Mail!Held

SInv == IInv /\ AInv /\ Worked

LEMMA SystemRefinesAccounts == [SystemNext]_systemVars => [Next]_vars
BY DEF SystemNext, systemVars, Delay, Request, Worker, Next

LEMMA SystemNextInv == SInv /\ [SystemNext]_systemVars => SInv'
<1> SUFFICES ASSUME SInv, [SystemNext]_systemVars PROVE SInv'
  OBVIOUS
<1>1. IInv' /\ AInv'
  BY SystemRefinesAccounts, NextInv, AInvNext DEF SInv
<1>2. Worked'
  <2> USE DEF SInv
  <2>1. CASE UNCHANGED systemVars
    BY <2>1, WorkedSame DEF systemVars, vars
  <2>2. ASSUME NEW r \in Reqs, Delay(r) PROVE Worked'
    BY <2>2, DelayKeeps
  <2>3. ASSUME NEW r \in Reqs, Request(r) PROVE Worked'
    BY <2>3, OtherMails, WorkedSame DEF Request
  <2>4. ASSUME Worker PROVE Worked'
    <3>1. UNCHANGED mailed /\ Mail!Progress
      BY <2>4 DEF Worker, vars
    <3>2. ASSUME NEW c \in Children, Mail!Work(c) PROVE Worked'
      BY <3>1, <3>2, TakeKeeps, AttemptKeeps, AckKeeps DEF Mail!Work
    <3>3. ASSUME NEW c \in Children, Mail!ChildLost(c) PROVE Worked'
      <4>1. {c} \in SUBSET Children /\ Mail!Die({c}, TRUE)
        BY <3>3 DEF Mail!ChildLost
      <4> QED
        BY <3>1, <4>1, ReturnKeeps
    <3>4. ASSUME Mail!WorkerKilled PROVE Worked'
      BY <3>1, <3>4, ReturnKeeps, RestoresAssumption DEF Mail!WorkerKilled
    <3>5. ASSUME NEW c \in Children, Mail!Lapse(c) PROVE Worked'
      <4>1. {c} \in SUBSET Children
        OBVIOUS
      <4> QED
        BY <3>1, <3>5, <4>1, ReturnKeeps
    <3> QED
      BY <3>1, <3>2, <3>3, <3>4, <3>5 DEF Mail!Progress
  <2> QED
    BY <2>1, <2>2, <2>3, <2>4 DEF SystemNext
<1> QED
  BY <1>1, <1>2 DEF SInv

LEMMA SystemInvariance == SystemSpec => []SInv
<1>1. SystemInit => SInv
  BY InitInv, AInvInit, WorkedInit DEF SystemInit, SInv
<1> QED
  BY <1>1, SystemNextInv, PTL DEF SystemSpec

\* The composition adds nothing to what the web process may do.
THEOREM SystemImplementsAccounts == SystemSpec => Spec
<1>1. SystemInit => Init
  BY DEF SystemInit
<1> QED
  BY <1>1, SystemRefinesAccounts, PTL DEF SystemSpec, Spec

\* A mail is delivered at most once more than it went back into the queue, whether
\* or not the broker restores what was not acknowledged, and although several
\* children may hold one mail.
THEOREM DuplicatesHaveCauses == SystemSpec => []DuplicateHasCause
<1>1. SInv => DuplicateHasCause
  <2> SUFFICES ASSUME Worked, NEW x \in Ids PROVE delivered[x] <= 1 + again[x]
    BY DEF SInv, DuplicateHasCause
  <2>1. Untried(x) \in SUBSET Children
    BY DEF Untried
  <2>2. Cardinality(Untried(x)) \in Nat
    BY <2>1, Sizes
  <2>3. Counted(x) /\ delivered[x] \in Nat /\ again[x] \in Nat
    BY DEF Worked, Sent, Mail!TypeOK
  <2>4. ToCome(x) \in 0..1
    BY DEF ToCome
  <2> QED
    BY <2>2, <2>3, <2>4 DEF Counted
<1> QED
  BY <1>1, SystemInvariance, PTL

\* Over a broker that restores what a dead worker held, each committed account's
\* welcome mail is on its way or has had an outcome.
THEOREM WelcomesAreTracked == ASSUME Restores PROVE SystemSpec => []WelcomeTracked
<1>1. SInv => WelcomeTracked
  BY DEF SInv, AInv, Worked, Sent, Outcome, WelcomeTracked
<1> QED
  BY <1>1, SystemInvariance, PTL
=============================================================================
