--------------------------- MODULE MigrationsProofs ---------------------------
(***************************************************************************)
(* Proofs about Migrations for any number of instances, operators and      *)
(* crashes.                                                                *)
(*                                                                         *)
(* The scripts are data: the first part settles what is needed of them (an *)
(* upgrade creates each object after what it needs, a rollback drops each  *)
(* one before, and both move the same objects).  The second part follows a *)
(* transaction.  What it has done is measured from Base: the revision that *)
(* it read or, once it holds the row of alembic_version, the committed     *)
(* one, which nobody else can then move.  The last part is about the       *)
(* start-up alone, without rollbacks.                                      *)
(***************************************************************************)
EXTENDS Migrations, TLAPS

First == {"tags", "ix_tags_name", "users", "ix_users_email", "ix_users_username",
          "projects", "ix_projects_owner_id", "taskstatus", "taskpriority", "tasks",
          "ix_tasks_assignee_id", "ix_tasks_project_id", "task_tags"}
Second == {"refresh_tokens", "ix_refresh_tokens_token_hash", "ix_refresh_tokens_user_id"}
Third == {"chat_messages", "ix_chat_messages_recipient_id", "ix_chat_messages_sender_id"}

Prefix(s, k) == {s[i] : i \in 1 .. k}

LEMMA ThreeRevisions == Revisions = {1, 2, 3}
BY DEF Revisions

LEMMA UpElements ==
    Elements(Up[1]) = First /\ Elements(Up[2]) = Second /\ Elements(Up[3]) = Third
BY DEF Up, Elements, First, Second, Third

LEMMA DownElements ==
    Elements(Down[1]) = First \ Types /\ Elements(Down[2]) = Second /\ Elements(Down[3]) = Third
BY DEF Down, Elements, First, Second, Third, Types

LEMMA AllObjects == Objects = First \cup Second \cup Third \cup {Versions}
<1>1. \A x : x \in Objects <=> (\E n \in Revisions : x \in Elements(Up[n])) \/ x = Versions
  BY DEF Objects
<1>2. \A x : x \in Objects <=> x \in First \/ x \in Second \/ x \in Third \/ x = Versions
  BY <1>1, ThreeRevisions, UpElements
<1> QED
  BY <1>2

LEMMA UpToElements ==
    /\ UpTo[0] = {} /\ UpTo[1] = First /\ UpTo[2] = First \cup Second
    /\ UpTo[3] = First \cup Second \cup Third
<1>1. \A n \in 0 .. 3 : UpTo[n] = UNION {Elements(Up[m]) : m \in 1 .. n}
  BY DEF UpTo, Latest
<1>2. 1 .. 0 = {} /\ 1 .. 1 = {1} /\ 1 .. 2 = {1, 2} /\ 1 .. 3 = {1, 2, 3}
  OBVIOUS
<1> QED
  BY <1>1, <1>2, UpElements

LEMMA Lengths == \A n \in Revisions : Len(Up[n]) \in 0 .. 13 /\ Len(Down[n]) \in 0 .. 13
<1> SUFFICES ASSUME NEW n \in {1, 2, 3} PROVE Len(Up[n]) \in 0 .. 13 /\ Len(Down[n]) \in 0 .. 13
  BY ThreeRevisions
<1> QED
  BY DEF Up, Down

LEMMA Below == \A d \in Nat : \A l \in 0 .. 13 : d < l => d + 1 \in 1 .. 13 /\ d + 1 \in 1 .. l
OBVIOUS

\* A script is a list of objects, of which its prefixes grow to all.
LEMMA Scripts ==
    \A n \in Revisions :
        /\ Prefix(Up[n], Len(Up[n])) = Elements(Up[n])
        /\ Prefix(Down[n], Len(Down[n])) = Elements(Down[n])
<1> SUFFICES ASSUME NEW n \in {1, 2, 3}
             PROVE  DOMAIN Up[n] = 1 .. Len(Up[n]) /\ DOMAIN Down[n] = 1 .. Len(Down[n])
  BY ThreeRevisions DEF Prefix, Elements
<1> QED
  BY DEF Up, Down

LEMMA PrefixGrows ==
    \A s : \A k \in Nat : Prefix(s, 0) = {} /\ Prefix(s, k + 1) = Prefix(s, k) \cup {s[k + 1]}
BY DEF Prefix

\* Each revision adds its own objects, and its rollback takes them away but for the types.
LEMMA Steps ==
    /\ \A n \in 0 .. Latest : UpTo[n] \subseteq Objects \ {Versions}
    /\ \A n \in Revisions :
          /\ n - 1 \in 0 .. Latest
          /\ UpTo[n] = UpTo[n - 1] \cup Elements(Up[n]) /\ UpTo[n - 1] \cap Elements(Up[n]) = {}
          /\ Elements(Down[n]) = Elements(Up[n]) \ Types
          /\ Types \subseteq UpTo[n]
<1>1. \A n \in 0 .. Latest : UpTo[n] \subseteq Objects \ {Versions}
  BY UpToElements, AllObjects DEF Latest, Versions, First, Second, Third
<1>2. ASSUME NEW n \in Revisions
      PROVE  /\ n - 1 \in 0 .. Latest
             /\ UpTo[n] = UpTo[n - 1] \cup Elements(Up[n]) /\ UpTo[n - 1] \cap Elements(Up[n]) = {}
             /\ Elements(Down[n]) = Elements(Up[n]) \ Types
             /\ Types \subseteq UpTo[n]
  <2>1. CASE n = 1
    BY <2>1, UpToElements, UpElements, DownElements DEF Latest, First, Types
  <2>2. CASE n = 2
    BY <2>2, UpToElements, UpElements, DownElements DEF Latest, First, Second, Types
  <2>3. CASE n = 3
    BY <2>3, UpToElements, UpElements, DownElements DEF Latest, First, Second, Third, Types
  <2> QED
    BY <2>1, <2>2, <2>3, ThreeRevisions
<1> QED
  BY <1>1, <1>2

\* Later revisions have more, and never only more types.
LEMMA Distinct ==
    \A m, n \in 0 .. Latest :
        /\ m <= n => UpTo[m] \subseteq UpTo[n]
        /\ UpTo[m] \ Types = UpTo[n] \ Types => m = n
<1>1. "users" \in First \ Types
  BY DEF First, Types
<1>2. "refresh_tokens" \in Second \ Types /\ "refresh_tokens" \notin First
  BY DEF First, Second, Types
<1>3. "chat_messages" \in Third \ Types /\ "chat_messages" \notin First \cup Second
  BY DEF First, Second, Third, Types
<1>4. \A n \in 0 .. Latest : n \in {0, 1, 2, 3}
  BY DEF Latest
<1> QED
  BY <1>1, <1>2, <1>3, <1>4, UpToElements

\* An upgrade creates each object once, and after what it needs.
LEMMA UpOrder ==
    \A n \in Revisions : \A k \in 1 .. Len(Up[n]) :
        /\ Up[n][k] \in Objects \ {Versions}
        /\ Up[n][k] \in UpTo[n]
        /\ Up[n][k] \notin UpTo[n - 1] \cup Prefix(Up[n], k - 1)
        /\ Needs[Up[n][k]] \subseteq UpTo[n - 1] \cup Prefix(Up[n], k - 1)
<1> SUFFICES ASSUME NEW n \in Revisions, NEW k \in 1 .. Len(Up[n])
             PROVE  /\ Up[n][k] \in Objects \ {Versions}
                    /\ Up[n][k] \in UpTo[n]
                    /\ Up[n][k] \notin UpTo[n - 1] \cup Prefix(Up[n], k - 1)
                    /\ Needs[Up[n][k]] \subseteq UpTo[n - 1] \cup Prefix(Up[n], k - 1)
  OBVIOUS
<1>1. Up[n][k] \in Elements(Up[n])
  BY Scripts DEF Prefix
<1>2. Up[n][k] \in UpTo[n] /\ Up[n][k] \in Objects \ {Versions} /\ Up[n][k] \notin UpTo[n - 1]
  BY <1>1, Steps DEF Latest, Revisions
<1>3. ASSUME NEW i \in 1 .. k - 1 PROVE Up[n][i] # Up[n][k]
  <2>1. CASE n = 1
    BY <2>1 DEF Up
  <2>2. CASE n = 2
    BY <2>2 DEF Up
  <2>3. CASE n = 3
    BY <2>3 DEF Up
  <2> QED
    BY <2>1, <2>2, <2>3, ThreeRevisions
<1>4. ASSUME NEW z \in Needs[Up[n][k]], z \notin UpTo[n - 1]
      PROVE  \E i \in 1 .. k - 1 : Up[n][i] = z
  <2>1. CASE n = 1
    BY <1>2, <1>4, <2>1 DEF Up, Indexed, References, Needs, Types
  <2>2. CASE n = 2
    BY <1>2, <1>4, <2>2, UpToElements DEF Up, Indexed, References, Needs, First, Second
  <2>3. CASE n = 3
    BY <1>2, <1>4, <2>3, UpToElements DEF Up, Indexed, References, Needs, First, Third
  <2> QED
    BY <2>1, <2>2, <2>3, ThreeRevisions
<1> QED
  BY <1>2, <1>3, <1>4 DEF Prefix

\* A rollback drops each object once, after its indexes and after what refers to it.
LEMMA DownOrder ==
    \A n \in Revisions : \A k \in 1 .. Len(Down[n]) :
        /\ Down[n][k] \in UpTo[n] \ Types
        /\ Down[n][k] \notin Prefix(Down[n], k - 1)
        /\ \A y \in Objects : Down[n][k] \in Indexed(y) => y \in Prefix(Down[n], k - 1)
        /\ \A y \in UpTo[n] \cup Types \cup {Versions} :
              Down[n][k] \in References(y) => y \in Prefix(Down[n], k - 1)
<1> SUFFICES ASSUME NEW n \in Revisions, NEW k \in 1 .. Len(Down[n])
             PROVE  /\ Down[n][k] \in UpTo[n] \ Types
                    /\ Down[n][k] \notin Prefix(Down[n], k - 1)
                    /\ \A y \in Objects : Down[n][k] \in Indexed(y) => y \in Prefix(Down[n], k - 1)
                    /\ \A y \in UpTo[n] \cup Types \cup {Versions} :
                          Down[n][k] \in References(y) => y \in Prefix(Down[n], k - 1)
  OBVIOUS
<1>1. Down[n][k] \in Elements(Down[n])
  BY Scripts DEF Prefix
<1>2. Down[n][k] \in UpTo[n] \ Types
  BY <1>1, Steps
<1>3. ASSUME NEW i \in 1 .. k - 1 PROVE Down[n][i] # Down[n][k]
  <2>1. CASE n = 1
    BY <2>1 DEF Down
  <2>2. CASE n = 2
    BY <2>2 DEF Down
  <2>3. CASE n = 3
    BY <2>3 DEF Down
  <2> QED
    BY <2>1, <2>2, <2>3, ThreeRevisions
<1>4. ASSUME NEW y \in Objects, Down[n][k] \in Indexed(y)
      PROVE  \E i \in 1 .. k - 1 : Down[n][i] = y
  <2>1. CASE n = 1
    BY <1>4, <2>1 DEF Down, Indexed
  <2>2. CASE n = 2
    BY <1>4, <2>2 DEF Down, Indexed
  <2>3. CASE n = 3
    BY <1>4, <2>3 DEF Down, Indexed
  <2> QED
    BY <2>1, <2>2, <2>3, ThreeRevisions
<1>5. ASSUME NEW y \in UpTo[n] \cup Types \cup {Versions}, Down[n][k] \in References(y)
      PROVE  \E i \in 1 .. k - 1 : Down[n][i] = y
  <2>1. CASE n = 1
    BY <1>5, <2>1, UpToElements DEF Down, References, First, Types, Versions
  <2>2. CASE n = 2
    BY <1>5, <2>2 DEF Down, References, Types
  <2>3. CASE n = 3
    BY <1>5, <2>3 DEF Down, References, Types
  <2> QED
    BY <2>1, <2>2, <2>3, ThreeRevisions
<1> QED
  BY <1>2, <1>3, <1>4, <1>5 DEF Prefix

-----------------------------------------------------------------------------
\* What p has done is measured from here.
Base(p) == IF stamped[p] THEN version ELSE rev[p]

\* What it has done of the next revision.
Part(p) ==
    IF rev[p] < goal[p] THEN Prefix(Up[rev[p] + 1], done[p])
    ELSE IF goal[p] < rev[p] THEN Prefix(Down[rev[p]], done[p])
    ELSE {}

Ascends(p) ==
    /\ Base(p) <= rev[p] /\ rev[p] <= goal[p]
    /\ dropped[p] = {}
    /\ made[p] \ {Versions} = (UpTo[rev[p]] \ UpTo[Base(p)]) \cup Part(p)
Descends(p) ==
    /\ goal[p] <= rev[p] /\ rev[p] <= Base(p)
    /\ made[p] \subseteq {Versions}
    /\ dropped[p] = ((UpTo[Base(p)] \ UpTo[rev[p]]) \ Types) \cup Part(p)

Transaction(p) ==
    /\ Versions \in schema \cup made[p]
    /\ rev[p] < goal[p] => done[p] <= Len(Up[rev[p] + 1])
    /\ goal[p] < rev[p] => done[p] <= Len(Down[rev[p]])
    /\ rev[p] = goal[p] => done[p] = 0
    /\ IF stamped[p] THEN version # rev[p] ELSE version = rev[p] \/ raced[p]
    /\ Ascends(p) \/ Descends(p)

Idle(p) == made[p] = {} /\ dropped[p] = {} /\ ~ stamped[p] /\ done[p] = 0

Sound(p) ==
    /\ pc[p] # "ddl" => Idle(p)
    /\ pc[p] \in {"ensure", "create"} => rev[p] = 0 /\ (version = 0 \/ raced[p])
    /\ pc[p] = "create" => Versions \notin schema \/ raced[p]
    /\ p \in Instances /\ pc[p] \in {"ensure", "create", "ddl"} => goal[p] = Latest
    /\ pc[p] = "ddl" => Transaction(p)
    /\ p \in Instances /\ pc[p] \in {"start", "serving"} => version = Latest \/ raced[p]

OneStamps == \A p, q \in Procs : stamped[p] /\ stamped[q] => p = q

IInv == TypeOK /\ SchemaMatchesVersion /\ OneStamps /\ \A p \in Procs : Sound(p)

-----------------------------------------------------------------------------
LEMMA ObjectTypes == Versions \in Objects /\ \A n \in 0 .. Latest : UpTo[n] \subseteq Objects
BY Steps DEF Objects

LEMMA InitInv == Init => IInv
<1> SUFFICES ASSUME Init PROVE IInv
  OBVIOUS
<1>1. TypeOK
  BY ObjectTypes, BoundsAssumption DEF Init, TypeOK, Latest
<1>2. SchemaMatchesVersion
  BY Steps, UpToElements DEF Init, SchemaMatchesVersion, Latest, Revisions
<1>3. OneStamps /\ \A p \in Procs : Sound(p)
  BY DEF Init, OneStamps, Sound, Idle
<1> QED
  BY <1>1, <1>2, <1>3 DEF IInv

LEMMA EndTypes ==
    ASSUME TypeOK, NEW p \in Procs, Forget(p)
    PROVE  /\ rev' \in [Procs -> 0 .. Latest] /\ goal' \in [Procs -> 0 .. Latest]
           /\ done' \in [Procs -> 0 .. 13]
           /\ made' \in [Procs -> SUBSET Objects] /\ dropped' \in [Procs -> SUBSET Objects]
           /\ stamped' \in [Procs -> BOOLEAN]
BY DEF TypeOK, Forget, Latest

\* The statement that a run executes next.
LEMMA NextStatement ==
    ASSUME TypeOK, NEW p \in Procs, InScript(p)
    PROVE  /\ done[p] + 1 \in 1 .. 13
           /\ Upgrading(p) =>
                 /\ rev[p] + 1 \in Revisions /\ done[p] + 1 \in 1 .. Len(Up[rev[p] + 1])
                 /\ Statement(p) = Up[rev[p] + 1][done[p] + 1]
           /\ ~ Upgrading(p) =>
                 /\ goal[p] < rev[p]
                 /\ rev[p] \in Revisions /\ done[p] + 1 \in 1 .. Len(Down[rev[p]])
                 /\ Statement(p) = Down[rev[p]][done[p] + 1]
<1>1. rev[p] \in 0 .. 3 /\ goal[p] \in 0 .. 3 /\ done[p] \in Nat
  BY DEF TypeOK, Latest
<1>2. CASE Upgrading(p)
  <2>1. rev[p] + 1 \in Revisions /\ done[p] < Len(Up[rev[p] + 1])
    BY <1>1, <1>2 DEF InScript, Upgrading, Script, Revisions
  <2>2. Len(Up[rev[p] + 1]) \in 0 .. 13
    BY <2>1, Lengths
  <2>3. done[p] + 1 \in 1 .. 13 /\ done[p] + 1 \in 1 .. Len(Up[rev[p] + 1])
    BY <1>1, <2>1, <2>2, Below, Zenon
  <2> QED
    BY <1>2, <2>1, <2>3 DEF Script, Statement
<1>3. CASE ~ Upgrading(p)
  <2>1. goal[p] < rev[p] /\ rev[p] \in Revisions /\ done[p] < Len(Down[rev[p]])
    BY <1>1, <1>3 DEF InScript, Upgrading, Downgrading, Script, Revisions
  <2>2. Len(Down[rev[p]]) \in 0 .. 13
    BY <2>1, Lengths
  <2>3. done[p] + 1 \in 1 .. 13 /\ done[p] + 1 \in 1 .. Len(Down[rev[p]])
    BY <1>1, <2>1, <2>2, Below, Zenon
  <2> QED
    BY <1>3, <2>1, <2>3 DEF Script, Statement
<1> QED
  BY <1>2, <1>3

LEMMA TypeNext == TypeOK /\ [Next]_vars => TypeOK'
<1> SUFFICES ASSUME TypeOK, [Next]_vars PROVE TypeOK'
  OBVIOUS
<1>0. CASE UNCHANGED vars
  BY <1>0 DEF vars, run, TypeOK
<1>1. ASSUME NEW p \in Procs, Boot(p) PROVE TypeOK'
  BY <1>1, BoundsAssumption DEF Boot, Goto, TypeOK, run
<1>2. ASSUME NEW p \in Procs, NEW g \in Goals(p), Read(p, g) PROVE TypeOK'
  <2>1. g \in 0 .. Latest
    BY DEF Goals, TypeOK, Latest
  <2> QED
    BY <1>2, <2>1 DEF Read, Goto, TypeOK
<1>3. ASSUME NEW p \in Procs, VersionsExist(p) \/ Serve(p) \/ Stop(p) PROVE TypeOK'
  BY <1>3 DEF VersionsExist, Serve, Stop, Goto, TypeOK, run
<1>4. ASSUME NEW p \in Procs, CreateVersions(p) PROVE TypeOK'
  BY <1>4, ObjectTypes DEF CreateVersions, Create, Goto, TypeOK
<1>5. ASSUME NEW p \in Procs, Execute(p) PROVE TypeOK'
  <2>1. InScript(p)
    BY <1>5 DEF Execute
  <2>2. Statement(p) \in Objects /\ done[p] + 1 \in 0 .. 13
    <3>1. CASE Upgrading(p)
      BY <2>1, <3>1, NextStatement, UpOrder
    <3>2. CASE ~ Upgrading(p)
      <4>1. rev[p] \in Revisions /\ done[p] + 1 \in 1 .. Len(Down[rev[p]])
        BY <2>1, <3>2, NextStatement
      <4>2. Statement(p) \in UpTo[rev[p]]
        BY <2>1, <3>2, <4>1, NextStatement, DownOrder
      <4>3. UpTo[rev[p]] \subseteq Objects
        BY <4>1, ObjectTypes DEF Revisions, Latest
      <4> QED
        BY <2>1, <4>2, <4>3, NextStatement
    <3> QED
      BY <3>1, <3>2
  <2>3. made' \in [Procs -> SUBSET Objects] /\ dropped' \in [Procs -> SUBSET Objects]
    <3>1. CASE Upgrading(p)
      BY <1>5, <2>2, <3>1 DEF Execute, Create, TypeOK
    <3>2. CASE ~ Upgrading(p)
      BY <1>5, <2>2, <3>2 DEF Execute, Drop, View, TypeOK
    <3> QED
      BY <3>1, <3>2
  <2> QED
    BY <1>5, <2>2, <2>3 DEF Execute, TypeOK
<1>6. ASSUME NEW p \in Procs, Stamp(p) PROVE TypeOK'
  <2>1. rev'[p] \in 0 .. Latest
    BY <1>6 DEF Stamp, AtStamp, Upgrading, Downgrading, TypeOK, Latest
  <2> QED
    BY <1>6, <2>1 DEF Stamp, TypeOK
<1>7. ASSUME NEW p \in Procs, Refuse(p) \/ DeadlockVictim(p) PROVE TypeOK'
  <2>1. Rollback(p) /\ Goto(p, "off") /\ UNCHANGED <<raced, events>>
    BY <1>7 DEF Refuse, DeadlockVictim, AfterFailure
  <2> QED
    BY <2>1, EndTypes DEF Rollback, Goto, TypeOK
<1>8. ASSUME NEW p \in Procs, Commit(p) PROVE TypeOK'
  <2>1. schema' \subseteq Objects /\ version' \in 0 .. Latest
    BY <1>8 DEF Commit, View, TypeOK
  <2>2. raced' \in [Procs -> BOOLEAN]
    BY <1>8 DEF Commit, TypeOK
  <2> QED
    BY <1>8, <2>1, <2>2, EndTypes DEF Commit, Goto, TypeOK
<1>9. ASSUME NEW p \in Procs, Crash(p) PROVE TypeOK'
  <2>1. events' \in 0 .. MaxEvents
    BY <1>9, BoundsAssumption DEF Crash, TypeOK
  <2> QED
    BY <1>9, <2>1, EndTypes DEF Crash, Rollback, Goto, TypeOK
<1> QED
  BY <1>0, <1>1, <1>2, <1>3, <1>4, <1>5, <1>6, <1>7, <1>8, <1>9 DEF Next, Work

\* Every variable keeps its type: no upgrade goes past the head and no rollback below
\* the base, where there is no revision to run.
THEOREM TypeCorrect == Spec => []TypeOK
<1>1. Init => TypeOK
  BY InitInv DEF IInv
<1> QED
  BY <1>1, TypeNext, PTL DEF Spec

-----------------------------------------------------------------------------
Same(q) ==
    /\ pc'[q] = pc[q] /\ rev'[q] = rev[q] /\ goal'[q] = goal[q] /\ done'[q] = done[q]
    /\ made'[q] = made[q] /\ dropped'[q] = dropped[q]
    /\ stamped'[q] = stamped[q] /\ raced'[q] = raced[q]

\* A step that commits nothing is the business of one process.
LEMMA LocalStep ==
    ASSUME IInv, NEW p \in Procs, TypeOK', UNCHANGED <<schema, version>>,
           \A q \in Procs \ {p} : Same(q),
           Sound(p)', stamped'[p] => stamped[p] \/ StampHolders(p) = {}
    PROVE  IInv'
<1>1. SchemaMatchesVersion'
  BY DEF IInv, SchemaMatchesVersion
<1>2. OneStamps'
  BY DEF IInv, OneStamps, Same, StampHolders
<1>3. ASSUME NEW q \in Procs \ {p} PROVE Sound(q)'
  BY <1>3 DEF IInv, Same, Sound, Idle, Transaction, Ascends, Descends, Base, Part
<1> QED
  BY <1>1, <1>2, <1>3 DEF IInv

LEMMA NoStatement ==
    ASSUME TypeOK', NEW p \in Procs, done'[p] = 0
    PROVE  /\ rev'[p] < goal'[p] => done'[p] <= Len(Up[rev'[p] + 1])
           /\ goal'[p] < rev'[p] => done'[p] <= Len(Down[rev'[p]])
<1>1. rev'[p] \in 0 .. 3 /\ goal'[p] \in 0 .. 3
  BY DEF TypeOK, Latest
<1>2. ASSUME rev'[p] < goal'[p] PROVE done'[p] <= Len(Up[rev'[p] + 1])
  <2>1. rev'[p] + 1 \in Revisions
    BY <1>1, <1>2 DEF Revisions
  <2> QED
    BY <2>1, Lengths
<1>3. ASSUME goal'[p] < rev'[p] PROVE done'[p] <= Len(Down[rev'[p]])
  <2>1. rev'[p] \in Revisions
    BY <1>1, <1>3 DEF Revisions
  <2> QED
    BY <2>1, Lengths
<1> QED
  BY <1>2, <1>3

\* A transaction that has executed no statement of a script.
LEMMA Untouched ==
    ASSUME TypeOK', NEW p \in Procs,
           done'[p] = 0, ~ stamped'[p], dropped'[p] = {}, made'[p] \subseteq {Versions},
           Versions \in schema' \cup made'[p], version' = rev'[p] \/ raced'[p]
    PROVE  Transaction(p)'
<1>1. rev'[p] \in 0 .. 3 /\ goal'[p] \in 0 .. 3
  BY DEF TypeOK, Latest
<1>2. Part(p)' = {} /\ Base(p)' = rev'[p]
  BY PrefixGrows DEF Part, Base
<1> QED
  BY <1>1, <1>2, NoStatement DEF Transaction, Ascends, Descends

LEMMA ReadKeeps ==
    ASSUME IInv, TypeOK', NEW p \in Procs, NEW g \in Goals(p), Read(p, g)
    PROVE  Sound(p)'
<1>1. /\ pc[p] = "read" /\ rev'[p] = version /\ goal'[p] = g /\ ~ raced'[p]
      /\ pc'[p] = (IF version = 0 THEN "ensure" ELSE "ddl")
      /\ UNCHANGED <<schema, version, done, made, dropped, stamped>>
  BY DEF IInv, TypeOK, Read, Goto
<1>2. Idle(p) /\ Idle(p)'
  BY <1>1 DEF IInv, Sound, Idle
<1>3. version # 0 => Versions \in schema
  BY DEF IInv, TypeOK, SchemaMatchesVersion
<1>4. version # 0 => Transaction(p)'
  BY <1>1, <1>2, <1>3, Untouched DEF Idle
<1>5. p \in Instances => g = Latest
  BY DEF Goals
<1> QED
  BY <1>1, <1>2, <1>4, <1>5 DEF Sound

LEMMA VersionsExistKeeps ==
    ASSUME IInv, TypeOK', NEW p \in Procs, VersionsExist(p)
    PROVE  Sound(p)'
<1>1. /\ pc[p] = "ensure" /\ pc'[p] = (IF Versions \in schema THEN "ddl" ELSE "create")
      /\ UNCHANGED <<schema, version, run, raced>>
  BY DEF IInv, TypeOK, VersionsExist, Goto
<1>2. Idle(p) /\ rev[p] = 0 /\ (version = 0 \/ raced[p]) /\ (p \in Instances => goal[p] = Latest)
  BY <1>1 DEF IInv, Sound
<1>3. Idle(p)'
  BY <1>1, <1>2 DEF Idle, run
<1>4. Versions \in schema => Transaction(p)'
  BY <1>1, <1>2, <1>3, Untouched DEF Idle, run
<1> QED
  BY <1>1, <1>2, <1>3, <1>4 DEF Sound, run

LEMMA CreateVersionsKeeps ==
    ASSUME IInv, TypeOK', NEW p \in Procs, CreateVersions(p)
    PROVE  Sound(p)'
<1>1. /\ pc[p] = "create" /\ pc'[p] = "ddl"
      /\ made'[p] = made[p] \cup {Versions} /\ dropped'[p] = dropped[p] \ {Versions}
      /\ UNCHANGED <<schema, version, rev, goal, done, stamped, raced>>
  BY DEF IInv, TypeOK, CreateVersions, Create, Goto
<1>2. Idle(p) /\ rev[p] = 0 /\ (version = 0 \/ raced[p]) /\ (p \in Instances => goal[p] = Latest)
  BY <1>1 DEF IInv, Sound
<1>3. Transaction(p)'
  BY <1>1, <1>2, Untouched DEF Idle
<1> QED
  BY <1>1, <1>2, <1>3 DEF Sound

\* Whatever ends the connection of p before its commit leaves nothing of it.
LEMMA EndKeeps ==
    ASSUME IInv, TypeOK', NEW p \in Procs, Rollback(p), Goto(p, "off"), UNCHANGED raced
    PROVE  Sound(p)' /\ ~ stamped'[p] /\ \A q \in Procs \ {p} : Same(q)
<1>1. pc'[p] = "off" /\ Idle(p)'
  BY DEF IInv, TypeOK, Rollback, Forget, Goto, Idle
<1>2. \A q \in Procs \ {p} : Same(q)
  BY DEF IInv, TypeOK, Rollback, Forget, Goto, Same
<1> QED
  BY <1>1, <1>2 DEF Sound, Idle

\* What the two directions have in common.
LEMMA InTransaction ==
    ASSUME IInv, NEW p \in Procs, pc[p] = "ddl"
    PROVE  /\ Transaction(p) /\ (p \in Instances => goal[p] = Latest)
           /\ rev[p] \in 0 .. 3 /\ goal[p] \in 0 .. 3 /\ done[p] \in Nat
           /\ Base(p) \in 0 .. 3 /\ version \in 0 .. 3
           /\ rev[p] < goal[p] => Ascends(p)
           /\ goal[p] < rev[p] => Descends(p)
<1>1. Transaction(p) /\ (p \in Instances => goal[p] = Latest)
  BY DEF IInv, Sound
<1>2. rev[p] \in 0 .. 3 /\ goal[p] \in 0 .. 3 /\ done[p] \in Nat /\ version \in 0 .. 3
  BY DEF IInv, TypeOK, Latest
<1>3. Ascends(p) \/ Descends(p)
  BY <1>1 DEF Transaction
<1> QED
  BY <1>1, <1>2, <1>3 DEF Base, Ascends, Descends

LEMMA ExecuteUpKeeps ==
    ASSUME IInv, TypeOK', NEW p \in Procs, Execute(p), Upgrading(p)
    PROVE  Sound(p)'
<1> DEFINE x == Statement(p)
<1>1. /\ pc[p] = "ddl" /\ rev[p] < goal[p] /\ InScript(p)
      /\ made'[p] = made[p] \cup {x} /\ dropped'[p] = dropped[p] \ {x} /\ done'[p] = done[p] + 1
      /\ UNCHANGED <<schema, version, pc, rev, goal, stamped, raced>>
  BY DEF IInv, TypeOK, Execute, Create, Upgrading
<1>2. /\ rev[p] + 1 \in Revisions /\ done[p] + 1 \in 1 .. Len(Up[rev[p] + 1])
      /\ x = Up[rev[p] + 1][done[p] + 1]
  BY <1>1, NextStatement DEF IInv
<1>3. x # Versions
  BY <1>2, UpOrder
<1>4. Transaction(p) /\ Ascends(p) /\ (p \in Instances => goal[p] = Latest) /\ done[p] \in Nat
      /\ rev[p] \in 0 .. 3 /\ goal[p] \in 0 .. 3
  BY <1>1, InTransaction
<1>5. Part(p) = Prefix(Up[rev[p] + 1], done[p]) /\ Part(p)' = Prefix(Up[rev[p] + 1], done[p] + 1)
  BY <1>1 DEF Part
<1>6. Part(p)' = Part(p) \cup {x}
  <2>1. Part(p)' = Part(p) \cup {Up[rev[p] + 1][done[p] + 1]}
    BY <1>4, <1>5, PrefixGrows
  <2> QED
    BY <1>2, <2>1
<1>7. Base(p)' = Base(p)
  BY <1>1 DEF Base
<1>8. Ascends(p)'
  BY <1>1, <1>3, <1>4, <1>6, <1>7 DEF Ascends
<1>9. done'[p] <= Len(Up[rev'[p] + 1])
  BY <1>1, <1>2
<1>10. Transaction(p)'
  BY <1>1, <1>4, <1>8, <1>9 DEF Transaction
<1> QED
  BY <1>1, <1>4, <1>10 DEF Sound

\* With the table that a statement drops goes nothing else: its indexes are gone already.
LEMMA ExecuteDownKeeps ==
    ASSUME IInv, TypeOK', NEW p \in Procs, Execute(p), ~ Upgrading(p)
    PROVE  Sound(p)'
<1> DEFINE x == Statement(p)
           gone == {x} \cup {y \in View(p) : x \in Needs[y]}
<1>1. /\ InScript(p) /\ Drop(p, x) /\ done'[p] = done[p] + 1
      /\ UNCHANGED <<schema, version, pc, rev, goal, stamped, raced>>
  BY DEF IInv, TypeOK, Execute
<1>2. pc[p] = "ddl"
  BY <1>1 DEF InScript, Upgrading, Downgrading
<1>3. made'[p] = made[p] \ gone /\ dropped'[p] = dropped[p] \cup gone
  BY <1>1 DEF IInv, TypeOK, Drop
<1>4. /\ goal[p] < rev[p] /\ rev[p] \in Revisions
      /\ done[p] + 1 \in 1 .. Len(Down[rev[p]]) /\ x = Down[rev[p]][done[p] + 1]
  BY <1>1, NextStatement DEF IInv
<1>5. Transaction(p) /\ Descends(p) /\ (p \in Instances => goal[p] = Latest) /\ done[p] \in Nat
      /\ rev[p] \in 0 .. 3 /\ goal[p] \in 0 .. 3
  BY <1>2, <1>4, InTransaction
<1>6. Part(p) = Prefix(Down[rev[p]], done[p]) /\ Part(p)' = Prefix(Down[rev[p]], done[p] + 1)
  BY <1>1, <1>4, <1>5 DEF Part
<1>7. Part(p)' = Part(p) \cup {x} /\ Part(p) \subseteq dropped[p]
  BY <1>4, <1>5, <1>6, PrefixGrows DEF Descends
<1>8. gone = {x}
  <2>1. ASSUME NEW y \in View(p), x \in Needs[y] PROVE FALSE
    <3>1. y \in Objects
      BY DEF IInv, TypeOK, View
    <3>2. x \in Indexed(y) \/ x \in References(y)
      BY <2>1, <3>1 DEF Needs
    <3>3. x \notin References(y)
      BY <1>1, <2>1 DEF Drop, Undroppable
    <3>4. y \in Prefix(Down[rev[p]], done[p])
      <4>1. y \in Prefix(Down[rev[p]], (done[p] + 1) - 1)
        BY <1>4, <3>1, <3>2, <3>3, DownOrder
      <4> QED
        BY <4>1, <1>5
    <3> QED
      BY <1>6, <1>7, <2>1, <3>4 DEF View
  <2> QED
    BY <2>1
<1>9. x \notin {Versions}
  <2>1. x \in UpTo[rev[p]] /\ rev[p] \in 0 .. Latest
    BY <1>4, DownOrder DEF Revisions, Latest
  <2> QED
    BY <2>1, Steps
<1>10. Base(p)' = Base(p)
  BY <1>1 DEF Base
<1>11. Descends(p)'
  BY <1>1, <1>3, <1>5, <1>7, <1>8, <1>10 DEF Descends
<1>12. done'[p] <= Len(Down[rev'[p]])
  BY <1>1, <1>4
<1>13. Versions \in schema \cup made'[p]
  BY <1>3, <1>5, <1>8, <1>9 DEF Transaction
<1>14. Transaction(p)'
  BY <1>1, <1>4, <1>5, <1>11, <1>12, <1>13 DEF Transaction
<1> QED
  BY <1>1, <1>2, <1>5, <1>14 DEF Sound

\* The last statement of a revision has brought p to the next one.
LEMMA StampKeeps ==
    ASSUME IInv, TypeOK', NEW p \in Procs, Stamp(p)
    PROVE  Sound(p)'
<1>1. /\ pc[p] = "ddl" /\ AtStamp(p) /\ (stamped[p] \/ version = rev[p])
      /\ rev'[p] = (IF rev[p] < goal[p] THEN rev[p] + 1 ELSE rev[p] - 1)
      /\ done'[p] = 0 /\ stamped'[p]
      /\ UNCHANGED <<schema, version, pc, goal, made, dropped, raced>>
  BY DEF IInv, TypeOK, Stamp, StaleVersion, AtStamp, Upgrading, Downgrading
<1>2. /\ Transaction(p) /\ (p \in Instances => goal[p] = Latest) /\ done[p] \in Nat
      /\ rev[p] \in 0 .. 3 /\ goal[p] \in 0 .. 3 /\ Base(p) \in 0 .. 3
      /\ rev[p] < goal[p] => Ascends(p)
      /\ goal[p] < rev[p] => Descends(p)
  BY <1>1, InTransaction
<1>3. Base(p)' = Base(p) /\ Base(p)' = version
  BY <1>1 DEF Base
<1>4. Part(p)' = {}
  BY <1>1, PrefixGrows DEF Part
<1>5. CASE rev[p] < goal[p]
  <2>1. rev[p] + 1 \in Revisions /\ rev'[p] = rev[p] + 1
    BY <1>1, <1>2, <1>5 DEF Revisions
  <2>2. Part(p) = Elements(Up[rev[p] + 1])
    <3>1. done[p] = Len(Up[rev[p] + 1])
      BY <1>1, <1>5 DEF AtStamp, Upgrading, Script
    <3> QED
      BY <1>5, <2>1, <3>1, Scripts DEF Part
  <2>3. Part(p) = UpTo[rev[p] + 1] \ UpTo[rev[p]] /\ UpTo[rev[p]] \subseteq UpTo[rev[p] + 1]
    <3>1. rev[p] = (rev[p] + 1) - 1
      BY <1>2
    <3> QED
      BY <2>1, <2>2, <3>1, Steps
  <2>4. UpTo[Base(p)] \subseteq UpTo[rev[p]]
    BY <1>2, <1>5, Distinct DEF Ascends, Latest
  <2>5. Ascends(p)'
    BY <1>1, <1>2, <1>3, <1>4, <1>5, <2>1, <2>3, <2>4 DEF Ascends
  <2>6. version # rev'[p]
    BY <1>2, <1>3, <1>5, <2>1 DEF Ascends
  <2> QED
    BY <1>1, <1>2, <1>5, <2>1, <2>5, <2>6, NoStatement DEF Sound, Transaction
<1>6. CASE ~ (rev[p] < goal[p])
  <2>1. rev[p] \in Revisions /\ rev'[p] = rev[p] - 1 /\ goal[p] < rev[p]
    BY <1>1, <1>2, <1>6 DEF AtStamp, Upgrading, Downgrading, Revisions
  <2>2. Part(p) = Elements(Down[rev[p]])
    <3>1. done[p] = Len(Down[rev[p]])
      BY <1>1, <1>6 DEF AtStamp, Upgrading, Script
    <3> QED
      BY <1>6, <2>1, <3>1, Scripts DEF Part
  <2>3. /\ Part(p) = (UpTo[rev[p]] \ UpTo[rev[p] - 1]) \ Types
        /\ UpTo[rev[p] - 1] \subseteq UpTo[rev[p]]
    BY <2>1, <2>2, Steps
  <2>4. UpTo[rev[p]] \subseteq UpTo[Base(p)]
    BY <1>2, <2>1, Distinct DEF Descends, Latest
  <2>5. Descends(p)'
    BY <1>1, <1>2, <1>3, <1>4, <2>1, <2>3, <2>4 DEF Descends
  <2>6. version # rev'[p]
    BY <1>2, <1>3, <2>1 DEF Descends
  <2> QED
    BY <1>1, <1>2, <2>1, <2>5, <2>6, NoStatement DEF Sound, Transaction
<1> QED
  BY <1>5, <1>6

\* What a commit makes of the schema: without a new version, at most the table of
\* versions is new; with one, the tables and indexes are those of the new version.
LEMMA Committed ==
    ASSUME IInv, NEW p \in Procs, Commit(p)
    PROVE  /\ Versions \in schema' /\ SchemaMatchesVersion'
           /\ version' = (IF stamped[p] THEN rev[p] ELSE version)
           /\ version' # version => schema' # schema
<1>1. /\ pc[p] = "ddl" /\ rev[p] = goal[p] /\ schema' = View(p)
      /\ version' = (IF stamped[p] THEN rev[p] ELSE version)
  BY DEF Commit
<1>2. /\ Transaction(p) /\ rev[p] \in 0 .. 3 /\ Base(p) \in 0 .. 3 /\ version \in 0 .. 3
  BY <1>1, InTransaction
<1>3. Part(p) = {}
  BY <1>1, <1>2 DEF Part
<1>4. \/ /\ Base(p) <= rev[p] /\ dropped[p] = {}
         /\ made[p] \ {Versions} = UpTo[rev[p]] \ UpTo[Base(p)]
      \/ /\ rev[p] <= Base(p) /\ made[p] \subseteq {Versions}
         /\ dropped[p] = (UpTo[Base(p)] \ UpTo[rev[p]]) \ Types
  BY <1>2, <1>3 DEF Transaction, Ascends, Descends
<1>5. \A n \in 0 .. 3 : Versions \notin UpTo[n] /\ (n > 0 => Types \subseteq UpTo[n])
  BY Steps DEF Revisions, Latest
<1>6. Versions \in schema'
  BY <1>1, <1>2, <1>4, <1>5 DEF Transaction, View
<1>7. /\ schema \ (Types \cup {Versions}) = UpTo[version] \ Types
      /\ version > 0 => Types \cup {Versions} \subseteq schema
  BY DEF IInv, SchemaMatchesVersion
<1>8. CASE ~ stamped[p]
  <2>1. made[p] \subseteq {Versions} /\ dropped[p] = {}
    BY <1>4, <1>8 DEF Base
  <2> QED
    BY <1>1, <1>6, <1>7, <1>8, <2>1 DEF View, SchemaMatchesVersion
<1>9. CASE stamped[p]
  <2>1. Base(p) = version /\ version' = rev[p] /\ version # rev[p]
    BY <1>1, <1>2, <1>9 DEF Base, Transaction
  <2>2. \A m, n \in 0 .. 3 : /\ m <= n => UpTo[m] \subseteq UpTo[n]
                             /\ UpTo[m] \ Types = UpTo[n] \ Types => m = n
    BY Distinct DEF Latest
  <2>3. schema' \ (Types \cup {Versions}) = UpTo[rev[p]] \ Types
    <3>1. CASE /\ version <= rev[p] /\ dropped[p] = {}
               /\ made[p] \ {Versions} = UpTo[rev[p]] \ UpTo[version]
      <4>1. UpTo[version] \subseteq UpTo[rev[p]]
        BY <1>2, <2>2, <3>1
      <4> QED
        BY <1>1, <1>2, <1>5, <1>7, <3>1, <4>1 DEF View
    <3>2. CASE /\ rev[p] <= version /\ made[p] \subseteq {Versions}
               /\ dropped[p] = (UpTo[version] \ UpTo[rev[p]]) \ Types
      <4>1. UpTo[rev[p]] \subseteq UpTo[version]
        BY <1>2, <2>2, <3>2
      <4> QED
        BY <1>1, <1>2, <1>5, <1>7, <3>2, <4>1 DEF View
    <3> QED
      BY <1>4, <2>1, <3>1, <3>2
  <2>4. ASSUME rev[p] > 0 PROVE Types \subseteq schema'
    <3>1. CASE version = 0
      <4>1. made[p] \ {Versions} = UpTo[rev[p]] /\ dropped[p] = {}
        BY <1>2, <1>4, <2>1, <2>4, <3>1, UpToElements
      <4> QED
        BY <1>1, <1>2, <1>5, <2>4, <4>1 DEF View
    <3>2. CASE version # 0
      <4>1. Types \subseteq schema /\ Types \cap dropped[p] = {}
        BY <1>2, <1>4, <1>7, <3>2
      <4> QED
        BY <1>1, <4>1 DEF View
    <3> QED
      BY <3>1, <3>2
  <2>5. SchemaMatchesVersion'
    BY <1>2, <1>6, <2>1, <2>3, <2>4 DEF SchemaMatchesVersion
  <2>6. schema' # schema
    BY <1>2, <1>7, <2>1, <2>2, <2>3
  <2> QED
    BY <1>1, <1>6, <2>5, <2>6
<1> QED
  BY <1>8, <1>9

LEMMA CommitKeeps ==
    ASSUME IInv, TypeOK', NEW p \in Procs, Commit(p)
    PROVE  IInv'
<1>1. /\ pc[p] = "ddl" /\ rev[p] = goal[p] /\ schema' = View(p)
      /\ \A q \in Procs : raced'[q] = (raced[q] \/ (q # p /\ schema' # schema))
  BY DEF Commit
<1>2. /\ pc'[p] = (IF p \in Instances THEN "start" ELSE "off")
      /\ made'[p] = {} /\ dropped'[p] = {} /\ ~ stamped'[p] /\ done'[p] = 0
      /\ \A q \in Procs \ {p} :
            /\ pc'[q] = pc[q] /\ rev'[q] = rev[q] /\ goal'[q] = goal[q] /\ done'[q] = done[q]
            /\ made'[q] = made[q] /\ dropped'[q] = dropped[q] /\ stamped'[q] = stamped[q]
  BY DEF IInv, TypeOK, Commit, Forget, Goto
<1>3. /\ Versions \in schema' /\ SchemaMatchesVersion'
      /\ version' = (IF stamped[p] THEN rev[p] ELSE version)
      /\ version' # version => schema' # schema
  BY Committed
<1>4. OneStamps'
  BY <1>2 DEF IInv, OneStamps
<1>5. Sound(p)'
  <2>1. Transaction(p) /\ (p \in Instances => goal[p] = Latest)
    BY <1>1, InTransaction
  <2>2. p \in Instances => version' = Latest \/ raced'[p]
    BY <1>1, <1>3, <2>1 DEF Transaction
  <2> QED
    BY <1>2, <2>2 DEF Sound, Idle
<1>6. ASSUME NEW q \in Procs \ {p} PROVE Sound(q)'
  <2>1. Sound(q) /\ (stamped[q] => version' = version)
    BY <1>3, <1>6 DEF IInv, OneStamps
  <2>2. /\ raced[q] => raced'[q]
        /\ raced'[q] \/ (schema' = schema /\ version' = version)
    <3>1. q # p /\ raced'[q] = (raced[q] \/ (q # p /\ schema' # schema))
      BY <1>1, <1>6
    <3> QED
      BY <1>3, <3>1
  <2>3. ASSUME pc[q] = "ddl" PROVE Transaction(q)'
    <3>1. Transaction(q)
      BY <2>1, <2>3 DEF Sound
    <3>2. Base(q)' = Base(q) /\ Part(q)' = Part(q)
      BY <1>2, <2>1 DEF Base, Part
    <3>3. Ascends(q)' \/ Descends(q)'
      BY <1>2, <3>1, <3>2 DEF Transaction, Ascends, Descends
    <3> QED
      BY <1>2, <1>3, <2>1, <2>2, <3>1, <3>3 DEF Transaction
  <2>4. Idle(q)' = Idle(q)
    BY <1>2 DEF Idle
  <2> QED
    BY <1>2, <2>1, <2>2, <2>3, <2>4 DEF Sound
<1> QED
  BY <1>3, <1>4, <1>5, <1>6 DEF IInv

LEMMA InvNext == IInv /\ [Next]_vars => IInv'
<1> SUFFICES ASSUME IInv, [Next]_vars PROVE IInv'
  OBVIOUS
<1>1. TypeOK'
  BY TypeNext DEF IInv
<1>2. CASE UNCHANGED vars
  BY <1>1, <1>2
     DEF IInv, vars, run, SchemaMatchesVersion, OneStamps, Sound, Idle, Transaction, Ascends,
         Descends, Base, Part
<1>3. ASSUME NEW p \in Procs, Boot(p) PROVE IInv'
  <2>1. /\ pc[p] = "off" /\ pc'[p] = "read" /\ UNCHANGED <<schema, version, run, raced>>
        /\ \A q \in Procs \ {p} : Same(q)
    BY <1>3 DEF Boot, Goto, IInv, TypeOK, run, Same
  <2>2. Sound(p)'
    BY <2>1 DEF IInv, Sound, Idle, run
  <2> QED
    BY <1>1, <2>1, <2>2, LocalStep DEF run
<1>4. ASSUME NEW p \in Procs, NEW g \in Goals(p), Read(p, g) PROVE IInv'
  <2>1. UNCHANGED <<schema, version, stamped>> /\ \A q \in Procs \ {p} : Same(q)
    BY <1>4 DEF Read, Goto, IInv, TypeOK, Same
  <2> QED
    BY <1>1, <1>4, <2>1, ReadKeeps, LocalStep
<1>5. ASSUME NEW p \in Procs, VersionsExist(p) PROVE IInv'
  <2>1. UNCHANGED <<schema, version, stamped>> /\ \A q \in Procs \ {p} : Same(q)
    BY <1>5 DEF VersionsExist, Goto, IInv, TypeOK, Same, run
  <2> QED
    BY <1>1, <1>5, <2>1, VersionsExistKeeps, LocalStep
<1>6. ASSUME NEW p \in Procs, CreateVersions(p) PROVE IInv'
  <2>1. UNCHANGED <<schema, version, stamped>> /\ \A q \in Procs \ {p} : Same(q)
    BY <1>6 DEF CreateVersions, Create, Goto, IInv, TypeOK, Same
  <2> QED
    BY <1>1, <1>6, <2>1, CreateVersionsKeeps, LocalStep
<1>7. ASSUME NEW p \in Procs, Execute(p) PROVE IInv'
  <2>1. UNCHANGED <<schema, version, stamped>> /\ \A q \in Procs \ {p} : Same(q)
    BY <1>7 DEF Execute, Create, Drop, IInv, TypeOK, Same
  <2>2. Sound(p)'
    BY <1>1, <1>7, ExecuteUpKeeps, ExecuteDownKeeps
  <2> QED
    BY <1>1, <2>1, <2>2, LocalStep
<1>8. ASSUME NEW p \in Procs, Stamp(p) PROVE IInv'
  <2>1. UNCHANGED <<schema, version>> /\ StampHolders(p) = {} /\ \A q \in Procs \ {p} : Same(q)
    BY <1>8 DEF Stamp, IInv, TypeOK, Same
  <2> QED
    BY <1>1, <1>8, <2>1, StampKeeps, LocalStep
<1>9. ASSUME NEW p \in Procs, Refuse(p) \/ DeadlockVictim(p) \/ Crash(p) PROVE IInv'
  <2>1. Rollback(p) /\ Goto(p, "off") /\ UNCHANGED raced
    BY <1>9 DEF Refuse, DeadlockVictim, Crash, AfterFailure
  <2>2. UNCHANGED <<schema, version>>
    BY <2>1 DEF Rollback
  <2> QED
    BY <1>1, <2>1, <2>2, EndKeeps, LocalStep
<1>10. ASSUME NEW p \in Procs, Commit(p) PROVE IInv'
  BY <1>1, <1>10, CommitKeeps
<1>11. ASSUME NEW p \in Procs, Serve(p) \/ Stop(p) PROVE IInv'
  <2>1. /\ pc[p] \in {"start", "serving"} /\ pc'[p] \in {"serving", "off"}
        /\ UNCHANGED <<schema, version, run, raced>>
        /\ \A q \in Procs \ {p} : Same(q)
    BY <1>11 DEF Serve, Stop, Goto, IInv, TypeOK, run, Same
  <2>2. Sound(p)'
    BY <2>1 DEF IInv, Sound, Idle, run
  <2> QED
    BY <1>1, <2>1, <2>2, LocalStep DEF run
<1> QED
  BY <1>2, <1>3, <1>4, <1>5, <1>6, <1>7, <1>8, <1>9, <1>10, <1>11 DEF Next, Work

LEMMA Invariance == Spec => []IInv
BY InitInv, InvNext, PTL DEF Spec

\* However many runs overlap and wherever they are killed, the database has exactly the
\* tables and indexes of the revision that alembic_version names, and the types it needs.
THEOREM SchemaFollowsVersion == Spec => []SchemaMatchesVersion
<1>1. IInv => SchemaMatchesVersion
  BY DEF IInv
<1> QED
  BY <1>1, Invariance, PTL

\* start.sh lets an instance serve only at the head, unless another run has moved the
\* schema since the instance read the version.
THEOREM InstancesServeAtHead == Spec => []ServesAtHead
<1>1. IInv => ServesAtHead
  BY DEF IInv, Sound, ServesAtHead, Procs
<1> QED
  BY <1>1, Invariance, PTL

-----------------------------------------------------------------------------
\* Without a race and without leftovers, a run sees what its base and its statements say.
LEMMA ExactSchema ==
    ASSUME IInv, ~ Leftovers
    PROVE  schema \ {Versions} = UpTo[version]
<1>1. /\ version \in 0 .. 3
      /\ \A n \in 0 .. 3 : Versions \notin UpTo[n] /\ (n > 0 => Types \subseteq UpTo[n])
  BY Steps DEF IInv, TypeOK, Revisions, Latest
<1>2. /\ schema \ (Types \cup {Versions}) = UpTo[version] \ Types
      /\ version > 0 => Types \cup {Versions} \subseteq schema
  BY DEF IInv, SchemaMatchesVersion
<1>3. CASE version = 0
  BY <1>2, <1>3, UpToElements DEF Leftovers
<1>4. CASE version # 0
  BY <1>1, <1>2, <1>4
<1> QED
  BY <1>3, <1>4

LEMMA UpgradeView ==
    ASSUME IInv, ~ Leftovers, NEW p \in Procs, ~ raced[p], Upgrading(p)
    PROVE  View(p) \ {Versions} = UpTo[rev[p]] \cup Prefix(Up[rev[p] + 1], done[p])
<1>1. /\ pc[p] = "ddl" /\ rev[p] < goal[p]
  BY DEF Upgrading
<1>2. /\ Transaction(p) /\ Ascends(p) /\ rev[p] \in 0 .. 3 /\ Base(p) \in 0 .. 3
  BY <1>1, InTransaction
<1>3. Base(p) = version
  BY <1>2 DEF Base, Transaction
<1>4. UpTo[version] \subseteq UpTo[rev[p]]
  BY <1>2, <1>3, Distinct DEF Ascends, Latest
<1> QED
  BY <1>1, <1>2, <1>3, <1>4, ExactSchema DEF Ascends, Part, View

LEMMA DowngradeView ==
    ASSUME IInv, ~ Leftovers, NEW p \in Procs, ~ raced[p], pc[p] = "ddl", goal[p] < rev[p]
    PROVE  View(p) \ {Versions} = UpTo[rev[p]] \ Prefix(Down[rev[p]], done[p])
<1>1. /\ Transaction(p) /\ Descends(p)
      /\ rev[p] \in 0 .. 3 /\ goal[p] \in 0 .. 3 /\ Base(p) \in 0 .. 3
  BY InTransaction
<1>2. Base(p) = version
  BY <1>1 DEF Base, Transaction
<1>3. UpTo[rev[p]] \subseteq UpTo[version]
  BY <1>1, <1>2, Distinct DEF Descends, Latest
<1>4. Types \subseteq UpTo[rev[p]] /\ Versions \notin UpTo[version] /\ Versions \notin UpTo[rev[p]]
  <2>1. rev[p] \in Revisions
    BY <1>1 DEF Revisions
  <2> QED
    BY <1>1, <1>2, <2>1, Steps DEF Latest
<1>5. Part(p) = Prefix(Down[rev[p]], done[p])
  BY <1>1 DEF Part
<1>6. /\ dropped[p] = ((UpTo[version] \ UpTo[rev[p]]) \ Types) \cup Part(p)
      /\ made[p] \subseteq {Versions}
  BY <1>1, <1>2 DEF Descends
<1>7. schema \ {Versions} = UpTo[version]
  BY ExactSchema
<1> QED
  BY <1>3, <1>4, <1>5, <1>6, <1>7 DEF View

LEMMA RefusalHasCause ==
    ASSUME IInv, NEW p \in Procs, Refuse(p)
    PROVE  raced[p] \/ Leftovers
<1> SUFFICES ASSUME ~ raced[p], ~ Leftovers PROVE FALSE
  OBVIOUS
<1>1. CASE pc[p] = "create" /\ Uncreatable(p, Versions)
  <2>1. View(p) = schema /\ Versions \notin schema
    BY <1>1 DEF IInv, Sound, Idle, View
  <2>2. Needs[Versions] = {}
    BY ObjectTypes DEF Needs, Indexed, References, Versions
  <2> QED
    BY <1>1, <2>1, <2>2 DEF Uncreatable
<1>2. CASE InScript(p) /\ Upgrading(p) /\ Uncreatable(p, Statement(p))
  <2> DEFINE n == rev[p] + 1
             k == done[p] + 1
  <2>1. n \in Revisions /\ k \in 1 .. Len(Up[n]) /\ Statement(p) = Up[n][k]
    BY <1>2, NextStatement DEF IInv
  <2>2. n - 1 = rev[p] /\ k - 1 = done[p]
    BY DEF IInv, TypeOK, Latest
  <2>3. /\ Up[n][k] # Versions
        /\ Up[n][k] \notin UpTo[n - 1] \cup Prefix(Up[n], k - 1)
        /\ Needs[Up[n][k]] \subseteq UpTo[n - 1] \cup Prefix(Up[n], k - 1)
    BY <2>1, UpOrder
  <2>4. View(p) \ {Versions} = UpTo[n - 1] \cup Prefix(Up[n], k - 1)
    BY <1>2, <2>2, UpgradeView
  <2> QED
    BY <1>2, <2>1, <2>3, <2>4 DEF Uncreatable
<1>3. CASE InScript(p) /\ Downgrading(p) /\ Undroppable(p, Statement(p))
  <2> DEFINE n == rev[p]
             k == done[p] + 1
  <2>1. ~ Upgrading(p) /\ pc[p] = "ddl" /\ goal[p] < rev[p]
    BY <1>3 DEF Upgrading, Downgrading, IInv, TypeOK, Latest
  <2>2. n \in Revisions /\ k \in 1 .. Len(Down[n]) /\ Statement(p) = Down[n][k]
    BY <1>3, <2>1, NextStatement DEF IInv
  <2>3. k - 1 = done[p]
    BY DEF IInv, TypeOK
  <2>4. /\ Down[n][k] \in UpTo[n] /\ Down[n][k] \notin Prefix(Down[n], k - 1)
        /\ \A y \in UpTo[n] \cup Types \cup {Versions} :
              Down[n][k] \in References(y) => y \in Prefix(Down[n], k - 1)
    BY <2>2, DownOrder
  <2>5. View(p) \ {Versions} = UpTo[n] \ Prefix(Down[n], k - 1)
    BY <2>1, <2>3, DowngradeView
  <2>6. \A y \in View(p) : Down[n][k] \notin References(y)
    <3>1. References(Versions) = {}
      BY DEF References, Versions
    <3> QED
      BY <2>4, <2>5, <3>1
  <2> QED
    BY <1>3, <2>2, <2>4, <2>5, <2>6 DEF Undroppable
<1>4. CASE AtStamp(p) /\ StaleVersion(p)
  <2>1. Transaction(p)
    BY <1>4, InTransaction DEF AtStamp, Upgrading, Downgrading
  <2> QED
    BY <1>4, <2>1 DEF StaleVersion, Transaction
<1> QED
  BY <1>1, <1>2, <1>3, <1>4 DEF Refuse

\* A run that overlaps with no other one is refused nothing, except where an earlier
\* rollback to the base has left its types behind: each revision's upgrade creates
\* what it needs first, and its rollback undoes exactly that, in a possible order.
THEOREM RefusalsHaveCauses == Spec => RefusedOnlyByRace
<1>1. IInv => \A p \in Procs : Refuse(p) => raced[p] \/ Leftovers
  BY RefusalHasCause
<1> QED
  BY <1>1, Invariance, PTL DEF RefusedOnlyByRace

-----------------------------------------------------------------------------
\* Without operators there are upgrades only.  The statement that would be the first of
\* a second writer wants the object that the first writer created first.
Upgraders ==
    /\ \A p \in Procs : /\ ~ stamped[p] => rev[p] <= version
                        /\ dropped[p] = {} /\ made[p] \cap schema = {}
    /\ \A p, q \in Procs : made[p] # {} /\ made[q] # {} => p = q

LEMMA FirstStatements ==
    \A n \in Revisions :
        /\ Up[n][1] \in Elements(Up[n]) /\ Up[n][1] \in Objects /\ Up[n][1] \in UpTo[n] \ Types
        /\ Up[n][1] \notin UpTo[n - 1]
<1> SUFFICES ASSUME NEW n \in Revisions
             PROVE  Up[n][1] \in Elements(Up[n]) /\ Up[n][1] \notin Types
  BY Steps, ObjectTypes DEF Revisions, Latest
<1>1. CASE n = 1
  BY <1>1 DEF Up, Elements, Types
<1>2. CASE n = 2
  BY <1>2 DEF Up, Elements, Types
<1>3. CASE n = 3
  BY <1>3 DEF Up, Elements, Types
<1> QED
  BY <1>1, <1>2, <1>3, ThreeRevisions

\* What is missing from the schema belongs to a revision after the version.
LEMMA MissingIsAhead ==
    ASSUME IInv, NEW n \in Revisions, Up[n][1] \notin schema
    PROVE  version < n
<1>1. version \in 0 .. 3 /\ n \in 0 .. 3
  BY DEF IInv, TypeOK, Latest, Revisions
<1>2. n <= version => Up[n][1] \in UpTo[version] \ Types
  BY <1>1, FirstStatements, Distinct DEF Latest
<1>3. UpTo[version] \ Types \subseteq schema
  BY DEF IInv, SchemaMatchesVersion
<1> QED
  BY <1>1, <1>2, <1>3

LEMMA UpgraderFacts ==
    ASSUME IInv, Upgraders, Operators = {}, NEW p \in Procs, pc[p] = "ddl"
    PROVE  /\ Ascends(p) /\ Transaction(p) /\ goal[p] = 3
           /\ rev[p] \in 0 .. 3 /\ version \in 0 .. 3 /\ done[p] \in Nat
           /\ Base(p) \in 0 .. 3 /\ Base(p) <= version
<1>1. p \in Instances
  BY DEF Procs
<1>2. /\ Transaction(p) /\ goal[p] = 3
      /\ rev[p] \in 0 .. 3 /\ version \in 0 .. 3 /\ done[p] \in Nat /\ Base(p) \in 0 .. 3
      /\ rev[p] < goal[p] => Ascends(p)
  BY <1>1, InTransaction DEF Latest
<1>3. Base(p) <= version
  BY <1>2 DEF Upgraders, Base
<1>4. CASE rev[p] = 3
  <2>1. Part(p) = {}
    BY <1>2, <1>4 DEF Part
  <2>2. ASSUME Descends(p) PROVE Ascends(p)
    <3>1. Base(p) = 3
      BY <1>2, <1>4, <2>2 DEF Descends
    <3>2. made[p] \subseteq {Versions} /\ dropped[p] = {}
      BY <1>4, <2>1, <2>2, <3>1 DEF Descends
    <3> QED
      BY <1>2, <1>4, <2>1, <3>1, <3>2 DEF Ascends
  <2>3. Ascends(p)
    BY <1>2, <2>2 DEF Transaction
  <2> QED
    BY <1>2, <1>3, <2>3
<1> QED
  BY <1>2, <1>3, <1>4

\* Who has written anything but the table of versions has begun at the version.
LEMMA WriterHasFirst ==
    ASSUME IInv, Upgraders, Operators = {}, NEW q \in Procs, made[q] \ {Versions} # {}
    PROVE  /\ version + 1 \in Revisions /\ Up[version + 1][1] \in made[q]
<1>1. pc[q] = "ddl"
  BY DEF IInv, Sound, Idle
<1>2. /\ Ascends(q) /\ Transaction(q) /\ goal[q] = 3
      /\ rev[q] \in 0 .. 3 /\ version \in 0 .. 3 /\ done[q] \in Nat
      /\ Base(q) \in 0 .. 3 /\ Base(q) <= version /\ Base(q) <= rev[q]
  BY <1>1, UpgraderFacts DEF Ascends
<1>3. Base(q) + 1 \in Revisions /\ Up[Base(q) + 1][1] \in made[q]
  <2>1. CASE Base(q) < rev[q]
    <3>1. Base(q) + 1 \in Revisions /\ (Base(q) + 1) - 1 = Base(q) /\ Base(q) + 1 <= rev[q]
      BY <1>2, <2>1 DEF Revisions
    <3>2. Up[Base(q) + 1][1] \in UpTo[Base(q) + 1] /\ Up[Base(q) + 1][1] \notin UpTo[Base(q)]
      BY <3>1, FirstStatements
    <3>3. UpTo[Base(q) + 1] \subseteq UpTo[rev[q]]
      BY <1>2, <3>1, Distinct DEF Latest, Revisions
    <3> QED
      BY <1>2, <3>1, <3>2, <3>3 DEF Ascends
  <2>2. CASE Base(q) = rev[q]
    <3>1. Part(q) # {}
      BY <1>2, <2>2 DEF Ascends
    <3>2. rev[q] < 3 /\ Part(q) = Prefix(Up[rev[q] + 1], done[q])
      BY <1>2, <3>1 DEF Part
    <3>3. done[q] >= 1
      BY <1>2, <3>1, <3>2, PrefixGrows
    <3>4. Up[rev[q] + 1][1] \in Part(q)
      BY <1>2, <3>2, <3>3 DEF Prefix
    <3> QED
      BY <1>2, <2>2, <3>2, <3>4 DEF Ascends, Revisions
  <2> QED
    BY <1>2, <2>1, <2>2
<1>4. version < Base(q) + 1
  BY <1>3, MissingIsAhead DEF Upgraders
<1>5. Base(q) = version
  BY <1>2, <1>4
<1> QED
  BY <1>3, <1>5

\* The first writer keeps everybody else from writing.
LEMMA FirstWriterExcludes ==
    ASSUME IInv, Upgraders, Operators = {}, NEW p \in Procs, NEW q \in Procs \ {p},
           made[q] # {}
    PROVE  /\ ~ CreateVersions(p)
           /\ Execute(p) => made[p] # {}
<1>1. pc[q] = "ddl"
  BY DEF IInv, Sound, Idle
<1>2. Versions \in schema \/ Versions \in made[q]
  BY <1>1, UpgraderFacts DEF Transaction
<1>3. ASSUME NEW x \in Objects, x \in made[q] PROVE ~ Create(p, x)
  BY <1>3 DEF Create, Holders, Locks
<1>4. ~ CreateVersions(p)
  <2> SUFFICES ASSUME CreateVersions(p) PROVE FALSE
    OBVIOUS
  <2>1. Versions \notin schema
    BY DEF IInv, Sound, Idle, CreateVersions, Create, Uncreatable, View
  <2> QED
    BY <1>2, <1>3, <2>1, ObjectTypes DEF CreateVersions
<1>5. ASSUME Execute(p), made[p] = {} PROVE FALSE
  <2>1. InScript(p) /\ pc[p] = "ddl"
    BY <1>5 DEF Execute, InScript, Upgrading, Downgrading
  <2>2. /\ Ascends(p) /\ Transaction(p) /\ goal[p] = 3
        /\ rev[p] \in 0 .. 3 /\ version \in 0 .. 3 /\ done[p] \in Nat
        /\ Base(p) \in 0 .. 3 /\ Base(p) <= version
    BY <2>1, UpgraderFacts
  <2>3. Upgrading(p) /\ rev[p] < 3
    BY <2>1, <2>2 DEF InScript, Upgrading, Downgrading
  <2>4. UpTo[rev[p]] \subseteq UpTo[Base(p)] /\ Part(p) = {} /\ Base(p) <= rev[p]
    BY <1>5, <2>2 DEF Ascends
  <2>5. Base(p) = rev[p]
    BY <2>2, <2>4, Distinct DEF Latest
  <2>6. done[p] = 0
    <3>1. Part(p) = Prefix(Up[rev[p] + 1], done[p])
      BY <2>2, <2>3 DEF Part
    <3>2. done[p] # 0 => 1 \in 1 .. done[p]
      BY <2>2
    <3> QED
      BY <2>4, <3>1, <3>2 DEF Prefix
  <2>7. rev[p] + 1 \in Revisions /\ Statement(p) = Up[rev[p] + 1][1]
    BY <2>1, <2>3, <2>6, NextStatement DEF IInv
  <2>8. Create(p, Up[rev[p] + 1][1])
    BY <1>5, <2>3, <2>7 DEF Execute
  <2>9. Up[rev[p] + 1][1] \notin schema
    BY <2>8 DEF Create, Uncreatable, View, Upgraders
  <2>10. rev[p] = version
    BY <2>2, <2>5, <2>7, <2>9, MissingIsAhead
  <2>11. made[q] \ {Versions} # {}
    <3>1. Versions \in schema
      BY <1>5, <2>2 DEF Transaction
    <3> QED
      BY <3>1 DEF Upgraders
  <2>12. Up[version + 1][1] \in made[q]
    BY <2>11, WriterHasFirst
  <2> QED
    BY <1>3, <2>7, <2>8, <2>10, <2>12, FirstStatements
<1> QED
  BY <1>4, <1>5

LEMMA UpgradersNext == IInv /\ Upgraders /\ Operators = {} /\ [Next]_vars => Upgraders'
<1> SUFFICES ASSUME IInv, Upgraders, Operators = {}, [Next]_vars PROVE Upgraders'
  OBVIOUS
<1>1. TypeOK'
  BY TypeNext DEF IInv
<1>2. CASE UNCHANGED vars
  BY <1>2 DEF vars, run, Upgraders
<1>3. ASSUME NEW p \in Procs, Boot(p) \/ VersionsExist(p) \/ Serve(p) \/ Stop(p) PROVE Upgraders'
  BY <1>3 DEF Boot, VersionsExist, Serve, Stop, run, Upgraders
<1>4. ASSUME NEW p \in Procs, NEW g \in Goals(p), Read(p, g) PROVE Upgraders'
  BY <1>4 DEF Read, IInv, TypeOK, Upgraders
<1>5. ASSUME NEW p \in Procs, CreateVersions(p) PROVE Upgraders'
  <2>1. \A q \in Procs \ {p} : made[q] = {}
    BY <1>5, FirstWriterExcludes
  <2>2. Versions \notin schema
    BY <1>5 DEF IInv, Sound, Idle, CreateVersions, Create, Uncreatable, View
  <2> QED
    BY <1>5, <2>1, <2>2 DEF CreateVersions, Create, IInv, TypeOK, Upgraders
<1>6. ASSUME NEW p \in Procs, Execute(p) PROVE Upgraders'
  <2>1. Upgrading(p)
    <3>1. pc[p] = "ddl"
      BY <1>6 DEF Execute, InScript, Upgrading, Downgrading
    <3> QED
      BY <1>6, <3>1, UpgraderFacts DEF Execute, InScript, Upgrading, Downgrading
  <2>2. Create(p, Statement(p)) /\ UNCHANGED <<schema, version, rev, stamped>>
    BY <1>6, <2>1 DEF Execute
  <2>3. Statement(p) \notin schema
    BY <2>2 DEF Create, Uncreatable, View, Upgraders
  <2>4. \A q \in Procs \ {p} : made[q] = {}
    BY <1>6, FirstWriterExcludes DEF Upgraders
  <2> QED
    BY <2>2, <2>3, <2>4 DEF Create, IInv, TypeOK, Upgraders
<1>7. ASSUME NEW p \in Procs, Stamp(p) PROVE Upgraders'
  BY <1>7 DEF Stamp, IInv, TypeOK, Upgraders
<1>8. ASSUME NEW p \in Procs, Refuse(p) \/ DeadlockVictim(p) \/ Crash(p) PROVE Upgraders'
  <2>1. Rollback(p)
    BY <1>8 DEF Refuse, DeadlockVictim, Crash
  <2> QED
    BY <2>1 DEF Rollback, Forget, IInv, TypeOK, Latest, Upgraders
<1>9. ASSUME NEW p \in Procs, Commit(p) PROVE Upgraders'
  <2>1. pc[p] = "ddl" /\ Forget(p) /\ schema' = View(p)
    BY <1>9 DEF Commit
  <2>2. schema' = schema \cup made[p]
    BY <2>1 DEF View, Upgraders
  <2>3. version <= version' /\ version' \in 0 .. 3
    <3>1. rev[p] \in 0 .. 3 /\ version \in 0 .. 3 /\ Base(p) <= rev[p]
      BY <2>1, UpgraderFacts DEF Ascends
    <3> QED
      BY <1>9, <3>1 DEF Commit, Base
  <2>4. ASSUME NEW q \in Procs \ {p} PROVE made[q] \cap schema' = {}
    BY <2>2, <2>4 DEF Upgraders
  <2> QED
    BY <2>1, <2>3, <2>4 DEF Forget, IInv, TypeOK, Latest, Upgraders
<1> QED
  BY <1>2, <1>3, <1>4, <1>5, <1>6, <1>7, <1>8, <1>9 DEF Next, Work

\* One process at a time has changed anything, and no two wait for each other.
OneWriter ==
    /\ \A p, q \in Procs :
          made[p] \cup dropped[p] # {} /\ made[q] \cup dropped[q] # {} => p = q
    /\ \A p \in Procs : ~ Deadlocked(p)

\* Without rollbacks there is one writer of the schema at a time, however many
\* containers upgrade: the others wait for it, and PostgreSQL never has to abort one
\* of them for a deadlock.
THEOREM UpgradesTakeTurns == ASSUME Operators = {} PROVE Spec => []OneWriter
<1>1. Init => Upgraders
  BY DEF Init, Upgraders, Latest
<1>2. IInv /\ Upgraders => OneWriter
  <2> SUFFICES ASSUME IInv, Upgraders PROVE \A p \in Procs : ~ Deadlocked(p)
    BY DEF Upgraders, OneWriter
  <2> SUFFICES ASSUME NEW D \in SUBSET Procs, NEW p \in D, \A q \in D : Awaits(q) \cap D # {}
               PROVE  FALSE
    BY DEF Deadlocked
  <2>1. ASSUME NEW q \in Procs, NEW h \in Awaits(q) PROVE h \in Procs \ {q} /\ made[h] # {}
    <3>1. CASE h \in Holders(q, Versions) \/ h \in Holders(q, Statement(q))
      BY <3>1 DEF Holders, Upgraders
    <3>2. CASE h \in StampHolders(q)
      <4>1. stamped[h] /\ h \in Procs \ {q}
        BY <3>2 DEF StampHolders
      <4>2. pc[h] = "ddl"
        BY <4>1 DEF IInv, Sound, Idle
      <4>3. /\ Transaction(h) /\ rev[h] \in 0 .. 3 /\ version \in 0 .. 3
            /\ rev[h] < goal[h] => Ascends(h)
        BY <4>1, <4>2, InTransaction
      <4>4. Base(h) = version /\ version # rev[h] /\ dropped[h] = {}
        BY <4>1, <4>3 DEF Transaction, Base, Upgraders
      <4>5. CASE Ascends(h)
        <5>1. UpTo[rev[h]] # UpTo[version] /\ UpTo[version] \subseteq UpTo[rev[h]]
          BY <4>3, <4>4, <4>5, Distinct DEF Ascends, Latest
        <5> QED
          BY <4>1, <4>4, <4>5, <5>1 DEF Ascends
      <4>6. CASE Descends(h)
        <5>1. UpTo[rev[h]] \ Types # UpTo[version] \ Types /\ UpTo[rev[h]] \subseteq UpTo[version]
          BY <4>3, <4>4, <4>6, Distinct DEF Descends, Latest
        <5> QED
          BY <4>4, <4>6, <5>1 DEF Descends
      <4> QED
        BY <4>3, <4>5, <4>6 DEF Transaction
    <3> QED
      BY <2>1, <3>1, <3>2 DEF Awaits
  <2>2. PICK h \in D : h \in Awaits(p)
    OBVIOUS
  <2>3. PICK o \in D : o \in Awaits(h)
    OBVIOUS
  <2> QED
    BY <2>1, <2>2, <2>3 DEF Upgraders
<1>3. IInv /\ Upgraders /\ [Next]_vars => Upgraders'
  BY UpgradersNext
<1> QED
  BY <1>1, <1>2, <1>3, Invariance, PTL DEF Spec
=============================================================================
