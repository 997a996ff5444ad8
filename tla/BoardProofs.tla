----------------------------- MODULE BoardProofs -----------------------------
(***************************************************************************)
(* Proofs about Board for any tables, any ids and any number of requests.  *)
(*                                                                         *)
(* NoOrphans is not inductive: a commit applies an INSERT and DELETEs that *)
(* were decided earlier.  Held says what each session still owes before it *)
(* may commit, and Apart that no session deletes a row another session     *)
(* holds FOR KEY SHARE, nor inserts a key another one is inserting.        *)
(***************************************************************************)
EXTENDS Board, TLAPS

Held(q) ==
    /\ pc[q] \in InFlight => row[q] \in Rows
    /\ pc[q] \notin {"links", "rows"} => todo[q] = {}
    /\ pc[q] \notin {"rows", "returned"} => del[q] = {}
    /\ pc[q] \notin {"keys", "returned"} => ins[q] = {} /\ shares[q] = {}
    /\ ins[q] \subseteq {row[q]}
    /\ ins[q] = {} \/ del[q] = {}
    /\ shares[q] \subseteq rows
    /\ pc[q] = "returned" => \A x \in ins[q] : Parents(x) \subseteq shares[q]
    /\ \A x \in del[q] : Children(x) \cap rows \subseteq del[q] \cup todo[q]
    /\ \A x \in ins[q] : SameKey(x) \cap rows = {}

Apart(q, r) ==
    /\ shares[q] \cap del[r] = {}
    /\ \A x \in ins[q] : SameKey(x) \cap ins[r] = {}

IInv ==
    /\ TypeOK
    /\ \A q \in Reqs : Held(q)
    /\ \A q, r \in Reqs : q # r => Apart(q, r)
    /\ NoOrphans
    /\ TagNamesUnique

-----------------------------------------------------------------------------
LEMMA ParentsAreRows == \A x \in Rows : Parents(x) \subseteq Rows
BY ProjectOfAssumption DEF Rows, Links, Parents

LEMMA KeySymmetric == \A x, y \in Rows : y \in SameKey(x) => x \in SameKey(y)
BY DEF SameKey, Named

LEMMA InitInv == Init => IInv
BY DEF Init, IInv, TypeOK, Held, Apart, NoOrphans, TagNamesUnique, Final, InFlight

\* The work of q is left alone.
SameWork(q) ==
    /\ pc'[q] = pc[q] /\ row'[q] = row[q] /\ ins'[q] = ins[q] /\ del'[q] = del[q]
    /\ shares'[q] = shares[q] /\ todo'[q] = todo[q]

\* A step of r that leaves the committed rows and the other requests alone.
LEMMA LocalStep ==
    ASSUME IInv, TypeOK', rows' = rows, NEW r \in Reqs,
           \A q \in Reqs \ {r} : SameWork(q) /\ Apart(q, r)' /\ Apart(r, q)',
           Held(r)'
    PROVE  IInv'
<1>1. \A q \in Reqs : Held(q)'
  BY DEF IInv, Held, SameWork
<1>2. \A q, s \in Reqs : q # s => Apart(q, s)'
  <2> SUFFICES ASSUME NEW q \in Reqs, NEW s \in Reqs, q # s, q # r, s # r
               PROVE  Apart(q, s)'
    OBVIOUS
  <2> QED
    BY DEF IInv, Apart, SameWork
<1> QED
  BY <1>1, <1>2 DEF IInv, NoOrphans, TagNamesUnique

\* The steps of r that flush nothing: what it inserts, deletes and holds stays.
LEMMA MoveStep ==
    ASSUME IInv, TypeOK', UNCHANGED <<rows, ins, del, shares>>, NEW r \in Reqs,
           \A q \in Reqs \ {r} : SameWork(q),
           Held(r)'
    PROVE  IInv'
<1>1. \A q \in Reqs \ {r} : Apart(q, r)' /\ Apart(r, q)'
  BY DEF IInv, Apart
<1> QED
  BY <1>1, LocalStep

LEMMA RaiseInv ==
    ASSUME IInv, NEW r \in Reqs, NEW a \in Final, Raise(r, a)
    PROVE  IInv'
<1> USE DEF Raise, Close, Goto, db
<1>1. TypeOK'
  BY DEF IInv, TypeOK
<1>2. Held(r)'
  BY DEF IInv, TypeOK, Held, Final, InFlight
<1>3. \A q \in Reqs \ {r} : SameWork(q)
  BY DEF IInv, TypeOK, SameWork
<1>4. \A q \in Reqs \ {r} : Apart(q, r)' /\ Apart(r, q)'
  BY DEF IInv, TypeOK, Apart
<1> QED
  BY <1>1, <1>2, <1>3, <1>4, LocalStep

LEMMA BeginInv ==
    ASSUME IInv, NEW r \in Reqs, NEW u \in Users, NEW k \in {"read", "create", "delete"},
           NEW x \in Rows, NEW w \in {"task", "project", "tag", "name", "flush"},
           Begin(r, u, k, x, w)
    PROVE  IInv'
<1> USE DEF Begin, Goto, db, work
<1>1. TypeOK'
  BY DEF IInv, TypeOK, InFlight
<1>2. Held(r)'
  BY DEF IInv, TypeOK, Held, Final, InFlight
<1>3. \A q \in Reqs \ {r} : SameWork(q)
  BY DEF IInv, TypeOK, SameWork
<1> QED
  BY <1>1, <1>2, <1>3, MoveStep

LEMMA StartInv ==
    ASSUME IInv, NEW r \in Reqs, Start(r)
    PROVE  IInv'
<1> PICK u \in Users :
        ProjectRoutes(r, u) \/ TaskRoutes(r, u) \/ LinkRoutes(r, u) \/ TagRoutes(r, u)
  BY DEF Start
<1>1. CASE ProjectRoutes(r, u)
  BY <1>1, BeginInv DEF ProjectRoutes, CreateProject, GetProject, DeleteProject, Rows
<1>2. CASE TaskRoutes(r, u)
  BY <1>2, BeginInv DEF TaskRoutes, CreateTask, GetTask, DeleteTask, ListTasks, Rows
<1>3. CASE LinkRoutes(r, u)
  BY <1>3, BeginInv DEF LinkRoutes, AttachTag, DetachTag, Rows
<1>4. CASE TagRoutes(r, u)
  BY <1>4, BeginInv DEF TagRoutes, CreateTag, GetTag, DeleteTag, Rows
<1> QED
  BY <1>1, <1>2, <1>3, <1>4

LEMMA CheckInv ==
    ASSUME IInv, NEW r \in Reqs, Check(r)
    PROVE  IInv'
<1> USE DEF Goto, db, asked, work
<1>1. CASE LoadTask(r)
  <2> USE <1>1 DEF LoadTask
  <2>1. TypeOK'
    BY DEF IInv, TypeOK, InFlight
  <2>2. Held(r)'
    BY DEF IInv, TypeOK, Held, InFlight
  <2> QED
    BY <2>1, <2>2, MoveStep DEF IInv, TypeOK, SameWork
<1>2. CASE LoadProject(r) \/ LoadTag(r) \/ ReloadTask(r) \/ NameFree(r) \/ AlreadyLinked(r)
  <2> USE <1>2 DEF LoadProject, LoadTag, ReloadTask, NameFree, AlreadyLinked
  <2>1. PICK w \in {"tag", "again", "flush", "returned"} :
            /\ pc[r] \in {"project", "tag", "again", "name", "flush"}
            /\ pc' = [pc EXCEPT ![r] = w]
            /\ UNCHANGED <<db, asked, work, overtaken>>
    OBVIOUS
  <2>2. TypeOK'
    BY <2>1 DEF IInv, TypeOK, InFlight
  <2>3. Held(r)'
    BY <2>1 DEF IInv, TypeOK, Held, InFlight
  <2> QED
    BY <2>1, <2>2, <2>3, MoveStep DEF IInv, TypeOK, SameWork
<1>3. CASE NoTask(r) \/ NoAccess(r) \/ NoTag(r) \/ TaskGone(r) \/ NameTaken(r)
  BY <1>3, RaiseInv DEF NoTask, NoAccess, NoTag, TaskGone, NameTaken, Final
<1> QED
  BY <1>1, <1>2, <1>3 DEF Check

LEMMA InsertInv ==
    ASSUME IInv, NEW r \in Reqs, Insert(r)
    PROVE  IInv'
<1> USE DEF Insert, Inserting, Goto, asked
<1>1. row[r] \in Rows
  BY DEF IInv, Held, InFlight
<1>2. TypeOK'
  BY <1>1 DEF IInv, TypeOK, InFlight, AfterKeys
<1>3. Held(r)'
  BY <1>1 DEF IInv, TypeOK, Held, AfterKeys
<1>4. \A q \in Reqs \ {r} : SameWork(q)
  BY DEF IInv, TypeOK, SameWork
<1>5. ASSUME NEW q \in Reqs \ {r} PROVE Apart(q, r)' /\ Apart(r, q)'
  <2>1. SameKey(row[r]) \cap ins[q] = {}
    BY DEF KeyHolders
  <2>2. ins[q] \subseteq Rows /\ Apart(q, r) /\ Apart(r, q)
    BY DEF IInv, TypeOK
  <2> QED
    BY <1>1, <1>4, <2>1, <2>2, KeySymmetric DEF IInv, TypeOK, Apart, SameWork
<1> QED
  BY <1>2, <1>3, <1>4, <1>5, LocalStep

LEMMA ShareKeyInv ==
    ASSUME IInv, NEW r \in Reqs, NEW p \in Rows, ShareKey(r, p)
    PROVE  IInv'
<1> USE DEF ShareKey, Goto, db, asked
<1>1. row[r] \in Rows
  BY DEF IInv, Held, InFlight
<1>2. TypeOK'
  BY DEF IInv, TypeOK, InFlight, AfterKeys
<1>3. Held(r)'
  BY <1>1 DEF IInv, TypeOK, Held, AfterKeys
<1>4. \A q \in Reqs \ {r} : SameWork(q)
  BY DEF IInv, TypeOK, SameWork
<1>5. ASSUME NEW q \in Reqs \ {r} PROVE Apart(q, r)' /\ Apart(r, q)'
  BY <1>4 DEF IInv, TypeOK, Apart, SameWork, Deleters
<1> QED
  BY <1>2, <1>3, <1>4, <1>5, LocalStep

LEMMA LoadedAreRows ==
    ASSUME TypeOK, NEW r \in Reqs, row[r] \in Rows
    PROVE  Loaded(r) \subseteq Rows
BY DEF TypeOK, Loaded, Detached, Rows

LEMMA BeginDeleteInv ==
    ASSUME IInv, NEW r \in Reqs, BeginDelete(r)
    PROVE  IInv'
<1> USE DEF BeginDelete, Goto, db, asked
<1>1. Loaded(r) \subseteq Rows
  BY LoadedAreRows DEF IInv, Held, InFlight
<1>2. TypeOK'
  BY <1>1 DEF IInv, TypeOK, InFlight
<1>3. Held(r)'
  BY DEF IInv, TypeOK, Held, InFlight
<1> QED
  BY <1>2, <1>3, MoveStep DEF IInv, TypeOK, SameWork

LEMMA LoadLinksInv ==
    ASSUME IInv, NEW r \in Reqs, LoadLinks(r)
    PROVE  IInv'
<1> USE DEF LoadLinks, Goto, db, asked
<1>1. TypeOK'
  BY DEF IInv, TypeOK, InFlight
<1>2. Held(r)'
  BY DEF IInv, TypeOK, Held, InFlight
<1> QED
  BY <1>1, <1>2, MoveStep DEF IInv, TypeOK, SameWork

LEMMA DeleteRowInv ==
    ASSUME IInv, NEW r \in Reqs, NEW x \in Rows, DeleteRow(r, x)
    PROVE  IInv'
<1> USE DEF DeleteRow, Goto, db, asked
<1>1. todo' = [todo EXCEPT ![r] = (todo[r] \ {x}) \cup Cascade(r, x)]
  OBVIOUS
<1>2. Cascade(r, x) \subseteq Rows
  BY DEF IInv, TypeOK, Cascade
<1>3. TypeOK'
  <2>1. todo' \in [Reqs -> SUBSET Rows]
    BY <1>1, <1>2 DEF IInv, TypeOK
  <2> QED
    BY <2>1 DEF IInv, TypeOK, InFlight
<1>4. \A y \in del'[r] : Children(y) \cap rows' \subseteq del'[r] \cup todo'[r]
  <2> SUFFICES ASSUME NEW y \in del'[r], NEW z \in Children(y) \cap rows, z \notin del'[r]
               PROVE  z \in todo'[r]
    OBVIOUS
  <2>1. del'[r] = del[r] \cup ({x} \cap rows)
    BY DEF IInv, TypeOK
  <2>2. CASE y = x /\ x \in rows
    BY <2>1, <2>2, <1>1 DEF IInv, TypeOK, Cascade
  <2>3. CASE y \in del[r]
    BY <2>1, <2>3, <1>1 DEF IInv, TypeOK, Held
  <2> QED
    BY <2>1, <2>2, <2>3
<1>5. Held(r)'
  BY <1>1, <1>4 DEF IInv, TypeOK, Held, InFlight
<1>6. \A q \in Reqs \ {r} : SameWork(q)
  BY DEF IInv, TypeOK, SameWork
<1>7. ASSUME NEW q \in Reqs \ {r} PROVE Apart(q, r)' /\ Apart(r, q)'
  <2>1. x \notin shares[q]
    BY DEF Holders
  <2> QED
    BY <1>6, <2>1 DEF IInv, TypeOK, Apart, SameWork
<1> QED
  BY <1>3, <1>5, <1>6, <1>7, LocalStep

LEMMA WriteInv ==
    ASSUME IInv, NEW r \in Reqs, Write(r)
    PROVE  IInv'
<1>1. CASE DuplicateKey(r) \/ \E x \in Rows : NoParent(r, x)
  BY <1>1, RaiseInv DEF DuplicateKey, NoParent, Final
<1> QED
  BY <1>1, InsertInv, ShareKeyInv, BeginDeleteInv, LoadLinksInv, DeleteRowInv DEF Write

LEMMA CommitInv ==
    ASSUME IInv, NEW r \in Reqs, Commit(r)
    PROVE  IInv'
<1> USE DEF Commit, Close, Goto
<1>1. TypeOK'
  BY DEF IInv, TypeOK, Final
<1>2. \A q \in Reqs \ {r} : SameWork(q)
  BY DEF IInv, TypeOK, SameWork
<1>3. Held(r)'
  BY DEF IInv, TypeOK, Held, Final, InFlight
<1>4. ASSUME NEW q \in Reqs \ {r} PROVE Held(q)'
  <2>1. Held(q) /\ Held(r) /\ Apart(q, r) /\ SameWork(q)
    BY <1>2 DEF IInv
  <2>2. shares[q] \subseteq rows'
    BY <2>1 DEF Held, Apart
  <2>3. ASSUME NEW x \in del[q] PROVE Children(x) \cap rows' \subseteq del[q] \cup todo[q]
    <3> SUFFICES ASSUME NEW y \in Children(x) \cap ins[r] PROVE FALSE
      BY <2>1 DEF Held
    <3>1. x \in shares[r]
      BY <2>1 DEF Held, Children
    <3> QED
      BY <3>1 DEF IInv, Apart
  <2>4. ASSUME NEW x \in ins[q] PROVE SameKey(x) \cap rows' = {}
    BY <2>1 DEF Held, Apart
  <2> QED
    BY <2>1, <2>2, <2>3, <2>4 DEF Held, SameWork, SameKey, Named, Children
<1>5. \A q, s \in Reqs : q # s => Apart(q, s)'
  <2> SUFFICES ASSUME NEW q \in Reqs, NEW s \in Reqs, q # s PROVE Apart(q, s)'
    OBVIOUS
  <2>1. Apart(q, s)
    BY DEF IInv
  <2> QED
    BY <1>2, <2>1 DEF IInv, TypeOK, Apart, SameWork
<1>6. NoOrphans'
  <2> SUFFICES ASSUME NEW x \in rows', NEW p \in Parents(x) PROVE p \in rows'
    BY DEF NoOrphans
  <2>1. CASE x \in ins[r]
    BY <2>1 DEF IInv, Held
  <2>2. CASE x \in rows \ del[r]
    <3>1. p \in rows
      BY <2>2 DEF IInv, NoOrphans
    <3>2. p \notin del[r]
      BY <2>2 DEF IInv, TypeOK, Held, Children
    <3> QED
      BY <3>1, <3>2
  <2> QED
    BY <2>1, <2>2
<1>7. TagNamesUnique'
  <2> SUFFICES ASSUME NEW g \in rows' \cap Tags, NEW h \in rows' \cap Tags,
                      NameOf[g] = NameOf[h]
               PROVE  g = h
    BY DEF TagNamesUnique
  <2>1. h \in SameKey(g) /\ g \in SameKey(h)
    BY DEF SameKey, Named, Rows
  <2>2. CASE g \in ins[r] \/ h \in ins[r]
    BY <2>1, <2>2 DEF IInv, Held
  <2>3. CASE g \in rows /\ h \in rows
    BY <2>3 DEF IInv, TagNamesUnique
  <2> QED
    BY <2>2, <2>3
<1> QED
  BY <1>1, <1>3, <1>4, <1>5, <1>6, <1>7 DEF IInv

LEMMA EndInv ==
    ASSUME IInv, NEW r \in Reqs, End(r)
    PROVE  IInv'
<1>1. CASE DeadlockVictim(r) \/ Fail(r)
  BY <1>1, RaiseInv DEF DeadlockVictim, Fail, Final
<1> QED
  BY <1>1, CommitInv DEF End

LEMMA NextInv == IInv /\ [Next]_vars => IInv'
<1> SUFFICES ASSUME IInv, [Next]_vars PROVE IInv'
  OBVIOUS
<1>1. CASE UNCHANGED vars
  BY <1>1 DEF vars, db, asked, work, IInv, TypeOK, Held, Apart, NoOrphans, TagNamesUnique
<1> QED
  BY <1>1, StartInv, CheckInv, WriteInv, EndInv DEF Next

THEOREM Invariance == Spec => []IInv
BY InitInv, NextInv, PTL DEF Spec

-----------------------------------------------------------------------------
\* The variables keep their types.
THEOREM TypeCorrect == Spec => []TypeOK
<1>1. IInv => TypeOK
  BY DEF IInv
<1> QED
  BY <1>1, Invariance, PTL

\* Referential integrity survives every interleaving of cascades and inserts.
THEOREM NothingOrphaned == Spec => []NoOrphans
<1>1. IInv => NoOrphans
  BY DEF IInv
<1> QED
  BY <1>1, Invariance, PTL

\* Two overlapping creations of one tag name commit at most one of them.
THEOREM NamesAreUnique == Spec => []TagNamesUnique
<1>1. IInv => TagNamesUnique
  BY DEF IInv
<1> QED
  BY <1>1, Invariance, PTL

-----------------------------------------------------------------------------
(***************************************************************************)
(* The two action properties need to know where a request has been: that   *)
(* its project was checked, that whatever it deletes belongs to that       *)
(* project, and that its row is in its session or in the table, or was     *)
(* changed by another request meanwhile.                                   *)
(***************************************************************************)
\* x belongs to the project of y.
SameProject(x, y) == x \notin Tags /\ ProjectFor(x) = ProjectFor(y)

Owned(q) ==
    /\ pc[q] \in Final => seen[q] = {}
    /\ pc[q] = "name" => row[q] \in Tags
    /\ pc[q] \notin Final \cup {"task", "project", "name"} /\ row[q] \notin Tags =>
          OwnerOf[ProjectFor(row[q])] = user[q]
    /\ row[q] \notin Tags =>
          \A x \in seen[q] \cup ins[q] \cup del[q] \cup todo[q] : SameProject(x, row[q])

InSession(q) ==
    /\ pc[q] \in {"links", "rows"} => kind[q] = "delete"
    /\ kind[q] # "delete" => del[q] = {}
    /\ kind[q] # "create" => ins[q] = {}
    /\ pc[q] \in {"project", "tag", "again", "flush"} /\ row[q] \in Links =>
          ((row[q] \in seen[q]) = (row[q] \in rows)) \/ overtaken[q]
    /\ pc[q] = "keys" => kind[q] = "create" /\ row[q] \in ins[q]
    /\ pc[q] = "returned" /\ kind[q] = "create" => row[q] \in ins[q] \cup rows \/ overtaken[q]
    /\ pc[q] \in {"links", "rows", "returned"} /\ kind[q] = "delete" =>
          row[q] \in todo[q] \cup del[q] \/ row[q] \notin rows \/ overtaken[q]

Job(q) == Owned(q) /\ InSession(q)
JInv == IInv /\ \A q \in Reqs : Job(q)

SameJob(q) ==
    /\ SameWork(q) /\ kind'[q] = kind[q] /\ user'[q] = user[q] /\ seen'[q] = seen[q]
    /\ overtaken'[q] = overtaken[q]

LEMMA InitJob == Init => JInv
<1>1. Init => \A q \in Reqs : Job(q)
  BY DEF Init, Job, Owned, InSession, Final
<1> QED
  BY <1>1, InitInv DEF JInv

LEMMA JobStep ==
    ASSUME JInv, IInv', rows' = rows, NEW r \in Reqs,
           \A q \in Reqs \ {r} : SameJob(q),
           Job(r)'
    PROVE  JInv'
BY DEF JInv, Job, Owned, InSession, SameJob, SameWork, SameProject

LEMMA RaiseJob ==
    ASSUME JInv, IInv', NEW r \in Reqs, NEW a \in Final, Raise(r, a)
    PROVE  JInv'
<1> USE DEF Raise, Close, Goto, db
<1>1. Job(r)'
  BY DEF JInv, IInv, TypeOK, Job, Owned, InSession, Final
<1>2. \A q \in Reqs \ {r} : SameJob(q)
  BY DEF JInv, IInv, TypeOK, SameJob, SameWork
<1> QED
  BY <1>1, <1>2, JobStep

LEMMA BeginJob ==
    ASSUME JInv, IInv', NEW r \in Reqs, NEW u \in Users, NEW k \in {"read", "create", "delete"},
           NEW x \in Rows, NEW w \in {"task", "project", "tag", "name", "flush"},
           w = "tag" \/ w = "name" => x \in Tags,
           w = "project" \/ w = "flush" => x \notin Links,
           w = "flush" => OwnerOf[ProjectFor(x)] = u,
           Begin(r, u, k, x, w)
    PROVE  JInv'
<1> USE DEF Begin, Goto, db, work
<1>1. Job(r)'
  BY TablesAssumption DEF JInv, IInv, TypeOK, Held, Job, Owned, InSession, Final, Rows
<1>2. \A q \in Reqs \ {r} : SameJob(q)
  BY DEF JInv, IInv, TypeOK, SameJob, SameWork
<1> QED
  BY <1>1, <1>2, JobStep

LEMMA StartJob ==
    ASSUME JInv, IInv', NEW r \in Reqs, Start(r)
    PROVE  JInv'
<1> PICK u \in Users :
        ProjectRoutes(r, u) \/ TaskRoutes(r, u) \/ LinkRoutes(r, u) \/ TagRoutes(r, u)
  BY DEF Start
<1> USE TablesAssumption DEF Rows
<1>1. CASE ProjectRoutes(r, u)
  BY <1>1, BeginJob DEF ProjectRoutes, CreateProject, GetProject, DeleteProject, ProjectFor
<1>2. CASE TaskRoutes(r, u)
  BY <1>2, BeginJob DEF TaskRoutes, CreateTask, GetTask, DeleteTask, ListTasks
<1>3. CASE LinkRoutes(r, u)
  BY <1>3, BeginJob DEF LinkRoutes, AttachTag, DetachTag
<1>4. CASE TagRoutes(r, u)
  BY <1>4, BeginJob DEF TagRoutes, CreateTag, GetTag, DeleteTag
<1> QED
  BY <1>1, <1>2, <1>3, <1>4

LEMMA CheckJob ==
    ASSUME JInv, IInv', NEW r \in Reqs, Check(r)
    PROVE  JInv'
<1> USE DEF Goto, db, asked, work, JInv
<1>1. CASE LoadTask(r)
  <2> USE <1>1 DEF LoadTask
  <2>1. \A l \in seen'[r] : row[r] \notin Tags => SameProject(l, row[r])
    BY TablesAssumption DEF IInv, Held, InFlight, TypeOK, SameProject, ProjectFor, TaskFor, Rows, Links
  <2>2. Job(r)'
    BY <2>1 DEF IInv, TypeOK, Held, Job, Owned, InSession, Final, TaskFor
  <2> QED
    BY <2>2, JobStep DEF IInv, TypeOK, SameJob, SameWork
<1>2. CASE LoadProject(r) \/ LoadTag(r) \/ ReloadTask(r) \/ NameFree(r)
  <2> USE <1>2 DEF LoadProject, LoadTag, ReloadTask, NameFree
  <2>1. PICK w \in {"tag", "again", "flush", "returned"} :
            /\ pc[r] \in {"project", "tag", "again", "name"}
            /\ pc[r] = "project" => MayAccess(r)
            /\ w = "returned" => kind[r] = "read"
            /\ pc' = [pc EXCEPT ![r] = w]
            /\ UNCHANGED <<db, asked, work, overtaken>>
    OBVIOUS
  <2>2. Job(r)'
    BY <2>1, TablesAssumption
    DEF IInv, TypeOK, Held, Job, Owned, InSession, Final, MayAccess, SameProject
  <2> QED
    BY <2>1, <2>2, JobStep DEF IInv, TypeOK, SameJob, SameWork
<1>3. CASE AlreadyLinked(r)
  <2> USE <1>3 DEF AlreadyLinked
  <2>1. Job(r)'
    BY DEF IInv, TypeOK, Held, Job, Owned, InSession, Final, SameProject
  <2> QED
    BY <2>1, JobStep DEF IInv, TypeOK, SameJob, SameWork
<1>4. CASE NoTask(r) \/ NoAccess(r) \/ NoTag(r) \/ TaskGone(r) \/ NameTaken(r)
  BY <1>4, RaiseJob DEF NoTask, NoAccess, NoTag, TaskGone, NameTaken, Final
<1> QED
  BY <1>1, <1>2, <1>3, <1>4 DEF Check

LEMMA Tables ==
    /\ \A p \in Projects : p \notin Tasks \cup Tags \cup Links /\ ProjectFor(p) = p
    /\ \A t \in Tasks : /\ t \notin Projects \cup Tags \cup Links
                        /\ ProjectFor(t) = ProjectOf[t] /\ TaskFor(t) = t
    /\ \A l \in Links : /\ l \notin Projects \cup Tasks \cup Tags
                        /\ ProjectFor(l) = ProjectOf[l[1]] /\ TaskFor(l) = l[1]
                        /\ l[1] \in Tasks /\ l[2] \in Tags
BY TablesAssumption DEF ProjectFor, TaskFor, Links

LEMMA LoadedInProject ==
    ASSUME JInv, NEW r \in Reqs, row[r] \in Rows \ Tags, NEW x \in Loaded(r)
    PROVE  SameProject(x, row[r])
<1> USE DEF Loaded, SameProject
<1>1. \A y \in seen[r] : SameProject(y, row[r])
  BY DEF JInv, Job, Owned
<1>2. CASE row[r] \in Projects
  BY <1>2, Tables
<1>3. CASE row[r] \in Tasks
  BY <1>1, <1>3, Tables
<1>4. CASE row[r] \in Links
  BY <1>1, <1>4, Tables DEF Detached
<1> QED
  BY <1>2, <1>3, <1>4 DEF Rows

LEMMA CascadeInProject ==
    ASSUME NEW x \in Rows \ Tags, NEW y \in Children(x)
    PROVE  SameProject(y, x)
<1>1. y \in Rows /\ x \in Parents(y)
  BY DEF Children
<1>2. CASE y \in Links
  BY <1>1, <1>2, Tables DEF Parents, SameProject
<1>3. CASE y \in Tasks
  <2>1. x = ProjectOf[y] /\ x \in Projects
    BY <1>1, <1>3, Tables, ProjectOfAssumption DEF Parents
  <2> QED
    BY <1>3, <2>1, Tables DEF SameProject
<1> QED
  BY <1>1, <1>2, <1>3 DEF Parents

LEMMA WriteJob ==
    ASSUME JInv, IInv', NEW r \in Reqs, Write(r)
    PROVE  JInv'
<1> USE DEF Goto, db, asked, JInv
<1>1. CASE Insert(r)
  <2> USE <1>1 DEF Insert, Inserting
  <2>1. Job(r)'
    BY DEF IInv, TypeOK, Held, Job, Owned, InSession, Final, SameProject, AfterKeys
  <2> QED
    BY <2>1, JobStep DEF IInv, TypeOK, SameJob, SameWork
<1>2. CASE \E p \in Rows : ShareKey(r, p)
  <2> PICK p \in Rows : ShareKey(r, p)
    BY <1>2
  <2> USE DEF ShareKey
  <2>1. Job(r)'
    BY DEF IInv, TypeOK, Held, Job, Owned, InSession, Final, SameProject, AfterKeys
  <2> QED
    BY <2>1, JobStep DEF IInv, TypeOK, SameJob, SameWork
<1>3. CASE BeginDelete(r)
  <2> USE <1>3 DEF BeginDelete
  <2>1. row[r] \in Rows
    BY DEF IInv, Held, InFlight
  <2>2. Owned(r)'
    BY <2>1, LoadedInProject DEF IInv, TypeOK, Held, Job, Owned, Final, SameProject
  <2>3. row[r] \in Loaded(r) \/ row[r] \notin rows \/ overtaken[r]
    BY <2>1 DEF Job, InSession, Loaded, Detached, Rows
  <2>4. InSession(r)'
    BY <2>3 DEF IInv, TypeOK, Held, Job, InSession
  <2> QED
    BY <2>2, <2>4, JobStep DEF IInv, TypeOK, Job, SameJob, SameWork
<1>4. CASE LoadLinks(r)
  <2> USE <1>4 DEF LoadLinks
  <2>1. row[r] \in Rows
    BY DEF IInv, Held, InFlight
  <2>2. \A l \in Links : l[1] \in todo[r] /\ row[r] \notin Tags => SameProject(l, row[r])
    BY <2>1, Tables DEF Job, Owned, SameProject
  <2>3. Owned(r)'
    BY <2>2 DEF IInv, TypeOK, Held, Job, Owned, Final, SameProject
  <2>4. InSession(r)'
    BY DEF IInv, TypeOK, Held, Job, InSession
  <2> QED
    BY <2>3, <2>4, JobStep DEF IInv, TypeOK, Job, SameJob, SameWork
<1>5. CASE \E x \in Rows : DeleteRow(r, x)
  <2> PICK x \in Rows : DeleteRow(r, x)
    BY <1>5
  <2> USE DEF DeleteRow
  <2>1. todo' = [todo EXCEPT ![r] = (todo[r] \ {x}) \cup Cascade(r, x)]
    OBVIOUS
  <2>2. \A y \in Cascade(r, x) : row[r] \notin Tags => SameProject(y, row[r])
    BY CascadeInProject DEF Job, Owned, SameProject, Cascade
  <2>3. Owned(r)'
    BY <2>1, <2>2 DEF IInv, TypeOK, Held, Job, Owned, Final, SameProject
  <2>4. InSession(r)'
    BY <2>1 DEF IInv, TypeOK, Held, Job, InSession
  <2> QED
    BY <2>3, <2>4, JobStep DEF IInv, TypeOK, Job, SameJob, SameWork
<1>6. CASE DuplicateKey(r) \/ \E x \in Rows : NoParent(r, x)
  BY <1>6, RaiseJob DEF DuplicateKey, NoParent, Final
<1> QED
  BY <1>1, <1>2, <1>3, <1>4, <1>5, <1>6 DEF Write

LEMMA CommitJob ==
    ASSUME JInv, IInv', NEW r \in Reqs, Commit(r)
    PROVE  JInv'
<1> USE DEF Commit, Close, Goto, JInv
<1>1. Job(r)'
  BY DEF IInv, TypeOK, Job, Owned, InSession, Final
<1>2. ASSUME NEW q \in Reqs \ {r} PROVE Job(q)'
  <2>1. SameWork(q) /\ kind'[q] = kind[q] /\ user'[q] = user[q] /\ seen'[q] = seen[q]
    BY DEF IInv, TypeOK, SameWork
  <2>2. overtaken'[q] \/ ((row[q] \in rows' <=> row[q] \in rows) /\ ~ overtaken[q])
    <3>1. overtaken'[q] = (q # r /\ (overtaken[q] \/ row[q] \in del[r] \cup ins[r]))
      BY Zenon
    <3> QED
      BY <3>1
  <2>3. Owned(q)'
    BY <2>1 DEF Job, Owned, SameWork, SameProject
  <2>4. InSession(q)'
    BY <2>1, <2>2 DEF Job, InSession, SameWork
  <2> QED
    BY <2>3, <2>4 DEF Job
<1>3. \A q \in Reqs : Job(q)'
  BY <1>1, <1>2
<1> QED
  BY <1>3

LEMMA NextJob == JInv /\ [Next]_vars => JInv'
<1> SUFFICES ASSUME JInv, [Next]_vars PROVE JInv'
  OBVIOUS
<1>1. IInv'
  BY NextInv DEF JInv
<1>2. CASE UNCHANGED vars
  BY <1>1, <1>2 DEF vars, db, asked, work, JInv, Job, Owned, InSession, SameProject
<1>3. ASSUME NEW r \in Reqs, End(r) PROVE JInv'
  BY <1>1, <1>3, RaiseJob, CommitJob DEF End, DeadlockVictim, Fail, Final
<1> QED
  BY <1>1, <1>2, <1>3, StartJob, CheckJob, WriteJob DEF Next

LEMMA JobInvariance == Spec => []JInv
BY InitJob, NextJob, PTL DEF Spec

\* No request of anyone but a project's owner commits a change to the project, its
\* tasks or their links, whatever happened to the rows it had checked.
THEOREM OnlyOwnersChange == Spec => OwnersOnly
<1>1. JInv => \A r \in Reqs : Commit(r) /\ row[r] \notin Tags =>
          /\ OwnerOf[ProjectFor(row[r])] = user[r]
          /\ \A x \in del[r] \cup ins[r] : x \notin Tags /\ ProjectFor(x) = ProjectFor(row[r])
  BY DEF JInv, Job, Owned, SameProject, Commit, Final
<1> QED
  BY <1>1, JobInvariance, PTL DEF OwnersOnly

\* A success means that the row is there, or gone, or that someone overlapped.
THEOREM SuccessTookEffect == Spec => TookEffect
<1>1. JInv => \A r \in Reqs : Commit(r) /\ kind[r] # "read" =>
          \/ (row[r] \in rows') = (kind[r] = "create")
          \/ overtaken[r]
  <2> SUFFICES ASSUME JInv, NEW r \in Reqs, Commit(r), kind[r] # "read", ~ overtaken[r]
               PROVE  row[r] \in rows' <=> kind[r] = "create"
    OBVIOUS
  <2>1. kind[r] \in {"create", "delete"} /\ todo[r] = {}
    BY DEF JInv, IInv, TypeOK, Held, Commit
  <2>2. CASE kind[r] = "create"
    BY <2>2 DEF JInv, Job, InSession, Commit
  <2>3. CASE kind[r] = "delete"
    BY <2>1, <2>3 DEF JInv, Job, InSession, Commit
  <2> QED
    BY <2>1, <2>2, <2>3
<1> QED
  BY <1>1, JobInvariance, PTL DEF TookEffect

-----------------------------------------------------------------------------
\* A row is locked for its foreign keys only, and a tag's deletion reaches its links only.
Reach(q) ==
    /\ shares[q] \subseteq Parents(row[q])
    /\ row[q] \in Tags => todo[q] \cup del[q] \subseteq Tags \cup Links
Reached == \A q \in Reqs : Reach(q)

LEMMA ReachStep ==
    ASSUME Reached, NEW r \in Reqs, \A q \in Reqs \ {r} : SameWork(q), Reach(r)'
    PROVE  Reached'
BY DEF Reached, Reach, SameWork

LEMMA RaiseReach ==
    ASSUME IInv, Reached, NEW r \in Reqs, NEW a \in Final, Raise(r, a)
    PROVE  Reached'
<1> USE DEF Raise, Close, Goto, db
<1>1. Reach(r)'
  BY NoRowAssumption DEF IInv, TypeOK, Reach, Rows
<1>2. \A q \in Reqs \ {r} : SameWork(q)
  BY DEF IInv, TypeOK, SameWork
<1> QED
  BY <1>1, <1>2, ReachStep

LEMMA WriteReach ==
    ASSUME IInv, Reached, NEW r \in Reqs, Write(r)
    PROVE  Reached'
<1> USE DEF Goto, db, asked
<1>1. CASE Insert(r)
  BY <1>1, ReachStep DEF Insert, IInv, TypeOK, SameWork, Reached, Reach
<1>2. CASE \E p \in Rows : ShareKey(r, p)
  <2> PICK p \in Rows : ShareKey(r, p)
    BY <1>2
  <2>1. shares'[r] = shares[r] \cup {p} /\ p \in Parents(row[r])
        /\ UNCHANGED <<row, todo, del>>
    BY DEF ShareKey, IInv, TypeOK
  <2>2. Reach(r)'
    BY <2>1 DEF Reached, Reach
  <2> QED
    BY <2>2, ReachStep DEF ShareKey, IInv, TypeOK, SameWork
<1>3. CASE BeginDelete(r)
  <2>1. todo'[r] = Loaded(r) /\ UNCHANGED <<row, shares, del>>
    BY <1>3 DEF BeginDelete, IInv, TypeOK
  <2>2. row[r] \in Tags => Loaded(r) \subseteq Tags \cup Links
    BY Tables, TablesAssumption DEF Loaded
  <2>3. Reach(r)'
    BY <2>1, <2>2 DEF Reached, Reach
  <2> QED
    BY <1>3, <2>3, ReachStep DEF BeginDelete, IInv, TypeOK, SameWork
<1>4. CASE LoadLinks(r)
  <2>1. Reach(r)'
    BY <1>4 DEF LoadLinks, IInv, TypeOK, Reached, Reach
  <2> QED
    BY <1>4, <2>1, ReachStep DEF LoadLinks, IInv, TypeOK, SameWork
<1>5. CASE \E x \in Rows : DeleteRow(r, x)
  <2> PICK x \in Rows : DeleteRow(r, x)
    BY <1>5
  <2>1. /\ x \in todo[r] /\ todo'[r] = (todo[r] \ {x}) \cup Cascade(r, x)
        /\ del'[r] \subseteq del[r] \cup {x} /\ UNCHANGED <<row, shares>>
    BY DEF DeleteRow, IInv, TypeOK
  <2>2. ASSUME x \in Tags \cup Links, NEW y \in Children(x) PROVE y \in Links
    <3>1. y \in Rows /\ x \in Parents(y)
      BY DEF Children
    <3>2. y \in Tasks => x \in Projects
      BY <3>1, Tables, ProjectOfAssumption DEF Parents
    <3> QED
      BY <2>2, <3>1, <3>2, TablesAssumption DEF Parents
  <2>3. row[r] \in Tags => Cascade(r, x) \subseteq Links
    BY <2>1, <2>2 DEF Reached, Reach, Cascade
  <2>4. Reach(r)'
    BY <2>1, <2>3 DEF Reached, Reach
  <2> QED
    BY <2>4, ReachStep DEF DeleteRow, IInv, TypeOK, SameWork
<1>6. CASE DuplicateKey(r) \/ \E x \in Rows : NoParent(r, x)
  BY <1>6, RaiseReach DEF DuplicateKey, NoParent, Final
<1> QED
  BY <1>1, <1>2, <1>3, <1>4, <1>5, <1>6 DEF Write

LEMMA NextReach == IInv /\ Reached /\ [Next]_vars => Reached'
<1> SUFFICES ASSUME IInv, Reached, [Next]_vars PROVE Reached'
  OBVIOUS
<1> USE DEF Goto, db, asked, work
<1>1. CASE UNCHANGED vars
  BY <1>1 DEF vars, Reached, Reach
<1>2. ASSUME NEW r \in Reqs, Start(r) PROVE Reached'
  <2>1. PICK u \in Users, k \in {"read", "create", "delete"}, x \in Rows,
             w \in {"task", "project", "tag", "name", "flush"} : Begin(r, u, k, x, w)
    BY <1>2 DEF Start, ProjectRoutes, CreateProject, GetProject, DeleteProject, TaskRoutes, CreateTask,
        GetTask, DeleteTask, ListTasks, LinkRoutes, AttachTag, DetachTag, TagRoutes, CreateTag, GetTag,
        DeleteTag, Rows
  <2>2. Reach(r)'
    BY <2>1 DEF Begin, IInv, TypeOK, Held, Final, InFlight, Reach
  <2> QED
    BY <2>1, <2>2, ReachStep DEF Begin, IInv, TypeOK, SameWork
<1>3. ASSUME NEW r \in Reqs, Check(r) PROVE Reached'
  <2>1. CASE NoTask(r) \/ NoAccess(r) \/ NoTag(r) \/ TaskGone(r) \/ NameTaken(r)
    BY <2>1, RaiseReach DEF NoTask, NoAccess, NoTag, TaskGone, NameTaken, Final
  <2>2. CASE LoadTask(r) \/ LoadProject(r) \/ LoadTag(r) \/ ReloadTask(r) \/ NameFree(r) \/ AlreadyLinked(r)
    <3>1. UNCHANGED <<row, shares, todo, del>>
      BY <2>2 DEF LoadTask, LoadProject, LoadTag, ReloadTask, NameFree, AlreadyLinked
    <3> QED
      BY <3>1 DEF Reached, Reach
  <2> QED
    BY <1>3, <2>1, <2>2 DEF Check
<1>4. ASSUME NEW r \in Reqs, End(r) PROVE Reached'
  <2>1. CASE Commit(r)
    <3>1. shares'[r] = {} /\ todo'[r] = {} /\ del'[r] = {}
      BY <2>1 DEF Commit, Close, IInv, TypeOK
    <3> QED
      BY <2>1, <3>1, ReachStep DEF Commit, Close, IInv, TypeOK, SameWork, Reach
  <2> QED
    BY <1>4, <2>1, RaiseReach DEF End, DeadlockVictim, Fail, Final
<1> QED
  BY <1>1, <1>2, <1>3, <1>4, WriteReach DEF Next

\* What a cycle of lock waits takes: two deletions.
DeadlockTakesTwoDeletions ==
    \A D \in SUBSET Reqs :
        D # {} /\ (\A q \in D : Blockers(q) \cap D # {}) =>
            \E p, q \in D : p # q /\ kind[p] = "delete" /\ kind[q] = "delete"

\* Requests wait for each other in a cycle only if two deletions are among them.  A
\* creation that waits for a parent holds other parents of its row; the deletion it
\* waits for never wants those too, for what it deletes has no two parents of one row.
THEOREM DeadlocksNeedDeletions == Spec => []DeadlockTakesTwoDeletions
<1>1. Init => Reached
  BY DEF Init, Reached, Reach
<1>2. JInv /\ Reached => DeadlockTakesTwoDeletions
  <2> SUFFICES ASSUME JInv, Reached, NEW D \in SUBSET Reqs, D # {},
                      \A q \in D : Blockers(q) \cap D # {},
                      \A p, q \in D : kind[p] = "delete" /\ kind[q] = "delete" => p = q
               PROVE  FALSE
    BY DEF DeadlockTakesTwoDeletions
  <2>1. ASSUME NEW r \in D, NEW q \in D, q \in Blockers(r), pc[r] = "rows"
        PROVE  /\ kind[r] = "delete" /\ pc[q] = "keys"
               /\ \E x \in todo[r] : x \in shares[q]
    <3>1. kind[r] = "delete" /\ q # r
      BY <2>1 DEF JInv, Job, InSession, Blockers, Holders
    <3>2. kind[q] # "delete" /\ del[q] = {}
      BY <3>1 DEF JInv, Job, InSession
    <3>3. PICK x \in todo[r] : x \in shares[q]
      BY <2>1, <3>2 DEF Blockers, Holders
    <3>4. pc[q] \in {"keys", "returned"}
      BY <3>3 DEF JInv, IInv, Held
    <3>5. pc[q] # "returned"
      BY DEF Blockers
    <3> QED
      BY <3>1, <3>3, <3>4, <3>5
  <2>2. ASSUME NEW r \in D, NEW q \in D, q \in Blockers(r), pc[r] = "keys"
        PROVE  /\ kind[q] = "delete" /\ pc[q] = "rows"
               /\ \E p \in Parents(row[r]) \ shares[r] : p \in del[q]
    <3>1. PICK p \in Parents(row[r]) \ shares[r] : p \in del[q]
      BY <2>2 DEF Blockers, Deleters
    <3>2. kind[q] = "delete" /\ pc[q] \in {"rows", "returned"}
      BY <3>1 DEF JInv, IInv, Held, Job, InSession
    <3>3. pc[q] # "returned"
      BY DEF Blockers
    <3> QED
      BY <3>1, <3>2, <3>3
  <2>3. ASSUME NEW r \in D, NEW q \in D, q \in Blockers(r)
        PROVE  pc[q] \in {"rows", "keys"}
    <3>1. pc[r] \in {"flush", "keys", "rows"}
      BY <2>3 DEF Blockers
    <3>2. CASE pc[r] = "flush"
      <4>1. ins[q] \cup del[q] # {}
        BY <2>3, <3>2 DEF Blockers, KeyHolders
      <4>2. pc[q] \in {"keys", "rows", "returned"}
        BY <4>1 DEF JInv, IInv, Held
      <4>3. pc[q] # "returned"
        BY DEF Blockers
      <4> QED
        BY <4>2, <4>3
    <3> QED
      BY <2>1, <2>2, <2>3, <3>1, <3>2
  <2>4. PICK k \in D : pc[k] = "keys"
    <3>1. PICK r \in D : pc[r] \in {"rows", "keys"}
      BY <2>3
    <3>2. PICK q \in D : q \in Blockers(r)
      OBVIOUS
    <3> QED
      BY <2>1, <3>1, <3>2
  <2>5. PICK d \in D : d \in Blockers(k)
    OBVIOUS
  <2>6. kind[d] = "delete" /\ pc[d] = "rows"
    BY <2>2, <2>4, <2>5
  <2>7. PICK e \in D : e \in Blockers(d)
    OBVIOUS
  <2>8. pc[e] = "keys" /\ \E x \in todo[d] : x \in shares[e]
    BY <2>1, <2>6, <2>7
  <2>9. PICK x \in todo[d] : x \in shares[e]
    BY <2>8
  <2>10. PICK c \in D : c \in Blockers(e)
    OBVIOUS
  <2>11. kind[c] = "delete" /\ \E p \in Parents(row[e]) \ shares[e] : p \in del[c]
    BY <2>2, <2>8, <2>10
  <2>12. c = d
    BY <2>6, <2>11
  <2>13. PICK p \in Parents(row[e]) \ shares[e] : p \in del[d]
    BY <2>11, <2>12
  <2>14. x \in Parents(row[e]) /\ x # p
    BY <2>9, <2>13 DEF Reached, Reach
  <2>15. \E t \in {x, p}, g \in {x, p} : t \in Tasks /\ g \in Tags
    BY <2>13, <2>14, Tables DEF Parents
  <2>16. CASE row[d] \in Tags
    BY <2>9, <2>13, <2>15, <2>16, TablesAssumption, Tables DEF Reached, Reach
  <2>17. CASE row[d] \notin Tags
    BY <2>9, <2>13, <2>15, <2>17 DEF JInv, Job, Owned, SameProject
  <2> QED
    BY <2>16, <2>17
<1>3. JInv /\ Reached /\ [Next]_vars => Reached'
  BY NextReach DEF JInv
<1> QED
  BY <1>1, <1>2, <1>3, JobInvariance, PTL DEF Spec
=============================================================================
