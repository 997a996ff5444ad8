-------------------------------- MODULE Board --------------------------------
(***************************************************************************)
(* Projects, tasks, tags and the links between tasks and tags: every       *)
(* request that reads, creates or deletes one of them (TaskService,        *)
(* ProjectService and TagService over their repositories), as concurrent   *)
(* READ COMMITTED transactions.                                            *)
(*                                                                         *)
(* A request loads the rows it checks with one SELECT per await, so each   *)
(* may be gone when it writes.  What then happens is up to PostgreSQL:     *)
(* unique keys, foreign keys with ON DELETE CASCADE, and row locks.  An    *)
(* id is never reused, and project_id, owner_id and the name of a tag are  *)
(* never updated, so that they are constants of the id.                    *)
(***************************************************************************)
CONSTANTS Users, Projects, Tasks, Tags,
          OwnerOf,        \* projects.owner_id
          ProjectOf,      \* tasks.project_id
          NameOf,         \* tags.name
          Reqs,           \* slots for requests in progress
          NoRow, NoUser

Links == Tasks \X Tags
Rows == Projects \cup Tasks \cup Tags \cup Links

ASSUME OwnerOfAssumption == OwnerOf \in [Projects -> Users]
ASSUME ProjectOfAssumption == ProjectOf \in [Tasks -> Projects]
ASSUME TablesAssumption ==
    /\ Projects \cap Tasks = {} /\ Projects \cap Tags = {} /\ Tasks \cap Tags = {}
    /\ Links \cap (Projects \cup Tasks \cup Tags) = {}
ASSUME NoRowAssumption == NoRow \notin Rows
ASSUME NoUserAssumption == NoUser \notin Users

VARIABLES
    rows,           \* what is committed, of all four tables
    issued,         \* ids the sequences have handed out
    pc,             \* where each request is
    kind, row, user,    \* what it does, to which row, for whom
    seen,           \* the links of its task, as its session loaded them
    ins, del,       \* flushed, uncommitted INSERT and DELETEs
    shares,         \* rows it holds FOR KEY SHARE, for its foreign keys
    todo,           \* rows its flush and the cascades have still to delete
    overtaken       \* history: another request has changed its row meanwhile

db == <<rows, issued>>
asked == <<kind, row, user>>
work == <<seen, ins, del, shares, todo>>
vars == <<db, pc, asked, work, overtaken>>

Final == {"idle", "ok", "denied", "failed"}
InFlight == {"task", "project", "tag", "again", "name", "flush", "keys", "links",
             "rows", "returned"}

TypeOK ==
    /\ rows \subseteq Rows
    /\ issued \subseteq Rows
    /\ pc \in [Reqs -> Final \cup InFlight]
    /\ kind \in [Reqs -> {"read", "create", "delete"}]
    /\ row \in [Reqs -> Rows \cup {NoRow}]
    /\ user \in [Reqs -> Users \cup {NoUser}]
    /\ seen \in [Reqs -> SUBSET Links]
    /\ ins \in [Reqs -> SUBSET Rows]
    /\ del \in [Reqs -> SUBSET Rows]
    /\ shares \in [Reqs -> SUBSET Rows]
    /\ todo \in [Reqs -> SUBSET Rows]
    /\ overtaken \in [Reqs -> BOOLEAN]

Init ==
    /\ rows = {}
    /\ issued = {}
    /\ pc = [r \in Reqs |-> "idle"]
    /\ kind = [r \in Reqs |-> "read"]
    /\ row = [r \in Reqs |-> NoRow]
    /\ user = [r \in Reqs |-> NoUser]
    /\ seen = [r \in Reqs |-> {}]
    /\ ins = [r \in Reqs |-> {}]
    /\ del = [r \in Reqs |-> {}]
    /\ shares = [r \in Reqs |-> {}]
    /\ todo = [r \in Reqs |-> {}]
    /\ overtaken = [r \in Reqs |-> FALSE]

-----------------------------------------------------------------------------
\* Foreign keys, and the rows a request is about.
Parents(x) ==
    CASE x \in Links -> {x[1], x[2]}
      [] x \in Tasks -> {ProjectOf[x]}
      [] OTHER       -> {}
Children(x) == {y \in Rows : x \in Parents(y)}

TaskFor(x) == IF x \in Links THEN x[1] ELSE x
ProjectFor(x) == IF x \in Projects THEN x ELSE ProjectOf[TaskFor(x)]
TagFor(x) == IF x \in Links THEN x[2] ELSE x

\* Rows with the same unique key: tags.name, and the primary key of task_tags.
Named(g) == {h \in Tags : NameOf[h] = NameOf[g]}
BugNotUnique(x) == {x}
SameKey(x) == IF x \in Tags THEN Named(x) ELSE {x}

Goto(r, where) == pc' = [pc EXCEPT ![r] = where]

\* The session is closed: its locks go, and with them what it has not committed.
Close(r, answer) ==
    /\ Goto(r, answer)
    /\ kind' = [kind EXCEPT ![r] = "read"]
    /\ row' = [row EXCEPT ![r] = NoRow]
    /\ user' = [user EXCEPT ![r] = NoUser]
    /\ seen' = [seen EXCEPT ![r] = {}]
    /\ ins' = [ins EXCEPT ![r] = {}]
    /\ del' = [del EXCEPT ![r] = {}]
    /\ shares' = [shares EXCEPT ![r] = {}]
    /\ todo' = [todo EXCEPT ![r] = {}]

Raise(r, answer) ==
    /\ Close(r, answer)
    /\ overtaken' = [overtaken EXCEPT ![r] = FALSE]
    /\ UNCHANGED db

\* The request of u begins with the SELECT at "where".
Begin(r, u, k, x, where) ==
    /\ pc[r] \in Final
    /\ Goto(r, where)
    /\ kind' = [kind EXCEPT ![r] = k]
    /\ row' = [row EXCEPT ![r] = x]
    /\ user' = [user EXCEPT ![r] = u]
    /\ UNCHANGED <<db, work, overtaken>>

\* A sequence never hands out an id twice, even when its transaction fails.
Fresh(x) == x \notin issued /\ \A q \in Reqs : row[q] # x

CreateProject(r, u, p) ==
    OwnerOf[p] = u /\ Fresh(p) /\ Begin(r, u, "create", p, "flush")
GetProject(r, u, p) == Begin(r, u, "read", p, "project")
DeleteProject(r, u, p) == Begin(r, u, "delete", p, "project")

CreateTask(r, u, t) == Fresh(t) /\ Begin(r, u, "create", t, "project")
ListTasks(r, u, p) == Begin(r, u, "read", p, "project")
GetTask(r, u, t) == Begin(r, u, "read", t, "task")
DeleteTask(r, u, t) == Begin(r, u, "delete", t, "task")

AttachTag(r, u, l) == Begin(r, u, "create", l, "task")
DetachTag(r, u, l) == Begin(r, u, "delete", l, "task")

CreateTag(r, u, g) == Fresh(g) /\ Begin(r, u, "create", g, "name")
GetTag(r, u, g) == Begin(r, u, "read", g, "tag")
DeleteTag(r, u, g) == Begin(r, u, "delete", g, "tag")

-----------------------------------------------------------------------------
\* TaskService.get_or_404; the tags come with the task, in a second SELECT.
LoadTask(r) ==
    /\ pc[r] = "task"
    /\ TaskFor(row[r]) \in rows
    /\ seen' = [seen EXCEPT ![r] = {l \in Links \cap rows : l[1] = TaskFor(row[r])}]
    /\ Goto(r, "project")
    /\ UNCHANGED <<db, asked, ins, del, shares, todo, overtaken>>

NoTask(r) ==
    /\ pc[r] = "task"
    /\ TaskFor(row[r]) \notin rows
    /\ Raise(r, "denied")

\* TaskService.assert_project_access, ProjectService.get_or_404 and assert_owner
BugAnyMember(r) == ProjectFor(row[r]) \in rows
MayAccess(r) == ProjectFor(row[r]) \in rows /\ OwnerOf[ProjectFor(row[r])] = user[r]
LoadProject(r) ==
    /\ pc[r] = "project"
    /\ MayAccess(r)
    /\ Goto(r, CASE row[r] \in Links   -> "tag"
                 [] kind[r] = "read"   -> "returned"
                 [] OTHER              -> "flush")
    /\ UNCHANGED <<db, asked, work, overtaken>>

NoAccess(r) ==
    /\ pc[r] = "project"
    /\ ~ MayAccess(r)
    /\ Raise(r, "denied")

LoadTag(r) ==
    /\ pc[r] = "tag"
    /\ TagFor(row[r]) \in rows
    /\ Goto(r, CASE row[r] \in Links   -> "again"
                 [] kind[r] = "read"   -> "returned"
                 [] OTHER              -> "flush")
    /\ UNCHANGED <<db, asked, work, overtaken>>

NoTag(r) ==
    /\ pc[r] = "tag"
    /\ TagFor(row[r]) \notin rows
    /\ Raise(r, "denied")

\* add_tag and remove_tag select the task again, for its existence only: the
\* session keeps the tags it loaded first.  scalar_one raises on a missing row.
ReloadTask(r) ==
    /\ pc[r] = "again"
    /\ TaskFor(row[r]) \in rows
    /\ Goto(r, "flush")
    /\ UNCHANGED <<db, asked, work, overtaken>>

TaskGone(r) ==
    /\ pc[r] = "again"
    /\ TaskFor(row[r]) \notin rows
    /\ Raise(r, "failed")

\* TagService.create asks for the name before it inserts.
NameFree(r) ==
    /\ pc[r] = "name"
    /\ Named(row[r]) \cap rows = {}
    /\ Goto(r, "flush")
    /\ UNCHANGED <<db, asked, work, overtaken>>

NameTaken(r) ==
    /\ pc[r] = "name"
    /\ Named(row[r]) \cap rows # {}
    /\ Raise(r, "denied")

-----------------------------------------------------------------------------
\* add_tag: a tag that the session has seen on the task is not inserted again.
AlreadyLinked(r) ==
    /\ pc[r] = "flush" /\ kind[r] = "create"
    /\ row[r] \in seen[r]
    /\ Goto(r, "returned")
    /\ UNCHANGED <<db, asked, work, overtaken>>

\* INSERT.  A unique key waits for an uncommitted writer of the same key and
\* fails on a committed one.
KeyHolders(r) == {q \in Reqs \ {r} : SameKey(row[r]) \cap (ins[q] \cup del[q]) # {}}
Inserting(r) ==
    /\ pc[r] = "flush" /\ kind[r] = "create"
    /\ row[r] \notin seen[r]
    /\ KeyHolders(r) = {}

AfterKeys(r, S) == IF Parents(row[r]) \subseteq S THEN "returned" ELSE "keys"

Insert(r) ==
    /\ Inserting(r)
    /\ SameKey(row[r]) \cap rows = {}
    /\ ins' = [ins EXCEPT ![r] = {row[r]}]
    /\ issued' = issued \cup ({row[r]} \ Links)
    /\ Goto(r, AfterKeys(r, {}))
    /\ UNCHANGED <<rows, asked, seen, del, shares, todo, overtaken>>

DuplicateKey(r) ==
    /\ Inserting(r)
    /\ SameKey(row[r]) \cap rows # {}
    /\ Raise(r, "failed")

\* The foreign keys of the new row: each parent is locked FOR KEY SHARE, which
\* waits for an uncommitted DELETE of it and then fails if it is gone.
Deleters(r, p) == {q \in Reqs \ {r} : p \in del[q]}
ShareKey(r, p) ==
    /\ pc[r] = "keys"
    /\ p \in Parents(row[r]) \ shares[r]
    /\ Deleters(r, p) = {}
    /\ p \in rows
    /\ shares' = [shares EXCEPT ![r] = @ \cup {p}]
    /\ Goto(r, AfterKeys(r, shares[r] \cup {p}))
    /\ UNCHANGED <<db, asked, seen, ins, del, todo, overtaken>>

NoParent(r, p) ==
    /\ pc[r] = "keys"
    /\ p \in Parents(row[r]) \ shares[r]
    /\ Deleters(r, p) = {}
    /\ p \notin rows
    /\ Raise(r, "failed")

-----------------------------------------------------------------------------
\* remove_tag assigns the list without the tag: its link is what is missing then.
BugInvertedFilter(r) == seen[r] \ {row[r]}
Detached(r) == {row[r]} \cap seen[r]

\* session.delete: what the ORM means to delete is what it has loaded.  A
\* project's tasks are loaded now, their links in the flush.
BugLoadedByUser(r) == {user[r]}
Loaded(r) ==
    CASE row[r] \in Projects -> {row[r]} \cup {t \in Tasks \cap rows : ProjectOf[t] = row[r]}
      [] row[r] \in Tasks    -> {row[r]} \cup seen[r]
      [] row[r] \in Tags     -> {row[r]} \cup {l \in Links \cap rows : l[2] = row[r]}
      [] OTHER               -> Detached(r)

BeginDelete(r) ==
    /\ pc[r] = "flush" /\ kind[r] = "delete"
    /\ todo' = [todo EXCEPT ![r] = Loaded(r)]
    /\ Goto(r, CASE row[r] \in Projects -> "links"
                 [] Loaded(r) = {}      -> "returned"
                 [] OTHER               -> "rows")
    /\ UNCHANGED <<db, asked, seen, ins, del, shares, overtaken>>

LoadLinks(r) ==
    /\ pc[r] = "links"
    /\ todo' = [todo EXCEPT ![r] = @ \cup {l \in Links \cap rows : l[1] \in todo[r]}]
    /\ Goto(r, "rows")
    /\ UNCHANGED <<db, asked, seen, ins, del, shares, overtaken>>

\* One DELETE, links before tasks before the project.  It waits for whoever holds
\* the row, finds it or not, and cascades to the children committed by then.
Holders(r, x) == {q \in Reqs \ {r} : x \in del[q] \cup shares[q]}
BugNoCascade(r, x) == {}
Cascade(r, x) == IF x \in rows THEN (Children(x) \cap rows) \ del[r] ELSE {}
DeleteRow(r, x) ==
    /\ pc[r] = "rows"
    /\ x \in todo[r]
    /\ Children(x) \cap todo[r] = {}
    /\ Holders(r, x) = {}
    /\ del' = [del EXCEPT ![r] = @ \cup ({x} \cap rows)]
    /\ todo' = [todo EXCEPT ![r] = (@ \ {x}) \cup Cascade(r, x)]
    /\ Goto(r, IF todo'[r] = {} THEN "returned" ELSE "rows")
    /\ UNCHANGED <<db, asked, seen, ins, shares, overtaken>>

-----------------------------------------------------------------------------
\* PostgreSQL aborts one of the transactions that wait for each other in a cycle.
Blockers(r) ==
    CASE pc[r] = "flush" /\ kind[r] = "create" -> KeyHolders(r)
      [] pc[r] = "keys" -> UNION {Deleters(r, p) : p \in Parents(row[r]) \ shares[r]}
      [] pc[r] = "rows" -> UNION {Holders(r, x) : x \in todo[r]}
      [] OTHER          -> {}
Stuck(r) ==
    CASE pc[r] = "flush" /\ kind[r] = "create" -> KeyHolders(r) # {} /\ row[r] \notin seen[r]
      [] pc[r] = "keys" -> \A p \in Parents(row[r]) \ shares[r] : Deleters(r, p) # {}
      [] pc[r] = "rows" ->
            \A x \in todo[r] : Children(x) \cap todo[r] = {} => Holders(r, x) # {}
      [] OTHER          -> FALSE
Deadlocked(r) ==
    \E D \in SUBSET Reqs :
        /\ r \in D
        /\ \A q \in D : Stuck(q) /\ Blockers(q) \cap D # {}
DeadlockVictim(r) ==
    /\ Deadlocked(r)
    /\ Raise(r, "failed")

\* get_db commits after the endpoint has returned.
Commit(r) ==
    /\ pc[r] = "returned"
    /\ rows' = (rows \ del[r]) \cup ins[r]
    /\ overtaken' = [q \in Reqs |-> /\ q # r
                                    /\ overtaken[q] \/ row[q] \in del[r] \cup ins[r]]
    /\ Close(r, "ok")
    /\ UNCHANGED issued

\* A killed worker or a lost connection: the transaction is rolled back.
Fail(r) ==
    /\ pc[r] \in InFlight
    /\ Raise(r, "failed")

ProjectRoutes(r, u) ==
    \E p \in Projects : CreateProject(r, u, p) \/ GetProject(r, u, p) \/ DeleteProject(r, u, p)
TaskRoutes(r, u) ==
    \/ \E t \in Tasks : CreateTask(r, u, t) \/ GetTask(r, u, t) \/ DeleteTask(r, u, t)
    \/ \E p \in Projects : ListTasks(r, u, p)
LinkRoutes(r, u) == \E l \in Links : AttachTag(r, u, l) \/ DetachTag(r, u, l)
TagRoutes(r, u) ==
    \E g \in Tags : CreateTag(r, u, g) \/ GetTag(r, u, g) \/ DeleteTag(r, u, g)
Start(r) ==
    \E u \in Users :
        ProjectRoutes(r, u) \/ TaskRoutes(r, u) \/ LinkRoutes(r, u) \/ TagRoutes(r, u)

Check(r) ==
    \/ LoadTask(r) \/ NoTask(r) \/ LoadProject(r) \/ NoAccess(r)
    \/ LoadTag(r) \/ NoTag(r) \/ ReloadTask(r) \/ TaskGone(r)
    \/ NameFree(r) \/ NameTaken(r) \/ AlreadyLinked(r)
Write(r) ==
    \/ Insert(r) \/ DuplicateKey(r) \/ BeginDelete(r) \/ LoadLinks(r)
    \/ \E x \in Rows : ShareKey(r, x) \/ NoParent(r, x) \/ DeleteRow(r, x)
End(r) == DeadlockVictim(r) \/ Commit(r) \/ Fail(r)

Next == \E r \in Reqs : Start(r) \/ Check(r) \/ Write(r) \/ End(r)

Spec == Init /\ [][Next]_vars

-----------------------------------------------------------------------------
\* project.py: "Both layers agree": whatever the ORM had loaded when it deleted, no
\* task outlives its project and no link outlives its task or its tag, although a
\* task or a link may be committed between that load and the DELETE.
NoOrphans == \A x \in rows : Parents(x) \subseteq rows

\* No two tags have one name, although the check for the name and the INSERT are
\* two awaits of requests that overlap.
TagNamesUnique ==
    \A g, h \in rows \cap Tags : NameOf[g] = NameOf[h] => g = h

\* A project, its tasks and their links are created, and projects and tasks are
\* deleted, by the project's owner only: the row that was checked is loaded several
\* awaits before the write.  (Links also go when anybody deletes a tag.)
OwnersOnly ==
    [][\A r \in Reqs : Commit(r) /\ row[r] \notin Tags =>
          /\ OwnerOf[ProjectFor(row[r])] = user[r]
          /\ \A x \in del[r] \cup ins[r] : x \notin Tags /\ ProjectFor(x) = ProjectFor(row[r])]_vars

\* A request that is answered with success has had its effect: the row is there, or
\* is gone, unless another request changed that very row while this one ran.
TookEffect ==
    [][\A r \in Reqs : Commit(r) /\ kind[r] # "read" =>
          \/ (row[r] \in rows') = (kind[r] = "create")
          \/ overtaken[r]]_vars
=============================================================================
