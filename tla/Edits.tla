-------------------------------- MODULE Edits --------------------------------
(***************************************************************************)
(* Concurrent edits of one project and one of its tasks: PUT /projects,    *)
(* PUT and PATCH /tasks, and the deletions that race with them.            *)
(*                                                                         *)
(* A request loads the row, awaits its checks, and flushes.  The ORM then  *)
(* writes only the fields whose new value differs from the loaded one; the *)
(* UPDATE waits for the row's lock and applies to the newest version.      *)
(* Nobody asks for a field that UpdatableFields would refuse: the request  *)
(* schemas have no other.  Requests of users who do not own the project    *)
(* are told apart by the check of ownership only.                          *)
(***************************************************************************)
EXTENDS FiniteSets

CONSTANTS TaskFields,       \* what PUT /tasks may change
          ProjectFields,    \* what PUT /projects may change
          Required,         \* columns that are NOT NULL
          Values,           \* what a field may hold, and ids that a request may name
          People,           \* the values that are ids of registered users
          Reqs,             \* slots for requests in progress
          Null, Unset, Gone

Rows == {"project", "task"}
Assignee == "assignee_id"
FieldsOf(x) == IF x = "task" THEN TaskFields \cup {Assignee} ELSE ProjectFields
Fields == FieldsOf("task") \cup FieldsOf("project")

ASSUME FieldsAssumption ==
    /\ Required \subseteq TaskFields \cup ProjectFields
    /\ Assignee \notin TaskFields \cup ProjectFields
ASSUME ValuesAssumption ==
    /\ Null \notin Values /\ Unset \notin Values \cup {Null}
    /\ People \subseteq Values

Stored == Values \cup {Null}
Record(x) ==
    {s \in [FieldsOf(x) -> Stored] : \A f \in Required \cap FieldsOf(x) : s[f] # Null}
AnyRecord == Record("project") \cup Record("task")
ASSUME GoneAssumption == Gone \notin AnyRecord

VARIABLES
    rec,        \* the committed rows
    pc,         \* where each request is
    kind,       \* edit, assign or delete
    row,        \* of which row
    ask,        \* the new values it asks for, Unset for none
    loaded,     \* the row as its session loaded it
    held,       \* rows it has locked by a flushed UPDATE or DELETE
    mailed      \* history: who has been mailed about the task

vars == <<rec, pc, kind, row, ask, loaded, held, mailed>>
request == <<kind, row, ask>>

InFlight == {"load", "project", "user", "push", "flush", "reselect",
             "del_task", "del_project", "returned"}

NoAsk == [f \in Fields |-> Unset]
Asks == [Fields -> Stored \cup {Unset}]

TypeOK ==
    /\ rec \in [Rows -> AnyRecord \cup {Gone}]
    /\ \A x \in Rows : rec[x] \in Record(x) \cup {Gone}
    /\ pc \in [Reqs -> {"idle"} \cup InFlight]
    /\ kind \in [Reqs -> {"edit", "assign", "delete"}]
    /\ row \in [Reqs -> Rows]
    /\ ask \in [Reqs -> Asks]
    /\ loaded \in [Reqs -> AnyRecord \cup {Gone}]
    /\ \A r \in Reqs : loaded[r] \in Record(row[r]) \cup {Gone}
    /\ held \in [Reqs -> SUBSET Rows]
    /\ mailed \subseteq Stored

Init ==
    /\ rec \in [Rows -> AnyRecord]
    /\ \A x \in Rows : rec[x] \in Record(x)
    /\ rec["task"][Assignee] = Null
    /\ pc = [r \in Reqs |-> "idle"]
    /\ kind = [r \in Reqs |-> "edit"]
    /\ row = [r \in Reqs |-> "task"]
    /\ ask = [r \in Reqs |-> NoAsk]
    /\ loaded = [r \in Reqs |-> Gone]
    /\ held = [r \in Reqs |-> {}]
    /\ mailed = {}

-----------------------------------------------------------------------------
Goto(r, where) == pc' = [pc EXCEPT ![r] = where]

Begin(r, k, x, a) ==
    /\ pc[r] = "idle"
    /\ Goto(r, "load")
    /\ kind' = [kind EXCEPT ![r] = k]
    /\ row' = [row EXCEPT ![r] = x]
    /\ ask' = [ask EXCEPT ![r] = a]
    /\ UNCHANGED <<rec, loaded, held, mailed>>

\* A request body that sets the fields S; a field that is sent may be null.
Body(S) == {a \in Asks : \A f \in Fields : (a[f] # Unset) = (f \in S)}

UpdateProject(r) ==
    \E S \in SUBSET ProjectFields : \E a \in Body(S) : Begin(r, "edit", "project", a)
UpdateTask(r) ==
    \E S \in SUBSET TaskFields : \E a \in Body(S) : Begin(r, "edit", "task", a)
ChangeStatus(r) ==
    \E f \in TaskFields \cap Required : \E a \in Body({f}) :
        a[f] # Null /\ Begin(r, "edit", "task", a)
AssignTask(r) == \E a \in Body({Assignee}) : Begin(r, "assign", "task", a)
Delete(r, x) == Begin(r, "delete", x, NoAsk)

\* What a slot holds between two requests.
Cleared(r) ==
    /\ kind' = [kind EXCEPT ![r] = "edit"]
    /\ row' = [row EXCEPT ![r] = "task"]
    /\ ask' = [ask EXCEPT ![r] = NoAsk]
    /\ loaded' = [loaded EXCEPT ![r] = Gone]
\* The session is closed, and rolled back unless it was committed before.  An answer
\* other than success changes nothing, so that errors are not told apart.
BugNotClosed(r) == Goto(r, "idle") /\ Cleared(r) /\ held' = held
Close(r) == Goto(r, "idle") /\ Cleared(r) /\ held' = [held EXCEPT ![r] = {}]

Raise(r) ==
    /\ Close(r)
    /\ UNCHANGED <<rec, mailed>>

-----------------------------------------------------------------------------
\* get_or_404.  A project carries its owner; a task's project is another SELECT.
Load(r) ==
    /\ pc[r] = "load"
    /\ rec[row[r]] # Gone
    /\ loaded' = [loaded EXCEPT ![r] = IF kind[r] = "delete" THEN Gone ELSE rec[row[r]]]
    /\ Goto(r, IF row[r] = "task" THEN "project"
               ELSE IF kind[r] = "delete" THEN "del_task" ELSE "flush")
    /\ UNCHANGED <<rec, request, held, mailed>>

NotFound(r) ==
    /\ \/ pc[r] = "load" /\ rec[row[r]] = Gone
       \/ pc[r] = "project" /\ rec["project"] = Gone
    /\ Raise(r)

\* assert_owner, assert_project_access
NotOwner(r) ==
    /\ \/ pc[r] = "load" /\ row[r] = "project"
       \/ pc[r] = "project"
    /\ Raise(r)

Asked(r) == {f \in Fields : ask[r][f] # Unset}
HasAccess(r) ==
    /\ pc[r] = "project"
    /\ rec["project"] # Gone
    /\ Goto(r, CASE kind[r] = "delete"                       -> "del_task"
                 [] kind[r] = "edit" /\ Asked(r) = {}         -> "returned"
                 [] kind[r] = "assign" /\ ask[r][Assignee] # Null -> "user"
                 [] OTHER                                     -> "flush")
    /\ UNCHANGED <<rec, request, loaded, held, mailed>>

\* assign: the user is looked up, and the mail is queued with no await in between.
BugMailLoaded(r) == loaded[r][Assignee]
Recipient(r) == ask[r][Assignee]
LookUpUser(r) ==
    /\ pc[r] = "user"
    /\ ask[r][Assignee] \in People
    /\ mailed' = mailed \cup {Recipient(r)}
    /\ Goto(r, "push")
    /\ UNCHANGED <<rec, request, loaded, held>>

NoUser(r) ==
    /\ pc[r] = "user"
    /\ ask[r][Assignee] \notin People
    /\ Raise(r)

\* send_personal_message awaits every socket of the user, and never raises.
Push(r) ==
    /\ pc[r] = "push"
    /\ Goto(r, "flush")
    /\ UNCHANGED <<rec, request, loaded, held, mailed>>

-----------------------------------------------------------------------------
\* The fields an UPDATE sets: those whose value differs from what was loaded.
Changes(r) == {f \in Asked(r) : ask[r][f] # loaded[r][f]}
BugWholeRow(r, x) == [f \in FieldsOf(x) |-> IF f \in Changes(r) THEN ask[r][f] ELSE loaded[r][f]]
BugSkipsNull(r, x) ==
    [f \in FieldsOf(x) |-> IF f \in Changes(r) /\ ask[r][f] # Null THEN ask[r][f] ELSE rec[x][f]]
Updated(r, x) == [f \in FieldsOf(x) |-> IF f \in Changes(r) THEN ask[r][f] ELSE rec[x][f]]

BugNullable(r) == FALSE
NullRefused(r) == \E f \in Changes(r) \cap Required : ask[r][f] = Null

LockFree(r, x) == \A q \in Reqs \ {r} : x \notin held[q]

NothingToWrite(r) ==
    /\ pc[r] = "flush"
    /\ Changes(r) = {}
    /\ Goto(r, "reselect")
    /\ UNCHANGED <<rec, request, loaded, held, mailed>>

Update(r) ==
    /\ pc[r] = "flush"
    /\ Changes(r) # {}
    /\ LockFree(r, row[r])
    /\ rec[row[r]] # Gone
    /\ ~ NullRefused(r)
    /\ held' = [held EXCEPT ![r] = {row[r]}]
    /\ Goto(r, "reselect")
    /\ UNCHANGED <<rec, request, loaded, mailed>>

\* StaleDataError: the UPDATE matched no row.  IntegrityError: a NOT NULL column.
UpdateFails(r) ==
    /\ pc[r] = "flush"
    /\ Changes(r) # {}
    /\ LockFree(r, row[r])
    /\ rec[row[r]] = Gone \/ NullRefused(r)
    /\ Raise(r)

\* The row is selected again for the response; it may be gone if it is not locked.
Reselect(r) ==
    /\ pc[r] = "reselect"
    /\ rec[row[r]] # Gone
    /\ Goto(r, "returned")
    /\ UNCHANGED <<rec, request, loaded, held, mailed>>

ReselectFails(r) ==
    /\ pc[r] = "reselect"
    /\ rec[row[r]] = Gone
    /\ Raise(r)

\* The DELETEs, of a project's task first.  To find the row gone is no error.
DeleteTask(r) ==
    /\ pc[r] = "del_task"
    /\ LockFree(r, "task")
    /\ held' = [held EXCEPT ![r] = {"task"}]
    /\ Goto(r, IF row[r] = "task" THEN "returned" ELSE "del_project")
    /\ UNCHANGED <<rec, request, loaded, mailed>>

DeleteProject(r) ==
    /\ pc[r] = "del_project"
    /\ LockFree(r, "project")
    /\ held' = [held EXCEPT ![r] = Rows]
    /\ Goto(r, "returned")
    /\ UNCHANGED <<rec, request, loaded, mailed>>

\* get_db commits after the endpoint has returned.
Commit(r) ==
    /\ pc[r] = "returned"
    /\ rec' = [x \in Rows |->
                  IF x \notin held[r] \/ rec[x] = Gone THEN rec[x]
                  ELSE IF kind[r] = "delete" THEN Gone ELSE Updated(r, x)]
    /\ Close(r)
    /\ UNCHANGED mailed

\* A killed worker, a lost connection, or a broker that refuses the mail.
Fail(r) ==
    /\ pc[r] \in InFlight
    /\ Raise(r)

Start(r) ==
    \/ UpdateProject(r) \/ UpdateTask(r) \/ ChangeStatus(r) \/ AssignTask(r)
    \/ \E x \in Rows : Delete(r, x)
Step(r) ==
    \/ Load(r) \/ NotFound(r) \/ HasAccess(r) \/ LookUpUser(r) \/ NoUser(r) \/ Push(r)
    \/ NothingToWrite(r) \/ Update(r) \/ UpdateFails(r) \/ Reselect(r) \/ ReselectFails(r)
    \/ DeleteTask(r) \/ DeleteProject(r) \/ Commit(r)

Next == \E r \in Reqs : Start(r) \/ Step(r) \/ NotOwner(r) \/ Fail(r)

Spec == Init /\ [][Next]_vars

\* A request that can go on does, and PostgreSQL hands a row's lock to its waiters in
\* the order they came, so that none is passed over for ever.
FairSpec == Spec /\ \A r \in Reqs : SF_vars(Step(r))

-----------------------------------------------------------------------------
\* A commit changes no field that its request did not ask for, although the request
\* loaded the whole row long before and others have written to it since.
OnlyAskedFields ==
    [][\A r \in Reqs : Commit(r) /\ kind[r] # "delete" =>
          \A x \in Rows : rec'[x] # rec[x] =>
              /\ x = row[r] /\ rec[x] # Gone
              /\ \A f \in FieldsOf(x) : rec'[x][f] # rec[x][f] => f \in Asked(r)]_vars

\* A success that wrote is in the row when it commits, with every field it changed,
\* whatever was committed to the row after the request loaded it.
SuccessIsStored ==
    [][\A r \in Reqs : Commit(r) /\ kind[r] # "delete" /\ Changes(r) # {} =>
          /\ rec'[row[r]] # Gone
          /\ \A f \in Changes(r) : rec'[row[r]][f] = ask[r][f]]_vars

\* Nobody is ever made the assignee of a task without having been mailed: the mail
\* is queued before the UPDATE, so a failure in between leaves a mail too many.
AssigneeTold == rec["task"] # Gone => rec["task"][Assignee] \in mailed \cup {Null}

\* Requests wait for each other's row locks, in one order, so that each one ends.
Answered == \A r \in Reqs : pc[r] \in InFlight ~> pc[r] = "idle"
=============================================================================
