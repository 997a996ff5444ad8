----------------------------- MODULE Migrations -----------------------------
(***************************************************************************)
(* The three Alembic revisions, and the processes that run them: instances *)
(* of the application, which start.sh upgrades to the head before they     *)
(* serve, and operators, who roll revisions back.                          *)
(*                                                                         *)
(* A run reads the version, then executes the statements of every revision *)
(* on its way in one transaction; nothing keeps two runs apart but the     *)
(* locks that DDL takes.  A statement names the object it creates or       *)
(* drops; columns are left out, foreign keys and indexes are not.          *)
(***************************************************************************)
EXTENDS Integers, Sequences, FiniteSets

CONSTANTS Instances, Operators, MaxEvents

ASSUME ProcessesAssumption == Instances \cap Operators = {}
ASSUME BoundsAssumption == MaxEvents \in Nat

Procs == Instances \cup Operators

VARIABLES
    schema,     \* the committed tables, indexes and types
    version,    \* the revision in alembic_version, 0 when it has no row
    pc,         \* where each process is
    rev,        \* the revision its statements have brought it to
    goal,       \* the revision it was asked for
    done,       \* how many statements of the next revision it has executed
    made, dropped, stamped,     \* its uncommitted changes
    raced,      \* history: another process changed the schema since it read the version
    events      \* rollbacks started and crashes so far

run == <<rev, goal, done, made, dropped, stamped>>
vars == <<schema, version, pc, run, raced, events>>

-----------------------------------------------------------------------------
Revisions == 1 .. 3
Latest == 3

\* The enum types come with the first table that has a column of theirs.
BugUpOrder ==
    << <<"tags", "ix_tags_name", "users", "ix_users_email", "ix_users_username",
         "projects", "ix_projects_owner_id", "taskstatus", "taskpriority", "task_tags",
         "tasks", "ix_tasks_assignee_id", "ix_tasks_project_id">>,
       <<"refresh_tokens", "ix_refresh_tokens_token_hash", "ix_refresh_tokens_user_id">>,
       <<"chat_messages", "ix_chat_messages_recipient_id", "ix_chat_messages_sender_id">> >>
Up ==
    << <<"tags", "ix_tags_name", "users", "ix_users_email", "ix_users_username",
         "projects", "ix_projects_owner_id", "taskstatus", "taskpriority", "tasks",
         "ix_tasks_assignee_id", "ix_tasks_project_id", "task_tags">>,
       <<"refresh_tokens", "ix_refresh_tokens_token_hash", "ix_refresh_tokens_user_id">>,
       <<"chat_messages", "ix_chat_messages_recipient_id", "ix_chat_messages_sender_id">> >>

\* drop_table knows no columns, so it drops no type.
BugKeepsTable ==
    << <<"task_tags", "ix_tasks_project_id", "ix_tasks_assignee_id", "tasks",
         "ix_projects_owner_id", "projects", "ix_users_username", "ix_users_email", "users",
         "ix_tags_name", "tags">>,
       <<"ix_refresh_tokens_user_id", "ix_refresh_tokens_token_hash", "refresh_tokens">>,
       <<"ix_chat_messages_sender_id", "ix_chat_messages_recipient_id">> >>
Down ==
    << <<"task_tags", "ix_tasks_project_id", "ix_tasks_assignee_id", "tasks",
         "ix_projects_owner_id", "projects", "ix_users_username", "ix_users_email", "users",
         "ix_tags_name", "tags">>,
       <<"ix_refresh_tokens_user_id", "ix_refresh_tokens_token_hash", "refresh_tokens">>,
       <<"ix_chat_messages_sender_id", "ix_chat_messages_recipient_id", "chat_messages">> >>

Elements(s) == {s[i] : i \in DOMAIN s}
Versions == "alembic_version"
Types == {"taskstatus", "taskpriority"}
Objects == {Versions} \cup UNION {Elements(Up[n]) : n \in Revisions}

\* The table of an index; the tables and types that the columns of a table refer to.
Indexed(x) ==
    CASE x = "ix_tags_name" -> {"tags"}
      [] x \in {"ix_users_email", "ix_users_username"} -> {"users"}
      [] x = "ix_projects_owner_id" -> {"projects"}
      [] x \in {"ix_tasks_assignee_id", "ix_tasks_project_id"} -> {"tasks"}
      [] x \in {"ix_refresh_tokens_token_hash", "ix_refresh_tokens_user_id"} -> {"refresh_tokens"}
      [] x \in {"ix_chat_messages_recipient_id", "ix_chat_messages_sender_id"} -> {"chat_messages"}
      [] OTHER -> {}
References(x) ==
    CASE x \in {"projects", "refresh_tokens", "chat_messages"} -> {"users"}
      [] x = "tasks" -> {"projects", "users"} \cup Types
      [] x = "task_tags" -> {"tags", "tasks"}
      [] OTHER -> {}
Needs == [x \in Objects |-> Indexed(x) \cup References(x)]

UpTo == [n \in 0 .. Latest |-> UNION {Elements(Up[m]) : m \in 1 .. n}]

-----------------------------------------------------------------------------
TypeOK ==
    /\ schema \subseteq Objects
    /\ version \in 0 .. Latest
    /\ pc \in [Procs -> {"off", "read", "ensure", "create", "ddl", "start", "serving"}]
    /\ rev \in [Procs -> 0 .. Latest] /\ goal \in [Procs -> 0 .. Latest]
    /\ done \in [Procs -> 0 .. 13]
    /\ made \in [Procs -> SUBSET Objects] /\ dropped \in [Procs -> SUBSET Objects]
    /\ stamped \in [Procs -> BOOLEAN] /\ raced \in [Procs -> BOOLEAN]
    /\ events \in 0 .. MaxEvents

\* An empty database, or one that earlier deployments have brought to a revision.
Init ==
    /\ version \in 0 .. Latest
    /\ schema = UpTo[version] \cup (IF version = 0 THEN {} ELSE {Versions})
    /\ pc = [p \in Procs |-> "off"]
    /\ rev = [p \in Procs |-> 0] /\ goal = [p \in Procs |-> 0] /\ done = [p \in Procs |-> 0]
    /\ made = [p \in Procs |-> {}] /\ dropped = [p \in Procs |-> {}]
    /\ stamped = [p \in Procs |-> FALSE] /\ raced = [p \in Procs |-> FALSE]
    /\ events = 0

Goto(p, where) == pc' = [pc EXCEPT ![p] = where]

\* The end of the connection of p.
Forget(p) ==
    /\ rev' = [rev EXCEPT ![p] = 0] /\ goal' = [goal EXCEPT ![p] = 0]
    /\ done' = [done EXCEPT ![p] = 0]
    /\ made' = [made EXCEPT ![p] = {}] /\ dropped' = [dropped EXCEPT ![p] = {}]
    /\ stamped' = [stamped EXCEPT ![p] = FALSE]

BugNoTransaction(p) ==
    /\ schema' = (schema \cup made[p]) \ dropped[p]
    /\ Forget(p)
    /\ UNCHANGED version
Rollback(p) == Forget(p) /\ UNCHANGED <<schema, version>>

\* set -e: start.sh ends with the command that fails.
BugIgnored(p) == IF p \in Instances THEN "start" ELSE "off"
AfterFailure(p) == "off"

-----------------------------------------------------------------------------
\* A container starts start.sh, an operator starts alembic.
Boot(p) ==
    /\ pc[p] = "off"
    /\ p \in Operators => events < MaxEvents
    /\ events' = IF p \in Operators THEN events + 1 ELSE events
    /\ Goto(p, "read")
    /\ UNCHANGED <<schema, version, run, raced>>

\* upgrade head; downgrade base or downgrade -1, which is refused at the base
BugBelowBase(p) == IF p \in Instances THEN {Latest} ELSE {0, version - 1}
Goals(p) == IF p \in Instances THEN {Latest} ELSE {0, version - 1} \ {-1}

\* get_current_heads
Read(p, g) ==
    /\ pc[p] = "read"
    /\ rev' = [rev EXCEPT ![p] = version]
    /\ goal' = [goal EXCEPT ![p] = g]
    /\ raced' = [raced EXCEPT ![p] = FALSE]
    /\ Goto(p, IF version = 0 THEN "ensure" ELSE "ddl")
    /\ UNCHANGED <<schema, version, done, made, dropped, stamped, events>>

-----------------------------------------------------------------------------
\* What p sees in the catalog; the locks that a statement on x wants.
View(p) == (schema \cup made[p]) \ dropped[p]
Locks == [x \in Objects |-> {x} \cup (Needs[x] \ Types)]
Holders(p, x) ==
    {q \in Procs \ {p} : \E y \in made[q] \cup dropped[q] : Locks[x] \cap Locks[y] # {}}

\* x cannot be created: it is there, or something that it needs is not.
Uncreatable(p, x) == x \in View(p) \/ ~ Needs[x] \subseteq View(p)
\* x cannot be dropped: it is gone or, once it is locked, a foreign key refers to it.
Undroppable(p, x) ==
    \/ x \notin View(p)
    \/ Holders(p, x) = {} /\ \E y \in View(p) : x \in References(y)

Create(p, x) ==
    /\ ~ Uncreatable(p, x)
    /\ Holders(p, x) = {}
    /\ made' = [made EXCEPT ![p] = @ \cup {x}]
    /\ dropped' = [dropped EXCEPT ![p] = @ \ {x}]

\* With a table go the indexes it still has.
Drop(p, x) ==
    /\ ~ Undroppable(p, x)
    /\ Holders(p, x) = {}
    /\ LET gone == {x} \cup {y \in View(p) : x \in Needs[y]}
       IN  /\ made' = [made EXCEPT ![p] = @ \ gone]
           /\ dropped' = [dropped EXCEPT ![p] = @ \cup gone]

\* _ensure_version_table looks before it creates.
VersionsExist(p) ==
    /\ pc[p] = "ensure"
    /\ Goto(p, IF Versions \in schema THEN "ddl" ELSE "create")
    /\ UNCHANGED <<schema, version, run, raced, events>>

CreateVersions(p) ==
    /\ pc[p] = "create"
    /\ Create(p, Versions)
    /\ Goto(p, "ddl")
    /\ UNCHANGED <<schema, version, rev, goal, done, stamped, raced, events>>

-----------------------------------------------------------------------------
Upgrading(p) == pc[p] = "ddl" /\ rev[p] < goal[p]
Downgrading(p) == pc[p] = "ddl" /\ rev[p] > goal[p]
Script(p) == IF Upgrading(p) THEN Up[rev[p] + 1] ELSE Down[rev[p]]
InScript(p) == (Upgrading(p) \/ Downgrading(p)) /\ done[p] < Len(Script(p))
Statement(p) == Script(p)[done[p] + 1]

Execute(p) ==
    /\ InScript(p)
    /\ IF Upgrading(p) THEN Create(p, Statement(p)) ELSE Drop(p, Statement(p))
    /\ done' = [done EXCEPT ![p] = @ + 1]
    /\ UNCHANGED <<schema, version, pc, rev, goal, stamped, raced, events>>

\* update_to_step: the row of alembic_version follows each revision.
AtStamp(p) == (Upgrading(p) \/ Downgrading(p)) /\ done[p] = Len(Script(p))
StampHolders(p) == {q \in Procs \ {p} : stamped[q]}
StaleVersion(p) == ~ stamped[p] /\ version # rev[p]

Stamp(p) ==
    /\ AtStamp(p)
    /\ StampHolders(p) = {}
    /\ ~ StaleVersion(p)
    /\ rev' = [rev EXCEPT ![p] = IF Upgrading(p) THEN @ + 1 ELSE @ - 1]
    /\ done' = [done EXCEPT ![p] = 0]
    /\ stamped' = [stamped EXCEPT ![p] = TRUE]
    /\ UNCHANGED <<schema, version, pc, goal, made, dropped, raced, events>>

\* PostgreSQL refuses a statement; alembic refuses to match no row of the version.
Refuse(p) ==
    /\ Goto(p, AfterFailure(p))
    /\ \/ pc[p] = "create" /\ Uncreatable(p, Versions)
       \/ InScript(p) /\ Upgrading(p) /\ Uncreatable(p, Statement(p))
       \/ InScript(p) /\ Downgrading(p) /\ Undroppable(p, Statement(p))
       \/ AtStamp(p) /\ StampHolders(p) = {} /\ StaleVersion(p)
    /\ Rollback(p)
    /\ UNCHANGED <<raced, events>>

\* Two rollbacks that began at different versions may want each other's tables:
\* PostgreSQL aborts one of the transactions that wait in a cycle.
Awaits(p) ==
    {q \in Procs : \/ pc[p] = "create" /\ q \in Holders(p, Versions)
                   \/ InScript(p) /\ q \in Holders(p, Statement(p))
                   \/ AtStamp(p) /\ q \in StampHolders(p)}
Deadlocked(p) ==
    Awaits(p) # {} /\ \E D \in SUBSET Procs : p \in D /\ \A q \in D : Awaits(q) \cap D # {}

DeadlockVictim(p) ==
    /\ Deadlocked(p)
    /\ Rollback(p)
    /\ Goto(p, AfterFailure(p))
    /\ UNCHANGED <<raced, events>>

\* begin_transaction ends; alembic exits with success.
Commit(p) ==
    /\ pc[p] = "ddl"
    /\ rev[p] = goal[p]
    /\ schema' = View(p)
    /\ version' = IF stamped[p] THEN rev[p] ELSE version
    /\ raced' = [q \in Procs |-> raced[q] \/ (q # p /\ View(p) # schema)]
    /\ Forget(p)
    /\ Goto(p, IF p \in Instances THEN "start" ELSE "off")
    /\ UNCHANGED events

\* exec gunicorn
Serve(p) ==
    /\ pc[p] = "start"
    /\ Goto(p, "serving")
    /\ UNCHANGED <<schema, version, run, raced, events>>

\* A redeployment, or the end of a server.
Stop(p) ==
    /\ pc[p] = "serving"
    /\ Goto(p, "off")
    /\ UNCHANGED <<schema, version, run, raced, events>>

\* A container or an operator is killed before it is done, or loses its connection.
Crash(p) ==
    /\ pc[p] \notin {"off", "serving"}
    /\ events < MaxEvents
    /\ events' = events + 1
    /\ Rollback(p)
    /\ Goto(p, "off")
    /\ UNCHANGED raced

Work(p) ==
    \/ \E g \in Goals(p) : Read(p, g)
    \/ VersionsExist(p) \/ CreateVersions(p)
    \/ Execute(p) \/ Stamp(p) \/ Refuse(p) \/ DeadlockVictim(p) \/ Commit(p) \/ Serve(p)

Next == \E p \in Procs : Boot(p) \/ Work(p) \/ Stop(p) \/ Crash(p)

Spec == Init /\ [][Next]_vars

\* A container that has ended is started again; a process that can go on does.
FairSpec ==
    /\ Spec
    /\ \A p \in Procs : WF_vars(Work(p))
    /\ \A p \in Instances : WF_vars(Boot(p))

-----------------------------------------------------------------------------
\* What a rollback of the first revision leaves behind.
Leftovers == version = 0 /\ Types \cap schema # {}

\* Whatever runs overlap and wherever they die, the database has exactly the tables
\* and indexes of the revision that alembic_version names, and the types it needs.
SchemaMatchesVersion ==
    /\ schema \ (Types \cup {Versions}) = UpTo[version] \ Types
    /\ version > 0 => Types \cup {Versions} \subseteq schema

\* An instance that start.sh has let through finds the head, unless somebody moved
\* the schema after the version had been read.
ServesAtHead ==
    \A p \in Instances : pc[p] \in {"start", "serving"} => version = Latest \/ raced[p]

\* A run that overlaps with no other one fails only on the types that a rollback to
\* the base has left behind, never on the order or the inverse of the revisions.
RefusedOnlyByRace ==
    [][\A p \in Procs : Refuse(p) => raced[p] \/ Leftovers]_vars

\* Instances that start at the same time do not keep each other from starting: the
\* losers are started again and then serve.  Only leftovers stop them for good.
AllServe == (\A p \in Instances : []<>(pc[p] = "serving")) \/ <>Leftovers
=============================================================================
