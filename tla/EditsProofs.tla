----------------------------- MODULE EditsProofs -----------------------------
(***************************************************************************)
(* Proofs about Edits for any fields, values and number of requests.       *)
(*                                                                         *)
(* A commit applies what an earlier flush decided.  Pending keeps what the *)
(* flush established true until the commit: the row is there and is locked *)
(* by this request alone, and whoever it assigns has been mailed.          *)
(***************************************************************************)
EXTENDS Edits, TLAPS

Flushed == {"reselect", "returned"}

Pending(q) ==
    /\ Asked(q) \subseteq FieldsOf(row[q])
    /\ kind[q] = "edit" => ask[q][Assignee] = Unset
    /\ pc[q] \in {"idle", "load"} => loaded[q] = Gone
    /\ pc[q] \notin {"idle", "load"} /\ kind[q] # "delete" => loaded[q] # Gone
    /\ pc[q] \notin Flushed \cup {"del_project"} => held[q] = {}
    /\ pc[q] \in {"user", "push", "flush", "reselect"} => kind[q] # "delete"
    /\ pc[q] \in {"del_task", "del_project"} => kind[q] = "delete"
    /\ pc[q] = "del_project" => held[q] = {"task"}
    /\ pc[q] \in {"push", "flush"} \cup Flushed /\ kind[q] # "delete" =>
          ask[q][Assignee] \in mailed \cup {Unset, Null}
    /\ kind[q] # "delete" => held[q] \subseteq {row[q]}
    /\ pc[q] \in Flushed /\ kind[q] # "delete" /\ Changes(q) # {} =>
          held[q] = {row[q]} /\ rec[row[q]] # Gone /\ ~ NullRefused(q)

Exclusive == \A q, r \in Reqs : q # r => held[q] \cap held[r] = {}

IInv ==
    /\ TypeOK
    /\ \A q \in Reqs : Pending(q)
    /\ Exclusive
    /\ AssigneeTold

-----------------------------------------------------------------------------
LEMMA InitInv == Init => IInv
<1> SUFFICES ASSUME Init PROVE IInv
  OBVIOUS
<1> USE DEF Init
<1>1. TypeOK
  BY DEF TypeOK, Asks, NoAsk, AnyRecord, Rows
<1>2. \A q \in Reqs : Pending(q)
  BY DEF Pending, Asked, NoAsk, Flushed, Fields, FieldsOf
<1> QED
  BY <1>1, <1>2 DEF IInv, Exclusive, AssigneeTold

\* The steps of r other than its commit: the rows stay, mail is only added.
SameRequest(q) ==
    /\ pc'[q] = pc[q] /\ kind'[q] = kind[q] /\ row'[q] = row[q] /\ ask'[q] = ask[q]
    /\ loaded'[q] = loaded[q] /\ held'[q] = held[q]

LEMMA LocalStep ==
    ASSUME IInv, TypeOK', rec' = rec, mailed \subseteq mailed', NEW r \in Reqs,
           \A q \in Reqs \ {r} : SameRequest(q),
           Pending(r)',
           \A q \in Reqs \ {r} : held'[r] \cap held[q] = {}
    PROVE  IInv'
<1>1. ASSUME NEW q \in Reqs \ {r} PROVE Pending(q)'
  BY DEF IInv, Pending, SameRequest, Asked, Changes, NullRefused
<1>2. Exclusive'
  BY DEF IInv, Exclusive, SameRequest
<1>3. AssigneeTold'
  BY DEF IInv, AssigneeTold
<1> QED
  BY <1>1, <1>2, <1>3 DEF IInv

LEMMA RaiseInv ==
    ASSUME IInv, NEW r \in Reqs, Raise(r)
    PROVE  IInv'
<1> USE DEF Raise, Close, Goto, Cleared
<1>1. TypeOK'
  BY DEF IInv, TypeOK, NoAsk, Asks, Rows
<1>2. Pending(r)'
  BY DEF IInv, TypeOK, Pending, Asked, NoAsk, Flushed, Fields, FieldsOf
<1> QED
  BY <1>1, <1>2, LocalStep DEF IInv, TypeOK, SameRequest

LEMMA BeginInv ==
    ASSUME IInv, NEW r \in Reqs, NEW k \in {"edit", "assign", "delete"}, NEW x \in Rows,
           NEW a \in Asks, \A f \in Fields : a[f] # Unset => f \in FieldsOf(x),
           k = "edit" => a[Assignee] = Unset,
           Begin(r, k, x, a)
    PROVE  IInv'
<1> USE DEF Begin, Goto
<1>1. TypeOK'
  BY DEF IInv, TypeOK, InFlight, Pending
<1>2. Pending(r)'
  BY DEF IInv, TypeOK, Pending, Asked, Flushed
<1> QED
  BY <1>1, <1>2, LocalStep DEF IInv, TypeOK, Exclusive, SameRequest

LEMMA StartInv ==
    ASSUME IInv, NEW r \in Reqs, Start(r)
    PROVE  IInv'
<1> USE FieldsAssumption DEF Body, FieldsOf, Fields, Rows
<1>1. CASE UpdateProject(r)
  BY <1>1, BeginInv DEF UpdateProject
<1>2. CASE UpdateTask(r)
  BY <1>2, BeginInv DEF UpdateTask
<1>3. CASE ChangeStatus(r)
  BY <1>3, BeginInv DEF ChangeStatus
<1>4. CASE AssignTask(r)
  BY <1>4, BeginInv DEF AssignTask
<1>5. CASE \E x \in Rows : Delete(r, x)
  BY <1>5, BeginInv DEF Delete, NoAsk, Asks
<1> QED
  BY <1>1, <1>2, <1>3, <1>4, <1>5 DEF Start

\* The steps of r that lock nothing and mail nobody.
LEMMA MoveStep ==
    ASSUME IInv, UNCHANGED <<rec, request, held, mailed>>, NEW r \in Reqs,
           NEW w \in InFlight, Goto(r, w),
           loaded' = [loaded EXCEPT ![r] = loaded'[r]],
           loaded'[r] \in Record(row[r]) \cup {Gone},
           Pending(r)'
    PROVE  IInv'
<1>1. TypeOK'
  BY DEF IInv, TypeOK, Goto, request, AnyRecord, Rows
<1> QED
  BY <1>1, LocalStep DEF IInv, TypeOK, Exclusive, Goto, request, SameRequest

LEMMA ReadInv ==
    ASSUME IInv, NEW r \in Reqs,
           Load(r) \/ HasAccess(r) \/ Push(r) \/ NothingToWrite(r) \/ Reselect(r)
    PROVE  IInv'
<1> USE DEF request
<1>1. CASE Load(r)
  <2> USE <1>1 DEF Load
  <2>1. PICK w \in {"project", "del_task", "flush"} :
            Goto(r, w) /\ (w = "flush" => row[r] # "task" /\ kind[r] # "delete")
    OBVIOUS
  <2>2. row[r] = "project" => ask[r][Assignee] = Unset
    BY FieldsAssumption DEF IInv, TypeOK, Pending, Asked, FieldsOf, Fields, Assignee
  <2>3. Pending(r)'
    BY <2>1, <2>2 DEF IInv, TypeOK, Goto, Pending, Asked, Flushed, Rows
  <2>4. loaded'[r] \in Record(row[r]) \cup {Gone}
    BY DEF IInv, TypeOK
  <2> QED
    BY <2>1, <2>3, <2>4, MoveStep DEF IInv, TypeOK, InFlight
<1>2. CASE HasAccess(r)
  <2> USE <1>2 DEF HasAccess
  <2>1. PICK w \in {"del_task", "user", "returned", "flush"} :
            /\ Goto(r, w)
            /\ w # "del_task" => kind[r] # "delete"
            /\ w = "returned" => Asked(r) = {}
            /\ w \in {"returned", "flush"} => ask[r][Assignee] \in {Unset, Null}
    BY DEF Goto, IInv, TypeOK, Pending
  <2>2. Pending(r)'
    BY <2>1 DEF IInv, TypeOK, Goto, Pending, Asked, Changes, Flushed
  <2> QED
    BY <2>1, <2>2, MoveStep DEF IInv, TypeOK, InFlight
<1>3. CASE Push(r) \/ NothingToWrite(r)
  <2> USE <1>3 DEF Push, NothingToWrite
  <2>1. PICK w \in {"flush", "reselect"} : Goto(r, w) /\ (w = "reselect" => Changes(r) = {})
    OBVIOUS
  <2>2. Pending(r)'
    BY <2>1 DEF IInv, TypeOK, Goto, Pending, Asked, Changes, Flushed
  <2> QED
    BY <2>1, <2>2, MoveStep DEF IInv, TypeOK, InFlight
<1>4. CASE Reselect(r)
  <2> USE <1>4 DEF Reselect
  <2>1. Pending(r)'
    BY DEF IInv, TypeOK, Goto, Pending, Asked, Changes, NullRefused, Flushed
  <2> QED
    BY <2>1, MoveStep DEF IInv, TypeOK, InFlight
<1> QED
  BY <1>1, <1>2, <1>3, <1>4

LEMMA MailInv ==
    ASSUME IInv, NEW r \in Reqs, LookUpUser(r)
    PROVE  IInv'
<1> USE DEF LookUpUser, Recipient, Goto, request
<1>1. TypeOK'
  BY ValuesAssumption DEF IInv, TypeOK, InFlight, Stored
<1>2. Pending(r)'
  BY DEF IInv, TypeOK, Pending, Asked, Flushed
<1> QED
  BY <1>1, <1>2, LocalStep DEF IInv, TypeOK, Exclusive, SameRequest

LEMMA LockInv ==
    ASSUME IInv, NEW r \in Reqs, Update(r) \/ DeleteTask(r) \/ DeleteProject(r)
    PROVE  IInv'
<1> USE DEF Goto, request, LockFree
<1>1. CASE Update(r)
  <2> USE <1>1 DEF Update
  <2>1. TypeOK'
    BY DEF IInv, TypeOK, InFlight
  <2>2. Pending(r)'
    BY DEF IInv, TypeOK, Pending, Asked, Changes, NullRefused, Flushed
  <2> QED
    BY <2>1, <2>2, LocalStep DEF IInv, TypeOK, Exclusive, SameRequest
<1>2. CASE DeleteTask(r) \/ DeleteProject(r)
  <2> USE <1>2 DEF DeleteTask, DeleteProject
  <2>1. TypeOK'
    BY DEF IInv, TypeOK, InFlight, Rows
  <2>2. Pending(r)'
    <3>1. CASE DeleteTask(r)
      BY <3>1 DEF IInv, TypeOK, Pending, Asked, Flushed, Rows
    <3>2. CASE DeleteProject(r)
      BY <3>2 DEF IInv, TypeOK, Pending, Asked, Flushed, Rows
    <3> QED
      BY <3>1, <3>2
  <2>3. \A q \in Reqs \ {r} : "task" \notin held[q]
    BY DEF IInv, Pending, Exclusive
  <2>4. \A q \in Reqs \ {r} : held'[r] \cap held[q] = {}
    BY <2>3 DEF IInv, TypeOK, Rows
  <2>5. \A q \in Reqs \ {r} : SameRequest(q)
    BY DEF IInv, TypeOK, SameRequest
  <2> QED
    BY <2>1, <2>2, <2>4, <2>5, LocalStep
<1> QED
  BY <1>1, <1>2

\* What the flushed UPDATE makes of a row it may write.
LEMMA UpdatedRow ==
    ASSUME IInv, NEW r \in Reqs, pc[r] = "returned", kind[r] # "delete",
           NEW x \in held[r], rec[x] # Gone
    PROVE  /\ x = row[r]
           /\ Updated(r, x) \in Record(x)
           /\ x = "task" => Updated(r, x)[Assignee] \in mailed \cup {Null}
<1>1. x = row[r] /\ x \in Rows
  BY DEF IInv, TypeOK, Pending
<1>2. rec[x] \in Record(x)
  BY <1>1 DEF IInv, TypeOK
<1>3. \A f \in Changes(r) : ask[r][f] \in Stored /\ (f \in Required => ask[r][f] # Null)
  BY DEF IInv, TypeOK, Pending, Flushed, NullRefused, Changes, Asked, Asks
<1>4. Updated(r, x) \in Record(x)
  BY <1>2, <1>3 DEF Updated, Record
<1>5. x = "task" => Updated(r, x)[Assignee] \in mailed \cup {Null}
  <2> SUFFICES ASSUME x = "task" PROVE Updated(r, x)[Assignee] \in mailed \cup {Null}
    OBVIOUS
  <2>1. rec[x][Assignee] \in mailed \cup {Null}
    BY DEF IInv, AssigneeTold
  <2>2. Assignee \in Changes(r) => ask[r][Assignee] \in mailed \cup {Null}
    BY DEF IInv, Pending, Flushed, Changes, Asked
  <2> QED
    BY <2>1, <2>2 DEF Updated, FieldsOf
<1> QED
  BY <1>1, <1>4, <1>5

LEMMA CommitInv ==
    ASSUME IInv, NEW r \in Reqs, Commit(r)
    PROVE  IInv'
<1> USE DEF Commit, Close, Goto, Cleared
<1>1. \A x \in Rows : rec'[x] \in Record(x) \cup {Gone}
  BY UpdatedRow DEF IInv, TypeOK
<1>2. TypeOK'
  BY <1>1 DEF IInv, TypeOK, AnyRecord, NoAsk, Asks, Rows
<1>3. Pending(r)'
  BY DEF IInv, TypeOK, Pending, Asked, NoAsk, Flushed, Fields, FieldsOf
<1>4. ASSUME NEW q \in Reqs \ {r} PROVE Pending(q)' /\ held'[q] = held[q]
  <2>1. SameRequest(q)
    BY DEF IInv, TypeOK, SameRequest
  <2>2. row[q] \in held[q] => rec'[row[q]] = rec[row[q]]
    BY DEF IInv, TypeOK, Exclusive
  <2> QED
    BY <2>1, <2>2 DEF IInv, Pending, SameRequest, Asked, Changes, NullRefused
<1>5. Exclusive'
  BY <1>4 DEF IInv, TypeOK, Exclusive
<1>6. AssigneeTold'
  BY UpdatedRow DEF IInv, AssigneeTold, Rows
<1> QED
  BY <1>2, <1>3, <1>4, <1>5, <1>6 DEF IInv

LEMMA NextInv == IInv /\ [Next]_vars => IInv'
<1> SUFFICES ASSUME IInv, [Next]_vars PROVE IInv'
  OBVIOUS
<1>1. CASE UNCHANGED vars
  BY <1>1 DEF vars, IInv, TypeOK, Pending, Exclusive, AssigneeTold, Asked, Changes, NullRefused
<1>2. ASSUME NEW r \in Reqs, Step(r) PROVE IInv'
  BY <1>2, RaiseInv, ReadInv, MailInv, LockInv, CommitInv
  DEF Step, NotFound, NoUser, UpdateFails, ReselectFails
<1>3. ASSUME NEW r \in Reqs, NotOwner(r) \/ Fail(r) PROVE IInv'
  BY <1>3, RaiseInv DEF NotOwner, Fail
<1> QED
  BY <1>1, <1>2, <1>3, StartInv DEF Next

THEOREM Invariance == Spec => []IInv
BY InitInv, NextInv, PTL DEF Spec

-----------------------------------------------------------------------------
\* The variables keep their types, and NOT NULL columns are never null.
THEOREM TypeCorrect == Spec => []TypeOK
<1>1. IInv => TypeOK
  BY DEF IInv
<1> QED
  BY <1>1, Invariance, PTL

\* Whoever is the assignee of the task has been mailed about it.
THEOREM AssigneesAreTold == Spec => []AssigneeTold
<1>1. IInv => AssigneeTold
  BY DEF IInv
<1> QED
  BY <1>1, Invariance, PTL

\* No commit writes back a field that its request had only read.
THEOREM NoFieldClobbered == Spec => OnlyAskedFields
<1>1. IInv => \A r \in Reqs : Commit(r) /\ kind[r] # "delete" =>
          \A x \in Rows : rec'[x] # rec[x] =>
              /\ x = row[r] /\ rec[x] # Gone
              /\ \A f \in FieldsOf(x) : rec'[x][f] # rec[x][f] => f \in Asked(r)
  <2> SUFFICES ASSUME IInv, NEW r \in Reqs, Commit(r), kind[r] # "delete",
                      NEW x \in Rows, rec'[x] # rec[x]
               PROVE  /\ x = row[r] /\ rec[x] # Gone
                      /\ \A f \in FieldsOf(x) : rec'[x][f] # rec[x][f] => f \in Asked(r)
    OBVIOUS
  <2>1. pc[r] = "returned" /\ x \in held[r] /\ rec[x] # Gone /\ rec'[x] = Updated(r, x)
    BY DEF Commit
  <2>2. \A f \in FieldsOf(x) : rec'[x][f] # rec[x][f] => f \in Asked(r)
    BY <2>1 DEF Updated, Changes
  <2> QED
    BY <2>1, <2>2, UpdatedRow
<1> QED
  BY <1>1, Invariance, PTL DEF OnlyAskedFields

\* What a successful request changed is in the row that its commit leaves.
THEOREM NoUpdateLost == Spec => SuccessIsStored
<1>1. IInv => \A r \in Reqs : Commit(r) /\ kind[r] # "delete" /\ Changes(r) # {} =>
          /\ rec'[row[r]] # Gone
          /\ \A f \in Changes(r) : rec'[row[r]][f] = ask[r][f]
  <2> SUFFICES ASSUME IInv, NEW r \in Reqs, Commit(r), kind[r] # "delete", Changes(r) # {}
               PROVE  /\ rec'[row[r]] # Gone
                      /\ \A f \in Changes(r) : rec'[row[r]][f] = ask[r][f]
    OBVIOUS
  <2>1. row[r] \in Rows /\ held[r] = {row[r]} /\ rec[row[r]] # Gone /\ pc[r] = "returned"
    BY DEF IInv, TypeOK, Pending, Flushed, Commit
  <2>2. rec'[row[r]] = Updated(r, row[r])
    BY <2>1 DEF Commit
  <2>3. Updated(r, row[r]) \in Record(row[r]) /\ Changes(r) \subseteq FieldsOf(row[r])
    BY <2>1, UpdatedRow DEF IInv, Pending, Changes
  <2> QED
    BY <2>1, <2>2, <2>3, GoneAssumption DEF Updated, AnyRecord, Rows
<1> QED
  BY <1>1, Invariance, PTL DEF SuccessIsStored

-----------------------------------------------------------------------------
\* q holds the row that the next statement of r wants.
WaitsFor(r, q) ==
    /\ q # r
    /\ \/ pc[r] = "flush" /\ Changes(r) # {} /\ row[r] \in held[q]
       \/ pc[r] = "del_task" /\ "task" \in held[q]
       \/ pc[r] = "del_project" /\ "project" \in held[q]

NoLockCycle ==
    \A D \in SUBSET Reqs : D # {} => \E r \in D : \A q \in D : ~ WaitsFor(r, q)

\* Nobody who waits for a row of another request holds the project: the only one who
\* holds anything then is a deletion between its two DELETEs, which holds the task.
LEMMA WaitersHoldNoProject ==
    ASSUME IInv, NEW r \in Reqs, NEW q \in Reqs, WaitsFor(r, q)
    PROVE  /\ "project" \notin held[r]
           /\ held[r] # {} => "project" \in held[q]
BY DEF IInv, Pending, Flushed, WaitsFor

\* Edits and deletions never wait for each other in a cycle, whichever rows they are
\* about: a project is deleted task first, and everybody else locks one row.
THEOREM EditsNeverDeadlock == Spec => []NoLockCycle
<1>1. IInv => NoLockCycle
  <2> SUFFICES ASSUME IInv, NEW D \in SUBSET Reqs, D # {},
                      \A r \in D : \E q \in D : WaitsFor(r, q)
               PROVE  FALSE
    BY DEF NoLockCycle
  <2>1. PICK r \in D : TRUE
    OBVIOUS
  <2>2. PICK q \in D : WaitsFor(r, q)
    OBVIOUS
  <2>3. PICK p \in D : WaitsFor(q, p)
    OBVIOUS
  <2>4. PICK o \in D : WaitsFor(p, o)
    OBVIOUS
  <2>5. held[q] # {}
    BY <2>2 DEF WaitsFor
  <2>6. "project" \in held[p]
    BY <2>3, <2>5, WaitersHoldNoProject
  <2> QED
    BY <2>4, <2>6, WaitersHoldNoProject
<1> QED
  BY <1>1, Invariance, PTL
=============================================================================
