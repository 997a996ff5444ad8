-------------------------------- MODULE Chat --------------------------------
(***************************************************************************)
(* The chat websocket: the registry of open sockets (ConnectionManager),   *)
(* one handler per socket (chat_ws over ChatService.send_message), and the *)
(* database session the handler keeps for as long as the socket is open.   *)
(*                                                                         *)
(* A handler is a coroutine of one worker process; each action is what it  *)
(* runs between two awaits, so handlers, pushes and departing clients      *)
(* interleave everywhere else.  The handshake's check of the token is in   *)
(* AccessTokens; a refused handshake leaves no state.                      *)
(***************************************************************************)
EXTENDS Naturals, FiniteSets

CONSTANTS Users,     \* users.id; no endpoint deletes a user
          Conns,     \* websockets, each opened at most once
          Workers,   \* gunicorn worker processes
          NoUser, NoWorker,
          MaxMsgs    \* bound: messages sent in a behaviour

ASSUME NoUserAssumption == NoUser \notin Users
ASSUME NoWorkerAssumption == NoWorker \notin Workers
ASSUME MaxMsgsAssumption == MaxMsgs \in Nat

VARIABLES
    pc,           \* where each handler is
    who, at,      \* the user a socket belongs to, the worker it is open in
    registered,   \* active_connections, of all the workers and users together
    gone,         \* sockets whose client has left
    closed,       \* sockets that Starlette knows to be closed to sends
    poisoned,     \* sessions whose transaction PostgreSQL has aborted
    lastId,       \* the sequence of chat_messages.id
    to, cur,      \* the recipient and the id of the message in hand
    rest,         \* the copied list: connections still to be pushed to
    stale,        \* connections on which a send has failed
    owed,         \* history: connections of the user when the push began
    flushed,      \* a session's INSERTs, not committed
    committed,    \* the chat_messages table
    got           \* what each client has received

sockets == <<who, at, gone, closed>>
work == <<to, cur, rest, stale, owed>>
data == <<poisoned, lastId, flushed, committed>>
vars == <<pc, registered, got, sockets, work, data>>

Pushing == {"pushRecipient", "pushSender"}
Loop == {"recv", "query"} \cup Pushing
Live == Loop \cup {"closing", "commit"}
Final == {"saved", "lost", "crashed"}

Message == [id : Nat, via : Conns, to : Users]
Msg(c) == [id |-> cur[c], via |-> c, to |-> to[c]]

TypeOK ==
    /\ pc \in [Conns -> {"new"} \cup Live \cup Final]
    /\ who \in [Conns -> Users \cup {NoUser}]
    /\ at \in [Conns -> Workers \cup {NoWorker}]
    /\ registered \subseteq Conns
    /\ gone \subseteq Conns /\ closed \subseteq Conns /\ poisoned \subseteq Conns
    /\ lastId \in Nat
    /\ to \in [Conns -> Users \cup {NoUser}]
    /\ cur \in [Conns -> Nat]
    /\ rest \in [Conns -> SUBSET Conns]
    /\ stale \in [Conns -> SUBSET Conns]
    /\ owed \in [Conns -> SUBSET Conns]
    /\ flushed \in [Conns -> SUBSET Message]
    /\ committed \subseteq Message
    /\ got \in [Conns -> SUBSET Message]

Init ==
    /\ pc = [c \in Conns |-> "new"]
    /\ who = [c \in Conns |-> NoUser]
    /\ at = [c \in Conns |-> NoWorker]
    /\ registered = {} /\ gone = {} /\ closed = {} /\ poisoned = {}
    /\ lastId = 0
    /\ to = [c \in Conns |-> NoUser]
    /\ cur = [c \in Conns |-> 0]
    /\ rest = [c \in Conns |-> {}]
    /\ stale = [c \in Conns |-> {}]
    /\ owed = [c \in Conns |-> {}]
    /\ flushed = [c \in Conns |-> {}]
    /\ committed = {}
    /\ got = [c \in Conns |-> {}]

Goto(c, where) == pc' = [pc EXCEPT ![c] = where]

\* The message in hand is dealt with, or given up.
Forget(c) ==
    /\ to' = [to EXCEPT ![c] = NoUser]
    /\ cur' = [cur EXCEPT ![c] = 0]
    /\ rest' = [rest EXCEPT ![c] = {}]
    /\ stale' = [stale EXCEPT ![c] = {}]
    /\ owed' = [owed EXCEPT ![c] = {}]

-----------------------------------------------------------------------------
\* ConnectionManager
Of(u, registry) == {d \in registry : who[d] = u}

BugAnyUser(c, u, registry) == {d \in registry : at[d] = at[c]}
ActiveConnections(c, u, registry) == {d \in Of(u, registry) : at[d] = at[c]}

BugWholeUser(ds) == {d \in registered : \A e \in ds : who[d] # who[e]}
Without(ds) == registered \ ds

Connect(c, u, w) ==
    /\ pc[c] = "new"
    /\ Goto(c, "recv")
    /\ who' = [who EXCEPT ![c] = u]
    /\ at' = [at EXCEPT ![c] = w]
    /\ registered' = registered \cup {c}
    /\ UNCHANGED <<gone, closed, work, data, got>>

\* send_personal_message: a copy of the user's list, to be pushed to one by one.
StartPush(c, u, registry) ==
    /\ rest' = [rest EXCEPT ![c] = ActiveConnections(c, u, registry)]
    /\ stale' = [stale EXCEPT ![c] = {}]
    /\ owed' = [owed EXCEPT ![c] = Of(u, registry)]

\* await connection.send_json: the client has it, or has left unnoticed.
Send(c, d) ==
    /\ pc[c] \in Pushing
    /\ d \in rest[c]
    /\ d \notin closed
    /\ got' = IF d \in gone THEN got ELSE [got EXCEPT ![d] = @ \cup {Msg(c)}]
    /\ rest' = [rest EXCEPT ![c] = @ \ {d}]
    /\ UNCHANGED <<pc, registered, sockets, to, cur, stale, owed, data>>

\* The loop goes on with the other connections.
BugStopAtFailure(c, d) == {}
AfterFailure(c, d) == rest[c] \ {d}
SendFails(c, d) ==
    /\ pc[c] \in Pushing
    /\ d \in rest[c]
    /\ d \in gone \cup closed
    /\ closed' = closed \cup {d}
    /\ rest' = [rest EXCEPT ![c] = AfterFailure(c, d)]
    /\ stale' = [stale EXCEPT ![c] = @ \cup {d}]
    /\ UNCHANGED <<pc, registered, who, at, gone, to, cur, owed, data, got>>

-----------------------------------------------------------------------------
\* chat_ws after an exception other than WebSocketDisconnect: the socket leaves
\* the registry, and is closed next.
Except(c, registry) ==
    /\ registered' = registry \ {c}
    /\ Goto(c, "closing")
    /\ Forget(c)

\* Bound: only while messages are left for all the handlers that will insert one.
Room == Cardinality({c \in Conns : pc[c] = "query"}) < MaxMsgs - lastId

\* receive_json: a message, possibly one sent before the client left.  NoUser is an
\* id that no user has.
BugSelfAllowed(c) == Users \cup {NoUser}
Recipients(c) == (Users \cup {NoUser}) \ {who[c]}
Receive(c, u) ==
    /\ pc[c] = "recv"
    /\ u \in Recipients(c)
    /\ Room
    /\ to' = [to EXCEPT ![c] = u]
    /\ Goto(c, "query")
    /\ UNCHANGED <<registered, got, sockets, cur, rest, stale, owed, data>>

\* Not JSON, not a ChatSend, or a message to oneself
ReceiveBad(c) ==
    /\ pc[c] = "recv"
    /\ Except(c, registered)
    /\ UNCHANGED <<got, sockets, data>>

\* WebSocketDisconnect
ReceiveDisconnect(c) ==
    /\ pc[c] = "recv"
    /\ c \in gone
    /\ registered' = Without({c})
    /\ Goto(c, "commit")
    /\ UNCHANGED <<got, sockets, work, data>>

\* The SELECT of the recipient; no user is ever deleted, so it may as well be one
\* step with the INSERT that follows when it finds one.
BugNotChecked(u) == TRUE
Exists(u) == u \in Users
LookupUnknown(c) ==
    /\ pc[c] = "query"
    /\ ~ Exists(to[c])
    /\ Except(c, registered)
    /\ UNCHANGED <<got, sockets, data>>

\* flush and refresh, then the first push: nothing is awaited in between.
Insert(c) ==
    /\ pc[c] = "query"
    /\ Exists(to[c])
    /\ lastId' = lastId + 1
    /\ cur' = [cur EXCEPT ![c] = lastId + 1]
    /\ flushed' = [flushed EXCEPT ![c] = @ \cup
                      {[id |-> lastId + 1, via |-> c, to |-> to[c]]}]
    /\ StartPush(c, to[c], registered)
    /\ Goto(c, "pushRecipient")
    /\ UNCHANGED <<registered, got, sockets, to, poisoned, committed>>

\* The SELECT or the INSERT fails; its transaction can only be rolled back.
DbError(c) ==
    /\ pc[c] = "query"
    /\ poisoned' = poisoned \cup {c}
    /\ Except(c, registered)
    /\ UNCHANGED <<got, sockets, lastId, flushed, committed>>

RecipientDone(c) ==
    /\ pc[c] = "pushRecipient"
    /\ rest[c] = {}
    /\ registered' = Without(stale[c])
    /\ StartPush(c, who[c], Without(stale[c]))
    /\ Goto(c, "pushSender")
    /\ UNCHANGED <<got, sockets, to, cur, data>>

\* The next receive_json raises at once on a socket a send has found closed.
SenderDone(c) ==
    /\ pc[c] = "pushSender"
    /\ rest[c] = {}
    /\ IF c \in closed
          THEN Except(c, Without(stale[c]))
          ELSE /\ registered' = Without(stale[c])
               /\ Goto(c, "recv")
               /\ Forget(c)
    /\ UNCHANGED <<got, sockets, data>>

\* The handler has returned or raised: the server drops the connection.
Drop(c) ==
    /\ gone' = gone \cup {c}
    /\ closed' = closed \cup {c}
    /\ UNCHANGED <<who, at>>

\* get_db: an exception, or a commit that fails, leaves nothing in the table.
BugNoRollback(c) == flushed[c]
Survivors(c) == {}
RollBack(c) ==
    /\ committed' = committed \cup Survivors(c)
    /\ flushed' = [flushed EXCEPT ![c] = {}]
    /\ Goto(c, "lost")
    /\ closed' = closed \cup {c}
    /\ UNCHANGED <<registered, got, who, at, gone, work, lastId>>

\* websocket.close, which itself raises if the socket is known to be closed, and
\* may if the client is gone; the handler then ends with an exception.
CloseMayRaise(c) == c \in gone \cup closed
BugReraise(c) ==
    /\ pc[c] = "closing"
    /\ RollBack(c)
    /\ UNCHANGED poisoned
Close(c) ==
    /\ pc[c] = "closing"
    /\ c \notin closed
    /\ closed' = closed \cup {c}
    /\ Goto(c, "commit")
    /\ UNCHANGED <<registered, got, who, at, gone, work, data>>

CloseRaises(c) ==
    /\ pc[c] = "closing"
    /\ CloseMayRaise(c)
    /\ RollBack(c)
    /\ UNCHANGED poisoned

Commit(c) ==
    /\ pc[c] = "commit"
    /\ c \notin poisoned
    /\ committed' = committed \cup flushed[c]
    /\ flushed' = [flushed EXCEPT ![c] = {}]
    /\ Goto(c, "saved")
    /\ Drop(c)
    /\ UNCHANGED <<registered, got, work, poisoned, lastId>>

\* The transaction is aborted, or PostgreSQL cannot be reached.
CommitFails(c) ==
    /\ pc[c] = "commit"
    /\ poisoned' = poisoned \cup {c}
    /\ RollBack(c)

-----------------------------------------------------------------------------
ClientLeaves(c) ==
    /\ pc[c] \in Live
    /\ c \notin gone
    /\ gone' = gone \cup {c}
    /\ UNCHANGED <<pc, registered, got, who, at, closed, work, data>>

\* A worker process ends: killed, out of memory, or recycled by max_requests
\* with sockets that outlive graceful_timeout.
WorkerDies(w) ==
    LET lost == {c \in Conns : at[c] = w /\ pc[c] \in Live}
        Cut(f, nothing) == [c \in Conns |-> IF c \in lost THEN nothing ELSE f[c]]
    IN  /\ lost # {}
        /\ pc' = Cut(pc, "crashed")
        /\ to' = Cut(to, NoUser)
        /\ cur' = Cut(cur, 0)
        /\ rest' = Cut(rest, {})
        /\ stale' = Cut(stale, {})
        /\ owed' = Cut(owed, {})
        /\ flushed' = Cut(flushed, {})
        /\ registered' = registered \ lost
        /\ gone' = gone \cup lost
        /\ closed' = closed \cup lost
        /\ poisoned' = poisoned \ lost
        /\ UNCHANGED <<got, who, at, lastId, committed>>

Handle(c) ==
    \/ ReceiveDisconnect(c) \/ LookupUnknown(c) \/ Insert(c) \/ DbError(c)
    \/ RecipientDone(c) \/ SenderDone(c)
    \/ Close(c) \/ CloseRaises(c) \/ Commit(c) \/ CommitFails(c)
    \/ \E d \in Conns : Send(c, d) \/ SendFails(c, d)

Next ==
    \/ \E c \in Conns, u \in Users, w \in Workers : Connect(c, u, w)
    \/ \E c \in Conns, u \in Users \cup {NoUser} : Receive(c, u)
    \/ \E c \in Conns : ReceiveBad(c) \/ Handle(c) \/ ClientLeaves(c)
    \/ \E w \in Workers : WorkerDies(w)

Spec == Init /\ [][Next]_vars

-----------------------------------------------------------------------------
\* The registry follows the handlers: a socket whose handler is past its loop is
\* never left behind in it, and one whose client is there is never dropped from it,
\* although every push may remove connections that belong to other handlers.
RegistryExact ==
    /\ \A c \in registered : pc[c] \in Loop
    /\ \A c \in Conns : pc[c] \in Loop /\ c \notin gone => c \in registered

\* Only the two parties of a message ever receive it.
OnlyParties ==
    \A d \in Conns : \A m \in got[d] : who[d] \in {m.to, who[m.via]}

\* No socket is sent a message twice, though one user's sockets may be both
\* pushed to as recipient's and as sender's.
NeverTwice ==
    \A c \in Conns : pc[c] \in Pushing => \A d \in rest[c] : Msg(c) \notin got[d]

\* websocket.py: "Send a JSON payload to all active connections for a specific
\* user."  Within the sender's process a push passes over no connection that the
\* user had when it began, whatever sockets come, fail and go meanwhile and
\* whatever other pushes remove.  The connections of other processes it misses.
ReachesProcess ==
    \A c \in Conns : pc[c] \in Pushing =>
        \A d \in owed[c] \ rest[c] :
            at[d] = at[c] => d \in gone \cup closed \/ Msg(c) \in got[d]

\* The messages of one socket share one transaction: what clients were sent is
\* kept if its handler saved, and all of it vanishes if the handler did not.
AllOrNothing ==
    \A d \in Conns : \A m \in got[d] :
        /\ pc[m.via] = "saved" => m \in committed
        /\ pc[m.via] \in {"lost", "crashed"} => m \notin committed

\* A client that stays connected loses nothing it has sent unless the database
\* fails: a message that is refused closes the socket and keeps the earlier ones.
LossHasCause == \A c \in Conns : pc[c] = "lost" => c \in gone \cup poisoned
=============================================================================
