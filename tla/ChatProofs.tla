------------------------------ MODULE ChatProofs ------------------------------
(***************************************************************************)
(* Proofs about Chat for any users, sockets and worker processes, and any  *)
(* number of messages.                                                     *)
(*                                                                         *)
(* The registry needs one fact about sends (Socket): a socket on which a   *)
(* send has failed belongs to a client that is gone, so removing it can    *)
(* never cut off a client that is there.  Deliveries need one about        *)
(* handlers (Handler): while it pushes, a message is flushed in its own    *)
(* session and has reached nobody but sockets that the copied list no      *)
(* longer holds.                                                           *)
(***************************************************************************)
EXTENDS Chat, TLAPS

Socket(c) ==
    /\ c \in registered => pc[c] \in Loop
    /\ pc[c] \in Loop /\ c \notin gone => c \in registered
    /\ pc[c] \in Loop \cup {"closing"} /\ c \in closed => c \in gone
    /\ pc[c] = "new" => c \notin gone \cup closed \cup poisoned
    /\ pc[c] # "new" => who[c] \in Users /\ at[c] \in Workers

Target(c) == IF pc[c] = "pushRecipient" THEN to[c] ELSE who[c]

Handler(c) ==
    /\ pc[c] = "query" => to[c] # who[c]
    /\ pc[c] \in Pushing =>
          /\ to[c] \in Users \ {who[c]}
          /\ Msg(c) \in flushed[c]
          /\ \A d \in rest[c] : pc[d] # "new" /\ who[d] = Target(c) /\ Msg(c) \notin got[d]
          /\ \A d \in stale[c] : d \in closed /\ pc[d] # "new"
    /\ pc[c] = "pushRecipient" =>
          \A d \in Conns : Msg(c) \in got[d] => who[d] = to[c]

Session(c) ==
    /\ pc[c] \notin Live => flushed[c] = {}
    /\ \A m \in flushed[c] : m.via = c /\ m.id <= lastId

Delivered(d) ==
    \A m \in got[d] :
        /\ pc[d] # "new" /\ pc[m.via] # "new"
        /\ pc[m.via] \in Live => m \in flushed[m.via]
        /\ pc[m.via] = "saved" => m \in committed
        /\ who[d] \in {m.to, who[m.via]}

Saved == \A m \in committed : pc[m.via] = "saved"

IInv ==
    /\ TypeOK
    /\ \A c \in Conns : Socket(c)
    /\ \A c \in Conns : Handler(c)
    /\ \A c \in Conns : Session(c)
    /\ \A d \in Conns : Delivered(d)
    /\ Saved
    /\ LossHasCause

-----------------------------------------------------------------------------
LEMMA InitInv == Init => IInv
BY DEF Init, IInv, TypeOK, Socket, Handler, Session, Delivered, Saved, LossHasCause,
       Live, Loop, Pushing, Final

\* A handler that does not move, while others do: sockets are only ever opened and
\* closed around it.
LEMMA HandlerKept ==
    ASSUME TypeOK, NEW e \in Conns, Handler(e),
           UNCHANGED <<who, got, pc[e], to[e], cur[e], rest[e], stale[e], flushed[e]>>,
           closed \subseteq closed', \A d \in Conns : pc'[d] = "new" => pc[d] = "new"
    PROVE  Handler(e)'
<1>1. UNCHANGED <<Msg(e), Target(e)>>
  BY DEF Msg, Target
<1> QED
  BY <1>1 DEF TypeOK, Handler, Pushing

LEMMA ConnectInv ==
    ASSUME IInv, NEW c \in Conns, NEW u \in Users, NEW w \in Workers, Connect(c, u, w)
    PROVE  IInv'
<1> USE DEF Connect, Goto, sockets, work, data
<1>1. TypeOK'
  BY DEF IInv, TypeOK, Socket, Handler, Message, Msg, Live, Loop, Pushing, Final
<1>2. \A e \in Conns : Socket(e)'
  BY DEF IInv, TypeOK, Socket, Handler, Live, Loop, Pushing
<1>3. \A e \in Conns : Handler(e)'
  BY DEF IInv, TypeOK, Socket, Handler, Session, Delivered, Target, Message, Msg, Live, Loop, Pushing
<1>4. \A e \in Conns : Session(e)'
  BY DEF IInv, TypeOK, Session, Message, Live, Loop, Pushing
<1>5. \A e \in Conns : Delivered(e)'
  BY DEF IInv, TypeOK, Socket, Handler, Session, Delivered, Saved, Target, Message, Msg, Live, Loop, Pushing
<1>6. Saved' /\ LossHasCause'
  BY DEF IInv, TypeOK, Socket, Session, Saved, LossHasCause, Message, Live, Loop, Pushing
<1> QED
  BY <1>1, <1>2, <1>3, <1>4, <1>5, <1>6 DEF IInv

LEMMA SendInv ==
    ASSUME IInv, NEW c \in Conns, NEW d \in Conns, Send(c, d)
    PROVE  IInv'
<1> USE DEF Send, sockets, work, data
<1>1. TypeOK'
  BY DEF IInv, TypeOK, Socket, Handler, Message, Msg, Live, Loop, Pushing, Final
<1>2. \A e \in Conns : Socket(e)'
  BY DEF IInv, TypeOK, Socket, Handler, Live, Loop, Pushing
<1>3. \A e \in Conns : Handler(e)'
  BY DEF IInv, TypeOK, Socket, Handler, Session, Delivered, Target, Message, Msg, Live, Loop, Pushing
<1>4. \A e \in Conns : Session(e)'
  BY DEF IInv, TypeOK, Session, Message, Live, Loop, Pushing
<1>5. \A e \in Conns : Delivered(e)'
  BY DEF IInv, TypeOK, Socket, Handler, Session, Delivered, Saved, Target, Message, Msg, Live, Loop, Pushing
<1>6. Saved' /\ LossHasCause'
  BY DEF IInv, TypeOK, Socket, Session, Saved, LossHasCause, Message, Live, Loop, Pushing
<1> QED
  BY <1>1, <1>2, <1>3, <1>4, <1>5, <1>6 DEF IInv

LEMMA SendFailsInv ==
    ASSUME IInv, NEW c \in Conns, NEW d \in Conns, SendFails(c, d)
    PROVE  IInv'
<1> USE DEF SendFails, AfterFailure, sockets, work, data
<1>1. TypeOK'
  BY DEF IInv, TypeOK, Socket, Handler, Message, Msg, Live, Loop, Pushing, Final
<1>2. \A e \in Conns : Socket(e)'
  BY DEF IInv, TypeOK, Socket, Handler, Live, Loop, Pushing
<1>3. \A e \in Conns : Handler(e)'
  BY DEF IInv, TypeOK, Socket, Handler, Session, Delivered, Target, Message, Msg, Live, Loop, Pushing
<1>4. \A e \in Conns : Session(e)'
  BY DEF IInv, TypeOK, Session, Message, Live, Loop, Pushing
<1>5. \A e \in Conns : Delivered(e)'
  BY DEF IInv, TypeOK, Socket, Handler, Session, Delivered, Saved, Target, Message, Msg, Live, Loop, Pushing
<1>6. Saved' /\ LossHasCause'
  BY DEF IInv, TypeOK, Socket, Session, Saved, LossHasCause, Message, Live, Loop, Pushing
<1> QED
  BY <1>1, <1>2, <1>3, <1>4, <1>5, <1>6 DEF IInv

LEMMA ReceiveInv ==
    ASSUME IInv, NEW c \in Conns, NEW u \in Users \cup {NoUser}, Receive(c, u)
    PROVE  IInv'
<1> USE DEF Receive, Goto, Recipients, sockets, work, data
<1>1. TypeOK'
  BY DEF IInv, TypeOK, Socket, Handler, Message, Msg, Live, Loop, Pushing, Final
<1>2. \A e \in Conns : Socket(e)'
  BY DEF IInv, TypeOK, Socket, Handler, Live, Loop, Pushing
<1>3. \A e \in Conns : Handler(e)'
  BY DEF IInv, TypeOK, Socket, Handler, Session, Delivered, Target, Message, Msg, Live, Loop, Pushing
<1>4. \A e \in Conns : Session(e)'
  BY DEF IInv, TypeOK, Session, Message, Live, Loop, Pushing
<1>5. \A e \in Conns : Delivered(e)'
  BY DEF IInv, TypeOK, Socket, Handler, Session, Delivered, Saved, Target, Message, Msg, Live, Loop, Pushing
<1>6. Saved' /\ LossHasCause'
  BY DEF IInv, TypeOK, Socket, Session, Saved, LossHasCause, Message, Live, Loop, Pushing
<1> QED
  BY <1>1, <1>2, <1>3, <1>4, <1>5, <1>6 DEF IInv

LEMMA ReceiveBadInv ==
    ASSUME IInv, NEW c \in Conns, ReceiveBad(c)
    PROVE  IInv'
<1> USE DEF ReceiveBad, Except, Goto, Forget, sockets, work, data
<1>1. TypeOK'
  BY DEF IInv, TypeOK, Socket, Handler, Message, Msg, Live, Loop, Pushing, Final
<1>2. \A e \in Conns : Socket(e)'
  BY DEF IInv, TypeOK, Socket, Handler, Live, Loop, Pushing
<1>3. \A e \in Conns : Handler(e)'
  BY DEF IInv, TypeOK, Socket, Handler, Session, Delivered, Target, Message, Msg, Live, Loop, Pushing
<1>4. \A e \in Conns : Session(e)'
  BY DEF IInv, TypeOK, Session, Message, Live, Loop, Pushing
<1>5. \A e \in Conns : Delivered(e)'
  BY DEF IInv, TypeOK, Socket, Handler, Session, Delivered, Saved, Target, Message, Msg, Live, Loop, Pushing
<1>6. Saved' /\ LossHasCause'
  BY DEF IInv, TypeOK, Socket, Session, Saved, LossHasCause, Message, Live, Loop, Pushing
<1> QED
  BY <1>1, <1>2, <1>3, <1>4, <1>5, <1>6 DEF IInv

LEMMA ReceiveDisconnectInv ==
    ASSUME IInv, NEW c \in Conns, ReceiveDisconnect(c)
    PROVE  IInv'
<1> USE DEF ReceiveDisconnect, Without, Goto, sockets, work, data
<1>1. TypeOK'
  BY DEF IInv, TypeOK, Socket, Handler, Message, Msg, Live, Loop, Pushing, Final
<1>2. \A e \in Conns : Socket(e)'
  BY DEF IInv, TypeOK, Socket, Handler, Live, Loop, Pushing
<1>3. \A e \in Conns : Handler(e)'
  BY DEF IInv, TypeOK, Socket, Handler, Session, Delivered, Target, Message, Msg, Live, Loop, Pushing
<1>4. \A e \in Conns : Session(e)'
  BY DEF IInv, TypeOK, Session, Message, Live, Loop, Pushing
<1>5. \A e \in Conns : Delivered(e)'
  BY DEF IInv, TypeOK, Socket, Handler, Session, Delivered, Saved, Target, Message, Msg, Live, Loop, Pushing
<1>6. Saved' /\ LossHasCause'
  BY DEF IInv, TypeOK, Socket, Session, Saved, LossHasCause, Message, Live, Loop, Pushing
<1> QED
  BY <1>1, <1>2, <1>3, <1>4, <1>5, <1>6 DEF IInv

LEMMA LookupUnknownInv ==
    ASSUME IInv, NEW c \in Conns, LookupUnknown(c)
    PROVE  IInv'
<1> USE DEF LookupUnknown, Except, Goto, Forget, sockets, work, data
<1>1. TypeOK'
  BY DEF IInv, TypeOK, Socket, Handler, Message, Msg, Live, Loop, Pushing, Final
<1>2. \A e \in Conns : Socket(e)'
  BY DEF IInv, TypeOK, Socket, Handler, Live, Loop, Pushing
<1>3. \A e \in Conns : Handler(e)'
  BY DEF IInv, TypeOK, Socket, Handler, Session, Delivered, Target, Message, Msg, Live, Loop, Pushing
<1>4. \A e \in Conns : Session(e)'
  BY DEF IInv, TypeOK, Session, Message, Live, Loop, Pushing
<1>5. \A e \in Conns : Delivered(e)'
  BY DEF IInv, TypeOK, Socket, Handler, Session, Delivered, Saved, Target, Message, Msg, Live, Loop, Pushing
<1>6. Saved' /\ LossHasCause'
  BY DEF IInv, TypeOK, Socket, Session, Saved, LossHasCause, Message, Live, Loop, Pushing
<1> QED
  BY <1>1, <1>2, <1>3, <1>4, <1>5, <1>6 DEF IInv

LEMMA InsertInv ==
    ASSUME IInv, NEW c \in Conns, Insert(c)
    PROVE  IInv'
<1> USE DEF Insert, Exists, Goto, StartPush, ActiveConnections, Of, sockets, work, data
<1>1. TypeOK'
  BY DEF IInv, TypeOK, Socket, Handler, Message, Msg, Live, Loop, Pushing, Final
<1>2. \A e \in Conns : Socket(e)'
  BY DEF IInv, TypeOK, Socket, Handler, Live, Loop, Pushing
<1>3. \A e \in Conns : Handler(e)'
  <2>1. Handler(c)'
    <3> DEFINE m == [id |-> lastId + 1, via |-> c, to |-> to[c]]
    <3>1. Msg(c)' = m /\ Target(c)' = to[c] /\ m.id = lastId + 1 /\ m.via = c
      BY DEF IInv, TypeOK, Msg, Target
    <3>2. \A d \in Conns : m \notin got[d]
      BY <3>1 DEF IInv, TypeOK, Session, Delivered, Live, Loop
    <3>3. m \in flushed'[c] /\ to[c] \in Users \ {who[c]}
      BY DEF IInv, TypeOK, Handler
    <3>4. \A d \in rest'[c] : d \in Conns /\ pc[d] \in Loop /\ who[d] = to[c] /\ pc'[d] # "new"
      BY DEF IInv, TypeOK, Socket, Loop, Pushing
    <3>5. stale'[c] = {} /\ pc'[c] = "pushRecipient"
      BY DEF IInv, TypeOK
    <3> QED
      BY <3>1, <3>2, <3>3, <3>4, <3>5 DEF Handler, Pushing
  <2>2. ASSUME NEW e \in Conns \ {c} PROVE Handler(e)'
    BY HandlerKept DEF IInv, TypeOK
  <2> QED
    BY <2>1, <2>2
<1>4. \A e \in Conns : Session(e)'
  BY DEF IInv, TypeOK, Session, Message, Live, Loop, Pushing
<1>5. \A e \in Conns : Delivered(e)'
  BY DEF IInv, TypeOK, Socket, Handler, Session, Delivered, Saved, Target, Message, Msg, Live, Loop, Pushing
<1>6. Saved' /\ LossHasCause'
  BY DEF IInv, TypeOK, Socket, Session, Saved, LossHasCause, Message, Live, Loop, Pushing
<1> QED
  BY <1>1, <1>2, <1>3, <1>4, <1>5, <1>6 DEF IInv

LEMMA DbErrorInv ==
    ASSUME IInv, NEW c \in Conns, DbError(c)
    PROVE  IInv'
<1> USE DEF DbError, Except, Goto, Forget, sockets, work, data
<1>1. TypeOK'
  BY DEF IInv, TypeOK, Socket, Handler, Message, Msg, Live, Loop, Pushing, Final
<1>2. \A e \in Conns : Socket(e)'
  BY DEF IInv, TypeOK, Socket, Handler, Live, Loop, Pushing
<1>3. \A e \in Conns : Handler(e)'
  BY DEF IInv, TypeOK, Socket, Handler, Session, Delivered, Target, Message, Msg, Live, Loop, Pushing
<1>4. \A e \in Conns : Session(e)'
  BY DEF IInv, TypeOK, Session, Message, Live, Loop, Pushing
<1>5. \A e \in Conns : Delivered(e)'
  BY DEF IInv, TypeOK, Socket, Handler, Session, Delivered, Saved, Target, Message, Msg, Live, Loop, Pushing
<1>6. Saved' /\ LossHasCause'
  BY DEF IInv, TypeOK, Socket, Session, Saved, LossHasCause, Message, Live, Loop, Pushing
<1> QED
  BY <1>1, <1>2, <1>3, <1>4, <1>5, <1>6 DEF IInv

LEMMA RecipientDoneInv ==
    ASSUME IInv, NEW c \in Conns, RecipientDone(c)
    PROVE  IInv'
<1> USE DEF RecipientDone, Without, Goto, StartPush, ActiveConnections, Of, sockets, work, data
<1>1. TypeOK'
  BY DEF IInv, TypeOK, Socket, Handler, Message, Msg, Live, Loop, Pushing, Final
<1>2. \A e \in Conns : Socket(e)'
  BY DEF IInv, TypeOK, Socket, Handler, Live, Loop, Pushing
<1>3. \A e \in Conns : Handler(e)'
  <2>1. Handler(c)'
    <3>1. Msg(c)' = Msg(c) /\ Target(c)' = who[c] /\ pc'[c] = "pushSender" /\ stale'[c] = {}
      BY DEF IInv, TypeOK, Msg, Target
    <3>2. \A d \in rest'[c] : d \in Conns /\ pc[d] \in Loop /\ who[d] = who[c] /\ pc'[d] # "new"
      BY DEF IInv, TypeOK, Socket, Loop, Pushing
    <3>3. to[c] \in Users \ {who[c]} /\ Msg(c) \in flushed[c]
      BY DEF IInv, Handler, Pushing
    <3>4. \A d \in rest'[c] : Msg(c) \notin got[d]
      BY <3>2, <3>3 DEF IInv, Handler
    <3> QED
      BY <3>1, <3>2, <3>3, <3>4 DEF Handler, Pushing
  <2>2. ASSUME NEW e \in Conns \ {c} PROVE Handler(e)'
    BY HandlerKept DEF IInv, TypeOK
  <2> QED
    BY <2>1, <2>2
<1>4. \A e \in Conns : Session(e)'
  BY DEF IInv, TypeOK, Session, Message, Live, Loop, Pushing
<1>5. \A e \in Conns : Delivered(e)'
  BY DEF IInv, TypeOK, Socket, Handler, Session, Delivered, Saved, Target, Message, Msg, Live, Loop, Pushing
<1>6. Saved' /\ LossHasCause'
  BY DEF IInv, TypeOK, Socket, Session, Saved, LossHasCause, Message, Live, Loop, Pushing
<1> QED
  BY <1>1, <1>2, <1>3, <1>4, <1>5, <1>6 DEF IInv

LEMMA SenderDoneInv ==
    ASSUME IInv, NEW c \in Conns, SenderDone(c)
    PROVE  IInv'
<1> USE DEF SenderDone, Except, Without, Goto, Forget, sockets, work, data
<1>1. TypeOK'
  BY DEF IInv, TypeOK, Socket, Handler, Message, Msg, Live, Loop, Pushing, Final
<1>2. \A e \in Conns : Socket(e)'
  BY DEF IInv, TypeOK, Socket, Handler, Live, Loop, Pushing
<1>3. \A e \in Conns : Handler(e)'
  BY DEF IInv, TypeOK, Socket, Handler, Session, Delivered, Target, Message, Msg, Live, Loop, Pushing
<1>4. \A e \in Conns : Session(e)'
  BY DEF IInv, TypeOK, Session, Message, Live, Loop, Pushing
<1>5. \A e \in Conns : Delivered(e)'
  BY DEF IInv, TypeOK, Socket, Handler, Session, Delivered, Saved, Target, Message, Msg, Live, Loop, Pushing
<1>6. Saved' /\ LossHasCause'
  BY DEF IInv, TypeOK, Socket, Session, Saved, LossHasCause, Message, Live, Loop, Pushing
<1> QED
  BY <1>1, <1>2, <1>3, <1>4, <1>5, <1>6 DEF IInv

LEMMA CloseInv ==
    ASSUME IInv, NEW c \in Conns, Close(c)
    PROVE  IInv'
<1> USE DEF Close, Goto, sockets, work, data
<1>1. TypeOK'
  BY DEF IInv, TypeOK, Socket, Handler, Message, Msg, Live, Loop, Pushing, Final
<1>2. \A e \in Conns : Socket(e)'
  BY DEF IInv, TypeOK, Socket, Handler, Live, Loop, Pushing
<1>3. \A e \in Conns : Handler(e)'
  BY DEF IInv, TypeOK, Socket, Handler, Session, Delivered, Target, Message, Msg, Live, Loop, Pushing
<1>4. \A e \in Conns : Session(e)'
  BY DEF IInv, TypeOK, Session, Message, Live, Loop, Pushing
<1>5. \A e \in Conns : Delivered(e)'
  BY DEF IInv, TypeOK, Socket, Handler, Session, Delivered, Saved, Target, Message, Msg, Live, Loop, Pushing
<1>6. Saved' /\ LossHasCause'
  BY DEF IInv, TypeOK, Socket, Session, Saved, LossHasCause, Message, Live, Loop, Pushing
<1> QED
  BY <1>1, <1>2, <1>3, <1>4, <1>5, <1>6 DEF IInv

LEMMA CloseRaisesInv ==
    ASSUME IInv, NEW c \in Conns, CloseRaises(c)
    PROVE  IInv'
<1> USE DEF CloseRaises, CloseMayRaise, RollBack, Survivors, Goto, sockets, work, data
<1>1. TypeOK'
  BY DEF IInv, TypeOK, Socket, Handler, Message, Msg, Live, Loop, Pushing, Final
<1>2. \A e \in Conns : Socket(e)'
  BY DEF IInv, TypeOK, Socket, Handler, Live, Loop, Pushing
<1>3. \A e \in Conns : Handler(e)'
  BY DEF IInv, TypeOK, Socket, Handler, Session, Delivered, Target, Message, Msg, Live, Loop, Pushing
<1>4. \A e \in Conns : Session(e)'
  BY DEF IInv, TypeOK, Session, Message, Live, Loop, Pushing
<1>5. \A e \in Conns : Delivered(e)'
  BY DEF IInv, TypeOK, Socket, Handler, Session, Delivered, Saved, Target, Message, Msg, Live, Loop, Pushing
<1>6. Saved' /\ LossHasCause'
  BY DEF IInv, TypeOK, Socket, Session, Saved, LossHasCause, Message, Live, Loop, Pushing
<1> QED
  BY <1>1, <1>2, <1>3, <1>4, <1>5, <1>6 DEF IInv

LEMMA CommitInv ==
    ASSUME IInv, NEW c \in Conns, Commit(c)
    PROVE  IInv'
<1> USE DEF Commit, Drop, Goto, sockets, work, data
<1>1. TypeOK'
  BY DEF IInv, TypeOK, Socket, Handler, Message, Msg, Live, Loop, Pushing, Final
<1>2. \A e \in Conns : Socket(e)'
  BY DEF IInv, TypeOK, Socket, Handler, Live, Loop, Pushing
<1>3. \A e \in Conns : Handler(e)'
  <2>1. Handler(c)'
    BY DEF IInv, TypeOK, Handler, Pushing
  <2>2. ASSUME NEW e \in Conns \ {c} PROVE Handler(e)'
    BY HandlerKept DEF IInv, TypeOK
  <2> QED
    BY <2>1, <2>2
<1>4. \A e \in Conns : Session(e)'
  BY DEF IInv, TypeOK, Session, Message, Live, Loop, Pushing
<1>5. \A e \in Conns : Delivered(e)'
  BY DEF IInv, TypeOK, Socket, Handler, Session, Delivered, Saved, Target, Message, Msg, Live, Loop, Pushing
<1>6. Saved' /\ LossHasCause'
  BY DEF IInv, TypeOK, Socket, Session, Saved, LossHasCause, Message, Live, Loop, Pushing
<1> QED
  BY <1>1, <1>2, <1>3, <1>4, <1>5, <1>6 DEF IInv

LEMMA CommitFailsInv ==
    ASSUME IInv, NEW c \in Conns, CommitFails(c)
    PROVE  IInv'
<1> USE DEF CommitFails, RollBack, Survivors, Goto, sockets, work, data
<1>1. TypeOK'
  BY DEF IInv, TypeOK, Socket, Handler, Message, Msg, Live, Loop, Pushing, Final
<1>2. \A e \in Conns : Socket(e)'
  BY DEF IInv, TypeOK, Socket, Handler, Live, Loop, Pushing
<1>3. \A e \in Conns : Handler(e)'
  BY DEF IInv, TypeOK, Socket, Handler, Session, Delivered, Target, Message, Msg, Live, Loop, Pushing
<1>4. \A e \in Conns : Session(e)'
  BY DEF IInv, TypeOK, Session, Message, Live, Loop, Pushing
<1>5. \A e \in Conns : Delivered(e)'
  BY DEF IInv, TypeOK, Socket, Handler, Session, Delivered, Saved, Target, Message, Msg, Live, Loop, Pushing
<1>6. Saved' /\ LossHasCause'
  BY DEF IInv, TypeOK, Socket, Session, Saved, LossHasCause, Message, Live, Loop, Pushing
<1> QED
  BY <1>1, <1>2, <1>3, <1>4, <1>5, <1>6 DEF IInv

LEMMA ClientLeavesInv ==
    ASSUME IInv, NEW c \in Conns, ClientLeaves(c)
    PROVE  IInv'
<1> USE DEF ClientLeaves, sockets, work, data
<1>1. TypeOK'
  BY DEF IInv, TypeOK, Socket, Handler, Message, Msg, Live, Loop, Pushing, Final
<1>2. \A e \in Conns : Socket(e)'
  BY DEF IInv, TypeOK, Socket, Handler, Live, Loop, Pushing
<1>3. \A e \in Conns : Handler(e)'
  BY DEF IInv, TypeOK, Socket, Handler, Session, Delivered, Target, Message, Msg, Live, Loop, Pushing
<1>4. \A e \in Conns : Session(e)'
  BY DEF IInv, TypeOK, Session, Message, Live, Loop, Pushing
<1>5. \A e \in Conns : Delivered(e)'
  BY DEF IInv, TypeOK, Socket, Handler, Session, Delivered, Saved, Target, Message, Msg, Live, Loop, Pushing
<1>6. Saved' /\ LossHasCause'
  BY DEF IInv, TypeOK, Socket, Session, Saved, LossHasCause, Message, Live, Loop, Pushing
<1> QED
  BY <1>1, <1>2, <1>3, <1>4, <1>5, <1>6 DEF IInv

LEMMA WorkerDiesInv ==
    ASSUME IInv, NEW w \in Workers, WorkerDies(w)
    PROVE  IInv'
<1> USE DEF WorkerDies, sockets, work, data
<1>1. TypeOK'
  BY DEF IInv, TypeOK, Socket, Handler, Message, Msg, Live, Loop, Pushing, Final
<1>2. \A e \in Conns : Socket(e)'
  BY DEF IInv, TypeOK, Socket, Handler, Live, Loop, Pushing
<1>3. \A e \in Conns : Handler(e)'
  BY DEF IInv, TypeOK, Socket, Handler, Session, Delivered, Target, Message, Msg, Live, Loop, Pushing
<1>4. \A e \in Conns : Session(e)'
  BY DEF IInv, TypeOK, Session, Message, Live, Loop, Pushing
<1>5. \A e \in Conns : Delivered(e)'
  BY DEF IInv, TypeOK, Socket, Handler, Session, Delivered, Saved, Target, Message, Msg, Live, Loop, Pushing
<1>6. Saved' /\ LossHasCause'
  BY DEF IInv, TypeOK, Socket, Session, Saved, LossHasCause, Message, Live, Loop, Pushing
<1> QED
  BY <1>1, <1>2, <1>3, <1>4, <1>5, <1>6 DEF IInv

LEMMA StutterInv == IInv /\ UNCHANGED vars => IInv'
BY DEF IInv, vars, sockets, work, data, TypeOK, Socket, Handler, Session, Delivered,
       Saved, LossHasCause, Target, Msg

\* The inductive invariant holds in every reachable state.
THEOREM Invariance == Spec => []IInv
<1>1. ASSUME IInv, [Next]_vars PROVE IInv'
  <2>1. ASSUME NEW c \in Conns, NEW d \in Conns, Send(c, d) \/ SendFails(c, d) PROVE IInv'
    BY <1>1, <2>1, SendInv, SendFailsInv
  <2>2. ASSUME NEW c \in Conns, Handle(c) PROVE IInv'
    BY <1>1, <2>1, <2>2, ReceiveDisconnectInv, LookupUnknownInv, InsertInv, DbErrorInv,
       RecipientDoneInv, SenderDoneInv, CloseInv, CloseRaisesInv, CommitInv,
       CommitFailsInv DEF Handle
  <2> QED
    BY <1>1, <2>2, ConnectInv, ReceiveInv, ReceiveBadInv, ClientLeavesInv, WorkerDiesInv,
       StutterInv DEF Next
<1> QED
  BY InitInv, <1>1, PTL DEF Spec

\* Every variable keeps its type.
THEOREM TypeCorrect == Spec => []TypeOK
BY Invariance, PTL DEF IInv

\* The registry holds a socket only while its handler is in its loop, and holds
\* every socket whose client is there.
THEOREM RegistryIsExact == Spec => []RegistryExact
<1>1. IInv => RegistryExact
  BY DEF IInv, TypeOK, Socket, RegistryExact
<1> QED
  BY <1>1, Invariance, PTL

\* Nobody but the sender and the recipient receives a message.
THEOREM Privacy == Spec => []OnlyParties
<1>1. IInv => OnlyParties
  BY DEF IInv, Delivered, OnlyParties
<1> QED
  BY <1>1, Invariance, PTL

\* No socket is sent a message twice.
THEOREM AtMostOnce == Spec => []NeverTwice
<1>1. IInv => NeverTwice
  BY DEF IInv, Handler, NeverTwice
<1> QED
  BY <1>1, Invariance, PTL

\* A socket's messages are kept together or vanish together.
THEOREM SessionsAreAtomic == Spec => []AllOrNothing
<1>1. IInv => AllOrNothing
  BY DEF IInv, Delivered, Saved, AllOrNothing
<1> QED
  BY <1>1, Invariance, PTL

\* Only a client that left or a database that failed loses messages.
THEOREM LossIsExcused == Spec => []LossHasCause
BY Invariance, PTL DEF IInv

-----------------------------------------------------------------------------
\* A connection of c's own process that the push has passed has the message.
Reaching(c) ==
    pc[c] \in Pushing =>
        \A d \in owed[c] \ rest[c] :
            at[d] = at[c] => d \in gone \cup closed \/ Msg(c) \in got[d]

\* Whom a push owes a message has been connected, and stays in its process.
Connected(c) == \A d \in owed[c] : pc[d] # "new"

LEMMA StartReaches ==
    ASSUME IInv, NEW c \in Conns, pc[c] \in Loop, NEW registry \in SUBSET registered,
           NEW u, StartPush(c, u, registry)
    PROVE  /\ \A d \in owed'[c] \ rest'[c] : at[d] # at[c]
           /\ \A d \in owed'[c] : pc[d] # "new"
BY DEF StartPush, ActiveConnections, Of, IInv, TypeOK, Socket, Loop, Pushing

\* However many worker processes run, a push reaches every connection that the
\* user had in the sender's process when it began, unless its client is gone.
THEOREM PushesReachProcess == Spec => []ReachesProcess
<1> DEFINE J == \A c \in Conns : Reaching(c) /\ Connected(c)
<1>1. Init => J
  BY DEF Init, Reaching, Connected, Pushing
<1>2. IInv /\ J /\ [Next]_vars => J'
  <2> SUFFICES ASSUME IInv, J, [Next]_vars PROVE J'
    OBVIOUS
  <2> USE DEF sockets, work, data, Goto
  <2>1. ASSUME NEW c \in Conns, Insert(c) PROVE J'
    <3>1. /\ \A d \in owed'[c] \ rest'[c] : at[d] # at[c]
          /\ \A d \in owed'[c] : pc[d] # "new"
      BY <2>1, StartReaches DEF Insert, Loop, IInv, TypeOK
    <3> QED
      BY <2>1, <3>1 DEF Insert, StartPush, Reaching, Connected, Msg, Pushing, IInv, TypeOK
  <2>2. ASSUME NEW c \in Conns, RecipientDone(c) PROVE J'
    <3>1. /\ \A d \in owed'[c] \ rest'[c] : at[d] # at[c]
          /\ \A d \in owed'[c] : pc[d] # "new"
      BY <2>2, StartReaches DEF RecipientDone, Without, Loop, Pushing, IInv, TypeOK
    <3> QED
      BY <2>2, <3>1 DEF RecipientDone, StartPush, Reaching, Connected, Msg, Pushing, IInv, TypeOK
  <2>3. ASSUME NEW c \in Conns, NEW d \in Conns, Send(c, d) \/ SendFails(c, d) PROVE J'
    BY <2>3 DEF Send, SendFails, AfterFailure, Reaching, Connected, Msg, Pushing, IInv, TypeOK
  <2>4. ASSUME NEW c \in Conns, NEW u \in Users, NEW w \in Workers, Connect(c, u, w) PROVE J'
    BY <2>4 DEF Connect, Reaching, Connected, Msg, Pushing, IInv, TypeOK
  <2>5. ASSUME NEW c \in Conns, NEW u \in Users \cup {NoUser}, Receive(c, u) PROVE J'
    BY <2>5 DEF Receive, Reaching, Connected, Msg, Pushing, IInv, TypeOK
  <2>6. ASSUME NEW c \in Conns, ReceiveBad(c) \/ LookupUnknown(c) \/ DbError(c) \/ SenderDone(c)
        PROVE  J'
    BY <2>6 DEF ReceiveBad, LookupUnknown, DbError, SenderDone, Except, Forget, Reaching, Connected, Msg,
       Pushing, IInv, TypeOK
  <2>7. ASSUME NEW c \in Conns, ReceiveDisconnect(c) \/ Close(c) \/ CloseRaises(c) \/ Commit(c)
                                \/ CommitFails(c) \/ ClientLeaves(c)
        PROVE  J'
    BY <2>7 DEF ReceiveDisconnect, Close, CloseRaises, Commit, CommitFails, ClientLeaves, RollBack,
       Drop, Reaching, Connected, Msg, Pushing, IInv, TypeOK
  <2>8. ASSUME NEW w \in Workers, WorkerDies(w) PROVE J'
    BY <2>8 DEF WorkerDies, Reaching, Connected, Msg, Pushing, IInv, TypeOK
  <2>9. CASE UNCHANGED vars
    BY <2>9 DEF vars, Reaching, Connected, Msg
  <2> QED
    BY <2>1, <2>2, <2>3, <2>4, <2>5, <2>6, <2>7, <2>8, <2>9 DEF Next, Handle
<1>3. J => ReachesProcess
  BY DEF Reaching, ReachesProcess
<1> QED
  BY <1>1, <1>2, <1>3, Invariance, PTL DEF Spec
=============================================================================
