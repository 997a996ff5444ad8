------------------------------- MODULE Mailer -------------------------------
(***************************************************************************)
(* Background mail: a Celery worker with its child processes, between the  *)
(* broker and an SMTP server.                                              *)
(*                                                                         *)
(* A message stays the broker's until the task has returned (acks_late):   *)
(* a child that dies gives it back (reject_on_worker_lost), and so does    *)
(* the broker when the whole worker dies, if it restores what was not      *)
(* acknowledged.  Such a broker also gives a message back while a child    *)
(* still works on it: it lost the connection to the worker, or waited too  *)
(* long.  An error while sending is swallowed by _smtp_send, so that the   *)
(* retry of the task is never reached and is not modelled.                 *)
(***************************************************************************)
EXTENDS Naturals

CONSTANTS Mails,
          Children,         \* processes of the worker (--concurrency)
          NoMail,
          Restores,         \* the broker hands out again what was not acknowledged
          MaxLosses         \* bound on the times that processes die or messages lapse

VARIABLES
    configured,     \* SMTP_USER is set; never changes
    queue,          \* messages in the broker that no worker has
    at,             \* the message each child works on
    tried,          \* children whose task has made its attempt to send
    lapsed,         \* children whose message the broker has given back meanwhile
    acked,          \* messages the broker has been told to forget
    delivered,      \* history: how often the SMTP server accepted each mail
    swallowed,      \* history: mails for which an attempt failed
    again,          \* history: how often each message went back into the queue
    losses          \* how often a process died or a message lapsed

vars == <<configured, queue, at, tried, lapsed, acked, delivered, swallowed, again, losses>>
history == <<delivered, swallowed, again, losses>>

TypeOK ==
    /\ configured \in BOOLEAN
    /\ queue \subseteq Mails
    /\ at \in [Children -> Mails \cup {NoMail}]
    /\ tried \subseteq Children /\ lapsed \subseteq Children
    /\ acked \subseteq Mails
    /\ delivered \in [Mails -> Nat]
    /\ swallowed \subseteq Mails
    /\ again \in [Mails -> Nat]
    /\ losses \in 0..MaxLosses

Init ==
    /\ configured \in BOOLEAN
    /\ queue = {}
    /\ at = [c \in Children |-> NoMail]
    /\ tried = {} /\ lapsed = {}
    /\ acked = {}
    /\ delivered = [m \in Mails |-> 0]
    /\ swallowed = {}
    /\ again = [m \in Mails |-> 0]
    /\ losses = 0

-----------------------------------------------------------------------------
\* The messages that the broker counts as being worked on
Held == {at[c] : c \in Children \ lapsed} \ {NoMail}

\* .delay: one message, once, from a request
Enqueue(m) ==
    /\ m \notin queue \cup Held \cup acked
    /\ queue' = queue \cup {m}
    /\ UNCHANGED <<configured, at, tried, lapsed, acked, history>>

Take(c, m) ==
    /\ at[c] = NoMail
    /\ m \in queue
    /\ queue' = queue \ {m}
    /\ at' = [at EXCEPT ![c] = m]
    /\ UNCHANGED <<configured, tried, lapsed, acked, history>>

\* _smtp_send: skipped without SMTP_USER, accepted, or an error that is only logged.
Skip(c) ==
    /\ at[c] # NoMail /\ c \notin tried
    /\ ~ configured
    /\ tried' = tried \cup {c}
    /\ UNCHANGED <<configured, queue, at, lapsed, acked, history>>

Send(c) ==
    /\ at[c] # NoMail /\ c \notin tried
    /\ configured
    /\ delivered' = [delivered EXCEPT ![at[c]] = @ + 1]
    /\ tried' = tried \cup {c}
    /\ UNCHANGED <<configured, queue, at, lapsed, acked, swallowed, again, losses>>

SmtpError(c) ==
    /\ at[c] # NoMail /\ c \notin tried
    /\ configured
    /\ swallowed' = swallowed \cup {at[c]}
    /\ tried' = tried \cup {c}
    /\ UNCHANGED <<configured, queue, at, lapsed, acked, delivered, again, losses>>

\* The task has returned: only now is the message acknowledged.  The broker does
\* not take an acknowledgement of what it has given back.
BugAckEarly(c) == at[c] # NoMail
Finished(c) == at[c] # NoMail /\ c \in tried
BugAlwaysRetries(c) ==
    /\ Finished(c)
    /\ queue' = queue \cup {at[c]}
    /\ at' = [at EXCEPT ![c] = NoMail]
    /\ tried' = tried \ {c} /\ lapsed' = lapsed \ {c}
    /\ UNCHANGED <<configured, acked, history>>
Ack(c) ==
    /\ Finished(c)
    /\ acked' = IF c \in lapsed THEN acked ELSE acked \cup {at[c]}
    /\ at' = [at EXCEPT ![c] = NoMail]
    /\ tried' = tried \ {c} /\ lapsed' = lapsed \ {c}
    /\ UNCHANGED <<configured, queue, history>>

\* The messages of the children C go back to the queue, or are gone.
BugForget(C, back) == {}
Returned(C, back) == IF back THEN {at[c] : c \in C \ lapsed} \ {NoMail} ELSE {}
Return(C, back) ==
    /\ losses < MaxLosses
    /\ losses' = losses + 1
    /\ queue' = queue \cup Returned(C, back)
    /\ again' = [m \in Mails |-> IF m \in Returned(C, back) THEN again[m] + 1 ELSE again[m]]
    /\ UNCHANGED <<configured, acked, delivered, swallowed>>

\* The processes C die.
Die(C, back) ==
    /\ Return(C, back)
    /\ at' = [c \in Children |-> IF c \in C THEN NoMail ELSE at[c]]
    /\ tried' = tried \ C /\ lapsed' = lapsed \ C

ChildLost(c) == at[c] # NoMail /\ Die({c}, TRUE)
WorkerKilled == Die(Children, Restores)

\* The broker lost its connection to the worker, or the visibility timeout of the
\* message has passed; the child does not notice.
Lapse(c) ==
    /\ Restores
    /\ at[c] # NoMail /\ c \notin lapsed
    /\ Return({c}, TRUE)
    /\ lapsed' = lapsed \cup {c}
    /\ UNCHANGED <<at, tried>>

Work(c) ==
    \/ \E m \in Mails : Take(c, m)
    \/ Skip(c) \/ Send(c) \/ SmtpError(c) \/ Ack(c)
Progress ==
    \/ \E c \in Children : Work(c) \/ ChildLost(c) \/ Lapse(c)
    \/ WorkerKilled
Next == Progress \/ \E m \in Mails : Enqueue(m)

\* A worker that has died is restarted, and works while it has something to do.
Fairness == \A c \in Children : WF_vars(Work(c))
Spec == Init /\ [][Next]_vars /\ Fairness
=============================================================================
