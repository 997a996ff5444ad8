----------------------------- MODULE AccountMail -----------------------------
(***************************************************************************)
(* Accounts and Mailer together: the web process hands a welcome mail to   *)
(* the broker in the middle of a registration, and the worker may send it  *)
(* before the account is committed, or although it never is.               *)
(***************************************************************************)
EXTENDS Accounts, Naturals, FiniteSets

CONSTANTS Children, NoMail, Restores, MaxLosses

ASSUME NoMailAssumption == NoMail \notin Ids
ASSUME ChildrenAssumption == IsFiniteSet(Children)
ASSUME RestoresAssumption == Restores \in BOOLEAN
ASSUME MaxLossesAssumption == MaxLosses \in Nat

VARIABLES configured, queue, at, tried, lapsed, acked, delivered, swallowed, again, losses

\* A mail is named by the account that it welcomes.
Mail == INSTANCE Mailer WITH Mails <- Ids

mail == <<configured, queue, at, tried, lapsed, acked, delivered, swallowed, again, losses>>
systemVars == <<vars, mail>>

SystemInit == Init /\ Mail!Init

\* .delay is a step of both, all others are a step of one.
Delay(r) == Welcome(r) /\ Mail!Enqueue(id[r])
Request(r) == Other(r) /\ UNCHANGED mail
Worker == Mail!Progress /\ UNCHANGED vars

SystemNext == (\E r \in Reqs : Delay(r) \/ Request(r)) \/ Worker
SystemSpec == SystemInit /\ [][SystemNext]_systemVars

\* A worker that has died is restarted, and works while it has something to do.
FairSystemSpec ==
    SystemSpec /\ \A c \in Children : WF_systemVars(Mail!Work(c) /\ UNCHANGED vars)

-----------------------------------------------------------------------------
\* No committed account is without its welcome mail: it is waiting, being sent, or was
\* given up for a reason (delivered, an error that was swallowed, no SMTP_USER),
\* however many processes died, as the broker restores what they held, and whatever
\* it gives out again while a child is still at work.
WelcomeTracked ==
    \A x \in Ids : account[x] # NoAccount =>
        \/ x \in queue \cup Mail!Held
        \/ x \in acked /\ (delivered[x] > 0 \/ x \in swallowed \/ ~ configured)

\* A mail is delivered more than once only if its message went back into the queue,
\* because a process died or the broker stopped waiting, and at most once more for
\* each such time, although an old and a new holder may be sending at once.
DuplicateHasCause == \A x \in Ids : delivered[x] <= 1 + again[x]

\* Every mail that a request has handed over is dealt with in the end.
WelcomeHandled == \A x \in Ids : x \in queue ~> x \in acked
=============================================================================
