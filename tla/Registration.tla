---------------------------- MODULE Registration ----------------------------
(***************************************************************************)
(* Registering users: the message bus, its unit of work, the command and   *)
(* event handlers and the publisher of each service process, on one        *)
(* database (src/src/service_layer, src/src/adapters/message_broker/       *)
(* publisher.py, src/auth_service.py, src/src/entrypoints/user_app.py).    *)
(*                                                                         *)
(* A service process has one MessageBus, with one queue, and one unit of   *)
(* work, which its request tasks share.  register_user_handler() has no    *)
(* await: between the check of the names and the end of the commit no      *)
(* other task of the same process runs, but other processes do.  The first *)
(* await is in the publisher.                                              *)
(*                                                                         *)
(* The user a request creates, and the event that user raises, are named   *)
(* by the request.                                                         *)
(***************************************************************************)
EXTENDS Integers, FiniteSets

CONSTANTS
  Requests,      \* calls of a register endpoint
  Services,      \* service processes
  ServiceOf,     \* the process that serves a request
  Keys,          \* the user name and e-mail address of a request
  MaxRetries,    \* of EventPublisher
  MaxCopies,     \* bound: copies are counted up to this number
  NoUser         \* absence of an event

ASSUME RegistrationAssumption ==
  /\ ServiceOf \in [Requests -> Services]
  /\ MaxRetries \in Nat
  /\ MaxCopies \in Nat /\ MaxCopies > MaxRetries + 1
  /\ NoUser \notin Requests

VARIABLES
  db,      \* the users that are committed
  raised,  \* per process: users the unit of work has seen whose event it holds
  queue,   \* per process: the events in MessageBus.queue
  pc,      \* where each request is
  event,   \* the event a request's task is publishing
  tries,   \* the attempts it has made
  handled, \* history: the events whose handler returned
  copies   \* history: how often the broker accepted each event

vars == <<db, raised, queue, pc, event, tries, handled, copies>>

RequestPC == {"new", "checked", "publish", "done", "refused", "failed", "crashed"}

Init ==
  /\ db = {}
  /\ raised = [s \in Services |-> {}]
  /\ queue = [s \in Services |-> {}]
  /\ pc = [r \in Requests |-> "new"]
  /\ event = [r \in Requests |-> NoUser]
  /\ tries = [r \in Requests |-> 0]
  /\ handled = {}
  /\ copies = [r \in Requests |-> 0]

Goto(r, at) == pc' = [pc EXCEPT ![r] = at]

\* The event loop of a process is blocked while a request is in its handler.
Free(s) == \A r \in Requests : ServiceOf[r] = s => pc[r] # "checked"

\* A committed user has the name or the address of request r.
Clash(r) == \E u \in db : Keys[u] \cap Keys[r] # {}

\* is_username_taken() or is_email_taken()
Taken(r) == Clash(r)

(***************************************************************************)
(* MessageBus.handle() with a UserRegisterCommand                          *)
(***************************************************************************)

\* The queue is reset to the command, and the command popped; entering the
\* unit of work gives it a new repository, which has seen nothing.
EnterHandler(r) ==
  /\ pc[r] = "new"
  /\ Free(ServiceOf[r])
  /\ queue' = [queue EXCEPT ![ServiceOf[r]] = {}]

Refuse(r) ==
  /\ EnterHandler(r)
  /\ Taken(r)
  /\ raised' = [raised EXCEPT ![ServiceOf[r]] = {}]
  /\ Goto(r, "refused")
  /\ UNCHANGED <<db, event, tries, handled, copies>>

\* Mutant: handle_command() does not raise again what the handler raised.
MutAfterRaise == "done"

AfterRaise == "failed"

\* A lookup raises, or a value object refuses what it is given: there is no user yet.
FailEarly(r) ==
  /\ EnterHandler(r)
  /\ raised' = [raised EXCEPT ![ServiceOf[r]] = {}]
  /\ Goto(r, AfterRaise)
  /\ UNCHANGED <<db, event, tries, handled, copies>>

\* User.create() appends the event to the user, add() lets the repository see
\* the user.
Create(r) ==
  /\ EnterHandler(r)
  /\ ~Taken(r)
  /\ raised' = [raised EXCEPT ![ServiceOf[r]] = {r}]
  /\ Goto(r, "checked")
  /\ UNCHANGED <<db, event, tries, handled, copies>>

\* Mutant: events are read but not removed from the users.
MutCollected(s) == raised[s]

\* What the users still hold after collect_new_events() popped their events.
Collected(s) == {}

\* Mutant: handle_command() does not collect what the handler raised.
MutFound(s) == queue[s]

\* MessageBus.queue after the new events are collected
Found(s) == queue[s] \union raised[s]

\* The handler of a command or event returned: new events are collected, and
\* the loop of handle() goes on with the next one or ends.
Proceed(r) ==
  LET s == ServiceOf[r]
      found == Found(s)
  IN  /\ raised' = [raised EXCEPT ![s] = Collected(s)]
      /\ tries' = [tries EXCEPT ![r] = 0]
      /\ \/ /\ found = {}
            /\ queue' = [queue EXCEPT ![s] = {}]
            /\ event' = [event EXCEPT ![r] = NoUser]
            /\ Goto(r, "done")
         \/ \E e \in found :
            /\ queue' = [queue EXCEPT ![s] = found \ {e}]
            /\ event' = [event EXCEPT ![r] = e]
            /\ Goto(r, "publish")

\* Mutant: the table has no unique constraints.
MutConflict(r) == FALSE

\* The unique constraints of the table refuse the row.
Conflict(r) == Clash(r)

Commit(r) ==
  /\ pc[r] = "checked"
  /\ ~Conflict(r)
  /\ db' = db \union {r}
  /\ Proceed(r)
  /\ UNCHANGED <<handled, copies>>

\* The commit raises: the row is refused, or the database fails before or after
\* it stored the row.  The user stays in the repository, with its event.
CommitFail(r, stored) ==
  /\ pc[r] = "checked"
  /\ stored => ~Conflict(r)
  /\ db' = IF stored THEN db \union {r} ELSE db
  /\ Goto(r, AfterRaise)
  /\ UNCHANGED <<raised, queue, event, tries, handled, copies>>

(***************************************************************************)
(* email_registration_requested_handler() and _publish_with_retry()        *)
(***************************************************************************)

\* Mutant: the loop makes one attempt too many.
MutLastTry(r) == tries[r] > MaxRetries

LastTry(r) == tries[r] = MaxRetries

\* One attempt.  The broker takes the message or not, and the publisher learns
\* that it did or not; publish_event() returns in the end, whatever came of it.
Attempt(r, taken, confirmed) ==
  /\ pc[r] = "publish"
  /\ Free(ServiceOf[r])
  /\ confirmed => taken
  /\ copies' = [copies EXCEPT ![event[r]] =
                   IF taken /\ @ < MaxCopies THEN @ + 1 ELSE @]
  /\ IF confirmed \/ LastTry(r)
     THEN /\ handled' = handled \union {event[r]}
          /\ Proceed(r)
     ELSE /\ tries' = [tries EXCEPT ![r] = @ + 1]
          /\ UNCHANGED <<raised, queue, pc, event, handled>>
  /\ UNCHANGED db

(***************************************************************************)
(* A process crashes: what it had in memory is gone, and it is restarted   *)
(***************************************************************************)
Active(s) == {r \in Requests : ServiceOf[r] = s /\ pc[r] \in {"checked", "publish"}}

Crash(s) ==
  /\ Active(s) # {}
  /\ pc' = [r \in Requests |-> IF r \in Active(s) THEN "crashed" ELSE pc[r]]
  /\ event' = [r \in Requests |-> IF r \in Active(s) THEN NoUser ELSE event[r]]
  /\ raised' = [raised EXCEPT ![s] = {}]
  /\ queue' = [queue EXCEPT ![s] = {}]
  /\ UNCHANGED <<db, tries, handled, copies>>

EndCommit(r) == Commit(r) \/ \E stored \in BOOLEAN : CommitFail(r, stored)
Publish(r) == \E taken, confirmed \in BOOLEAN : Attempt(r, taken, confirmed)

Next ==
  \/ \E r \in Requests : Refuse(r) \/ FailEarly(r) \/ Create(r) \/ EndCommit(r) \/ Publish(r)
  \/ \E s \in Services : Crash(s)

Spec == Init /\ [][Next]_vars

\* The database answers, and the publisher's awaits end (it sets timeouts).
FairSpec == Spec /\ \A r \in Requests : WF_vars(EndCommit(r)) /\ WF_vars(Publish(r))

(***************************************************************************)
(* Properties                                                              *)
(***************************************************************************)
TypeOK ==
  /\ db \subseteq Requests
  /\ raised \in [Services -> SUBSET Requests]
  /\ queue \in [Services -> SUBSET Requests]
  /\ pc \in [Requests -> RequestPC]
  /\ event \in [Requests -> Requests \union {NoUser}]
  /\ tries \in [Requests -> 0..MaxRetries]
  /\ handled \subseteq Requests
  /\ copies \in [Requests -> 0..MaxCopies]

\* Processes that check and commit at the same time do not register one name
\* or address twice.
UniqueUsers == \A q, r \in db : q # r => Keys[q] \cap Keys[r] = {}

\* A client that was answered with success is registered.
OkMeansRegistered == \A r \in Requests : pc[r] = "done" => r \in db

\* Requests that cross on the one queue and the one unit of work of their process
\* do not lose each other's events: a client that was answered with success had
\* its event published, or given up by the publisher.
OkMeansHandled == \A r \in Requests : pc[r] = "done" => r \in handled

\* One task at a time has an event, so that its copies are those of one run of
\* the publisher's loop, crossing requests included.
EventsHandledOnce ==
  \A e \in Requests :
    /\ Cardinality({r \in Requests : event[r] = e})
         + Cardinality({s \in Services : e \in queue[s] \union raised[s]}) <= 1
    /\ copies[e] <= MaxRetries + 1

\* Verification is requested only for users that are registered, or whose request
\* failed: requests that were refused, or crashed before their commit, leave no
\* event to the requests that cross them.
PublishedMeansTried == \A e \in Requests : copies[e] > 0 => e \in db \/ pc[e] = "failed"

\* The docstring of AbstractUnitOfWork: "Manages a business transaction, ensuring
\* atomicity and providing a way to collect domain events": verification is
\* requested only for users that are registered.
PublishedMeansRegistered == \A e \in Requests : copies[e] > 0 => e \in db

\* What the client of a request has been told when it is at this point.
Told(at) ==
  IF at = "done" THEN "ok" ELSE IF at \in {"refused", "failed"} THEN at ELSE "none"

Answers == [r \in Requests |-> Told(pc[r])]

\* Two tasks of one process that cross, and two processes that check at the same
\* time, look to every client like requests that are served one at a time.
Promised == INSTANCE Accounts WITH
              users    <- db,
              notified <- handled,
              answer   <- Answers

RefinesAccounts == Promised!Spec

\* Every request is answered, or its process crashes.
Answered ==
  \A r \in Requests :
    pc[r] \in {"checked", "publish"} ~> pc[r] \in {"done", "failed", "crashed"}
===============================================================================
