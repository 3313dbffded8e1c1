--------------------------- MODULE Registration_proofs ---------------------------
(***************************************************************************)
(* Proofs about Registration, for all requests, processes, names and       *)
(* numbers of retries.                                                     *)
(***************************************************************************)
EXTENDS Registration, FiniteSetTheorems, TLAPS

\* Between two suspensions of a process its queue is empty: a handler that
\* returned found one event at most, and its task took it.
Quiet == \A s \in Services : queue[s] = {}

\* The unit of work of a process holds one event at most, of the request that is
\* committing or of one whose commit raised; nobody has begun to publish it.
RaisedInv ==
  /\ \A s \in Services : \A e \in raised[s] :
       /\ ServiceOf[e] = s
       /\ pc[e] \in {"checked", "failed"}
       /\ copies[e] = 0
       /\ \A f \in raised[s] : f = e
       /\ \A q \in Requests : event[q] # e
  /\ \A r \in Requests : pc[r] = "checked" => raised[ServiceOf[r]] = {r}

\* A task publishes its own event, and after it one that a failed commit left.
EventInv ==
  /\ \A q \in Requests : pc[q] = "publish" <=> event[q] # NoUser
  /\ \A q \in Requests : pc[q] = "publish" =>
       /\ event[q] = q \/ (q \in handled /\ pc[event[q]] = "failed")
       /\ copies[event[q]] <= tries[q]
  /\ \A q, r \in Requests : event[q] = event[r] /\ event[q] # NoUser => q = r

CopiesInv ==
  /\ \A e \in Requests : copies[e] <= MaxRetries + 1
  /\ \A e \in Requests : pc[e] = "new" => copies[e] = 0

Registered == \A r \in Requests : pc[r] \in {"publish", "done"} => r \in db

IInv ==
  /\ TypeOK /\ Quiet /\ RaisedInv /\ EventInv /\ CopiesInv
  /\ Registered /\ UniqueUsers /\ OkMeansHandled /\ PublishedMeansTried

USE RegistrationAssumption

LEMMA InitIInv == Init => IInv
  <1> SUFFICES ASSUME Init PROVE IInv
    OBVIOUS
  <1>1. TypeOK
    <2>1. db \subseteq Requests /\ handled \subseteq Requests
      BY DEF Init
    <2>2. /\ raised \in [Services -> SUBSET Requests]
          /\ queue \in [Services -> SUBSET Requests]
          /\ pc \in [Requests -> RequestPC]
          /\ event \in [Requests -> Requests \union {NoUser}]
      BY DEF Init, RequestPC
    <2>3. tries \in [Requests -> 0..MaxRetries] /\ copies \in [Requests -> 0..MaxCopies]
      BY DEF Init
    <2> QED BY <2>1, <2>2, <2>3 DEF TypeOK
  <1>2. Quiet /\ RaisedInv /\ EventInv /\ CopiesInv
    BY DEF Init, Quiet, RaisedInv, EventInv, CopiesInv
  <1>3. Registered /\ UniqueUsers /\ OkMeansHandled /\ PublishedMeansTried
    BY DEF Init, Registered, UniqueUsers, OkMeansHandled, PublishedMeansTried
  <1> QED BY <1>1, <1>2, <1>3 DEF IInv

\* Entering a handler starts the unit of work and the queue afresh.
LEMMA EnterStep ==
  ASSUME IInv, NEW r \in Requests, Refuse(r) \/ FailEarly(r) \/ Create(r)
  PROVE  IInv'
  <1> DEFINE s == ServiceOf[r]
  <1> USE DEF IInv, EnterHandler, Goto
  <1>1. s \in Services /\ pc[r] = "new" /\ Free(s) /\ event[r] = NoUser
    BY DEF TypeOK, EventInv, Refuse, FailEarly, Create
  <1>2. UNCHANGED <<db, event, tries, handled, copies>>
    BY DEF Refuse, FailEarly, AfterRaise, Create
  <1>3. /\ queue' = [queue EXCEPT ![s] = {}]
        /\ \/ /\ raised' = [raised EXCEPT ![s] = {}]
              /\ \/ pc' = [pc EXCEPT ![r] = "refused"]
                 \/ pc' = [pc EXCEPT ![r] = "failed"]
           \/ raised' = [raised EXCEPT ![s] = {r}] /\ pc' = [pc EXCEPT ![r] = "checked"]
    BY DEF Refuse, FailEarly, AfterRaise, Create
  <1>4. TypeOK'
    BY <1>1, <1>2, <1>3 DEF TypeOK, RequestPC
  <1>5. Quiet'
    BY <1>1, <1>3 DEF Quiet, TypeOK
  <1>6. \A q \in Requests : event[q] # r
    BY <1>1 DEF EventInv, TypeOK
  <1>7. RaisedInv'
    BY <1>1, <1>2, <1>3, <1>6 DEF RaisedInv, TypeOK, CopiesInv, Free
  <1>8. EventInv'
    BY <1>1, <1>2, <1>3 DEF EventInv, TypeOK
  <1>9. CopiesInv' /\ Registered' /\ UniqueUsers' /\ OkMeansHandled' /\ PublishedMeansTried'
    BY <1>1, <1>2, <1>3
    DEF CopiesInv, Registered, UniqueUsers, OkMeansHandled, PublishedMeansTried, TypeOK
  <1> QED BY <1>4, <1>5, <1>7, <1>8, <1>9

\* A commit finds the event of its own request and no other.
LEMMA CommitStep ==
  ASSUME IInv, NEW r \in Requests, Commit(r)
  PROVE  IInv'
  <1> DEFINE s == ServiceOf[r]
  <1> USE DEF IInv, Goto
  <1>1. s \in Services /\ pc[r] = "checked" /\ ~Clash(r)
    BY DEF Commit, Conflict
  <1>2. raised[s] = {r} /\ queue[s] = {} /\ Found(s) = {r}
    BY <1>1 DEF RaisedInv, Quiet, Found
  <1>3. /\ db' = db \union {r}
        /\ UNCHANGED <<handled, copies>>
        /\ raised' = [raised EXCEPT ![s] = {}]
        /\ tries' = [tries EXCEPT ![r] = 0]
        /\ queue' = [queue EXCEPT ![s] = {}]
        /\ event' = [event EXCEPT ![r] = r]
        /\ pc' = [pc EXCEPT ![r] = "publish"]
    BY <1>2 DEF Commit, Proceed, Collected
  <1>4. copies[r] = 0 /\ \A q \in Requests : event[q] # r
    BY <1>1, <1>2 DEF RaisedInv
  <1>5. TypeOK'
    BY <1>1, <1>3 DEF TypeOK, RequestPC
  <1>6. Quiet' /\ RaisedInv'
    <2>1. Quiet'
      BY <1>1, <1>3 DEF Quiet, TypeOK
    <2>2. \A q \in Requests : pc'[q] = "checked" => ServiceOf[q] # s
      BY <1>1, <1>2, <1>3 DEF RaisedInv, TypeOK
    <2> QED BY <1>1, <1>3, <2>1, <2>2 DEF RaisedInv, TypeOK
  <1>7. EventInv'
    BY <1>1, <1>3, <1>4 DEF EventInv, TypeOK
  <1>8. UniqueUsers'
    BY <1>1, <1>3 DEF UniqueUsers, Clash
  <1>9. CopiesInv' /\ Registered' /\ OkMeansHandled' /\ PublishedMeansTried'
    BY <1>1, <1>3
    DEF CopiesInv, Registered, OkMeansHandled, PublishedMeansTried, TypeOK
  <1> QED BY <1>5, <1>6, <1>7, <1>8, <1>9

\* A commit that raises leaves its event behind.
LEMMA CommitFailStep ==
  ASSUME IInv, NEW r \in Requests, NEW stored \in BOOLEAN, CommitFail(r, stored)
  PROVE  IInv'
  <1> USE DEF IInv, Goto
  <1>1. /\ pc[r] = "checked" /\ pc' = [pc EXCEPT ![r] = "failed"]
        /\ UNCHANGED <<raised, queue, event, tries, handled, copies>>
        /\ db' = db \/ (db' = db \union {r} /\ ~Clash(r))
    BY DEF CommitFail, AfterRaise, Conflict
  <1>2. TypeOK' /\ Quiet' /\ RaisedInv'
    BY <1>1 DEF TypeOK, RequestPC, Quiet, RaisedInv
  <1>3. EventInv' /\ CopiesInv'
    BY <1>1 DEF EventInv, CopiesInv, TypeOK
  <1>4. UniqueUsers'
    BY <1>1 DEF UniqueUsers, Clash
  <1>5. Registered' /\ OkMeansHandled' /\ PublishedMeansTried'
    BY <1>1 DEF Registered, OkMeansHandled, PublishedMeansTried, TypeOK
  <1> QED BY <1>2, <1>3, <1>4, <1>5

\* An attempt adds one copy at most of the event that its task alone has.
LEMMA CopyStep ==
  ASSUME IInv, NEW r \in Requests, NEW taken \in BOOLEAN, NEW confirmed \in BOOLEAN,
         Attempt(r, taken, confirmed)
  PROVE  /\ event[r] \in Requests /\ (event[r] \in db \/ pc[event[r]] = "failed")
         /\ pc[event[r]] # "new" /\ pc[event[r]] # "checked"
         /\ copies' \in [Requests -> 0..MaxCopies]
         /\ \A e \in Requests \ {event[r]} : copies'[e] = copies[e]
         /\ copies'[event[r]] <= tries[r] + 1
  <1> USE DEF IInv, TypeOK
  <1>1. pc[r] = "publish" /\ event[r] \in Requests
    BY DEF Attempt, EventInv
  <1>2. pc[event[r]] \in {"publish", "failed"} /\ (event[r] \in db \/ pc[event[r]] = "failed")
    BY <1>1 DEF EventInv, Registered
  <1>3. copies[event[r]] \in 0..MaxCopies /\ copies[event[r]] <= tries[r] /\ tries[r] \in Nat
    BY <1>1 DEF EventInv
  <1>4. copies' = [copies EXCEPT ![event[r]] =
                     IF taken /\ copies[event[r]] < MaxCopies
                     THEN copies[event[r]] + 1 ELSE copies[event[r]]]
    BY DEF Attempt
  <1>5. copies'[event[r]] \in 0..MaxCopies /\ copies'[event[r]] <= tries[r] + 1
    BY <1>1, <1>3, <1>4
  <1> QED BY <1>1, <1>2, <1>4, <1>5

\* The attempt failed and is repeated.
LEMMA RetryStep ==
  ASSUME IInv, NEW r \in Requests, NEW taken \in BOOLEAN, NEW confirmed \in BOOLEAN,
         Attempt(r, taken, confirmed), ~(confirmed \/ LastTry(r))
  PROVE  IInv'
  <1> USE DEF IInv
  <1>1. /\ pc[r] = "publish" /\ tries' = [tries EXCEPT ![r] = tries[r] + 1]
        /\ UNCHANGED <<db, raised, queue, pc, event, handled>>
    BY DEF Attempt
  <1>2. tries[r] \in 0..MaxRetries /\ tries[r] # MaxRetries
    BY DEF TypeOK, LastTry
  <1>3. TypeOK'
    BY <1>1, <1>2, CopyStep DEF TypeOK
  <1>4. Quiet' /\ RaisedInv'
    BY <1>1, CopyStep DEF Quiet, RaisedInv, TypeOK
  <1>5. EventInv'
    BY <1>1, <1>2, CopyStep DEF EventInv, TypeOK
  <1>6. CopiesInv'
    BY <1>1, <1>2, CopyStep DEF CopiesInv
  <1>7. Registered' /\ UniqueUsers' /\ OkMeansHandled' /\ PublishedMeansTried'
    BY <1>1, CopyStep
    DEF Registered, UniqueUsers, OkMeansHandled, PublishedMeansTried, TypeOK
  <1> QED BY <1>3, <1>4, <1>5, <1>6, <1>7

\* The handler returns; its task takes an event that a failed commit left, or ends.
LEMMA ReturnStep ==
  ASSUME IInv, NEW r \in Requests, NEW taken \in BOOLEAN, NEW confirmed \in BOOLEAN,
         Attempt(r, taken, confirmed), confirmed \/ LastTry(r)
  PROVE  IInv'
  <1> DEFINE s == ServiceOf[r]
  <1> USE DEF IInv, Goto
  <1>1. /\ s \in Services /\ pc[r] = "publish" /\ Free(s)
        /\ handled' = handled \union {event[r]} /\ Proceed(r) /\ UNCHANGED db
    BY DEF Attempt
  <1>2. Found(s) = raised[s]
    BY <1>1 DEF Quiet, Found
  <1>3. /\ raised' = [raised EXCEPT ![s] = {}]
        /\ tries' = [tries EXCEPT ![r] = 0]
        /\ queue' = [queue EXCEPT ![s] = {}]
        /\ \/ /\ event' = [event EXCEPT ![r] = NoUser]
              /\ pc' = [pc EXCEPT ![r] = "done"]
           \/ \E e \in raised[s] :
                event' = [event EXCEPT ![r] = e] /\ pc' = [pc EXCEPT ![r] = "publish"]
    <2>1. \A e \in raised[s] : raised[s] \ {e} = {}
      BY <1>1 DEF RaisedInv
    <2> QED BY <1>1, <1>2, <2>1 DEF Proceed, Collected
  <1>4. \A e \in raised[s] :
          e \in Requests /\ pc[e] = "failed" /\ copies[e] = 0 /\ \A q \in Requests : event[q] # e
    BY <1>1 DEF RaisedInv, TypeOK, Free
  <1>5. r \in handled' /\ handled' \subseteq Requests
    BY <1>1, CopyStep DEF EventInv, TypeOK
  <1>6. tries[r] \in 0..MaxRetries
    BY DEF TypeOK
  <1>7. TypeOK'
    BY <1>1, <1>3, <1>4, <1>5, CopyStep DEF TypeOK, RequestPC
  <1>8. Quiet'
    BY <1>1, <1>3 DEF Quiet, TypeOK
  <1>9. RaisedInv'
    <2>1. \A q \in Services \ {s} : raised'[q] = raised[q]
      BY <1>1, <1>3 DEF TypeOK
    <2>2. raised'[s] = {}
      BY <1>1, <1>3 DEF TypeOK
    <2>3. \A q \in Services \ {s} : \A e \in raised[q] : e \notin raised[s]
      BY <1>1 DEF RaisedInv
    <2>4. \A e \in Requests : pc[e] \in {"checked", "failed"} => pc'[e] = pc[e] /\ e # r
      BY <1>1, <1>3 DEF TypeOK
    <2>5. \A q \in Services : \A e \in raised'[q] : e # event[r] /\ copies'[e] = copies[e]
      BY <1>1, <2>1, <2>2, CopyStep DEF RaisedInv, TypeOK
    <2>6. \A q \in Services : \A e \in raised'[q] : \A p \in Requests : event'[p] # e
      BY <1>1, <1>3, <2>1, <2>2, <2>3 DEF RaisedInv, TypeOK
    <2>7. \A q \in Requests : pc'[q] = "checked" => pc[q] = "checked" /\ ServiceOf[q] # s
      BY <1>1, <1>3 DEF Free, TypeOK
    <2>8. \A q \in Requests : pc'[q] = "checked" => raised'[ServiceOf[q]] = {q}
      BY <2>1, <2>7 DEF RaisedInv
    <2>9. \A q \in Services : \A e \in raised'[q] :
            /\ ServiceOf[e] = q /\ e \in Requests
            /\ pc[e] \in {"checked", "failed"}
            /\ copies[e] = 0
            /\ \A f \in raised'[q] : f = e
      BY <2>1, <2>2 DEF RaisedInv, TypeOK
    <2> QED BY <2>4, <2>5, <2>6, <2>8, <2>9 DEF RaisedInv
  <1>10. EventInv'
    BY <1>1, <1>3, <1>4, <1>5, CopyStep DEF EventInv, TypeOK
  <1>11. CopiesInv'
    BY <1>1, <1>3, <1>6, CopyStep DEF CopiesInv, TypeOK
  <1>12. Registered' /\ UniqueUsers' /\ OkMeansHandled'
    BY <1>1, <1>3, <1>5 DEF Registered, UniqueUsers, OkMeansHandled, TypeOK
  <1>13. PublishedMeansTried'
    BY <1>1, <1>3, CopyStep DEF PublishedMeansTried, TypeOK
  <1> QED BY <1>7, <1>8, <1>9, <1>10, <1>11, <1>12, <1>13

\* A crash forgets what the process had in memory.
LEMMA CrashStep ==
  ASSUME IInv, NEW s \in Services, Crash(s)
  PROVE  IInv'
  <1> USE DEF IInv, Crash, Active
  <1>1. TypeOK'
    BY DEF TypeOK, RequestPC
  <1>2. Quiet'
    BY DEF Quiet, TypeOK
  <1>3. RaisedInv'
    BY DEF RaisedInv, TypeOK
  <1>4. EventInv'
    BY DEF EventInv, TypeOK
  <1>5. CopiesInv' /\ Registered' /\ UniqueUsers' /\ OkMeansHandled' /\ PublishedMeansTried'
    BY DEF CopiesInv, Registered, UniqueUsers, OkMeansHandled, PublishedMeansTried, TypeOK
  <1> QED BY <1>1, <1>2, <1>3, <1>4, <1>5

THEOREM Inductive == Spec => []IInv
  <1>1. ASSUME IInv, [Next]_vars PROVE IInv'
    <2>1. CASE UNCHANGED vars
      BY <1>1, <2>1
      DEF vars, IInv, TypeOK, Quiet, RaisedInv, EventInv, CopiesInv, Registered, UniqueUsers,
          OkMeansHandled, PublishedMeansTried
    <2> QED
      BY <1>1, <2>1, EnterStep, CommitStep, CommitFailStep, RetryStep, ReturnStep, CrashStep
      DEF Next, EndCommit, Publish
  <1> QED BY InitIInv, <1>1, PTL DEF Spec

\* Type correctness of the database, the units of work, the queues and the requests.
THEOREM TypeCorrect == Spec => []TypeOK
  <1>1. IInv => TypeOK
    BY DEF IInv
  <1> QED BY Inductive, <1>1, PTL

\* No two registered users share a name or an address.
THEOREM NamesAreUnique == Spec => []UniqueUsers
  <1>1. IInv => UniqueUsers
    BY DEF IInv
  <1> QED BY Inductive, <1>1, PTL

\* A client that was told so is registered.
THEOREM OkIsRegistered == Spec => []OkMeansRegistered
  <1>1. IInv => OkMeansRegistered
    BY DEF IInv, Registered, OkMeansRegistered
  <1> QED BY Inductive, <1>1, PTL

\* The event of a client that was told OK was dealt with by the publisher.
THEOREM OkIsHandled == Spec => []OkMeansHandled
  <1>1. IInv => OkMeansHandled
    BY DEF IInv
  <1> QED BY Inductive, <1>1, PTL

\* No event is published for a request that did not get to its commit.
THEOREM PublishedTried == Spec => []PublishedMeansTried
  <1>1. IInv => PublishedMeansTried
    BY DEF IInv
  <1> QED BY Inductive, <1>1, PTL

\* An event is with one task, or in one unit of work, and has the copies of one
\* run of the publisher's loop.
THEOREM HandledOnce == Spec => []EventsHandledOnce
  <1>1. ASSUME IInv, NEW e \in Requests
        PROVE  /\ Cardinality({r \in Requests : event[r] = e})
                    + Cardinality({s \in Services : e \in queue[s] \union raised[s]}) <= 1
               /\ copies[e] <= MaxRetries + 1
    <2> DEFINE P == {r \in Requests : event[r] = e}
               S == {s \in Services : e \in queue[s] \union raised[s]}
    <2> USE <1>1 DEF IInv
    <2>1. P = {} \/ \E r \in Requests : P = {r}
      BY DEF EventInv
    <2>2. S = {} \/ (S = {ServiceOf[e]} /\ P = {})
      BY DEF Quiet, RaisedInv, TypeOK
    <2> HIDE DEF P, S
    <2>3. Cardinality(P) = 0 \/ Cardinality(P) = 1
      BY <2>1, FS_EmptySet, FS_Singleton
    <2>4. Cardinality(P) + Cardinality(S) <= 1
      <3>1. CASE S = {}
        <4>1. Cardinality(S) = 0
          BY <3>1, FS_EmptySet
        <4> QED BY <2>3, <4>1
      <3>2. CASE S = {ServiceOf[e]} /\ P = {}
        <4>1. Cardinality(S) = 1 /\ Cardinality(P) = 0
          BY <3>2, FS_EmptySet, FS_Singleton
        <4> QED BY <4>1
      <3> QED BY <2>2, <3>1, <3>2
    <2> QED BY <2>4 DEF CopiesInv, P, S
  <1>2. IInv => EventsHandledOnce
    BY <1>1 DEF EventsHandledOnce
  <1> QED BY Inductive, <1>2, PTL

(***************************************************************************)
(* Crossing requests look like requests that are served one at a time      *)
(***************************************************************************)

\* A request whose commit has not begun has no user.
Unregistered == \A r \in Requests : pc[r] \in {"new", "checked", "refused"} => r \notin db

LEMMA ToldValues ==
  /\ Told("done") = "ok" /\ Told("refused") = "refused" /\ Told("failed") = "failed"
  /\ \A at \in {"new", "checked", "publish", "crashed"} : Told(at) = "none"
  BY DEF Told

\* A request that goes on is answered with what its new place amounts to.
LEMMA AnswerOfStep ==
  ASSUME TypeOK, NEW r \in Requests, NEW at \in RequestPC, pc' = [pc EXCEPT ![r] = at]
  PROVE  Answers' = [Answers EXCEPT ![r] = Told(at)]
  <1>1. \A q \in Requests : pc'[q] = IF q = r THEN at ELSE pc[q]
    BY DEF TypeOK
  <1>2. Answers' = [q \in Requests |-> Told(pc'[q])]
    BY DEF Answers
  <1>3. \A q \in Requests : Answers'[q] = IF q = r THEN Told(at) ELSE Answers[q]
    BY <1>1, <1>2 DEF Answers
  <1> QED BY <1>2, <1>3 DEF Answers

LEMMA UnregisteredStep ==
  ASSUME IInv, Unregistered, [Next]_vars
  PROVE  Unregistered'
  <1> USE DEF IInv, TypeOK, Unregistered, Goto
  <1>1. ASSUME NEW r \in Requests, Refuse(r) \/ FailEarly(r) \/ Create(r)
        PROVE  Unregistered'
    BY <1>1 DEF Refuse, FailEarly, AfterRaise, Create, EnterHandler
  <1>2. ASSUME NEW r \in Requests, Commit(r)
        PROVE  Unregistered'
    BY <1>2 DEF Commit, Proceed
  <1>3. ASSUME NEW r \in Requests, NEW stored \in BOOLEAN, CommitFail(r, stored)
        PROVE  Unregistered'
    BY <1>3 DEF CommitFail, AfterRaise
  <1>4. ASSUME NEW r \in Requests, NEW taken \in BOOLEAN, NEW confirmed \in BOOLEAN,
               Attempt(r, taken, confirmed)
        PROVE  Unregistered'
    BY <1>4 DEF Attempt, Proceed
  <1>5. ASSUME NEW s \in Services, Crash(s)
        PROVE  Unregistered'
    BY <1>5 DEF Crash
  <1>6. CASE UNCHANGED vars
    BY <1>6 DEF vars
  <1> QED BY <1>1, <1>2, <1>3, <1>4, <1>5, <1>6 DEF Next, EndCommit, Publish

LEMMA PromiseStep ==
  ASSUME IInv, Unregistered, [Next]_vars
  PROVE  [Promised!Next]_Promised!vars
  <1> USE ToldValues DEF IInv, Goto, RequestPC
  <1> DEFINE Kept == [Promised!Next]_Promised!vars
  <1>1. ASSUME NEW r \in Requests, Refuse(r)
        PROVE  Kept
    <2>1. pc[r] = "new" /\ pc' = [pc EXCEPT ![r] = "refused"] /\ UNCHANGED <<db, handled>>
      BY <1>1 DEF Refuse, EnterHandler
    <2>2. Answers' = [Answers EXCEPT ![r] = "refused"]
      BY <2>1, AnswerOfStep
    <2>3. Answers[r] = "none" /\ r \notin db
      BY <2>1 DEF Answers, Unregistered
    <2>4. Promised!Clash(r)
      BY <1>1 DEF Refuse, Taken, Clash, Promised!Clash
    <2>5. Promised!Refuse(r)
      BY <2>1, <2>2, <2>3, <2>4 DEF Promised!Refuse, Promised!Pending, Promised!Answer
    <2> QED BY <2>5 DEF Promised!Next
  <1>2. ASSUME NEW r \in Requests, Create(r)
        PROVE  Kept
    <2>1. pc[r] = "new" /\ pc' = [pc EXCEPT ![r] = "checked"] /\ UNCHANGED <<db, handled>>
      BY <1>2 DEF Create, EnterHandler
    <2>2. Answers' = [Answers EXCEPT ![r] = "none"]
      BY <2>1, AnswerOfStep
    <2>3. Answers' = Answers
      BY <2>1, <2>2 DEF Answers
    <2> QED BY <2>1, <2>3 DEF Promised!vars
  <1>3. ASSUME NEW r \in Requests, Commit(r)
        PROVE  Kept
    <2>1. pc[r] = "checked" /\ ~Clash(r) /\ db' = db \union {r} /\ UNCHANGED handled
      BY <1>3 DEF Commit, Conflict
    <2>2. raised[ServiceOf[r]] = {r}
      BY <2>1 DEF RaisedInv
    <2>3. pc' = [pc EXCEPT ![r] = "publish"]
      BY <1>3, <2>2 DEF Commit, Proceed, Found
    <2>4. Answers' = [Answers EXCEPT ![r] = "none"]
      BY <2>3, AnswerOfStep
    <2>5. Answers[r] = "none" /\ Answers' = Answers /\ r \notin db
      BY <2>1, <2>4 DEF Answers, Unregistered
    <2>6. Promised!Register(r)
      BY <2>1, <2>5 DEF Promised!Register, Promised!Pending, Promised!Clash, Clash
    <2> QED BY <2>6 DEF Promised!Next
  <1>4. ASSUME NEW r \in Requests, NEW stored \in BOOLEAN, CommitFail(r, stored)
        PROVE  Kept
    <2>1. pc[r] = "checked" /\ pc' = [pc EXCEPT ![r] = "failed"] /\ UNCHANGED handled
      BY <1>4 DEF CommitFail, AfterRaise
    <2>2. Answers' = [Answers EXCEPT ![r] = "failed"]
      BY <2>1, AnswerOfStep
    <2>3. Answers[r] = "none" /\ r \notin db
      BY <2>1 DEF Answers, Unregistered
    <2>4. CASE stored
      <3>1. ~Clash(r) /\ db' = db \union {r}
        BY <1>4, <2>4 DEF CommitFail, Conflict
      <3>2. Promised!Register(r)
        BY <2>1, <2>2, <2>3, <3>1
        DEF Promised!Register, Promised!Pending, Promised!Clash, Clash, Promised!Answer
      <3> QED BY <3>2 DEF Promised!Next
    <2>5. CASE ~stored
      <3>1. UNCHANGED db
        BY <1>4, <2>5 DEF CommitFail
      <3>2. Promised!Fail(r)
        BY <2>1, <2>2, <2>3, <3>1 DEF Promised!Fail, Promised!Pending, Promised!Answer
      <3> QED BY <3>2 DEF Promised!Next
    <2> QED BY <2>4, <2>5
  <1>5. ASSUME NEW r \in Requests, NEW taken \in BOOLEAN, NEW confirmed \in BOOLEAN,
               Attempt(r, taken, confirmed), ~(confirmed \/ LastTry(r))
        PROVE  Kept
    <2>1. UNCHANGED <<db, pc, handled>>
      BY <1>5 DEF Attempt
    <2> QED BY <2>1 DEF Promised!vars, Answers
  <1>6. ASSUME NEW r \in Requests, NEW taken \in BOOLEAN, NEW confirmed \in BOOLEAN,
               Attempt(r, taken, confirmed), confirmed \/ LastTry(r)
        PROVE  Kept
    <2>1. /\ pc[r] = "publish" /\ UNCHANGED db
          /\ handled' = handled \union {event[r]} /\ Proceed(r)
      BY <1>6 DEF Attempt
    <2>2. r \in db /\ event[r] \in Requests /\ r \in handled'
      BY <2>1 DEF Registered, EventInv, TypeOK
    <2>3. event[r] \in db \/ Answers[event[r]] = "failed"
      BY <2>1, <2>2 DEF EventInv, Answers
    <2>4. Answers[r] = "none"
      BY <2>1 DEF Answers
    <2>5. CASE pc' = [pc EXCEPT ![r] = "done"]
      <3>1. Answers' = [Answers EXCEPT ![r] = "ok"]
        BY <2>5, AnswerOfStep
      <3>2. Promised!Answer(r, "ok")
        BY <2>4, <3>1 DEF Promised!Answer
      <3>3. Promised!Notify(event[r])
        BY <2>1, <2>2, <2>3, <3>2 DEF Promised!Notify
      <3> QED BY <2>2, <3>3 DEF Promised!Next
    <2>6. CASE pc' = [pc EXCEPT ![r] = "publish"]
      <3>1. Answers' = [Answers EXCEPT ![r] = "none"]
        BY <2>6, AnswerOfStep
      <3>2. Answers' = Answers
        BY <2>4, <3>1 DEF Answers
      <3>3. Promised!Notify(event[r])
        BY <2>1, <2>3, <3>2 DEF Promised!Notify
      <3> QED BY <2>2, <3>3 DEF Promised!Next
    <2> QED BY <2>1, <2>5, <2>6 DEF Proceed
  <1>7. ASSUME NEW s \in Services, Crash(s)
        PROVE  Kept
    <2>1. UNCHANGED <<db, handled>>
      BY <1>7 DEF Crash
    <2>2. \A r \in Requests : Told(pc'[r]) = Told(pc[r])
      BY <1>7 DEF Crash, Active
    <2>3. Answers' = Answers
      BY <2>2 DEF Answers
    <2> QED BY <2>1, <2>3 DEF Promised!vars
  <1>8. CASE UNCHANGED vars
    BY <1>8 DEF vars, Promised!vars, Answers
  <1>9. ASSUME NEW r \in Requests, FailEarly(r)
        PROVE  Kept
    <2>1. pc[r] = "new" /\ pc' = [pc EXCEPT ![r] = "failed"] /\ UNCHANGED <<db, handled>>
      BY <1>9 DEF FailEarly, EnterHandler, AfterRaise
    <2>2. Answers' = [Answers EXCEPT ![r] = "failed"]
      BY <2>1, AnswerOfStep
    <2>3. Answers[r] = "none" /\ r \notin db
      BY <2>1 DEF Answers, Unregistered
    <2>4. Promised!Fail(r)
      BY <2>1, <2>2, <2>3 DEF Promised!Fail, Promised!Pending, Promised!Answer
    <2> QED BY <2>4 DEF Promised!Next
  <1> QED
    BY <1>1, <1>2, <1>3, <1>4, <1>5, <1>6, <1>7, <1>8, <1>9 DEF Next, EndCommit, Publish

\* To every client the processes are one service that registers users one at a
\* time: the check and the commit take effect in one step, and the answers agree
\* with the users that are registered and with the events that were handled.
THEOREM OneAtATime == Spec => RefinesAccounts
  <1>1. Init => Unregistered
    BY DEF Init, Unregistered
  <1>2. IInv /\ Unregistered /\ [Next]_vars => Unregistered'
    BY UnregisteredStep
  <1>3. Init => Promised!Init
    BY DEF Init, Promised!Init, Answers, Told
  <1>4. IInv /\ Unregistered /\ [Next]_vars => [Promised!Next]_Promised!vars
    BY PromiseStep
  <1> QED BY Inductive, <1>1, <1>2, <1>3, <1>4, PTL DEF Spec, RefinesAccounts, Promised!Spec
===============================================================================
