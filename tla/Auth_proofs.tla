------------------------------- MODULE Auth_proofs -------------------------------
(***************************************************************************)
(* Proofs about Auth, for all requests, limits, windows and lifetimes.     *)
(***************************************************************************)
EXTENDS Auth, TLAPS

\* A request that is about to set the expiry created the key, and is alone in
\* that; its own attempt is counted and has not passed yet.
FirstIsAlone ==
  \A r \in Logins : pc[r] = "expire" =>
    /\ local[r] = 1 /\ count > 0 /\ ttl = 0
    /\ passed < count /\ passed < RateLimit
    /\ \A q \in Logins : pc[q] = "expire" => q = r

LimiterInv ==
  /\ FirstIsAlone
  /\ passed <= count
  /\ LimitKept
  /\ ExpiryAccounted

\* The entry of a token outlives it, or falls short by what the process is west of
\* UTC; and so does the entry about to be written, which asks for no more than a
\* token's life and what the process is east of UTC.
EntryOutlives ==
  /\ \A k \in loggedOut : entry[k] >= life[k] - Late
  /\ \A r \in Logouts : pc[r] = "setex" =>
       /\ token[r] \in Tokens
       /\ local[r] >= life[token[r]] - Late /\ local[r] <= Lifetime + East
  /\ \A r \in Refreshes : pc[r] = "get" =>
       token[r] \in Tokens /\ (local[r] = 0 \/ token[r] \in loggedOut)

IInv == TypeOK /\ LimiterInv /\ EntryOutlives

USE AuthAssumption DEF Requests, Goto, Note, Hold, Finish, limiter, blacklist, requests

LEMMA InitIInv == Init => IInv
  <1> SUFFICES ASSUME Init PROVE IInv
    OBVIOUS
  <1>1. TypeOK
    <2>1. /\ count \in Nat /\ ttl \in 0..Window /\ passed \in Nat
          /\ count = 0 => ttl = 0
          /\ offset \in Offsets
      BY DEF Init
    <2>2. /\ life \in [Tokens -> 0..Lifetime] /\ loggedOut \subseteq Tokens
          /\ dropped \in BOOLEAN
      <3>1. 1..Lifetime \subseteq 0..Lifetime
        OBVIOUS
      <3> QED BY <3>1 DEF Init
    <2>3. entry \in [Tokens -> 0..(Lifetime + East)]
      <3>1. 0 \in 0..(Lifetime + East)
        BY DEF Init, East
      <3> QED BY <3>1 DEF Init
    <2>4. /\ pc \in [Requests -> {"idle", "expire", "setex", "get", "issued"}]
          /\ token \in [Requests -> Tokens \union {NoToken}]
          /\ local \in [Requests -> Int]
      BY DEF Init
    <2> QED BY <2>1, <2>2, <2>3, <2>4 DEF TypeOK
  <1>2. LimiterInv
    BY DEF Init, LimiterInv, FirstIsAlone, LimitKept, ExpiryAccounted
  <1>3. EntryOutlives
    BY DEF Init, EntryOutlives
  <1> QED BY <1>1, <1>2, <1>3 DEF IInv

\* Every step keeps the variables in their types; an entry lasts no longer than
\* the longest life of a token, measured by the clock of the process.
LEMMA TypeStep ==
  ASSUME IInv, [Next]_vars
  PROVE  TypeOK'
  <1> USE DEF IInv, TypeOK
  <1>1. ASSUME NEW r \in Logins, Login(r) PROVE TypeOK'
    BY <1>1 DEF Login, Admit, East
  <1>2. ASSUME NEW r \in Logins, SetExpiry(r) \/ ExpireUnanswered(r)
        PROVE  TypeOK'
    <2>1. count > 0
      BY <1>2 DEF SetExpiry, ExpireUnanswered, LimiterInv, FirstIsAlone
    <2> QED BY <1>2, <2>1 DEF SetExpiry, ExpireUnanswered, Admit, East
  <1>3. ASSUME NEW r \in Logouts, NEW k \in Tokens, Logout(r, k) PROVE TypeOK'
    <2>1. TimeToLive(k) \in Int
      BY DEF TimeToLive
    <2> QED BY <1>3, <2>1 DEF Logout, East
  <1>4. ASSUME NEW r \in Logouts, WriteEntry(r), loggedOut' \subseteq Tokens
        PROVE  TypeOK'
    <2>1. token[r] \in Tokens /\ local[r] \in 0..(Lifetime + East)
      BY <1>4 DEF WriteEntry, EntryOutlives, East
    <2>2. entry' \in [Tokens -> 0..(Lifetime + East)]
      BY <1>4, <2>1 DEF WriteEntry
    <2> QED BY <1>4, <2>2 DEF WriteEntry, East
  <1>5. ASSUME NEW r \in Refreshes, RefreshNext(r) PROVE TypeOK'
    <2>1. ASSUME NEW k \in Tokens, Refresh(r, k) PROVE TypeOK'
      BY <2>1 DEF Refresh, East
    <2>2. CASE Issue(r) \/ Reject(r) \/ Answer(r)
      BY <2>2 DEF Issue, Reject, Answer, East
    <2> QED BY <1>5, <2>1, <2>2 DEF RefreshNext
  <1>6. ASSUME NEW r \in Requests, End(r) PROVE TypeOK'
    BY <1>6 DEF End, East
  <1>7. CASE Tick
    <2>1. life' \in [Tokens -> 0..Lifetime]
      BY <1>7 DEF Tick, Less
    <2>2. entry' \in [Tokens -> 0..(Lifetime + East)]
      <3>1. Lifetime + East \in Nat
        BY DEF East
      <3> QED BY <1>7, <3>1 DEF Tick, Less
    <2>3. count' \in Nat /\ ttl' \in 0..Window /\ passed' \in Nat /\ (count' = 0 => ttl' = 0)
      BY <1>7 DEF Tick, Less
    <2> QED BY <1>7, <2>1, <2>2, <2>3 DEF Tick, East
  <1>8. CASE UNCHANGED vars
    BY <1>8 DEF vars, East
  <1>9. ASSUME NEW r \in Logouts, LogoutNext(r) PROVE TypeOK'
    <2>1. ASSUME Blacklist(r) PROVE TypeOK'
      <3>1. token[r] \in Tokens
        BY <2>1 DEF Blacklist, WriteEntry, EntryOutlives
      <3> QED BY <1>4, <2>1, <3>1 DEF Blacklist
    <2>2. ASSUME SetexUnanswered(r) PROVE TypeOK'
      BY <1>4, <2>2 DEF SetexUnanswered
    <2> QED BY <1>3, <1>9, <2>1, <2>2 DEF LogoutNext
  <1> QED
    BY <1>1, <1>2, <1>5, <1>6, <1>7, <1>8, <1>9 DEF Next, LoginNext

\* Attempts pass while they are counted below the limit.
LEMMA LimiterStep ==
  ASSUME IInv, [Next]_vars
  PROVE  LimiterInv'
  <1> USE DEF IInv, TypeOK, LimiterInv, FirstIsAlone, LimitKept, ExpiryAccounted
  <1>1. ASSUME NEW r \in Logins, Login(r) PROVE LimiterInv'
    <2>1. CASE count = 0
      BY <1>1, <2>1 DEF Login, First
    <2>2. CASE count > 0
      BY <1>1, <2>2 DEF Login, First, Admit, TooMany
    <2> QED BY <2>1, <2>2
  <1>2. ASSUME NEW r \in Logins, SetExpiry(r) \/ ExpireUnanswered(r)
        PROVE  LimiterInv'
    BY <1>2 DEF SetExpiry, ExpireUnanswered, Admit, TooMany
  <1>3. ASSUME NEW r \in Logouts, LogoutNext(r) PROVE LimiterInv'
    BY <1>3 DEF LogoutNext, Logout, Blacklist, SetexUnanswered, WriteEntry
  <1>4. ASSUME NEW r \in Refreshes, RefreshNext(r) PROVE LimiterInv'
    BY <1>4 DEF RefreshNext, Refresh, Issue, Reject, Answer
  <1>5. ASSUME NEW r \in Requests, End(r) PROVE LimiterInv'
    BY <1>5 DEF End
  <1>6. CASE Tick
    BY <1>6 DEF Tick, Less
  <1>7. CASE UNCHANGED vars
    BY <1>7 DEF vars
  <1> QED BY <1>1, <1>2, <1>3, <1>4, <1>5, <1>6, <1>7 DEF Next, LoginNext

\* What a logout writes was right when it read the clock, up to the offset, and is
\* generous later.
LEMMA EntryStep ==
  ASSUME IInv, [Next]_vars
  PROVE  EntryOutlives'
  <1> USE DEF IInv, TypeOK, EntryOutlives
  <1>0. East \in Nat /\ Late \in Nat /\ 0 - Late <= offset /\ offset <= East
    BY DEF East, Late
  <1>1. ASSUME NEW r \in Logins, LoginNext(r) PROVE EntryOutlives'
    BY <1>1 DEF LoginNext, Login, SetExpiry, ExpireUnanswered, Admit, East, Late
  <1>2. ASSUME NEW r \in Logouts, NEW k \in Tokens, Logout(r, k) PROVE EntryOutlives'
    <2>1. /\ life[k] + offset >= life[k] - Late /\ life[k] + offset <= Lifetime + East
      BY <1>0
    <2>2. offset' = offset
      BY <1>2 DEF Logout
    <2>3. UNCHANGED <<life, entry, loggedOut, East, Late>>
      BY <1>2, <2>2 DEF Logout, East, Late
    <2>4. /\ \A q \in Requests : q # r =>
               pc'[q] = pc[q] /\ token'[q] = token[q] /\ local'[q] = local[q]
          /\ pc'[r] = "setex" /\ token'[r] = k /\ local'[r] = life[k] + offset
      BY <1>2 DEF Logout, TimeToLive
    <2> QED BY <2>1, <2>3, <2>4
  <1>3. ASSUME NEW r \in Logouts, WriteEntry(r),
               loggedOut' \in {loggedOut, loggedOut \union {token[r]}}
        PROVE  EntryOutlives'
    <2>1. UNCHANGED <<life, offset, East, Late>>
      BY <1>3 DEF WriteEntry, East, Late
    <2>2. \A k \in loggedOut' : entry'[k] >= life'[k] - Late'
      BY <1>3, <2>1 DEF WriteEntry
    <2>3. \A q \in Requests : q # r =>
            pc'[q] = pc[q] /\ token'[q] = token[q] /\ local'[q] = local[q]
      BY <1>3 DEF WriteEntry
    <2>4. pc'[r] = "idle"
      BY <1>3 DEF WriteEntry
    <2> QED BY <1>3, <2>1, <2>2, <2>3, <2>4
  <1>4. ASSUME NEW r \in Refreshes, RefreshNext(r) PROVE EntryOutlives'
    <2>1. ASSUME NEW k \in Tokens, Refresh(r, k) PROVE EntryOutlives'
      BY <2>1 DEF Refresh, East, Late
    <2>2. CASE Issue(r) \/ Reject(r) \/ Answer(r)
      BY <2>2 DEF Issue, Reject, Answer, East, Late
    <2> QED BY <1>4, <2>1, <2>2 DEF RefreshNext
  <1>5. ASSUME NEW r \in Requests, End(r) PROVE EntryOutlives'
    BY <1>5 DEF End, East, Late
  <1>6. CASE Tick
    <2>1. UNCHANGED <<offset, loggedOut, pc, token, local, East, Late>>
      BY <1>6 DEF Tick, East, Late
    <2>2. ASSUME NEW k \in Tokens
          PROVE  /\ life[k] \in Nat /\ life'[k] \in Nat /\ life'[k] <= life[k]
                 /\ entry[k] >= life[k] - Late => entry'[k] >= life'[k] - Late
      <3>1. life[k] \in Nat /\ entry[k] \in Nat
        BY <1>0
      <3>2. life'[k] = IF life[k] = 0 THEN 0 ELSE life[k] - 1
        BY <1>6 DEF Tick, Less
      <3>3. entry'[k] = IF entry[k] = 0 THEN 0 ELSE entry[k] - 1
        BY <1>6 DEF Tick, Less
      <3> HIDE DEF TypeOK, IInv, EntryOutlives
      <3> QED BY <1>0, <3>1, <3>2, <3>3
    <2>3. \A k \in loggedOut' : entry'[k] >= life'[k] - Late'
      BY <2>1, <2>2
    <2>4. ASSUME NEW r \in Logouts, pc'[r] = "setex"
          PROVE  local'[r] >= life'[token'[r]] - Late'
      <3>1. token[r] \in Tokens /\ local[r] >= life[token[r]] - Late
        BY <2>1, <2>4
      <3>2. life'[token[r]] \in Nat /\ life'[token[r]] <= life[token[r]]
        BY <2>2, <3>1
      <3>3. local[r] \in Int /\ life[token[r]] \in Int
        BY <3>1
      <3> QED BY <1>0, <2>1, <3>1, <3>2, <3>3
    <2> QED BY <2>1, <2>3, <2>4
  <1>7. CASE UNCHANGED vars
    BY <1>7 DEF vars, East, Late
  <1>8. ASSUME NEW r \in Logouts, LogoutNext(r) PROVE EntryOutlives'
    BY <1>2, <1>3, <1>8 DEF LogoutNext, Blacklist, SetexUnanswered
  <1> QED BY <1>1, <1>4, <1>5, <1>6, <1>7, <1>8 DEF Next

THEOREM Inductive == Spec => []IInv
  <1>1. IInv /\ [Next]_vars => IInv'
    BY TypeStep, LimiterStep, EntryStep DEF IInv
  <1> QED BY InitIInv, <1>1, PTL DEF Spec

\* Type correctness of the counter, the entry, their times and the requests.
THEOREM TypeCorrect == Spec => []TypeOK
  <1>1. IInv => TypeOK
    BY DEF IInv
  <1> QED BY Inductive, <1>1, PTL

\* At most RATE_LIMIT attempts pass while the key of a client lives.
THEOREM LimitHolds == Spec => []LimitKept
  <1>1. IInv => LimitKept
    BY DEF IInv, LimiterInv
  <1> QED BY Inductive, <1>1, PTL

\* A key without expiry has a request that will set it, or lost that request.
THEOREM ExpiryOwed == Spec => []ExpiryAccounted
  <1>1. IInv => ExpiryAccounted
    BY DEF IInv, LimiterInv
  <1> QED BY Inductive, <1>1, PTL

\* No tokens for a refresh that begins after a logout with its very token, for every
\* time zone, before the token has run out or is as near to that as the process is
\* west of UTC.
THEOREM LogoutLasts == Spec => LoggedOutTokenRefused
  <1> DEFINE Step == \A r \in Refreshes :
                       pc[r] = "get" /\ pc'[r] = "issued" => local[r] = 0 \/ life[token[r]] <= Late
  <1>1. IInv /\ [Next]_vars => Step
    <2> SUFFICES ASSUME IInv, [Next]_vars, NEW r \in Refreshes,
                        pc[r] = "get", pc'[r] = "issued"
                 PROVE  local[r] = 0 \/ life[token[r]] <= Late
      OBVIOUS
    <2> USE DEF IInv, TypeOK
    <2>1. Issue(r)
      <3>1. ASSUME NEW q \in Logins, LoginNext(q) PROVE FALSE
        BY <3>1 DEF LoginNext, Login, SetExpiry, ExpireUnanswered, Admit
      <3>2. ASSUME NEW q \in Logouts, LogoutNext(q) PROVE FALSE
        BY <3>2 DEF LogoutNext, Logout, Blacklist, SetexUnanswered, WriteEntry
      <3>3. ASSUME NEW q \in Refreshes, RefreshNext(q) PROVE Issue(r)
        BY <3>3 DEF RefreshNext, Refresh, Issue, Reject, Answer
      <3>4. ASSUME NEW q \in Requests, End(q) PROVE FALSE
        BY <3>4 DEF End
      <3>5. ~Tick /\ ~UNCHANGED vars
        BY DEF Tick, vars
      <3> QED BY <3>1, <3>2, <3>3, <3>4, <3>5 DEF Next
    <2> QED BY <2>1 DEF Issue, Blacklisted, EntryOutlives, Late, East
  <1>2. IInv /\ [Next]_vars => [Step]_vars
    BY <1>1
  <1> QED BY Inductive, <1>2, PTL DEF Spec, LoggedOutTokenRefused
===============================================================================
