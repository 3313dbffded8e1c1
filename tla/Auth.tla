---------------------------------- MODULE Auth ----------------------------------
(***************************************************************************)
(* What the authentication service keeps in Redis (src/auth_service.py):   *)
(* the attempts of one client at /login, and the blacklist entries of      *)
(* tokens that /logout writes and /refresh looks up.  /logout takes any    *)
(* valid token, as a rule the access token of the Authorization header;    *)
(* /refresh takes refresh tokens, and looks only for their own entries.    *)
(*                                                                         *)
(* Every call of Redis is an await.  Redis executes a call as one step; a  *)
(* request can end there, before or after the call was executed, because   *)
(* the call raises, the client goes away or the process crashes, while     *)
(* Redis keeps what it has.  Time is counted down: a tick takes one from   *)
(* every time to live.  /logout computes the time that a token has left    *)
(* with the time zone of the process: its result is off by the zone's      *)
(* offset from UTC.                                                        *)
(***************************************************************************)
EXTENDS Integers

CONSTANTS
  Logins, Refreshes, Logouts,  \* the requests
  RateLimit,                   \* RATE_LIMIT
  Window,                      \* RATE_LIMIT_WINDOW, in ticks
  Tokens, RefreshTokens,       \* all tokens, those of type "refresh"
  NoToken,                     \* absence of a token
  Lifetime,                    \* bound: the longest life of a token, in ticks
  Offsets,                     \* possible offsets from UTC, in ticks
  MaxCount                     \* bound: the largest count

ASSUME AuthAssumption ==
  /\ Logins \cap Refreshes = {} /\ Logins \cap Logouts = {} /\ Refreshes \cap Logouts = {}
  /\ RateLimit \in Nat \ {0} /\ Window \in Nat \ {0}
  /\ RefreshTokens \subseteq Tokens /\ NoToken \notin Tokens
  /\ Lifetime \in Nat \ {0} /\ MaxCount \in Nat
  /\ Offsets \subseteq Int

VARIABLES
  count,      \* the value of rl:<client>, 0 when there is no such key
  ttl,        \* the time that key has left, 0 when it has no expiry
  passed,     \* history: the attempts let through since the key was created
  dropped,    \* history: a request ended between INCR and EXPIRE
  offset,     \* of the time zone of the process from UTC
  life,       \* the time until each token's exp
  entry,      \* the time bl:<token> has left, 0 when there is no such key
  loggedOut,  \* history: the tokens for which a logout was answered
  pc,         \* where each request is
  token,      \* the token of a logout or a refresh
  local       \* the count a login got; the time a logout is about to set;
              \* for a refresh, whether it began after its token's logout (1)
              \* or not (0)

limiter   == <<count, ttl, passed, dropped>>
blacklist == <<offset, life, entry, loggedOut>>
requests  == <<pc, token, local>>
vars      == <<limiter, blacklist, requests>>

Requests == Logins \union Refreshes \union Logouts

Init ==
  /\ count = 0 /\ ttl = 0 /\ passed = 0 /\ dropped = FALSE
  /\ offset \in Offsets
  /\ life \in [Tokens -> 1..Lifetime]
  /\ entry = [k \in Tokens |-> 0] /\ loggedOut = {}
  /\ pc = [r \in Requests |-> "idle"]
  /\ token = [r \in Requests |-> NoToken]
  /\ local = [r \in Requests |-> 0]

Goto(r, at) == pc' = [pc EXCEPT ![r] = at]
Note(r, n)  == local' = [local EXCEPT ![r] = n]
Hold(r, k)  == token' = [token EXCEPT ![r] = k]

\* The request is over, and what it knew is forgotten.
Finish(r) == Goto(r, "idle") /\ Note(r, 0) /\ Hold(r, NoToken)

(***************************************************************************)
(* rate_limit()                                                            *)
(***************************************************************************)

\* Mutant: off by one.
MutTooMany(n) == n > RateLimit + 1

TooMany(n) == n > RateLimit

\* The request is refused with 429 or goes on to the endpoint.
Admit(r, n) ==
  /\ passed' = IF TooMany(n) THEN passed ELSE passed + 1
  /\ Finish(r)

\* Mutant: the window starts with the first refusal.
MutFirst(n) == n = RateLimit + 1

First(n) == n = 1

\* INCR, which creates the key.
Login(r) ==
  /\ pc[r] = "idle"
  /\ count < MaxCount
  /\ count' = count + 1
  /\ IF First(count + 1)
     THEN Goto(r, "expire") /\ Note(r, count + 1) /\ UNCHANGED <<passed, token>>
     ELSE Admit(r, count + 1)
  /\ UNCHANGED <<ttl, dropped, blacklist>>

\* EXPIRE
SetExpiry(r) ==
  /\ pc[r] = "expire"
  /\ ttl' = Window
  /\ Admit(r, local[r])
  /\ UNCHANGED <<count, dropped, blacklist>>

(***************************************************************************)
(* /logout and /refresh                                                    *)
(***************************************************************************)

\* decode_token() raises once exp has passed; it accepts tokens of every type.
Valid(k) == life[k] > 0

\* Mutant: the entry expires a tick too early.
MutTimeToLive(k) == life[k] + offset - 1

\* Mutant: exp itself, a date that is later than any duration.
MutDate(k) == 2 * Lifetime + 1

\* exp - now: exp is UTC, and so is now, but timestamp() takes it for local time.
TimeToLive(k) == life[k] + offset

Logout(r, k) ==
  /\ pc[r] = "idle"
  /\ Valid(k)
  /\ Hold(r, k)
  /\ Note(r, TimeToLive(k))
  /\ Goto(r, "setex")
  /\ UNCHANGED <<limiter, blacklist>>

\* SETEX with the time that was left when the logout began; it raises when that is
\* not positive.
WriteEntry(r) ==
  /\ pc[r] = "setex"
  /\ local[r] > 0
  /\ entry' = [entry EXCEPT ![token[r]] = local[r]]
  /\ Finish(r)
  /\ UNCHANGED <<limiter, offset, life>>

Blacklist(r) == WriteEntry(r) /\ loggedOut' = loggedOut \union {token[r]}

Refresh(r, k) ==
  /\ pc[r] = "idle"
  /\ Valid(k) /\ k \in RefreshTokens
  /\ Hold(r, k)
  /\ Note(r, IF k \in loggedOut THEN 1 ELSE 0)
  /\ Goto(r, "get")
  /\ UNCHANGED <<limiter, blacklist>>

Blacklisted(r) == entry[token[r]] > 0

\* GET finds no entry: new tokens are issued.
Issue(r) ==
  /\ pc[r] = "get"
  /\ ~Blacklisted(r)
  /\ Goto(r, "issued")
  /\ UNCHANGED <<limiter, blacklist, token, local>>

Reject(r) ==
  /\ pc[r] = "get"
  /\ Blacklisted(r)
  /\ Finish(r)
  /\ UNCHANGED <<limiter, blacklist>>

\* The tokens are sent.
Answer(r) ==
  /\ pc[r] = "issued"
  /\ Finish(r)
  /\ UNCHANGED <<limiter, blacklist>>

(***************************************************************************)
(* Faults and time                                                         *)
(***************************************************************************)

\* A request ends before Redis executes its call, or because Redis refuses it.
End(r) ==
  /\ pc[r] \in {"expire", "setex", "get"}
  /\ dropped' = (dropped \/ pc[r] = "expire")
  /\ Finish(r)
  /\ UNCHANGED <<count, ttl, passed, blacklist>>

\* EXPIRE, SETEX is executed and the request ends without its answer.
ExpireUnanswered(r) ==
  /\ pc[r] = "expire"
  /\ ttl' = Window
  /\ Finish(r)
  /\ UNCHANGED <<count, passed, dropped, blacklist>>

SetexUnanswered(r) == WriteEntry(r) /\ UNCHANGED loggedOut

Less(n) == IF n = 0 THEN 0 ELSE n - 1

\* A key whose time is over is gone.
Tick ==
  /\ ttl' = Less(ttl)
  /\ IF ttl = 1
     THEN count' = 0 /\ passed' = 0
     ELSE UNCHANGED <<count, passed>>
  /\ life' = [k \in Tokens |-> Less(life[k])]
  /\ entry' = [k \in Tokens |-> Less(entry[k])]
  /\ UNCHANGED <<dropped, offset, loggedOut, requests>>

(***************************************************************************)
(* The specification                                                       *)
(***************************************************************************)
LoginNext(r)   == Login(r) \/ SetExpiry(r) \/ ExpireUnanswered(r)
LogoutNext(r)  == (\E k \in Tokens : Logout(r, k)) \/ Blacklist(r) \/ SetexUnanswered(r)
RefreshNext(r) == (\E k \in Tokens : Refresh(r, k)) \/ Issue(r) \/ Reject(r) \/ Answer(r)

Next ==
  \/ \E r \in Logins : LoginNext(r)
  \/ \E r \in Logouts : LogoutNext(r)
  \/ \E r \in Refreshes : RefreshNext(r)
  \/ \E r \in Requests : End(r)
  \/ Tick

Spec == Init /\ [][Next]_vars

\* A call of Redis that is not given up is executed, and time passes.
Fairness == WF_vars(Tick) /\ \A r \in Logins : WF_vars(SetExpiry(r))

FairSpec == Spec /\ Fairness

(***************************************************************************)
(* Properties                                                              *)
(***************************************************************************)

East == IF offset > 0 THEN offset ELSE 0

Late == IF offset < 0 THEN 0 - offset ELSE 0

\* The types of the variables; only a key that exists expires, and no entry is
\* written for longer than a token can live, by the clock of the process.
TypeOK ==
  /\ count \in Nat /\ ttl \in 0..Window /\ passed \in Nat
  /\ count = 0 => ttl = 0
  /\ offset \in Offsets
  /\ life \in [Tokens -> 0..Lifetime] /\ entry \in [Tokens -> 0..(Lifetime + East)]
  /\ dropped \in BOOLEAN /\ loggedOut \subseteq Tokens
  /\ pc \in [Requests -> {"idle", "expire", "setex", "get", "issued"}]
  /\ token \in [Requests -> Tokens \union {NoToken}]
  /\ local \in [Requests -> Int]

\* While a client's key lives, at most RATE_LIMIT of its attempts get through,
\* however the INCR and EXPIRE of concurrent attempts interleave.
LimitKept == passed <= RateLimit

\* Attempts count for a while only, and a client that is locked out does not stay
\* so: its key expires, unless a request once ended between INCR and EXPIRE.
WindowEnds == count > 0 ~> count = 0 \/ dropped

\* The key without expiry is the one that a request is about to give one, or that
\* a request was cut off from.
ExpiryAccounted ==
  count > 0 /\ ttl = 0 => dropped \/ \E r \in Logins : pc[r] = "expire"

\* A refresh that begins after a logout with the very same token was answered
\* issues no tokens, however calls, repeated logouts and the expiry of the entry
\* interleave: not before the token has run out, or is as near to that as the
\* process is west of UTC.  A logout with the access token ends no refresh token.
LoggedOutTokenRefused ==
  [][\A r \in Refreshes :
       pc[r] = "get" /\ pc'[r] = "issued" => local[r] = 0 \/ life[token[r]] <= Late]_vars
===============================================================================
