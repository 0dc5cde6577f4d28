------------------------------- MODULE Fetchers ------------------------------
(***************************************************************************)
(* What the discussion worker runs in its pool: for each URL the fetcher   *)
(* of Hacker News, then the one of Reddit, which shares one bearer token   *)
(* among all calls.  The token is read without a lock, renewed under a     *)
(* mutex that no context interrupts, and dropped on a 401.                 *)
(*                                                                         *)
(* The variables of Pool are taken over: an item of the pool is a URL, and *)
(* fn returns when its fetchers are done.  Network exchanges take time up  *)
(* to their deadlines, everything else takes none.  What the fetchers find *)
(* and what becomes of it is in Discuss.                                   *)
(***************************************************************************)
EXTENDS Pool, Sequences

CONSTANTS
  ClientTimeout,  \* of the http.Client: 10 seconds
  ContextTimeout, \* of the context of each fetch: 15 seconds
  Life,           \* expires_in of a token
  Margin,         \* what fetchToken takes off it: 30 seconds
  MaxRevoked      \* bound on tokens withdrawn by Reddit, for model checking

ASSUME FetchersAssumption ==
  /\ ClientTimeout \in Nat \ {0} /\ ContextTimeout \in Nat \ {0}
  /\ Margin \in Nat /\ Life \in Nat /\ Margin < Life /\ MaxRevoked \in Nat

\* A call of fn has room for both fetches and for one renewal that got ahead of the
\* wait for the mutex: 10 + 15 + 10 seconds.
FetchesFit == Timeout >= ClientTimeout + ContextTimeout + ClientTimeout

\* The margin has room for the arrival of a token and for a request with it.
MarginCovers == 2 * ClientTimeout <= Margin + 1 /\ 2 * ClientTimeout <= Life

VARIABLES
  at,       \* where processURL is for an item
  began,    \* when its present fetcher was called
  since,    \* when its present request was sent, or its wait for f.mu begun
  bearer,   \* the token it holds, known by the time it was issued
  token,    \* f.token: a token and its expiry
  holder,   \* the item that holds f.mu; 0 is none
  queue,    \* the items that wait for f.mu
  starving, \* the mutex is handed over to its first waiter
  revoked,  \* the tokens Reddit has withdrawn
  grounds   \* history: reasons to ask for a token that were not yet followed

calls == <<at, began, since, bearer>>
mu    == <<holder, queue, starving>>
fvars == <<vars, calls, token, mu, revoked, grounds>>

None == -1

NoToken == [id |-> None, expiry |-> 0]

FetchInit ==
  /\ Init
  /\ at = [i \in Items |-> "idle"]
  /\ began = [i \in Items |-> 0]
  /\ since = [i \in Items |-> 0]
  /\ bearer = [i \in Items |-> None]
  /\ token = NoToken
  /\ holder = 0
  /\ queue = <<>>
  /\ starving = FALSE
  /\ revoked = {}
  /\ grounds = 1

-----------------------------------------------------------------------------
GoTo(i, stage) == at' = [at EXCEPT ![i] = stage]
Stamp(i) == since' = [since EXCEPT ![i] = clock]

InFlight(i) == at[i] \in {"hackernews", "renewing", "issued", "asking", "refused"}

AtMost(a, b) == IF a < b THEN a ELSE b

\* Faulty variant of Deadline: the default client, which has no timeout.
DeadlineOfContext(i) == began[i] + ContextTimeout

\* A request fails at the latest when the client's timeout or its context ends.
Deadline(i) == AtMost(since[i] + ClientTimeout, began[i] + ContextTimeout)

\* The condition of both checks in fetchToken.
Fresh == token.id # None /\ clock < token.expiry

\* Hacker News answers or fails, and Reddit's fetcher is called.
HackerNewsEnds(i) ==
  /\ at[i] = "hackernews"
  /\ GoTo(i, "check")
  /\ began' = [began EXCEPT ![i] = clock]
  /\ UNCHANGED <<vars, since, bearer, token, mu, revoked, grounds>>

\* The request to /api/info is sent, with the token that is cached.
Ask(i) ==
  /\ GoTo(i, "asking")
  /\ bearer' = [bearer EXCEPT ![i] = token.id]
  /\ Stamp(i)
  /\ UNCHANGED <<vars, began, token, revoked, grounds>>

CheckToken(i) ==
  /\ at[i] = "check"
  /\ \/ Fresh /\ Ask(i) /\ UNCHANGED mu
     \/ /\ ~Fresh
        /\ GoTo(i, "lock")
        /\ UNCHANGED <<vars, began, since, bearer, token, mu, revoked, grounds>>

Unlock == holder' = 0 /\ UNCHANGED <<queue, starving>>

\* The request for a token is sent.
Renew(i) ==
  /\ GoTo(i, "renewing")
  /\ holder' = i
  /\ Stamp(i)
  /\ grounds' = IF Fresh \/ token.id = None THEN grounds - 1 ELSE grounds
  /\ UNCHANGED <<vars, began, bearer, token, revoked>>

\* Faulty variant of CheckAgain: it does not.
RenewAnyway(i) == Renew(i)

\* "Double-check after acquiring lock", by the item that has just acquired it.
CheckAgain(i) ==
  \/ Fresh /\ Ask(i) /\ UNCHANGED holder
  \/ ~Fresh /\ Renew(i)

\* f.mu.Lock(): a sync.Mutex that is free goes to whoever asks, unless its first
\* waiter has been overtaken after waiting for more than a millisecond.
Lock(i) ==
  /\ at[i] = "lock"
  /\ holder = 0 /\ ~starving
  /\ \/ queue # <<>> /\ starving' = TRUE
     \/ (queue # <<>> => since[Head(queue)] = clock) /\ UNCHANGED starving
  /\ CheckAgain(i)
  /\ UNCHANGED queue

Wait(i) ==
  /\ at[i] = "lock"
  /\ holder # 0 \/ starving
  /\ queue' = Append(queue, i)
  /\ GoTo(i, "waiting")
  /\ Stamp(i)
  /\ UNCHANGED <<vars, began, bearer, token, holder, starving, revoked, grounds>>

\* The first waiter gets the mutex.
LockFirst ==
  /\ holder = 0 /\ queue # <<>>
  /\ queue' = Tail(queue)
  /\ starving' = (starving /\ Tail(queue) # <<>> /\ since[Head(queue)] < clock)
  /\ CheckAgain(Head(queue))

\* Reddit issues a token.
Issue(i) ==
  /\ at[i] = "renewing"
  /\ clock < Deadline(i)
  /\ GoTo(i, "issued")
  /\ bearer' = [bearer EXCEPT ![i] = clock]
  /\ UNCHANGED <<vars, began, since, token, mu, revoked, grounds>>

\* The request after a token has arrived.
StoreAndAsk(i, expiry) ==
  /\ at[i] = "issued"
  /\ token' = [id |-> bearer[i], expiry |-> expiry]
  /\ Unlock
  /\ GoTo(i, "asking")
  /\ Stamp(i)
  /\ UNCHANGED <<vars, began, bearer, revoked, grounds>>

\* Faulty variant of TokenArrives: the whole of expires_in is used.
TokenArrivesUncut(i) == StoreAndAsk(i, clock + Life)

TokenArrives(i) == StoreAndAsk(i, clock + Life - Margin)

\* fetchToken returns an error, and the deferred Unlock gives the mutex back.
RenewalFails(i) ==
  /\ at[i] \in {"renewing", "issued"}
  /\ Unlock
  /\ GoTo(i, "ended")
  /\ grounds' = IF token.id = None THEN grounds + 1 ELSE grounds
  /\ UNCHANGED <<vars, began, since, bearer, token, revoked>>

\* Reddit refuses the bearer of a request.
Refuse(i) ==
  /\ at[i] = "asking"
  /\ clock < Deadline(i)
  /\ bearer[i] \in revoked \/ clock >= bearer[i] + Life
  /\ GoTo(i, "refused")
  /\ UNCHANGED <<vars, began, since, bearer, token, mu, revoked, grounds>>

\* A 401 arrives, however late: whatever is cached now is dropped.
Refused(i) ==
  /\ at[i] = "refused"
  /\ token' = NoToken
  /\ GoTo(i, "ended")
  /\ grounds' = grounds + 1
  /\ UNCHANGED <<vars, began, since, bearer, mu, revoked>>

\* Any other answer, or none by the deadline.
AskingEnds(i) ==
  /\ at[i] \in {"asking", "refused"}
  /\ GoTo(i, "ended")
  /\ UNCHANGED <<vars, began, since, bearer, token, mu, revoked, grounds>>

\* Reddit withdraws a token.
Revoke(t) ==
  /\ t \notin revoked \cup {None}
  /\ Cardinality(revoked) < MaxRevoked
  /\ revoked' = revoked \cup {t}
  /\ UNCHANGED <<vars, calls, token, mu, grounds>>

-----------------------------------------------------------------------------
\* The pool calls fn for the next item, whose first fetcher is Hacker News'.
Start ==
  /\ Acquire
  /\ GoTo(next, "hackernews")
  /\ began' = [began EXCEPT ![next] = clock]
  /\ Stamp(next)
  /\ UNCHANGED <<bearer, token, mu, revoked, grounds>>

\* fn returns, and its variables are gone.
Return(i) ==
  /\ at[i] = "ended"
  /\ FnReturns(i)
  /\ GoTo(i, "idle")
  /\ began' = [began EXCEPT ![i] = 0]
  /\ since' = [since EXCEPT ![i] = 0]
  /\ bearer' = [bearer EXCEPT ![i] = None]
  /\ UNCHANGED <<token, mu, revoked, grounds>>

PoolStep ==
  /\ Add \/ LoopEnds \/ WaitReturns \/ \E i \in Items : Release(i) \/ Done(i)
  /\ UNCHANGED <<calls, token, mu, revoked, grounds>>

\* Faulty variant of Tick: requests without a deadline.
TickFreely ==
  /\ Elapse
  /\ holder = 0 => queue = <<>>
  /\ \A i \in Items : at[i] \in {"idle", "waiting"} \/ InFlight(i)
  /\ UNCHANGED <<calls, token, mu, revoked, grounds>>

\* Time passes when everybody waits for an answer that may still come.
Tick ==
  /\ Elapse
  /\ holder = 0 => queue = <<>>
  /\ \A i \in Items : at[i] \in {"idle", "waiting"} \/ (InFlight(i) /\ clock < Deadline(i))
  /\ UNCHANGED <<calls, token, mu, revoked, grounds>>

Step(i) ==
  \/ HackerNewsEnds(i) \/ CheckToken(i) \/ Lock(i) \/ Wait(i)
  \/ Issue(i) \/ TokenArrives(i) \/ RenewalFails(i)
  \/ Refuse(i) \/ Refused(i) \/ AskingEnds(i) \/ Return(i)

FetchNext ==
  \/ Start \/ PoolStep \/ Tick \/ LockFirst
  \/ \E i \in Items : Step(i)
  \/ \E t \in {token.id} \cup {bearer[i] : i \in Items} : Revoke(t)

FetchSpec ==
  /\ FetchInit /\ [][FetchNext]_fvars
  /\ WF_fvars(Start) /\ WF_fvars(PoolStep) /\ WF_fvars(LockFirst)
  /\ \A i \in Items : WF_fvars(Step(i))

-----------------------------------------------------------------------------
\* The pool with these fetchers is Pool: they return within Timeout, although
\* the wait for the mutex heeds no context.  What is proved of Pool holds here.
ImplementsPool == Spec

\* A token that Reddit has not withdrawn is never refused: the margin covers the
\* time a token takes to arrive and a request takes to be judged.
OnlyRevokedRefused == \A i \in Items : at[i] = "refused" => bearer[i] \in revoked

\* Each request for a token has a reason of its own: there was none before, the
\* cached one ran out, the last request failed, or a request was refused.  So a
\* late 401 that drops a good token costs one request for another and no more,
\* and URLs that need a token at the same time ask for one together.
RenewalsHaveGrounds == grounds >= 0

=============================================================================
