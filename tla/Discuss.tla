------------------------------- MODULE Discuss -------------------------------
(***************************************************************************)
(* The search for discussions of a bookmarked URL (internal/discuss): a    *)
(* run lists the URLs that are due, asks every fetcher about each of them, *)
(* stores what they return, and puts the URL off for a number of days that *)
(* grows with the number of checks in a row that found nothing.            *)
(*                                                                         *)
(* Runs exclude each other (OneRunAtATime of JobRunner), so that one set   *)
(* of tasks is enough; how many run at a time is Pool's matter.  Time is   *)
(* counted in days; the jitter of five minutes is neglected.               *)
(***************************************************************************)
EXTENDS Integers, FiniteSets

CONSTANTS
  Urls,        \* bookmarked URLs
  Threads,     \* discussions there are of a URL, at any source
  NumFetchers, \* fetchers configured: hackernews, and reddit with credentials
  Limit,       \* rows ListDueURLs returns at most
  MaxChecks,   \* bound on recorded checks of a URL, for model checking
  MaxAsks,     \* bound on further bookmarks of a URL, for model checking
  MaxFaults    \* bound on lost statements and crashes, for model checking

ASSUME DiscussAssumption ==
  /\ IsFiniteSet(Urls) /\ IsFiniteSet(Threads)
  /\ NumFetchers \in Nat \ {0} /\ Limit \in Nat \ {0}
  /\ MaxChecks \in Nat /\ MaxAsks \in Nat /\ MaxFaults \in Nat

VARIABLES
  today,         \* in days
  next_check_at, \* columns of urls
  check_count,
  empty_count,
  stored,        \* rows of url_discussions
  task,          \* what the worker does for a URL
  asks,          \* number of bookmarks so far
  faults,        \* number of faults so far
  checked_at,    \* history: the last recorded check, or Never
  excused,       \* history: asked for or begun since the last recorded check
  seen           \* history: all that the last check was told of

row     == <<next_check_at, check_count, empty_count>>
history == <<checked_at, excused>>
dvars   == <<today, row, stored, task, asks, faults, history, seen>>

-----------------------------------------------------------------------------
(***************************************************************************)
(* nextScheduledAt, with the 32 bits of int32(1) << emptyCount and the 64  *)
(* bits of time.Duration(days) * 24 * time.Hour.                           *)
(***************************************************************************)
MinInt32 == -2147483647 - 1

ShiftedOne(n) == IF n < 31 THEN 2 ^ n ELSE IF n = 31 THEN MinInt32 ELSE 0

Days(n) == IF ShiftedOne(n) < 30 THEN ShiftedOne(n) ELSE 30

\* -2^31 days are -2^31 * 86400 * 10^9 nanoseconds, which is -60594 days (and a
\* part) modulo 2^64.  Every other value of Days fits.
Duration(days) == IF days = MinInt32 THEN -60594 ELSE days

NextScheduledAt(n) == today + Duration(Days(n))

-----------------------------------------------------------------------------
Never == -1

\* The state of processURL: where it is, the counters read with the list, the
\* fetcher it has come to, whether anything was found, and what is to be saved.
Task(pc, n, e, i, found, left) ==
  [pc |-> pc, check_count |-> n, empty_count |-> e, fetcher |-> i,
   found |-> found, left |-> left]

NoTask == Task("none", 0, 0, 0, FALSE, {})

At(u, pc) == task[u].pc = pc
SetTask(u, t) == task' = [task EXCEPT ![u] = t]

Fault == faults < MaxFaults /\ faults' = faults + 1

DiscussInit ==
  /\ today = 0
  /\ next_check_at = [u \in Urls |-> 0]
  /\ check_count = [u \in Urls |-> 0]
  /\ empty_count = [u \in Urls |-> 0]
  /\ stored = [u \in Urls |-> {}]
  /\ task = [u \in Urls |-> NoTask]
  /\ asks = 0
  /\ faults = 0
  /\ checked_at = [u \in Urls |-> Never]
  /\ excused = [u \in Urls |-> TRUE]
  /\ seen = [u \in Urls |-> {}]

Due == {u \in Urls : next_check_at[u] <= today /\ check_count[u] < MaxChecks}

\* ListDueURLs: those that have been due for longest.
ListDue ==
  /\ \A u \in Urls : At(u, "none")
  /\ \E S \in SUBSET Due :
       /\ S # {}
       /\ Cardinality(S) = Limit \/ (S = Due /\ Cardinality(S) < Limit)
       /\ \A u \in S, v \in Due \ S : next_check_at[u] <= next_check_at[v]
       /\ task' = [u \in Urls |->
                     IF u \in S THEN Task("queued", check_count[u], empty_count[u], 1, FALSE, {})
                     ELSE NoTask]
  /\ UNCHANGED <<today, row, stored, asks, faults, history, seen>>

\* The pool calls processURL.
ProcessURL(u) ==
  /\ At(u, "queued")
  /\ SetTask(u, [task[u] EXCEPT !.pc = "fetching"])
  /\ excused' = [excused EXCEPT ![u] = TRUE]
  /\ seen' = [seen EXCEPT ![u] = {}]
  /\ UNCHANGED <<today, row, stored, asks, faults, checked_at>>

\* Faulty variant of Fetched: what a fetcher finds replaces what those before
\* it found.
FetchedLast(u, S) ==
  /\ At(u, "fetching") /\ task[u].fetcher <= NumFetchers
  /\ SetTask(u, Task("saving", task[u].check_count, task[u].empty_count,
                  task[u].fetcher + 1, S # {}, S))
  /\ seen' = [seen EXCEPT ![u] = @ \cup S]
  /\ UNCHANGED <<today, row, stored, asks, faults, history>>

\* A fetcher returns some discussions or none.
Fetched(u, S) ==
  /\ At(u, "fetching") /\ task[u].fetcher <= NumFetchers
  /\ SetTask(u, Task("saving", task[u].check_count, task[u].empty_count,
                  task[u].fetcher + 1, task[u].found \/ S # {}, S))
  /\ seen' = [seen EXCEPT ![u] = @ \cup S]
  /\ UNCHANGED <<today, row, stored, asks, faults, history>>

\* A fetcher fails or takes more than 15 seconds: processURL goes on with the
\* next one.
FetchFails(u) ==
  /\ At(u, "fetching") /\ task[u].fetcher <= NumFetchers
  /\ SetTask(u, [task[u] EXCEPT !.fetcher = @ + 1])
  /\ UNCHANGED <<today, row, stored, asks, faults, history, seen>>

SaveDiscussion(u, d) ==
  /\ At(u, "saving") /\ d \in task[u].left
  /\ stored' = [stored EXCEPT ![u] = @ \cup {d}]
  /\ SetTask(u, [task[u] EXCEPT !.left = @ \ {d}])
  /\ UNCHANGED <<today, row, asks, faults, history, seen>>

\* Faulty variant of SaveFails: what could not be saved counts as not found.
SaveFailsUnfound(u, d) ==
  /\ At(u, "saving") /\ d \in task[u].left
  /\ Fault
  /\ SetTask(u, [task[u] EXCEPT !.left = @ \ {d}, !.found = FALSE])
  /\ UNCHANGED <<today, row, stored, asks, history, seen>>

\* The error of SaveDiscussion is logged.
SaveFails(u, d) ==
  /\ At(u, "saving") /\ d \in task[u].left
  /\ Fault
  /\ SetTask(u, [task[u] EXCEPT !.left = @ \ {d}])
  /\ UNCHANGED <<today, row, stored, asks, history, seen>>

\* The loop over the results ends.
AllSaved(u) ==
  /\ At(u, "saving") /\ task[u].left = {}
  /\ SetTask(u, [task[u] EXCEPT !.pc = "fetching"])
  /\ UNCHANGED <<today, row, stored, asks, faults, history, seen>>

\* All fetchers were asked: CompleteDiscussionJob with the counters read at the
\* beginning.
Complete(u) ==
  LET n == IF task[u].found THEN 0 ELSE task[u].empty_count + 1
  IN  /\ At(u, "fetching") /\ task[u].fetcher > NumFetchers
      /\ next_check_at' = [next_check_at EXCEPT ![u] = NextScheduledAt(n)]
      /\ check_count' = [check_count EXCEPT ![u] = task[u].check_count + 1]
      /\ empty_count' = [empty_count EXCEPT ![u] = n]
      /\ SetTask(u, NoTask)
      /\ checked_at' = [checked_at EXCEPT ![u] = today]
      /\ excused' = [excused EXCEPT ![u] = FALSE]
      /\ UNCHANGED <<today, stored, asks, faults, seen>>

\* The error of CompleteDiscussionJob is logged: the URL stays due.
CompleteLost(u) ==
  /\ At(u, "fetching") /\ task[u].fetcher > NumFetchers
  /\ Fault
  /\ SetTask(u, NoTask)
  /\ UNCHANGED <<today, row, stored, asks, history, seen>>

Crash ==
  /\ \E u \in Urls : ~At(u, "none")
  /\ Fault
  /\ task' = [u \in Urls |-> NoTask]
  /\ UNCHANGED <<today, row, stored, asks, history, seen>>

\* CreateURL ends with EnqueueDiscussionJob when a user bookmarks the URL.
EnqueueDiscussionJob(u) ==
  /\ asks < MaxAsks
  /\ asks' = asks + 1
  /\ next_check_at' = [next_check_at EXCEPT ![u] = today]
  /\ excused' = [excused EXCEPT ![u] = TRUE]
  /\ UNCHANGED <<today, check_count, empty_count, stored, task, faults, checked_at,
                 seen>>

\* Nothing is done until the next URL is due.
DaysPass ==
  /\ \A u \in Urls : At(u, "none")
  /\ \E u \in Urls :
       /\ next_check_at[u] > today
       /\ \A v \in Urls : next_check_at[v] <= today \/ next_check_at[u] <= next_check_at[v]
       /\ today' = next_check_at[u]
  /\ UNCHANGED <<row, stored, task, asks, faults, history, seen>>

DiscussNext ==
  \/ ListDue \/ Crash \/ DaysPass
  \/ \E u \in Urls :
       \/ ProcessURL(u) \/ FetchFails(u) \/ AllSaved(u) \/ Complete(u) \/ CompleteLost(u)
       \/ EnqueueDiscussionJob(u)
       \/ \E S \in SUBSET Threads : Fetched(u, S)
       \/ \E d \in Threads : SaveDiscussion(u, d) \/ SaveFails(u, d)

DiscussSpec == DiscussInit /\ [][DiscussNext]_dvars

-----------------------------------------------------------------------------
\* The back-off is over exactly when the last check that was recorded was told
\* of a discussion, by whichever fetcher, though the others failed or knew
\* nothing.  (A check in which every fetcher fails counts as an empty one.)
FindEndsBackOff ==
  \A u \in Urls :
    (At(u, "none") /\ ~excused[u]) => (seen[u] # {} <=> empty_count[u] = 0)

\* A discussion that a check found and could not store is looked for again
\* within a day of that check.
MissingIsRetried ==
  \A u \in Urls :
    (~(seen[u] \subseteq stored[u]) /\ At(u, "none") /\ ~excused[u]) =>
      next_check_at[u] <= checked_at[u] + 1

\* "Starts at 1 day, caps at 30", for any number of empty checks.  The code does
\* not keep this: the shift leaves the 32 bits at the 31st empty check in a row.
BackOffAlwaysInBounds ==
  \A u \in Urls :
    (checked_at[u] # Never /\ ~excused[u]) =>
      checked_at[u] + 1 <= next_check_at[u] /\ next_check_at[u] <= checked_at[u] + 30

=============================================================================
