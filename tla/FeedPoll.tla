------------------------------- MODULE FeedPoll ------------------------------
(***************************************************************************)
(* Polling of feeds: the batch job of internal/feedworker and the other    *)
(* writers of the polling columns of `feeds'.                              *)
(*                                                                         *)
(* A run lists the feeds that are due, then works on them in a pool.  For  *)
(* each feed it fetches the document, stores the feed's description and    *)
(* every item, and at the end writes back the counters it read with the    *)
(* list, plus one, and the time of the next poll.  Meanwhile users         *)
(* subscribe and an administrator schedules all feeds.                     *)
(*                                                                         *)
(* Runs of one job exclude each other: that is OneRunAtATime of JobRunner, *)
(* taken over here as the guard of ListDue.  Pool gives the bound on the   *)
(* feeds worked on at a time.  Times are in the units of Pause; the few    *)
(* seconds between a clock reading and its statement are neglected.        *)
(***************************************************************************)
EXTENDS Integers, FiniteSets

CONSTANTS
  Feeds,       \* feed URLs
  Guids,       \* items of a feed's document
  Workers,     \* feed workers, one per server process
  Limit,       \* rows ListDueFeedPollJobs returns at most
  Concurrency, \* feedPollConcurrency
  Pause,       \* time to the next poll: an hour
  MaxJitter,   \* the offset given to Jitter
  MaxClock,    \* bound on clock, for model checking
  MaxVersion,  \* bound on changes of a document, for model checking
  MaxAsks,     \* bound on requests of users and administrators, likewise
  MaxFaults    \* bound on lost statements and crashes, likewise

ASSUME FeedPollAssumption ==
  /\ IsFiniteSet(Feeds)
  /\ Limit \in Nat \ {0} /\ Concurrency \in Nat \ {0}
  /\ Pause \in Nat /\ MaxJitter \in Nat /\ MaxJitter < Pause
  /\ MaxClock \in Nat /\ MaxVersion \in Nat /\ MaxAsks \in Nat /\ MaxFaults \in Nat

VARIABLES
  clock,
  exists,        \* the feeds with a row in feeds
  next_fetch_at, \* and its polling columns
  fetch_count,
  error_count,
  meta,          \* version of the document last written by UpdateFeedMeta
  item,          \* version of the document last written by UpsertFeedItem
  remote,        \* version of the document the publisher serves
  subscribing,   \* feeds for which a handler is inside SubscribeToFeed
  task,          \* what a worker does for a feed
  asks,          \* number of requests so far
  faults,        \* number of faults so far
  successes,     \* history: recorded polls that succeeded
  streak,        \* history: recorded polls that failed since the last success
  fetched_at,    \* history: when a fetch last had its answer
  excused,       \* history: no poll recorded since it was asked for or begun
  requested,     \* history: scheduled by an administrator, no fetch begun since
  passed         \* history: the feeds recorded while this one was overdue

row     == <<exists, next_fetch_at, fetch_count, error_count>>
content == <<meta, item>>
env     == <<remote, subscribing, asks>>
history == <<successes, streak, fetched_at, excused, requested, passed>>
vars    == <<clock, row, content, env, task, faults, history>>

-----------------------------------------------------------------------------
\* The state of processJob for one feed: where it is, the counters read with
\* the list, the version of the document it got and the items it has not stored.
Task(pc, n, e, doc, left) ==
  [pc |-> pc, fetch_count |-> n, error_count |-> e, doc |-> doc, left |-> left]

NoTask == Task("none", 0, 0, 0, {})

At(w, f, pc) == task[w][f].pc = pc
GoTo(w, f, t) == task' = [task EXCEPT ![w][f] = t]

InPool == {"fetching", "meta", "items", "failed"}

\* The loop over the items has ended.
Stored(w, f) == At(w, f, "items") /\ task[w][f].left = {}

Due == {f \in exists : next_fetch_at[f] <= clock}

Fault == faults < MaxFaults /\ faults' = faults + 1

Init ==
  /\ clock = 0
  /\ exists = {}
  /\ next_fetch_at = [f \in Feeds |-> 0]
  /\ fetch_count = [f \in Feeds |-> 0]
  /\ error_count = [f \in Feeds |-> 0]
  /\ meta = [f \in Feeds |-> 0]
  /\ item = [f \in Feeds |-> [g \in Guids |-> 0]]
  /\ remote = [f \in Feeds |-> 1]
  /\ subscribing = {}
  /\ task = [w \in Workers |-> [f \in Feeds |-> NoTask]]
  /\ asks = 0
  /\ faults = 0
  /\ successes = [f \in Feeds |-> 0]
  /\ streak = [f \in Feeds |-> 0]
  /\ fetched_at = [f \in Feeds |-> 0]
  /\ excused = [f \in Feeds |-> TRUE]
  /\ requested = [f \in Feeds |-> FALSE]
  /\ passed = [f \in Feeds |-> {}]

-----------------------------------------------------------------------------
(***************************************************************************)
(* The run.                                                                *)
(***************************************************************************)
NobodyRuns == \A w \in Workers, f \in Feeds : At(w, f, "none")

\* Faulty variant of FirstDue: a comparison the wrong way round.
FirstNotDue == {S \in SUBSET exists : S # {} /\ Cardinality(S) <= Limit}

\* The `limit' feeds that have been due for longest, in any order where the
\* times are equal.
FirstDue ==
  {S \in SUBSET Due :
     /\ S # {}
     /\ Cardinality(S) = Limit \/ (S = Due /\ Cardinality(S) < Limit)
     /\ \A f \in S, g \in Due \ S : next_fetch_at[f] <= next_fetch_at[g]}

Listed(w, S) ==
  /\ task' = [task EXCEPT ![w] =
                [f \in Feeds |->
                   IF f \in S THEN Task("queued", fetch_count[f], error_count[f], 0, {})
                   ELSE task[w][f]]]
  /\ UNCHANGED <<clock, row, content, env, faults, history>>

\* Faulty variant of ListDue: runs of two servers overlap.
ListDueAnyTime(w) ==
  /\ \A f \in Feeds : At(w, f, "none")
  /\ \E S \in FirstDue : Listed(w, S)

\* ListDueFeedPollJobs.  (A run that finds no feed due ends at once.)
ListDue(w) ==
  /\ NobodyRuns
  /\ \E S \in FirstDue : Listed(w, S)

\* The pool calls processJob.
StartFetch(w, f) ==
  /\ At(w, f, "queued")
  /\ Cardinality({g \in Feeds : task[w][g].pc \in InPool}) < Concurrency
  /\ GoTo(w, f, Task("fetching", task[w][f].fetch_count, task[w][f].error_count, 0, {}))
  /\ requested' = [requested EXCEPT ![f] = FALSE]
  /\ excused' = [excused EXCEPT ![f] = TRUE]
  /\ UNCHANGED <<clock, row, content, env, faults, successes, streak, fetched_at, passed>>

Answered(f) ==
  /\ fetched_at' = [fetched_at EXCEPT ![f] = clock]
  /\ UNCHANGED <<clock, row, content, env, faults, successes, streak, excused,
                 requested, passed>>

\* ParseURLWithContext returns the document the publisher serves now.
FetchSucceeds(w, f) ==
  /\ At(w, f, "fetching")
  /\ GoTo(w, f, Task("meta", task[w][f].fetch_count, task[w][f].error_count,
                     remote[f], Guids))
  /\ Answered(f)

\* Faulty variant of FetchFails: the error is returned and nothing is written.
FetchFailsSilently(w, f) ==
  /\ At(w, f, "fetching")
  /\ GoTo(w, f, NoTask)
  /\ Answered(f)

\* An error, or the timeout of 20 seconds.
FetchFails(w, f) ==
  /\ At(w, f, "fetching")
  /\ GoTo(w, f, Task("failed", task[w][f].fetch_count, task[w][f].error_count, 0, {}))
  /\ Answered(f)

\* UpdateFeedMeta.  Its error is logged, and processJob goes on.
UpdateFeedMeta(w, f) ==
  /\ At(w, f, "meta")
  /\ \/ meta' = [meta EXCEPT ![f] = task[w][f].doc] /\ UNCHANGED faults
     \/ UNCHANGED meta /\ Fault
  /\ GoTo(w, f, [task[w][f] EXCEPT !.pc = "items"])
  /\ UNCHANGED <<clock, row, item, env, history>>

\* UpsertFeedItem for one item, whose error is logged as well.
UpsertFeedItem(w, f, g) ==
  /\ At(w, f, "items")
  /\ g \in task[w][f].left
  /\ \/ item' = [item EXCEPT ![f][g] = task[w][f].doc] /\ UNCHANGED faults
     \/ UNCHANGED item /\ Fault
  /\ GoTo(w, f, [task[w][f] EXCEPT !.left = @ \ {g}])
  /\ UNCHANGED <<clock, row, meta, env, history>>

\* What CompleteFeedPollJob does to the row, whoever has written it meanwhile.
Complete(w, f, n, e) ==
  /\ \E jitter \in -MaxJitter .. MaxJitter - 1 :
       next_fetch_at' = [next_fetch_at EXCEPT ![f] = clock + Pause + jitter]
  /\ fetch_count' = [fetch_count EXCEPT ![f] = n]
  /\ error_count' = [error_count EXCEPT ![f] = e]
  /\ GoTo(w, f, NoTask)
  /\ excused' = [excused EXCEPT ![f] = FALSE]
  /\ passed' = [g \in Feeds |->
                  IF g = f THEN {}
                  ELSE IF g \in exists /\ next_fetch_at[g] < clock
                  THEN passed[g] \cup {f} ELSE passed[g]]
  /\ UNCHANGED <<clock, exists, content, env, faults, fetched_at, requested>>

\* Faulty variant of CompleteSucceeded: the errors are left to add up.
CompleteKeepsErrors(w, f) ==
  /\ Stored(w, f)
  /\ Complete(w, f, task[w][f].fetch_count + 1, task[w][f].error_count)
  /\ successes' = [successes EXCEPT ![f] = @ + 1]
  /\ streak' = [streak EXCEPT ![f] = 0]

CompleteSucceeded(w, f) ==
  /\ Stored(w, f)
  /\ Complete(w, f, task[w][f].fetch_count + 1, 0)
  /\ successes' = [successes EXCEPT ![f] = @ + 1]
  /\ streak' = [streak EXCEPT ![f] = 0]

CompleteFailed(w, f) ==
  /\ At(w, f, "failed")
  /\ Complete(w, f, task[w][f].fetch_count, task[w][f].error_count + 1)
  /\ streak' = [streak EXCEPT ![f] = @ + 1]
  /\ UNCHANGED successes

\* CompleteFeedPollJob returns an error, which is logged: the feed stays due.
CompleteLost(w, f) ==
  /\ Stored(w, f) \/ At(w, f, "failed")
  /\ Fault
  /\ GoTo(w, f, NoTask)
  /\ UNCHANGED <<clock, row, content, env, history>>

\* The process of the worker ends in the middle of a run.
Crash(w) ==
  /\ \E f \in Feeds : ~At(w, f, "none")
  /\ Fault
  /\ task' = [task EXCEPT ![w] = [f \in Feeds |-> NoTask]]
  /\ UNCHANGED <<clock, row, content, env, history>>

-----------------------------------------------------------------------------
(***************************************************************************)
(* The others.                                                             *)
(***************************************************************************)
Ask == asks < MaxAsks /\ asks' = asks + 1

\* The first statement of SubscribeToFeed.  A new row is due at once, by the
\* default of its column.  (Its next two statements do not touch feeds.)
UpsertFeed(f) ==
  /\ Ask
  /\ f \notin subscribing
  /\ exists' = exists \cup {f}
  /\ subscribing' = subscribing \cup {f}
  /\ next_fetch_at' = IF f \in exists THEN next_fetch_at
                      ELSE [next_fetch_at EXCEPT ![f] = clock]
  /\ UNCHANGED <<clock, fetch_count, error_count, content, remote, task, faults, history>>

\* Its last one makes the feed due.
EnqueueFeedPollJob(f) ==
  /\ f \in subscribing
  /\ subscribing' = subscribing \ {f}
  /\ next_fetch_at' = [next_fetch_at EXCEPT ![f] = clock]
  /\ excused' = [excused EXCEPT ![f] = TRUE]
  /\ passed' = [passed EXCEPT ![f] = {}]
  /\ UNCHANGED <<clock, exists, fetch_count, error_count, content, remote, asks, task,
                 faults, successes, streak, fetched_at, requested>>

\* A statement of SubscribeToFeed after the first one fails.
SubscribeFails(f) ==
  /\ f \in subscribing
  /\ Fault
  /\ subscribing' = subscribing \ {f}
  /\ UNCHANGED <<clock, row, content, remote, asks, task, history>>

\* handleDispatchFeedPoll makes all feeds due (and the job, see JobRunner).
ScheduleAllFeedPollJobsNow ==
  /\ Ask
  /\ exists # {}
  /\ next_fetch_at' = [f \in Feeds |-> IF f \in exists THEN clock ELSE next_fetch_at[f]]
  /\ excused' = [f \in Feeds |-> f \in exists \/ excused[f]]
  /\ requested' = [f \in Feeds |-> f \in exists]
  /\ passed' = [f \in Feeds |-> {}]
  /\ UNCHANGED <<clock, exists, fetch_count, error_count, content, remote, subscribing,
                 task, faults, successes, streak, fetched_at>>

\* The publisher changes the document.
Publish(f) ==
  /\ remote[f] < MaxVersion
  /\ remote' = [remote EXCEPT ![f] = @ + 1]
  /\ UNCHANGED <<clock, row, content, subscribing, asks, task, faults, history>>

TimePasses ==
  /\ clock < MaxClock
  /\ clock' = clock + 1
  /\ UNCHANGED <<row, content, env, task, faults, history>>

WorkOn(w, f) ==
  \/ StartFetch(w, f) \/ FetchSucceeds(w, f) \/ FetchFails(w, f)
  \/ UpdateFeedMeta(w, f) \/ \E g \in Guids : UpsertFeedItem(w, f, g)
  \/ CompleteSucceeded(w, f) \/ CompleteFailed(w, f) \/ CompleteLost(w, f)

Next ==
  \/ TimePasses
  \/ ScheduleAllFeedPollJobsNow
  \/ \E f \in Feeds :
       UpsertFeed(f) \/ EnqueueFeedPollJob(f) \/ SubscribeFails(f) \/ Publish(f)
  \/ \E w \in Workers : \/ ListDue(w) \/ Crash(w)
                        \/ \E f \in Feeds : WorkOn(w, f)

Spec == Init /\ [][Next]_vars

\* Time goes on, the job is run again and again by some process
\* (DueJobIsClaimed of JobRunner), and what a run has begun it goes on with.
FairSpec ==
  /\ Spec
  /\ WF_vars(TimePasses)
  /\ WF_vars(\E w \in Workers : ListDue(w))
  /\ \A w \in Workers, f \in Feeds : WF_vars(WorkOn(w, f))

-----------------------------------------------------------------------------
Versions == 0 .. MaxVersion + 1

Tasks == [pc : InPool \cup {"none", "queued"}, fetch_count : Nat, error_count : Nat,
          doc : Versions, left : SUBSET Guids]

TypeOK ==
  /\ clock \in Nat /\ asks \in 0 .. MaxAsks /\ faults \in 0 .. MaxFaults
  /\ exists \subseteq Feeds
  /\ subscribing \subseteq exists
  /\ next_fetch_at \in [Feeds -> Nat]
  /\ fetch_count \in [Feeds -> Nat] /\ error_count \in [Feeds -> Nat]
  /\ meta \in [Feeds -> Versions] /\ remote \in [Feeds -> Versions]
  /\ item \in [Feeds -> [Guids -> Versions]]
  /\ task \in [Workers -> [Feeds -> Tasks]]
  /\ successes \in [Feeds -> Nat] /\ streak \in [Feeds -> Nat]
  /\ fetched_at \in [Feeds -> Nat]
  /\ excused \in [Feeds -> BOOLEAN] /\ requested \in [Feeds -> BOOLEAN]
  /\ passed \in [Feeds -> SUBSET Feeds]
  /\ \A w \in Workers, f \in Feeds : At(w, f, "none") \/ f \in exists

\* The counters are written from values read before the fetch, up to a whole
\* run earlier.  Nevertheless fetch_count is the number of successful polls
\* that were recorded, and error_count the number of failures since.
CountersExact ==
  \A f \in Feeds : fetch_count[f] = successes[f] /\ error_count[f] = streak[f]

\* What is stored of a feed is never replaced by an older version of the
\* document, although a run stores what it fetched some time ago.
NeverOlder ==
  [][\A f \in Feeds :
       /\ meta'[f] >= meta[f]
       /\ \A g \in Guids : item'[f][g] >= item[f][g]]_vars

\* A publisher is asked again only when an hour less the jitter has passed since
\* its last answer, unless somebody wants the feed or a poll was not recorded.
PolitePolling ==
  [][\A w \in Workers, f \in Feeds :
       (At(w, f, "none") /\ task'[w][f].pc = "queued") =>
         (excused[f] \/ clock >= fetched_at[f] + Pause - MaxJitter)]_vars

\* When more feeds are due than one run takes, nobody is passed over twice by
\* the same feed: one that was polled while another waited gets behind it.
PassedOnce ==
  [][\A w \in Workers, f \in Feeds :
       (f \in Due /\ NobodyRuns /\ task'[w][f].pc = "none") =>
         \A g \in passed[f] : task'[w][g].pc # "queued"]_vars

\* A feed that is due is polled, whatever else is due and whatever was lost.
DueIsPolled == \A f \in Feeds : (f \in Due) ~> (f \notin Due)

\* "also schedule all individual feeds to poll now so the batch job picks them
\* up": after the administrator's request a feed stays due until a fetch that
\* begins after it.  The code does not keep this: a poll in progress overwrites
\* the request when it completes.
RequestKept == \A f \in Feeds : requested[f] => f \in Due

=============================================================================
