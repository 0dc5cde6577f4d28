---------------------------- MODULE FeedPollProofs ----------------------------
(***************************************************************************)
(* Proofs about FeedPoll, for any feeds, items, workers and limit.         *)
(*                                                                         *)
(* PollInv is inductive.  All of it rests on OneRun: while a run works on  *)
(* a feed nobody else does, so that the counters it has read are still     *)
(* those of the row, and what it has fetched is the newest there is.       *)
(***************************************************************************)
EXTENDS FeedPoll, TLAPS

Busy(w, f) == ~At(w, f, "none")

\* Only one worker has feeds to work on.
OneRun ==
  \A w, v \in Workers, f, g \in Feeds : Busy(w, f) /\ Busy(v, g) => w = v

\* The counters of the rows are exact, and those a run has read are still theirs.
CountInv ==
  \A f \in Feeds :
    /\ fetch_count[f] = successes[f] /\ error_count[f] = streak[f]
    /\ \A w \in Workers : Busy(w, f) =>
         /\ task[w][f].fetch_count = fetch_count[f]
         /\ task[w][f].error_count = error_count[f]

\* Nothing that is stored of f is newer than version v.
OlderThan(f, v) == meta[f] <= v /\ \A g \in Guids : item[f][g] <= v

ContentInv ==
  \A f \in Feeds :
    /\ OlderThan(f, remote[f])
    /\ \A w \in Workers : task[w][f].pc \in {"meta", "items"} =>
         task[w][f].doc <= remote[f] /\ OlderThan(f, task[w][f].doc)

\* A feed is due only a pause after its last answer, unless it is excused; and it
\* is excused for as long as a run works on it.
PauseInv ==
  \A f \in Feeds :
    /\ fetched_at[f] <= clock
    /\ f \notin exists => excused[f]
    /\ ~excused[f] => next_fetch_at[f] >= fetched_at[f] + Pause - MaxJitter
    /\ \A w \in Workers : task[w][f].pc \in InPool => excused[f]

\* Who was recorded while f waited is due later than f.
PassedInv ==
  \A f, g \in Feeds : g \in passed[f] =>
    f \in exists /\ next_fetch_at[f] < clock /\ next_fetch_at[f] < next_fetch_at[g]

PollInv == TypeOK /\ OneRun /\ CountInv /\ ContentInv /\ PauseInv /\ PassedInv

-----------------------------------------------------------------------------
(***************************************************************************)
(* What a step on one feed does to `task'.                                 *)
(***************************************************************************)
Goes(w, f, t) ==
  /\ task' \in [Workers -> [Feeds -> Tasks]]
  /\ task'[w][f] = t
  /\ \A v \in Workers, g \in Feeds : v # w \/ g # f => task'[v][g] = task[v][g]

LEMMA GoToGoes ==
  ASSUME TypeOK, NEW w \in Workers, NEW f \in Feeds, NEW t \in Tasks, GoTo(w, f, t)
  PROVE  Goes(w, f, t)
BY DEF TypeOK, GoTo, Goes

LEMMA TasksType ==
  ASSUME NEW pc \in InPool \cup {"none", "queued"}, NEW n \in Nat, NEW e \in Nat,
         NEW d \in Versions, NEW l \in SUBSET Guids
  PROVE  /\ Task(pc, n, e, d, l) \in Tasks
         /\ Task(pc, n, e, d, l).pc = pc
         /\ Task(pc, n, e, d, l).fetch_count = n
         /\ Task(pc, n, e, d, l).error_count = e
         /\ Task(pc, n, e, d, l).doc = d
         /\ Task(pc, n, e, d, l).left = l
BY DEF Task, Tasks

LEMMA ZeroIsVersion == 0 \in Versions /\ Versions \subseteq Nat
BY FeedPollAssumption DEF Versions

LEMMA NoTaskType == NoTask \in Tasks /\ NoTask.pc = "none"
BY ZeroIsVersion DEF NoTask, Task, Tasks

\* What a worker holds of a feed is a task.
LEMMA TaskType ==
  ASSUME TypeOK, NEW w \in Workers, NEW f \in Feeds
  PROVE  /\ task[w][f] \in Tasks
         /\ task[w][f].pc \in InPool \cup {"none", "queued"}
         /\ task[w][f].fetch_count \in Nat /\ task[w][f].error_count \in Nat
         /\ task[w][f].doc \in Versions /\ task[w][f].left \subseteq Guids
         /\ Busy(w, f) => f \in exists
BY DEF TypeOK, Tasks, Busy

\* The feed that is worked on stays busy or becomes free; the others are as busy
\* as before.
LEMMA OneRunKept ==
  ASSUME OneRun, NEW w \in Workers, NEW f \in Feeds, NEW t, Busy(w, f), Goes(w, f, t)
  PROVE  OneRun'
BY DEF OneRun, Busy, At, Goes

-----------------------------------------------------------------------------
LEMMA PollInit == Init => PollInv
<1> SUFFICES ASSUME Init PROVE PollInv
  OBVIOUS
<1>1. 0 \in Versions /\ 1 \in Versions
  BY FeedPollAssumption DEF Versions
<1>2. TypeOK
  BY <1>1, NoTaskType, FeedPollAssumption DEF Init, TypeOK, At
<1>3. \A w \in Workers, f \in Feeds : task[w][f].pc = "none"
  BY NoTaskType DEF Init
<1>4. OneRun
  BY <1>3 DEF OneRun, Busy, At
<1>5. CountInv
  BY <1>3 DEF CountInv, Busy, At, Init
<1>6. ContentInv
  BY <1>3 DEF ContentInv, OlderThan, Init
<1>7. PauseInv
  BY <1>3 DEF PauseInv, InPool, Init
<1>8. PassedInv
  BY DEF PassedInv, Init
<1> QED BY <1>2, <1>4, <1>5, <1>6, <1>7, <1>8 DEF PollInv

LEMMA KeptByTimePasses == ASSUME PollInv, TimePasses PROVE PollInv'
<1>1. /\ clock \in Nat /\ clock' = clock + 1
      /\ UNCHANGED <<row, content, env, task, faults, history>>
  BY DEF PollInv, TypeOK, TimePasses
<1>2. TypeOK'
  BY <1>1 DEF PollInv, TypeOK, row, content, env, history, At
<1>3. OneRun' /\ CountInv' /\ ContentInv'
  BY <1>1 DEF PollInv, OneRun, CountInv, ContentInv, OlderThan, Busy, At, row, content, env, history
<1>4. PauseInv'
  <2>1. \A f \in Feeds : fetched_at[f] \in Nat
    BY DEF PollInv, TypeOK
  <2> QED BY <1>1, <2>1 DEF PollInv, PauseInv, row, history
<1>5. PassedInv'
  <2>1. \A f \in Feeds : next_fetch_at[f] \in Nat
    BY DEF PollInv, TypeOK
  <2> QED BY <1>1, <2>1 DEF PollInv, PassedInv, row, history
<1> QED BY <1>2, <1>3, <1>4, <1>5 DEF PollInv

\* Every feed of the list is in exists.
LEMMA ListedExist == ASSUME NEW S \in FirstDue PROVE S \subseteq Due /\ S \subseteq exists
BY DEF FirstDue, Due

LEMMA KeptByListDue == ASSUME PollInv, NEW w \in Workers, ListDue(w) PROVE PollInv'
<1>1. PICK S \in FirstDue : Listed(w, S)
  BY DEF ListDue
<1>2. UNCHANGED <<clock, row, content, env, faults, history>>
  BY <1>1 DEF Listed
<1> DEFINE T(f) == IF f \in S THEN Task("queued", fetch_count[f], error_count[f], 0, {})
                   ELSE task[w][f]
<1>3. /\ task' \in [Workers -> [Feeds -> Tasks]]
      /\ \A f \in Feeds : task'[w][f] = T(f)
      /\ \A v \in Workers, f \in Feeds : v # w => task'[v][f] = task[v][f]
  <2>1. \A f \in Feeds : T(f) \in Tasks
    BY ZeroIsVersion DEF PollInv, TypeOK, Task, Tasks
  <2>2. task' = [task EXCEPT ![w] = [f \in Feeds |-> T(f)]]
    BY <1>1 DEF Listed
  <2> HIDE DEF T
  <2> QED BY <2>1, <2>2 DEF PollInv, TypeOK
<1>4. \A v \in Workers, f \in Feeds : task[v][f].pc = "none"
  BY DEF ListDue, NobodyRuns, At
<1>5. \A v \in Workers, f \in Feeds :
        \/ /\ v = w /\ f \in S /\ task'[v][f].pc = "queued"
           /\ task'[v][f].fetch_count = fetch_count[f]
           /\ task'[v][f].error_count = error_count[f]
        \/ task'[v][f].pc = "none"
  <2>1. \A f \in Feeds : f \in S =>
          T(f).pc = "queued" /\ T(f).fetch_count = fetch_count[f]
                            /\ T(f).error_count = error_count[f]
    BY DEF Task
  <2>2. \A f \in Feeds : f \notin S => T(f) = task[w][f]
    OBVIOUS
  <2> HIDE DEF T
  <2> QED BY <1>3, <1>4, <2>1, <2>2
<1> HIDE DEF T
<1>6. TypeOK'
  <2>1. \A v \in Workers, f \in Feeds : At(v, f, "none")' \/ f \in exists
    BY <1>5, ListedExist DEF At
  <2> QED BY <1>2, <1>3, <2>1 DEF PollInv, TypeOK, row, content, env, history, At
<1>7. OneRun'
  BY <1>5 DEF OneRun, Busy, At
<1>8. CountInv'
  BY <1>2, <1>5 DEF PollInv, CountInv, Busy, At, row, history
<1>9. \A v \in Workers, f \in Feeds : task'[v][f].pc \in {"none", "queued"}
  BY <1>5
<1>10. ContentInv'
  BY <1>2, <1>9 DEF PollInv, ContentInv, OlderThan, content, env
<1>11. PauseInv'
  BY <1>2, <1>9 DEF PollInv, PauseInv, InPool, row, history
<1>12. PassedInv'
  BY <1>2 DEF PollInv, PassedInv, row, history
<1> QED BY <1>6, <1>7, <1>8, <1>10, <1>11, <1>12 DEF PollInv

-----------------------------------------------------------------------------
(***************************************************************************)
(* The steps of a worker on one feed.                                      *)
(***************************************************************************)
\* The conjuncts of TypeOK about `task' after such a step.
LEMMA TasksKept ==
  ASSUME TypeOK, NEW w \in Workers, NEW f \in Feeds, NEW t, Busy(w, f), Goes(w, f, t),
         exists' = exists
  PROVE  /\ task' \in [Workers -> [Feeds -> Tasks]]
         /\ \A v \in Workers, g \in Feeds : At(v, g, "none")' \/ g \in exists'
BY DEF TypeOK, Goes, Busy, At

\* A step that keeps the counters it has read, and writes none.
LEMMA CountKept ==
  ASSUME CountInv, NEW w \in Workers, NEW f \in Feeds, NEW t, Busy(w, f), Goes(w, f, t),
         t.fetch_count = task[w][f].fetch_count, t.error_count = task[w][f].error_count,
         UNCHANGED <<fetch_count, error_count, successes, streak>>
  PROVE  CountInv'
BY DEF CountInv, Goes, Busy, At

\* A step that ends the work on a feed, and writes no counters.
LEMMA CountKeptAtEnd ==
  ASSUME CountInv, NEW w \in Workers, NEW f \in Feeds, NEW t, t.pc = "none", Goes(w, f, t),
         UNCHANGED <<fetch_count, error_count, successes, streak>>
  PROVE  CountInv'
BY DEF CountInv, Goes, Busy, At

\* A step that does not begin to store the document, and stores nothing.
LEMMA ContentKept ==
  ASSUME ContentInv, NEW w \in Workers, NEW f \in Feeds, NEW t, Goes(w, f, t),
         t.pc \notin {"meta", "items"}, UNCHANGED <<meta, item, remote>>
  PROVE  ContentInv'
BY DEF ContentInv, OlderThan, Goes

\* A step on a feed that is excused, and stays so.
LEMMA PauseKept ==
  ASSUME PauseInv, NEW w \in Workers, NEW f \in Feeds, NEW t, Goes(w, f, t),
         t.pc \in InPool => excused[f],
         UNCHANGED <<clock, exists, next_fetch_at, fetched_at, excused>>
  PROVE  PauseInv'
BY DEF PauseInv, Goes

LEMMA PassedKept ==
  ASSUME PassedInv, UNCHANGED <<clock, exists, next_fetch_at, passed>>
  PROVE  PassedInv'
BY DEF PassedInv

\* Nobody else works on the feed.
LEMMA OnlyOne ==
  ASSUME OneRun, NEW w \in Workers, NEW f \in Feeds, NEW t, Busy(w, f), Goes(w, f, t)
  PROVE  \A v \in Workers : v # w => task[v][f].pc = "none" /\ task'[v][f].pc = "none"
BY DEF OneRun, Busy, At, Goes

LEMMA KeptByStartFetch ==
  ASSUME PollInv, NEW w \in Workers, NEW f \in Feeds, StartFetch(w, f) PROVE PollInv'
<1> DEFINE t == Task("fetching", task[w][f].fetch_count, task[w][f].error_count, 0, {})
<1>1. /\ t \in Tasks /\ t.pc = "fetching"
      /\ t.fetch_count = task[w][f].fetch_count /\ t.error_count = task[w][f].error_count
  BY TaskType, TasksType, ZeroIsVersion DEF PollInv, InPool
<1>2. /\ UNCHANGED <<clock, exists, next_fetch_at, fetch_count, error_count, meta, item,
                     remote, subscribing, asks, faults, successes, streak, fetched_at, passed>>
      /\ requested' = [requested EXCEPT ![f] = FALSE]
      /\ excused' = [excused EXCEPT ![f] = TRUE]
  BY DEF StartFetch, row, content, env
<1>3. Busy(w, f)
  BY DEF StartFetch, Busy, At
<1>4. Goes(w, f, t)
  BY <1>1, GoToGoes DEF PollInv, StartFetch
<1> HIDE DEF t
<1>5. TypeOK'
  <2>1. excused' \in [Feeds -> BOOLEAN] /\ requested' \in [Feeds -> BOOLEAN]
    BY <1>2 DEF PollInv, TypeOK
  <2> QED BY <1>2, <1>3, <1>4, <2>1, TasksKept DEF PollInv, TypeOK
<1>6. OneRun'
  BY <1>3, <1>4, OneRunKept DEF PollInv
<1>7. CountInv'
  BY <1>1, <1>2, <1>3, <1>4, CountKept DEF PollInv
<1>8. ContentInv'
  BY <1>1, <1>2, <1>4, ContentKept DEF PollInv
<1>9. PauseInv'
  <2>1. excused'[f] /\ \A g \in Feeds \ {f} : excused'[g] = excused[g]
    BY <1>2 DEF PollInv, TypeOK
  <2> QED BY <1>2, <1>4, <2>1 DEF PollInv, PauseInv, Goes
<1>10. PassedInv'
  BY <1>2, PassedKept DEF PollInv
<1> QED BY <1>5, <1>6, <1>7, <1>8, <1>9, <1>10 DEF PollInv

\* The answer of the publisher, whichever it is.
LEMMA KeptByAnswer ==
  ASSUME PollInv, NEW w \in Workers, NEW f \in Feeds, NEW t \in Tasks,
         At(w, f, "fetching"), Answered(f), GoTo(w, f, t),
         t.fetch_count = task[w][f].fetch_count, t.error_count = task[w][f].error_count,
         t.pc \in InPool, t.pc \in {"meta", "items"} => t.doc = remote[f]
  PROVE  PollInv'
<1>1. /\ UNCHANGED <<clock, exists, next_fetch_at, fetch_count, error_count, meta, item,
                     remote, subscribing, asks, faults, successes, streak, excused,
                     requested, passed>>
      /\ fetched_at' = [fetched_at EXCEPT ![f] = clock]
  BY DEF Answered, row, content, env
<1>2. Busy(w, f)
  BY DEF Busy, At
<1>3. Goes(w, f, t)
  BY GoToGoes DEF PollInv
<1>4. TypeOK'
  BY <1>1, <1>2, <1>3, TasksKept DEF PollInv, TypeOK
<1>5. OneRun'
  BY <1>2, <1>3, OneRunKept DEF PollInv
<1>6. CountInv'
  BY <1>1, <1>2, <1>3, CountKept DEF PollInv
<1>7. ContentInv'
  <2>1. remote[f] <= remote[f]
    <3>1. remote[f] \in Nat
      BY ZeroIsVersion DEF PollInv, TypeOK
    <3> QED BY <3>1
  <2> QED BY <1>1, <1>3, <2>1 DEF PollInv, ContentInv, OlderThan, Goes
<1>8. PauseInv'
  <2>1. excused[f]
    <3>1. task[w][f].pc \in InPool
      BY DEF At, InPool
    <3> QED BY <3>1, Zenon DEF PollInv, PauseInv
  <2>2. fetched_at'[f] = clock /\ clock <= clock
        /\ \A g \in Feeds \ {f} : fetched_at'[g] = fetched_at[g]
    BY <1>1 DEF PollInv, TypeOK
  <2> QED BY <1>1, <1>3, <2>1, <2>2 DEF PollInv, PauseInv, Goes
<1>9. PassedInv'
  BY <1>1, PassedKept DEF PollInv
<1> QED BY <1>4, <1>5, <1>6, <1>7, <1>8, <1>9 DEF PollInv

LEMMA KeptByFetchSucceeds ==
  ASSUME PollInv, NEW w \in Workers, NEW f \in Feeds, FetchSucceeds(w, f) PROVE PollInv'
<1> DEFINE t == Task("meta", task[w][f].fetch_count, task[w][f].error_count, remote[f], Guids)
<1>1. /\ t \in Tasks /\ t.pc = "meta" /\ t.doc = remote[f]
      /\ t.fetch_count = task[w][f].fetch_count /\ t.error_count = task[w][f].error_count
  <2>1. remote[f] \in Versions
    BY DEF PollInv, TypeOK
  <2> QED BY <2>1, TaskType, TasksType DEF PollInv, InPool
<1>2. At(w, f, "fetching") /\ Answered(f) /\ GoTo(w, f, t)
  BY DEF FetchSucceeds
<1> HIDE DEF t
<1>3. t.pc \in InPool
  BY <1>1 DEF InPool
<1> QED BY <1>1, <1>2, <1>3, KeptByAnswer

LEMMA KeptByFetchFails ==
  ASSUME PollInv, NEW w \in Workers, NEW f \in Feeds, FetchFails(w, f) PROVE PollInv'
<1> DEFINE t == Task("failed", task[w][f].fetch_count, task[w][f].error_count, 0, {})
<1>1. /\ t \in Tasks /\ t.pc = "failed"
      /\ t.fetch_count = task[w][f].fetch_count /\ t.error_count = task[w][f].error_count
  BY TaskType, TasksType, ZeroIsVersion DEF PollInv, InPool
<1>2. At(w, f, "fetching") /\ Answered(f) /\ GoTo(w, f, t)
  BY DEF FetchFails
<1> HIDE DEF t
<1>3. t.pc \in InPool
  BY <1>1 DEF InPool
<1> QED BY <1>1, <1>2, <1>3, KeptByAnswer

LEMMA KeptByUpdateFeedMeta ==
  ASSUME PollInv, NEW w \in Workers, NEW f \in Feeds, UpdateFeedMeta(w, f) PROVE PollInv'
<1> DEFINE t == [task[w][f] EXCEPT !.pc = "items"]
<1>1. /\ t \in Tasks /\ t.pc = "items" /\ t.doc = task[w][f].doc
      /\ t.fetch_count = task[w][f].fetch_count /\ t.error_count = task[w][f].error_count
  BY TaskType DEF PollInv, Tasks, InPool
<1>2. UNCHANGED <<clock, exists, next_fetch_at, fetch_count, error_count, item, remote,
                  subscribing, asks, successes, streak, fetched_at, excused, requested,
                  passed>>
  BY DEF UpdateFeedMeta, row, env, history
<1>3. /\ meta' = [meta EXCEPT ![f] = task[w][f].doc] \/ meta' = meta
      /\ faults' \in 0 .. MaxFaults
  BY FeedPollAssumption DEF PollInv, TypeOK, UpdateFeedMeta, Fault
<1>4. At(w, f, "meta") /\ Busy(w, f)
  BY DEF UpdateFeedMeta, At, Busy
<1>5. Goes(w, f, t)
  BY <1>1, GoToGoes DEF PollInv, UpdateFeedMeta
<1> HIDE DEF t
<1>6. TypeOK'
  <2>1. meta' \in [Feeds -> Versions]
    BY <1>3, TaskType DEF PollInv, TypeOK
  <2> QED BY <1>2, <1>3, <1>4, <1>5, <2>1, TasksKept DEF PollInv, TypeOK
<1>7. OneRun'
  BY <1>4, <1>5, OneRunKept DEF PollInv
<1>8. CountInv'
  BY <1>1, <1>2, <1>4, <1>5, CountKept DEF PollInv
<1>9. ContentInv'
  <2>1. task[w][f].doc <= remote[f] /\ OlderThan(f, task[w][f].doc)
    BY <1>4 DEF PollInv, ContentInv, At
  <2>2. task[w][f].doc \in Nat
    BY TaskType, ZeroIsVersion DEF PollInv
  <2>3. /\ meta'[f] <= task[w][f].doc /\ meta'[f] <= remote[f]
        /\ \A g \in Feeds \ {f} : meta'[g] = meta[g]
    <3>1. meta'[f] = task[w][f].doc \/ meta'[f] = meta[f]
      BY <1>3 DEF PollInv, TypeOK
    <3>2. meta[f] <= remote[f]
      BY DEF PollInv, ContentInv, OlderThan
    <3>3. \A g \in Feeds \ {f} : meta'[g] = meta[g]
      BY <1>3 DEF PollInv, TypeOK
    <3> QED BY <2>1, <2>2, <3>1, <3>2, <3>3 DEF OlderThan
  <2>4. ASSUME NEW v \in Workers, NEW h \in Feeds, task'[v][h].pc \in {"meta", "items"}
        PROVE  task'[v][h].doc <= remote[h] /\ OlderThan(h, task[v][h].doc)'
    <3>1. CASE h = f
      <4>1. v = w
        BY <1>4, <1>5, <2>4, <3>1, OnlyOne DEF PollInv
      <4>2. task'[v][h].doc = task[w][f].doc
        BY <1>1, <1>5, <3>1, <4>1 DEF Goes
      <4> QED BY <1>2, <2>1, <2>3, <3>1, <4>2 DEF OlderThan
    <3>2. CASE h # f
      BY <1>2, <1>5, <2>3, <2>4, <3>2 DEF PollInv, ContentInv, OlderThan, Goes
    <3> QED BY <3>1, <3>2
  <2> QED BY <1>2, <2>3, <2>4 DEF PollInv, ContentInv, OlderThan
<1>10. PauseInv'
  <2>1. t.pc \in InPool => excused[f]
    <3>1. task[w][f].pc \in InPool
      BY <1>4 DEF At, InPool
    <3> QED BY <3>1, Zenon DEF PollInv, PauseInv
  <2> QED BY <1>2, <1>5, <2>1, PauseKept DEF PollInv
<1>11. PassedInv'
  BY <1>2, PassedKept DEF PollInv
<1> QED BY <1>6, <1>7, <1>8, <1>9, <1>10, <1>11 DEF PollInv

LEMMA KeptByUpsertFeedItem ==
  ASSUME PollInv, NEW w \in Workers, NEW f \in Feeds, NEW g \in Guids, UpsertFeedItem(w, f, g)
  PROVE  PollInv'
<1> DEFINE t == [task[w][f] EXCEPT !.left = @ \ {g}]
<1>1. /\ t \in Tasks /\ t.pc = task[w][f].pc /\ t.doc = task[w][f].doc
      /\ t.fetch_count = task[w][f].fetch_count /\ t.error_count = task[w][f].error_count
  BY TaskType DEF PollInv, Tasks
<1>2. UNCHANGED <<clock, exists, next_fetch_at, fetch_count, error_count, meta, remote,
                  subscribing, asks, successes, streak, fetched_at, excused, requested,
                  passed>>
  BY DEF UpsertFeedItem, row, env, history
<1>3. /\ item' = [item EXCEPT ![f][g] = task[w][f].doc] \/ item' = item
      /\ faults' \in 0 .. MaxFaults
  BY FeedPollAssumption DEF PollInv, TypeOK, UpsertFeedItem, Fault
<1>4. At(w, f, "items") /\ Busy(w, f)
  BY DEF UpsertFeedItem, At, Busy
<1>5. Goes(w, f, t)
  BY <1>1, GoToGoes DEF PollInv, UpsertFeedItem
<1> HIDE DEF t
<1>6. TypeOK'
  <2>1. item' \in [Feeds -> [Guids -> Versions]]
    <3> DEFINE stored == [item[f] EXCEPT ![g] = task[w][f].doc]
    <3>1. item \in [Feeds -> [Guids -> Versions]] /\ task[w][f].doc \in Versions
      BY TaskType DEF PollInv, TypeOK
    <3>2. stored \in [Guids -> Versions]
      BY <3>1
    <3>3. item' = [item EXCEPT ![f] = stored] \/ item' = item
      BY <1>3
    <3> HIDE DEF stored
    <3> QED BY <3>1, <3>2, <3>3
  <2> QED BY <1>2, <1>3, <1>4, <1>5, <2>1, TasksKept DEF PollInv, TypeOK
<1>7. OneRun'
  BY <1>4, <1>5, OneRunKept DEF PollInv
<1>8. CountInv'
  BY <1>1, <1>2, <1>4, <1>5, CountKept DEF PollInv
<1>9. ContentInv'
  <2>1. task[w][f].doc <= remote[f] /\ OlderThan(f, task[w][f].doc)
    BY <1>4 DEF PollInv, ContentInv, At
  <2>2. task[w][f].doc \in Nat
    BY TaskType, ZeroIsVersion DEF PollInv
  <2>3. \A i \in Guids : item'[f][i] <= task[w][f].doc /\ item'[f][i] <= remote[f]
    <3>1. \A i \in Guids : item'[f][i] = task[w][f].doc \/ item'[f][i] = item[f][i]
      BY <1>3 DEF PollInv, TypeOK
    <3>2. \A i \in Guids : item[f][i] <= remote[f]
      BY DEF PollInv, ContentInv, OlderThan
    <3> QED BY <2>1, <2>2, <3>1, <3>2 DEF OlderThan
  <2>4. \A h \in Feeds \ {f} : item'[h] = item[h]
    BY <1>3 DEF PollInv, TypeOK
  <2>5. ASSUME NEW v \in Workers, NEW h \in Feeds, task'[v][h].pc \in {"meta", "items"}
        PROVE  task'[v][h].doc <= remote[h] /\ OlderThan(h, task[v][h].doc)'
    <3>1. CASE h = f
      <4>1. v = w
        BY <1>4, <1>5, <2>5, <3>1, OnlyOne DEF PollInv
      <4>2. task'[v][h].doc = task[w][f].doc
        BY <1>1, <1>5, <3>1, <4>1 DEF Goes
      <4> QED BY <1>2, <2>1, <2>3, <3>1, <4>2 DEF OlderThan
    <3>2. CASE h # f
      BY <1>2, <1>5, <2>4, <2>5, <3>2 DEF PollInv, ContentInv, OlderThan, Goes
    <3> QED BY <3>1, <3>2
  <2> QED BY <1>2, <2>3, <2>4, <2>5 DEF PollInv, ContentInv, OlderThan
<1>10. PauseInv'
  <2>1. t.pc \in InPool => excused[f]
    BY <1>1, Zenon DEF PollInv, PauseInv
  <2> QED BY <1>2, <1>5, <2>1, PauseKept DEF PollInv
<1>11. PassedInv'
  BY <1>2, PassedKept DEF PollInv
<1> QED BY <1>6, <1>7, <1>8, <1>9, <1>10, <1>11 DEF PollInv

\* What CompleteFeedPollJob writes keeps everything, when the counters are those
\* of the history.
LEMMA KeptByComplete ==
  ASSUME PollInv, NEW w \in Workers, NEW f \in Feeds, NEW n \in Nat, NEW e \in Nat,
         Busy(w, f), Complete(w, f, n, e), successes' \in [Feeds -> Nat],
         streak' \in [Feeds -> Nat], successes'[f] = n, streak'[f] = e,
         \A g \in Feeds \ {f} : successes'[g] = successes[g] /\ streak'[g] = streak[g]
  PROVE  PollInv'
<1>1. PICK jitter \in -MaxJitter .. MaxJitter - 1 :
        next_fetch_at' = [next_fetch_at EXCEPT ![f] = clock + Pause + jitter]
  BY DEF Complete
<1>2. /\ UNCHANGED <<clock, exists, meta, item, remote, subscribing, asks, faults,
                     fetched_at, requested>>
      /\ fetch_count' = [fetch_count EXCEPT ![f] = n]
      /\ error_count' = [error_count EXCEPT ![f] = e]
      /\ excused' = [excused EXCEPT ![f] = FALSE]
      /\ passed' = [g \in Feeds |->
                      IF g = f THEN {}
                      ELSE IF g \in exists /\ next_fetch_at[g] < clock
                      THEN passed[g] \cup {f} ELSE passed[g]]
  BY DEF Complete, content, env
<1>3. Goes(w, f, NoTask) /\ NoTask.pc = "none"
  BY NoTaskType, GoToGoes DEF PollInv, Complete
<1>4. clock \in Nat /\ next_fetch_at \in [Feeds -> Nat] /\ fetched_at \in [Feeds -> Nat]
  BY DEF PollInv, TypeOK
<1>5. clock + Pause + jitter \in Nat /\ clock + Pause + jitter >= clock + Pause - MaxJitter
      /\ clock + Pause + jitter > clock
  BY <1>4, FeedPollAssumption
<1>6. /\ next_fetch_at'[f] = clock + Pause + jitter
      /\ \A g \in Feeds \ {f} : next_fetch_at'[g] = next_fetch_at[g]
      /\ next_fetch_at' \in [Feeds -> Nat]
  BY <1>1, <1>4, <1>5
<1>7. TypeOK'
  <2>1. excused' \in [Feeds -> BOOLEAN]
    BY <1>2 DEF PollInv, TypeOK
  <2>2. passed' \in [Feeds -> SUBSET Feeds]
    BY <1>2 DEF PollInv, TypeOK
  <2>3. fetch_count' \in [Feeds -> Nat] /\ error_count' \in [Feeds -> Nat]
    BY <1>2 DEF PollInv, TypeOK
  <2> QED BY <1>2, <1>3, <1>6, <2>1, <2>2, <2>3, TasksKept DEF PollInv, TypeOK
<1>8. OneRun'
  BY <1>3, OneRunKept DEF PollInv
<1>9. CountInv'
  <2>1. /\ fetch_count'[f] = n /\ error_count'[f] = e
        /\ \A g \in Feeds \ {f} :
             fetch_count'[g] = fetch_count[g] /\ error_count'[g] = error_count[g]
    BY <1>2 DEF PollInv, TypeOK
  <2>2. \A v \in Workers : task'[v][f].pc = "none"
    BY <1>3, OnlyOne DEF PollInv, Goes
  <2>3. \A v \in Workers, g \in Feeds \ {f} : task'[v][g] = task[v][g]
    BY <1>3 DEF Goes
  <2> QED BY <2>1, <2>2, <2>3 DEF PollInv, CountInv, Busy, At
<1>10. ContentInv'
  BY <1>2, <1>3, ContentKept DEF PollInv
<1>11. PauseInv'
  <2>1. ~excused'[f] /\ \A g \in Feeds \ {f} : excused'[g] = excused[g]
    BY <1>2 DEF PollInv, TypeOK
  <2>2. \A v \in Workers : task'[v][f].pc \notin InPool
    BY <1>3, OnlyOne DEF PollInv, Goes, InPool
  <2>3. \A v \in Workers, g \in Feeds \ {f} : task'[v][g] = task[v][g]
    BY <1>3 DEF Goes
  <2>4. f \in exists
    BY TaskType DEF PollInv
  <2>5. fetched_at[f] <= clock
    BY DEF PollInv, PauseInv
  <2>6. next_fetch_at'[f] >= fetched_at[f] + Pause - MaxJitter
    BY <1>4, <1>5, <1>6, <2>5, FeedPollAssumption
  <2> QED BY <1>2, <1>6, <2>1, <2>2, <2>3, <2>4, <2>5, <2>6 DEF PollInv, PauseInv
<1>12. PassedInv'
  <2> SUFFICES ASSUME NEW g \in Feeds, NEW h \in Feeds, h \in passed'[g]
               PROVE  /\ g \in exists /\ next_fetch_at'[g] < clock
                      /\ next_fetch_at'[g] < next_fetch_at'[h]
    BY <1>2 DEF PassedInv
  <2>1. g # f /\ (h \in passed[g] \/ (h = f /\ g \in exists /\ next_fetch_at[g] < clock))
    BY <1>2
  <2>2. g \in exists /\ next_fetch_at[g] < clock /\ (h # f => next_fetch_at[g] < next_fetch_at[h])
    BY <2>1 DEF PollInv, PassedInv
  <2> QED BY <1>4, <1>5, <1>6, <2>1, <2>2
<1> QED BY <1>7, <1>8, <1>9, <1>10, <1>11, <1>12 DEF PollInv

LEMMA KeptByCompleteSucceeded ==
  ASSUME PollInv, NEW w \in Workers, NEW f \in Feeds, CompleteSucceeded(w, f) PROVE PollInv'
<1>1. Busy(w, f)
  BY DEF CompleteSucceeded, Stored, Busy, At
<1>2. /\ task[w][f].fetch_count = successes[f]
      /\ successes \in [Feeds -> Nat] /\ streak \in [Feeds -> Nat]
  BY <1>1 DEF PollInv, CountInv, TypeOK
<1>3. /\ successes' = [successes EXCEPT ![f] = @ + 1] /\ streak' = [streak EXCEPT ![f] = 0]
      /\ Complete(w, f, successes[f] + 1, 0)
  BY <1>2 DEF CompleteSucceeded
<1>4. successes[f] + 1 \in Nat /\ 0 \in Nat
  BY <1>2
<1>5. /\ successes' \in [Feeds -> Nat] /\ successes'[f] = successes[f] + 1
      /\ streak' \in [Feeds -> Nat] /\ streak'[f] = 0
      /\ \A g \in Feeds \ {f} : successes'[g] = successes[g] /\ streak'[g] = streak[g]
  BY <1>2, <1>3, <1>4
<1> QED BY <1>1, <1>3, <1>4, <1>5, KeptByComplete

LEMMA KeptByCompleteFailed ==
  ASSUME PollInv, NEW w \in Workers, NEW f \in Feeds, CompleteFailed(w, f) PROVE PollInv'
<1>1. Busy(w, f)
  BY DEF CompleteFailed, Busy, At
<1>2. /\ task[w][f].fetch_count = successes[f] /\ task[w][f].error_count = streak[f]
      /\ successes \in [Feeds -> Nat] /\ streak \in [Feeds -> Nat]
  BY <1>1 DEF PollInv, CountInv, TypeOK
<1>3. /\ successes' = successes /\ streak' = [streak EXCEPT ![f] = @ + 1]
      /\ Complete(w, f, successes[f], streak[f] + 1)
  BY <1>2 DEF CompleteFailed
<1>4. successes[f] \in Nat /\ streak[f] + 1 \in Nat
  BY <1>2
<1>5. /\ streak' \in [Feeds -> Nat] /\ streak'[f] = streak[f] + 1
      /\ \A g \in Feeds \ {f} : streak'[g] = streak[g]
  BY <1>2, <1>3, <1>4
<1> QED BY <1>1, <1>2, <1>3, <1>4, <1>5, KeptByComplete

\* Work that ends without a word.
LEMMA KeptByCompleteLost ==
  ASSUME PollInv, NEW w \in Workers, NEW f \in Feeds, CompleteLost(w, f) PROVE PollInv'
<1>1. /\ UNCHANGED <<clock, row, content, env, history>>
      /\ faults' \in 0 .. MaxFaults
  BY FeedPollAssumption DEF PollInv, TypeOK, CompleteLost, Fault
<1>2. Busy(w, f)
  BY DEF CompleteLost, Stored, Busy, At
<1>3. Goes(w, f, NoTask) /\ NoTask.pc = "none"
  BY NoTaskType, GoToGoes DEF PollInv, CompleteLost
<1>4. TypeOK'
  BY <1>1, <1>2, <1>3, TasksKept DEF PollInv, TypeOK, row, content, env, history
<1>5. OneRun'
  BY <1>2, <1>3, OneRunKept DEF PollInv
<1>6. CountInv'
  BY <1>1, <1>3, CountKeptAtEnd DEF PollInv, row, history
<1>7. ContentInv'
  BY <1>1, <1>3, ContentKept DEF PollInv, content, env
<1>8. PauseInv'
  BY <1>1, <1>3, PauseKept DEF PollInv, InPool, row, history
<1>9. PassedInv'
  BY <1>1, PassedKept DEF PollInv, row, history
<1> QED BY <1>4, <1>5, <1>6, <1>7, <1>8, <1>9 DEF PollInv

LEMMA KeptByCrash == ASSUME PollInv, NEW w \in Workers, Crash(w) PROVE PollInv'
<1>1. /\ UNCHANGED <<clock, row, content, env, history>>
      /\ faults' \in 0 .. MaxFaults
  BY FeedPollAssumption DEF PollInv, TypeOK, Crash, Fault
<1>2. /\ task' \in [Workers -> [Feeds -> Tasks]]
      /\ \A v \in Workers, f \in Feeds : task'[v][f].pc = "none" \/ task'[v][f] = task[v][f]
  BY NoTaskType DEF PollInv, TypeOK, Crash
<1>3. TypeOK'
  BY <1>1, <1>2 DEF PollInv, TypeOK, At, row, content, env, history
<1>4. OneRun'
  BY <1>2 DEF PollInv, OneRun, Busy, At
<1>5. CountInv'
  BY <1>1, <1>2 DEF PollInv, CountInv, Busy, At, row, history
<1>6. ContentInv'
  BY <1>1, <1>2 DEF PollInv, ContentInv, OlderThan, content, env
<1>7. PauseInv'
  BY <1>1, <1>2 DEF PollInv, PauseInv, InPool, row, history
<1>8. PassedInv'
  BY <1>1, PassedKept DEF PollInv, row, history
<1> QED BY <1>3, <1>4, <1>5, <1>6, <1>7, <1>8 DEF PollInv

-----------------------------------------------------------------------------
(***************************************************************************)
(* The others.                                                             *)
(***************************************************************************)
\* Whoever does not touch a task, the counters or the content keeps what is
\* said of them.
LEMMA KeptByOthers ==
  ASSUME PollInv,
         UNCHANGED <<task, fetch_count, error_count, successes, streak, content, remote>>
  PROVE  OneRun' /\ CountInv' /\ ContentInv'
BY DEF PollInv, OneRun, CountInv, ContentInv, OlderThan, Busy, At, content

LEMMA KeptByUpsertFeed == ASSUME PollInv, NEW f \in Feeds, UpsertFeed(f) PROVE PollInv'
<1>1. /\ UNCHANGED <<clock, fetch_count, error_count, meta, item, remote, task, faults,
                     successes, streak, fetched_at, excused, requested, passed>>
      /\ exists' = exists \cup {f} /\ subscribing' = subscribing \cup {f}
      /\ asks' \in 0 .. MaxAsks
  BY FeedPollAssumption DEF PollInv, TypeOK, UpsertFeed, Ask, content, history
<1>2. clock \in Nat /\ next_fetch_at \in [Feeds -> Nat]
  BY DEF PollInv, TypeOK
<1>3. /\ next_fetch_at' \in [Feeds -> Nat]
      /\ \A g \in Feeds : \/ next_fetch_at'[g] = next_fetch_at[g]
                          \/ g = f /\ f \notin exists /\ next_fetch_at'[g] = clock
  <2>1. CASE f \in exists
    BY <1>2, <2>1 DEF UpsertFeed
  <2>2. CASE f \notin exists
    <3>1. next_fetch_at' = [next_fetch_at EXCEPT ![f] = clock]
      BY <2>2 DEF UpsertFeed
    <3> QED BY <1>2, <2>2, <3>1
  <2> QED BY <2>1, <2>2
<1>4. TypeOK'
  BY <1>1, <1>3 DEF PollInv, TypeOK, At
<1>5. OneRun' /\ CountInv' /\ ContentInv'
  BY <1>1, KeptByOthers DEF content
<1>6. PauseInv'
  BY <1>1, <1>3 DEF PollInv, PauseInv
<1>7. PassedInv'
  <2> SUFFICES ASSUME NEW g \in Feeds, NEW h \in Feeds, h \in passed[g]
               PROVE  /\ g \in exists' /\ next_fetch_at'[g] < clock
                      /\ next_fetch_at'[g] < next_fetch_at'[h]
    BY <1>1 DEF PassedInv
  <2>1. g \in exists /\ next_fetch_at[g] < clock /\ next_fetch_at[g] < next_fetch_at[h]
    BY DEF PollInv, PassedInv
  <2> QED BY <1>1, <1>2, <1>3, <2>1
<1> QED BY <1>4, <1>5, <1>6, <1>7 DEF PollInv

LEMMA KeptByEnqueueFeedPollJob ==
  ASSUME PollInv, NEW f \in Feeds, EnqueueFeedPollJob(f) PROVE PollInv'
<1>1. /\ UNCHANGED <<clock, exists, fetch_count, error_count, meta, item, remote, asks, task,
                     faults, successes, streak, fetched_at, requested>>
      /\ subscribing' = subscribing \ {f}
      /\ next_fetch_at' = [next_fetch_at EXCEPT ![f] = clock]
      /\ excused' = [excused EXCEPT ![f] = TRUE]
      /\ passed' = [passed EXCEPT ![f] = {}]
  BY DEF EnqueueFeedPollJob, content
<1>2. clock \in Nat /\ next_fetch_at \in [Feeds -> Nat]
  BY DEF PollInv, TypeOK
<1>3. TypeOK'
  <2>1. /\ next_fetch_at' \in [Feeds -> Nat] /\ passed' \in [Feeds -> SUBSET Feeds]
        /\ subscribing' \subseteq exists
    BY <1>1, <1>2 DEF PollInv, TypeOK
  <2>2. excused' \in [Feeds -> BOOLEAN]
    BY <1>1 DEF PollInv, TypeOK
  <2> QED BY <1>1, <2>1, <2>2 DEF PollInv, TypeOK, At
<1>4. OneRun' /\ CountInv' /\ ContentInv'
  BY <1>1, KeptByOthers DEF content
<1>5. PauseInv'
  <2>1. excused'[f] /\ \A g \in Feeds \ {f} : excused'[g] = excused[g]
    BY <1>1 DEF PollInv, TypeOK
  <2>2. \A g \in Feeds \ {f} : next_fetch_at'[g] = next_fetch_at[g]
    BY <1>1, <1>2
  <2> QED BY <1>1, <2>1, <2>2 DEF PollInv, PauseInv
<1>6. PassedInv'
  <2> SUFFICES ASSUME NEW g \in Feeds, NEW h \in Feeds, h \in passed'[g]
               PROVE  /\ g \in exists' /\ next_fetch_at'[g] < clock
                      /\ next_fetch_at'[g] < next_fetch_at'[h]
    BY <1>1 DEF PassedInv
  <2>1. g # f /\ h \in passed[g]
    BY <1>1 DEF PollInv, TypeOK
  <2>2. g \in exists /\ next_fetch_at[g] < clock /\ next_fetch_at[g] < next_fetch_at[h]
    BY <2>1 DEF PollInv, PassedInv
  <2> QED BY <1>1, <1>2, <2>1, <2>2
<1> QED BY <1>3, <1>4, <1>5, <1>6 DEF PollInv

LEMMA KeptBySubscribeFails ==
  ASSUME PollInv, NEW f \in Feeds, SubscribeFails(f) PROVE PollInv'
<1>1. /\ UNCHANGED <<clock, row, content, remote, asks, task, history>>
      /\ subscribing' = subscribing \ {f} /\ faults' \in 0 .. MaxFaults
  BY FeedPollAssumption DEF PollInv, TypeOK, SubscribeFails, Fault
<1>2. TypeOK'
  BY <1>1 DEF PollInv, TypeOK, At, row, content, history
<1>3. OneRun' /\ CountInv' /\ ContentInv'
  BY <1>1, KeptByOthers DEF row, history
<1>4. PauseInv' /\ PassedInv'
  BY <1>1, PassedKept DEF PollInv, PauseInv, row, history
<1> QED BY <1>2, <1>3, <1>4 DEF PollInv

LEMMA KeptByScheduleAll ==
  ASSUME PollInv, ScheduleAllFeedPollJobsNow PROVE PollInv'
<1>1. /\ UNCHANGED <<clock, exists, fetch_count, error_count, meta, item, remote, subscribing,
                     task, faults, successes, streak, fetched_at>>
      /\ next_fetch_at' = [f \in Feeds |-> IF f \in exists THEN clock ELSE next_fetch_at[f]]
      /\ excused' = [f \in Feeds |-> f \in exists \/ excused[f]]
      /\ requested' = [f \in Feeds |-> f \in exists]
      /\ passed' = [f \in Feeds |-> {}]
      /\ asks' \in 0 .. MaxAsks
  BY FeedPollAssumption DEF PollInv, TypeOK, ScheduleAllFeedPollJobsNow, Ask, content
<1>2. TypeOK'
  <2>1. next_fetch_at' \in [Feeds -> Nat] /\ passed' \in [Feeds -> SUBSET Feeds]
    BY <1>1 DEF PollInv, TypeOK
  <2>2. excused' \in [Feeds -> BOOLEAN]
    BY <1>1, Zenon
  <2>3. requested' \in [Feeds -> BOOLEAN]
    <3>1. requested' = [f \in Feeds |-> f \in exists]
      BY <1>1
    <3>2. \A f \in Feeds : (f \in exists) \in BOOLEAN
      OBVIOUS
    <3> QED BY <3>1, <3>2
  <2> QED BY <1>1, <2>1, <2>2, <2>3 DEF PollInv, TypeOK, At
<1>3. OneRun' /\ CountInv' /\ ContentInv'
  BY <1>1, KeptByOthers DEF content
<1>4. \A f \in Feeds : excused'[f]
  <2>1. \A f \in Feeds : f \in exists \/ excused[f]
    BY DEF PollInv, PauseInv
  <2> QED BY <1>1, <2>1, Zenon
<1>5. PauseInv'
  BY <1>1, <1>4 DEF PollInv, PauseInv
<1>6. PassedInv'
  BY <1>1 DEF PassedInv
<1> QED BY <1>2, <1>3, <1>5, <1>6 DEF PollInv

LEMMA KeptByPublish == ASSUME PollInv, NEW f \in Feeds, Publish(f) PROVE PollInv'
<1>1. /\ UNCHANGED <<clock, row, content, subscribing, asks, task, faults, history>>
      /\ remote[f] < MaxVersion /\ remote' = [remote EXCEPT ![f] = @ + 1]
  BY DEF Publish
<1>2. \A g \in Feeds : remote[g] \in 0 .. MaxVersion + 1
  BY DEF PollInv, TypeOK, Versions
<1>3. remote' \in [Feeds -> Versions]
  BY <1>1, <1>2, FeedPollAssumption DEF PollInv, TypeOK, Versions
<1>4. TypeOK'
  BY <1>1, <1>3 DEF PollInv, TypeOK, At, row, content, history
<1>5. OneRun' /\ CountInv'
  BY <1>1 DEF PollInv, OneRun, CountInv, Busy, At, row, history
<1>6. ContentInv'
  <2>1. \A g \in Feeds : remote[g] \in Nat /\ remote'[g] \in Nat /\ remote'[g] >= remote[g]
    BY <1>1, <1>2, FeedPollAssumption DEF PollInv, TypeOK
  <2>2. \A g \in Feeds : /\ meta[g] \in Nat
                         /\ \A i \in Guids : item[g][i] \in Nat
                         /\ \A w \in Workers : task[w][g].doc \in Nat
    BY TaskType, ZeroIsVersion DEF PollInv, TypeOK
  <2> QED BY <1>1, <2>1, <2>2 DEF PollInv, ContentInv, OlderThan, content
<1>7. PauseInv' /\ PassedInv'
  BY <1>1, PassedKept DEF PollInv, PauseInv, row, history
<1> QED BY <1>4, <1>5, <1>6, <1>7 DEF PollInv

LEMMA KeptByStutter == ASSUME PollInv, UNCHANGED vars PROVE PollInv'
<1>1. TypeOK'
  BY DEF PollInv, TypeOK, At, vars, row, content, env, history
<1>2. OneRun' /\ CountInv' /\ ContentInv'
  BY KeptByOthers DEF vars, row, content, env, history
<1>3. PauseInv' /\ PassedInv'
  BY PassedKept DEF PollInv, PauseInv, vars, row, history
<1> QED BY <1>1, <1>2, <1>3 DEF PollInv

-----------------------------------------------------------------------------
\* PollInv is kept by every step.
LEMMA PollNext == ASSUME PollInv, [Next]_vars PROVE PollInv'
<1>1. ASSUME NEW w \in Workers, NEW f \in Feeds, WorkOn(w, f) PROVE PollInv'
  BY <1>1, KeptByStartFetch, KeptByFetchSucceeds, KeptByFetchFails, KeptByUpdateFeedMeta,
     KeptByUpsertFeedItem, KeptByCompleteSucceeded, KeptByCompleteFailed, KeptByCompleteLost
     DEF WorkOn
<1>2. ASSUME NEW f \in Feeds,
             UpsertFeed(f) \/ EnqueueFeedPollJob(f) \/ SubscribeFails(f) \/ Publish(f)
      PROVE  PollInv'
  BY <1>2, KeptByUpsertFeed, KeptByEnqueueFeedPollJob, KeptBySubscribeFails, KeptByPublish
<1>3. ASSUME NEW w \in Workers, ListDue(w) \/ Crash(w) PROVE PollInv'
  BY <1>3, KeptByListDue, KeptByCrash
<1> QED
  BY <1>1, <1>2, <1>3, KeptByTimePasses, KeptByScheduleAll, KeptByStutter DEF Next

THEOREM PollInvariant == Spec => []PollInv
<1>1. PollInv /\ [Next]_vars => PollInv'
  BY PollNext
<1> QED BY <1>1, PollInit, PTL DEF Spec

\* The state of the feed worker is what its tables and its Go types can hold,
\* and a run works only on feeds that have a row.
THEOREM TypeCorrect == Spec => []TypeOK
<1>1. PollInv => TypeOK
  BY DEF PollInv
<1> QED BY <1>1, PollInvariant, PTL

\* processJob writes the counters from what the list gave it, and they are exact:
\* no poll recorded is lost and none is counted twice.
THEOREM CountersAreExact == Spec => []CountersExact
<1>1. PollInv => CountersExact
  BY DEF PollInv, CountInv, CountersExact
<1> QED BY <1>1, PollInvariant, PTL

\* A run never stores a version of the document older than the one stored.
THEOREM ContentNeverOlder == Spec => NeverOlder
<1> DEFINE Step == \A f \in Feeds :
                     /\ meta'[f] >= meta[f]
                     /\ \A g \in Guids : item'[f][g] >= item[f][g]
<1>1. ASSUME PollInv, [Next]_vars PROVE Step
  <2>1. \A f \in Feeds : /\ meta[f] \in Nat /\ meta[f] >= meta[f]
                         /\ \A g \in Guids : item[f][g] \in Nat /\ item[f][g] >= item[f][g]
    <3>1. meta \in [Feeds -> Versions] /\ item \in [Feeds -> [Guids -> Versions]]
      BY <1>1 DEF PollInv, TypeOK
    <3>2. \A f \in Feeds : meta[f] \in Nat /\ \A g \in Guids : item[f][g] \in Nat
      BY <3>1, ZeroIsVersion
    <3> QED BY <3>2
  <2>2. CASE UNCHANGED content
    BY <2>1, <2>2 DEF content
  <2>3. ASSUME NEW w \in Workers, NEW f \in Feeds, At(w, f, "meta") \/ At(w, f, "items")
        PROVE  task[w][f].doc >= meta[f] /\ \A g \in Guids : task[w][f].doc >= item[f][g]
    <3>1. task[w][f].doc \in Nat
      BY <1>1, TaskType, ZeroIsVersion DEF PollInv
    <3>2. OlderThan(f, task[w][f].doc)
      BY <1>1, <2>3 DEF PollInv, ContentInv, At
    <3> QED BY <2>1, <3>1, <3>2 DEF OlderThan
  <2>4. ASSUME NEW w \in Workers, NEW f \in Feeds, UpdateFeedMeta(w, f) PROVE Step
    <3>1. /\ item' = item
          /\ meta' = [meta EXCEPT ![f] = task[w][f].doc] \/ meta' = meta
      BY <2>4 DEF UpdateFeedMeta
    <3>2. meta \in [Feeds -> Versions]
      BY <1>1 DEF PollInv, TypeOK
    <3>3. \A h \in Feeds : meta'[h] = meta[h] \/ (h = f /\ meta'[h] = task[w][f].doc)
      BY <3>1, <3>2
    <3> QED BY <2>1, <2>3, <2>4, <3>1, <3>3 DEF UpdateFeedMeta
  <2>5. ASSUME NEW w \in Workers, NEW f \in Feeds, NEW i \in Guids, UpsertFeedItem(w, f, i)
        PROVE  Step
    <3>1. /\ meta' = meta
          /\ item' = [item EXCEPT ![f][i] = task[w][f].doc] \/ item' = item
      BY <2>5 DEF UpsertFeedItem
    <3>2. item \in [Feeds -> [Guids -> Versions]]
      BY <1>1 DEF PollInv, TypeOK
    <3>3. \A h \in Feeds, g \in Guids :
            item'[h][g] = item[h][g] \/ (h = f /\ item'[h][g] = task[w][f].doc)
      BY <3>1, <3>2
    <3> QED BY <2>1, <2>3, <2>5, <3>1, <3>3 DEF UpsertFeedItem
  <2>6. ASSUME NEW w \in Workers, NEW f \in Feeds, WorkOn(w, f) PROVE Step
    <3>1. CASE \/ StartFetch(w, f) \/ FetchSucceeds(w, f) \/ FetchFails(w, f)
               \/ CompleteSucceeded(w, f) \/ CompleteFailed(w, f) \/ CompleteLost(w, f)
      BY <2>2, <3>1 DEF StartFetch, FetchSucceeds, FetchFails, Answered, CompleteSucceeded,
                        CompleteFailed, Complete, CompleteLost
    <3> HIDE DEF Step
    <3> QED BY <2>4, <2>5, <2>6, <3>1 DEF WorkOn
  <2>7. CASE TimePasses \/ ScheduleAllFeedPollJobsNow \/ UNCHANGED vars
    BY <2>2, <2>7 DEF TimePasses, ScheduleAllFeedPollJobsNow, vars
  <2>8. ASSUME NEW f \in Feeds,
               UpsertFeed(f) \/ EnqueueFeedPollJob(f) \/ SubscribeFails(f) \/ Publish(f)
        PROVE  Step
    BY <2>2, <2>8 DEF UpsertFeed, EnqueueFeedPollJob, SubscribeFails, Publish
  <2>9. ASSUME NEW w \in Workers, ListDue(w) \/ Crash(w) PROVE Step
    BY <2>2, <2>9 DEF ListDue, Listed, Crash
  <2> HIDE DEF Step
  <2> QED BY <1>1, <2>6, <2>7, <2>8, <2>9 DEF Next
<1> HIDE DEF Step
<1>2. Spec => [][Step]_vars
  BY <1>1, PollInvariant, PTL DEF Spec
<1> QED BY <1>2 DEF NeverOlder, Step

-----------------------------------------------------------------------------
\* Only ListDue gives a worker a feed to work on.
LEMMA QueuedByListDue ==
  ASSUME TypeOK, [Next]_vars, NEW w \in Workers, NEW f \in Feeds,
         At(w, f, "none"), task'[w][f].pc = "queued"
  PROVE  NobodyRuns /\ \E S \in FirstDue : f \in S /\ Listed(w, S)
<1>1. task'[w][f] # task[w][f]
  BY DEF At
<1>2. ASSUME NEW v \in Workers, NEW g \in Feeds, WorkOn(v, g) PROVE FALSE
  <2>1. ASSUME NEW t, t.pc # "queued", GoTo(v, g, t) PROVE FALSE
    BY <1>1, <2>1 DEF GoTo, TypeOK
  <2>2. v = w /\ g = f => task[v][g].pc = "none"
    BY DEF At
  <2>3. ASSUME NEW t, ~At(v, g, "none"), GoTo(v, g, t) PROVE FALSE
    BY <1>1, <2>2, <2>3 DEF GoTo, TypeOK, At
  <2>4. ~At(v, g, "none") /\ \E t : GoTo(v, g, t)
    BY <1>2 DEF WorkOn, StartFetch, FetchSucceeds, FetchFails, UpdateFeedMeta, UpsertFeedItem,
                CompleteSucceeded, CompleteFailed, CompleteLost, Complete, Stored, At
  <2> QED BY <2>3, <2>4
<1>3. ASSUME NEW v \in Workers, Crash(v) PROVE FALSE
  BY <1>1, <1>3, NoTaskType DEF Crash, TypeOK
<1>4. ASSUME UNCHANGED task PROVE FALSE
  BY <1>1, <1>4
<1>5. \E v \in Workers : ListDue(v)
  BY <1>2, <1>3, <1>4 DEF Next, TimePasses, ScheduleAllFeedPollJobsNow, UpsertFeed,
     EnqueueFeedPollJob, SubscribeFails, Publish, vars
<1>6. PICK v \in Workers : ListDue(v)
  BY <1>5
<1>7. PICK S \in FirstDue : Listed(v, S)
  BY <1>6 DEF ListDue
<1>8. v = w /\ f \in S
  BY <1>1, <1>7 DEF Listed, TypeOK
<1> QED BY <1>6, <1>7, <1>8 DEF ListDue

\* A publisher is left alone for an hour less the jitter, unless it is asked for.
THEOREM PollingIsPolite == Spec => PolitePolling
<1> DEFINE Polite == \A w \in Workers, f \in Feeds :
                       (At(w, f, "none") /\ task'[w][f].pc = "queued") =>
                         (excused[f] \/ clock >= fetched_at[f] + Pause - MaxJitter)
<1>1. ASSUME PollInv, [Next]_vars PROVE Polite
  <2> SUFFICES ASSUME NEW w \in Workers, NEW f \in Feeds, At(w, f, "none"),
                      task'[w][f].pc = "queued", ~excused[f]
               PROVE  clock >= fetched_at[f] + Pause - MaxJitter
    BY Zenon
  <2>1. PICK S \in FirstDue : f \in S
    BY <1>1, QueuedByListDue DEF PollInv
  <2>2. next_fetch_at[f] <= clock
    BY <2>1, ListedExist DEF Due
  <2>3. next_fetch_at[f] >= fetched_at[f] + Pause - MaxJitter
    BY <1>1 DEF PollInv, PauseInv
  <2>4. clock \in Nat /\ next_fetch_at[f] \in Nat /\ fetched_at[f] \in Nat
    BY <1>1 DEF PollInv, TypeOK
  <2> QED BY <2>2, <2>3, <2>4, FeedPollAssumption
<1> HIDE DEF Polite
<1>2. Spec => [][Polite]_vars
  BY <1>1, PollInvariant, PTL DEF Spec
<1> QED BY <1>2 DEF PolitePolling, Polite

\* The limit of ListDueFeedPollJobs starves nobody: of two feeds that are due,
\* none is listed a second time while the other waits for its first.
THEOREM NobodyPassedTwice == Spec => PassedOnce
<1> DEFINE Once == \A w \in Workers, f \in Feeds :
                     (f \in Due /\ NobodyRuns /\ task'[w][f].pc = "none") =>
                       \A g \in passed[f] : task'[w][g].pc # "queued"
<1>1. ASSUME PollInv, [Next]_vars PROVE Once
  <2> SUFFICES ASSUME NEW w \in Workers, NEW f \in Feeds, f \in Due, NobodyRuns,
                      task'[w][f].pc = "none", NEW g \in passed[f], task'[w][g].pc = "queued"
               PROVE  FALSE
    OBVIOUS
  <2>1. g \in Feeds /\ next_fetch_at[f] < next_fetch_at[g]
    BY <1>1 DEF PollInv, TypeOK, PassedInv
  <2>2. PICK S \in FirstDue : g \in S /\ Listed(w, S)
    BY <1>1, <2>1, QueuedByListDue DEF PollInv, NobodyRuns
  <2>3. f \notin S
    BY <1>1, <2>2 DEF Listed, PollInv, TypeOK, Task
  <2>4. next_fetch_at[g] <= next_fetch_at[f]
    BY <2>2, <2>3 DEF FirstDue
  <2>5. next_fetch_at[f] \in Nat /\ next_fetch_at[g] \in Nat
    BY <1>1, <2>1 DEF PollInv, TypeOK
  <2> QED BY <2>1, <2>4, <2>5
<1> HIDE DEF Once
<1>2. Spec => [][Once]_vars
  BY <1>1, PollInvariant, PTL DEF Spec
<1> QED BY <1>2 DEF PassedOnce, Once

=============================================================================
