# A formal model of booksmk

booksmk is a bookmark manager and feed reader: a Go web service in front of
PostgreSQL. This directory holds TLA+ modules that model its concurrent parts and
the pages it serves, TLC configurations that check them on small instances, and TLAPS proofs of the
properties that must hold for every instance. Paths below are relative to the
root of the repository.

## 1. Inventory of the system

Any number of `booksmk` server processes share one database. Each process runs
an HTTP server and two runner goroutines, one for each background job
(`discuss`, `feed_poll`). The command `booksmkctl` runs one-off work against
the same database. Every query is a statement of its own: outside
`internal/migrate` nothing opens a transaction, so two handlers, or a handler
and a worker, interleave between any two statements.

| component | code | state | operations | hard part |
|---|---|---|---|---|
| job runner | `internal/jobrunner`, `internal/store/job.go`, `sql/queries/jobs.sql` | `job_configs` (next_run_at, locked_until), `job_runs` | Run/tick, ClaimJobRun, CreateJobRun, CompleteJobRun, UpdateJobNextRun | many processes, claims that lapse with time, lost answers, crashes, cancelled contexts |
| worker pool | `jobrunner.Pool` | semaphore, wait group | start, finish, Wait | bound on concurrency, return only after the last item, length of a batch against the claim |
| feed worker | `internal/feedworker`, `internal/store/feed.go`, `sql/queries/feeds.sql` | polling columns of `feeds`, `feed_items` | Run, processJob, EnqueueFeedPollJob, ScheduleAllFeedPollJobsNow, CompleteFeedPollJob | counters and times written from a snapshot read before a fetch of up to 20 s |
| discussion worker | `internal/discuss/discuss.go`, `internal/store/discussion.go`, `sql/queries/discussions.sql` | check columns of `urls`, `discussions` | Run, processURL, nextScheduledAt, EnqueueDiscussionJob | back-off arithmetic, failing fetchers counted as empty answers |
| migrations | `internal/migrate`, `sql/migrations` | `schema_migrations`, schema | Run | several servers starting at once, a crash in the middle |
| discussion fetchers | `internal/discuss/{reddit,hackernews}.go` | the bearer token of Reddit and its expiry, shared by all calls; its mutex | fetchToken, Fetch | a double-checked lock that heeds no context and may be got out of turn, a late 401 that drops a new token, a token that runs out on its way |
| accounts | `internal/server/userhandler`, `internal/store/{user,invite_code,session}.go`, `internal/server/{auth,middleware}.go` | `users`, `invite_codes`, `sessions` | register, login, logout, delete, change e-mail, password and settings | check-then-act across statements: first administrator, single-use codes |
| API keys | `internal/store/apikey.go`, `internal/server/{apikeyhandler,apihandler}` | `api_keys` | create, delete, authenticate | count-then-insert limit |
| bookmarks | `internal/store/{url,tag}.go`, `internal/server/{urlhandler,apihandler}` | `urls`, `user_urls`, `url_tags`, `tags` | create (form, API, import), update, delete, list | tags replaced by a delete and an insert; pages turned while the list changes |
| feeds of a user | `internal/store/feed.go`, `internal/server/feedhandler` | `user_feeds`, `feed_tags`, `feed_item_reads` | subscribe, update, unsubscribe, mark read, timeline | tags replaced by a delete and a loop of inserts; reads against items being polled |
| categories | `internal/store/category.go`, `internal/server/categoryhandler` | `categories`, `category_members` | create, update, delete | members replaced in a loop, on top of a row already written, while the category may be deleted |
| blocklist | `internal/store/blocklist.go`, `adminhandler` | `blocklist` | add, remove, IsBlocked | checked before the write, errors taken for "not blocked" |
| importer | `internal/importer` | none | ParseNetscapeHTML, ParsePinboardCSV | an entry is pending until the line that may describe it |
| page fetcher | `internal/urlfetch` | none | Fetch, ExtractTags | network |
| server | `internal/server/server.go`, `routes.go`, `middleware.go` | process life cycle, the session of a browser | Run, shutdown, the routes and who may use them | runners are not waited for; a session that ends while its pages are open |
| user interface | `internal/ui`, `static` | the page in a browser | pages with links, forms and buttons that htmx sends; fragments that replace a part of a page | a page is as old as its last load: what it offers must still be taken, and what was replaced in it must agree with the rest |

How they interact: HTTP handlers call the store; `SubscribeToFeed`,
`CreateURL` and the admin handlers write the columns from which the workers
take their work; the runners call the workers, which call the pool, the
fetchers and the store. A page leads to the handlers by what it offers, and a
handler answers with a page, a redirect, a fragment or a refusal. The database is
the only thing two processes share; the fetchers of one process share the token
of Reddit.

## 2. The modules

Each component has a module with its state as variables and one action per
statement, call or handler step that others can interleave with; an `MC*`
module fixes the constants for TLC, and a `*Proofs` module holds the theorems:
`ServerProofs` those of `JobRunner` and `Migrate`, `PoolProofs` those of `Pool`,
`Fetchers` and `Discuss`, `WebsiteProofs` those of the Site modules, the others those of
the module they are named after. `Discuss` and `Migrate` name their variables and
specifications apart from the modules they share a proof module with (`DiscussSpec`,
`MigrateSpec`, `today`, `Starters`).
A definition called a *faulty variant* stands before the definition it varies
and is used nowhere: it is the bug that the property named in `PROJECT.json`
must reject when it is put in the definition's place.

### JobRunner, JobLease

`runner[p][j]` is the goroutine of process p for job j, between two calls:
`idle` (in the `select` of `Run`), `claiming`, `creating`, `running`,
`completing` (inside the call of that name), `stopped`. `next_run_at` and
`locked_until` are the columns of `job_configs`, `job_runs` the rows of the
table. Every call may take effect and return, fail, or take effect and lose its
answer; the context may be cancelled and the process may end at any moment.

Time is explicit, because nothing but time protects a claim: `clock` is the
database's `now()`, a process reads `clock + Skew[p]`, a statement reaches the
database at most `MaxDelay` after its call, and a run returns within `RunMax`.
`TimePasses` does not go beyond the deadline of a call in progress, which is
how these bounds are expressed. They are assumptions on the environment:
pgx gives a statement no deadline of its own, so that `MaxDelay` is
what the deployment must provide.

`JobLease` is what the runners promise: one holder at a time, and grants at
least `MinGap` apart. `ImplementsLease` maps `holder` to the processes that
are creating or running.

Abstractions: the jitter is drawn in `tick` and chosen in `Claim`, where it is
first seen; the read of the clock by an administrator's `Dispatch` and its
statement are one step; a job's error and metadata are left out; a statement of
a process that ends takes effect before the end or not at all.

### Pool

`jobrunner.Pool` statement by statement: `wg.Add`, the send to `sem`, `fn`, the
two deferred functions in their order, `wg.Wait`. All steps but `fn` take no
time, and `fn` at most `Timeout`, so that `clock` measures a batch. It gives
`JobRunner` its `RunMax`, as `MCFetchers` computes: 200 feeds in 5 slots with a
timeout of 20 s make 800 s of a claim of 900 s; 500 URLs in 10 slots with 35 s each
make 1750 s of 1800 s. The database's part of a run is not bounded by these
timeouts: it must fit into the remaining 100 s and 50 s, less delay and skew
(`LeaseOutlivesRun`).

### Fetchers

`Pool` with what the discussion worker runs in it: for each URL the fetcher of
Hacker News, then the one of Reddit (`at[i]` says where a URL is). The 35 s above
are 10 for the first, 15 for the context of the second, and 10 for one renewal of
the token by somebody who got the mutex first: `f.mu.Lock()` heeds no context, and a
`sync.Mutex` that is free goes to whoever asks, unless its first waiter has waited
for more than a millisecond and been overtaken (`starving`), after which it is
handed over in turn. So a waiter is overtaken once at most.

`token` is `f.token` with its expiry, `bearer[i]` the token a call holds, named by
the time Reddit issued it, `revoked` what Reddit has withdrawn. The cached token is an
atomic pointer, read without the mutex, read again under it, and set to nil by whatever
401 arrives (`Refused`), however old the token that was refused. `grounds` is
history: it counts reasons to ask for a token that nobody has followed yet.
What the fetchers find is in `Discuss`. The rate limit of Reddit is an answer
that is no 401 (`AskingEnds`).

### FeedPoll

The polling columns of `feeds`, the stored content (as versions of the
publisher's document) and, for each worker and feed, where `processJob` is and
what it has read. `ListDue` is guarded by "nobody runs", which is
`OneRunAtATime` of `JobRunner`; the pool's bound is in `StartFetch`. The others
are there as the code has them: `SubscribeToFeed` as its first and last
statement (those between do not touch `feeds`), the administrator's dispatch,
the publisher. One or two feeds and an item or none stand for many: items are
independent of each other, and feeds meet only in the list and in the pool.
`PassedOnce` says of the list that no feed is on it twice while another waits.
The seconds between the reading of a clock and its statement are neglected.

### Discuss

The check columns of `urls`, the stored discussions, and where `processURL` is
for each URL. `ShiftedOne`, `Days` and `Duration` are the arithmetic of
`nextScheduledAt` with the widths of the code: 32 bits for the shift, 64 for the
nanoseconds. A source that fails counts as one that found nothing. Time jumps from one due date to the next. The jitter of five
minutes is neglected against days.

### Migrate

`migrate.Run` for processes of different releases. A version is its place in
the sorted order of file names. A session lock is free again when its session
ends; a transaction takes effect at its commit or not at all, and a failed
commit may be either. Creating the versions table and reading it are one step
under the lock. `effects` counts how often a migration's SQL took effect.
`StatementFails` tells a statement that fails of itself from one that fails
because of what is in the database (`Conflicting`).

### Bookmarks, Labels

The requests that create, edit and delete bookmarks, each at the statement it is
about to execute (`pc`), with what it has read so far; `call` is what the client
sent, and for an import the entries of the file, taken one after the other.
`SetURLTags` is one statement, but it locks the rows of `tags` one after the
other: `LockTag` is a step, two statements may wait for each other
(`Deadlocked`), and one that comes to a row it has locked itself is refused
(`RefusedTwice`). Any statement may fail, which is also what a client that goes
away does to those that follow. `alone`, `settled` and `shut` are history: they
remember which requests nobody disturbed, what such a request left, and whose URL
has been blocked all along.

`Labels` is what replacing labels in several statements promises: nothing of
edits of one object that overlap, and of an edit alone that its labels stick.
`ImplementsLabels` maps the requests between `RemoveAllTagsFromURL` and the end
of `SetURLTags` to its edits. `SetURLTags` puts the labels all at once (`Finish`);
`setFeedTags`, in `Subscriptions`, and `setCategoryMembers`, in `SiteUrls`, put them
one at a time (`Put`). `Forget` is the end of an object with its labels, for a
category that is deleted while it is being saved.

A user has a list of bookmarks in the order of `created_at`; `walk` is a user who
turns its pages, with what has been shown and what was there when the first page
was opened. Turning stops to promise anything when a bookmark is deleted, for the
rows behind it move up.

### Subscriptions

`feedhandler` and the part of `store/feed.go` behind it. A request that subscribes,
edits or unsubscribes is at the statement it is about to execute (`pc`), as in
`Bookmarks`; `check` stands for `IsBlocked` and the fetch of the feed, after which
`blocked` keeps the answer. `feed_items` keeps of an item only when it was
published: `UpsertFeedItem` is a poll that finds it new or redated. Reads are marks
of a user on an item. `now` is the database's time, which decides what is visible, and
stands for the server's too, from which `dateLabel` counts days; they differ by
seconds, and by the time zone of the browser, which a choice of `Now` and `PerDay`
amounts to. The page of a feed, its limit and its groups are operators on the state; the two
loops that group are recursive functions of the number of rows, each round an operator
(`AddToTimeline`, `AddToPage`), so that the proofs can follow them.

Where the database is free to choose, so is the model: items of one date come in
either order (`TieBreaks`), anew in every statement, for the queries order by
`published_at` only.

History: `alone` and `settled` as in `Bookmarks`; `shut` are requests whose feed has
been blocked since they began; `cleared` is what a user marked read as a whole;
`walk.due` is what a user turning the pages may still expect to see: an item drops
out when it shares its date with another, since then no order is promised, and when
a row above it goes away, since those behind it move up and one is skipped.

Facts of the code the model shows on the way: unsubscribing deletes neither tags nor
reads, so that both are there again after a new subscription, until its own tags
replace them; `UpdateFeed` sets tags also when the subscription has ended since
`requireFeedOwner` looked; `handleMarkRead` does not ask whether the user is
subscribed; and the blocklist keeps feeds from being subscribed to, not from being polled:
`ListDueFeedPollJobs` and the worker read neither it nor `is_blocked_bypass`, which
pages show and nothing else reads, so that `BlockedKeptOut` says of the flag only who
sets it.

### Importer

The two parsers as functions of a file, which is a sequence of lines (by what the
regular expressions find in them) or a header and rows of cells. `ScanLine` is one
turn of the loop of `ParseNetscapeHTML`, `ReadRow` of that of `ParsePinboardCSV`;
a bookmark of which nothing is known but its URL is pending until the next line that is
not blank. The imports of `MCLibrary` are what `ToImport` takes from a parsed file.
`encoding/csv` requires of every row the number of fields of the header, so that
a row cannot be too short for the tests in the code, and one bad row refuses the file.

### Accounts

`users` and `admins` are the table `users`; `created_by` and `used_by` the columns of
`invite_codes`; `owner` the table `api_keys`; `session[b]` the account whose session
the cookie of browser b names, if that has not expired. A request is at the statement
it is about to execute (`pc`); `user`, `code` and `needsInvite` are what it has read or
was sent. E-mail addresses, passwords and settings are in `SiteAccounts`. A request of a signed-in user gets its account when it begins
(`Authenticated`), and the account may be gone when its statement runs: an `insert` or
`update` that would then refer to no row fails (`sql/schema.sql`), which the actions
have as no change. `Cascade` is what the foreign keys do when an account is deleted.
`requireInviteCode` takes a count that failed for "there are users" (`CountFails`),
and a failure of `UseInviteCode` is logged only (`UseFails`); after any other statement
that fails the request ends.

Ids and codes are random in the code and never chosen again in the model (`born`,
`issued`). The other history variables: `letin` is the invite with which an account
came; `excess` counts what the three statements of a registration (the invite is read,
the account created, the invite marked) cost: one for each registration that found the
invite unused while another held it, taken back if one of the two fails, and one for
each mark that was lost; `occupied` are requests since
whose beginning there have always been accounts; `adminLeft` says that an administrator
was deleted, after which nobody may be left who administers.

Facts of the code the model shows on the way: two first registrations that overlap both
become administrators; an invite whose account was deleted can be used again, because
`used_by` is set null, though accounts that came with it by an overlap are still there; the limit on keys is passed by as many keys as requests overlap,
less one.

### Site, SiteUrls, SiteFeeds, SiteAccounts, Website

The site as one browser tab meets it. `page` is what the tab shows: which handler's
page of which request, the rows on it, the read marks on them, and in `offers` every
link, form and htmx button it holds, each as the request that would be sent. The user
clicks what is there (`TabServed`), a redirect is followed (`pending`), a button of an
item replaces its own card and nothing else. At the same time the same user or others
send requests of their own (`OtherServed`, from `Elsewhere`), feeds are polled, and the
session ends. `Site` has the tables and what handlers share; the other three have the
handlers, each an operator with the name of its Go function, and the pages, each with
the name of its template; `Website` puts them behind the routes (`Serve`), with
`RequireAuth` and `RequireAdmin` around them. A route is a name without blanks and
braces, `GET:/url/:id` for `GET /url/{id}`, which is what the provers take. What the
router and the forms make sure of before a handler looks further is `WellFormed`: an id
names something of its kind, and a form has the field it requires. It is assumed of
`Elsewhere` and proved of the tab. A form is the set of its values, so that the kinds of
value that meet in one form are kept apart (`SiteAssumption`). `Where` is what a query
selects of rows in their order.

A handler is one step here, for how statements interleave is the matter of
`Bookmarks`, `Subscriptions` and `Accounts`. Saving a category is the exception, as no
other module has it: the row, the deletion of the members and each insertion are steps,
any of which may fail, while another request may save or delete the same category.
`ImplementsLabels` shows it to be `Labels`.

`fresh` is history: nobody else has changed a table since the page was made. What a
page promises it promises while that holds. A page with an error leads on only by the
address bar. Deleting an account is left to `Accounts`. A request from elsewhere that
changes nothing is left out, for nobody would notice it.

Facts of the code the model shows on the way: a category created with a failure is
there all the same, and the user sees the form to create it; the link of a tag puts its
name into the URL as it is, so that a name that is no slug, which a page
(`extractMetaTags` takes `article:tag` as it stands), a feed or an API
request may give, need not lead back to its bookmarks; htmx follows the redirect of an
ended session itself and puts the form to sign in where the card was.

## 3. What TLC checks

| run | instance | shows |
|---|---|---|
| `jobrunner_runs` | 2 processes, 1 job, claim of 5, run 1, delay 1, clocks +1 and -1, 1 fault, clock to 6 | `OneRunAtATime`, `AbandonedRowsAreFaults`, `ImplementsLease`, `DueJobIsClaimed`, `RunnersStop` |
| `fetchers_batch` | 4 URLs, 3 slots, a timeout of 4 for each, 1 of the client, 2 of the context, a token that lives 3 less a margin of 2, 1 token withdrawn | `StartsInTurn`, `OnlyRevokedRefused`, `RenewalsHaveGrounds`, `ImplementsPool`, `Returns` |
| `feedpoll_poll` | 1 feed with 1 item, 2 workers, 2 requests, 2 versions, 1 fault, clock to 4 with a pause of 2 | `CountersExact`, `NeverOlder`, `PolitePolling`, `DueIsPolled` |
| `feedpoll_requests` | 1 feed, 1 worker | violation of `RequestKept` |
| `discuss_safety` | 2 URLs, 2 threads, 2 fetchers, 3 checks of each, 1 bookmark, 1 fault | `FindEndsBackOff`, `MissingIsRetried` |
| `discuss_overflow` | 1 URL, 1 fetcher, 33 checks | violation of `BackOffAlwaysInBounds` |
| `migrate_start` | 3 processes of two releases, 3 versions | `AppliedOnce`, `InOrder`, `ServesOnFullSchema`, `FailsForItself`, `WaitersProceed` |
| `library_edits` | 2 requests at a time of 8 that may be sent, 2 users, 3 URLs of which one user has 2, 2 tags, 1 pattern added once, 1 fault, pages of 1 | `WalkShowsAll`, `ImplementsLabels`, `BlockedKeptOut` |
| `library_tags` | the same | violation of `TagsAreReplaced` |
| `subscriptions_timeline` | 2 requests at a time of 7 that may be sent, 2 users, 2 feeds with 2 items each, 2 tags, pages of 1, 3 events | `ClearedStaysRead`, `WalkShowsAll`, `PagesGroupOnce`, `ImplementsLabels`, `BlockedKeptOut` |
| `accounts_life` | 2 requests at a time, 3 accounts, 1 invite, 3 keys with a limit of 1, 1 browser | `TypeOK`, `InviteNearOne`, `KeysNearLimit`, `SomeoneAdministers`, `AdminsAreFirst` |
| `site_pages` | 1 tab and 4 requests from elsewhere, 2 users, 3 bookmarks on 2 hosts, 2 feeds with 3 items, 2 categories, 3 tags of which one is no slug, pages of 1 and 2, timeline of 1, 2 changes, 1 fault | `OffersHonoured`, `LinkedPagesShow`, `PatchedPageIsCurrent`, `SavedUnchangedKeeps`, `ImplementsLabels`, `RedirectsEnd` |

`MCLibrary` also holds two assumptions about the parsers, which TLC evaluates:
`EntriesAreParsed` (all files of up to 5 lines of 6 kinds) and `RowsAreParsed` (all
headers of up to 3 columns with up to 2 rows). `MCFetchers` holds the sums above
(`FeedPollFits`, `DiscussFits`), and that its instance satisfies what the theorems about
`Fetchers` assume. `PassedOnce`, `BoundedConcurrency`, `ReturnsAfterLast` and the types of the
modules that have proofs are proved (section 4) and have no run of their own, except
those of `Accounts`, which say more than types.

Why these bounds. Jobs do not share rows, so that one job is enough; a clock of
6 leaves room for a claim of 5 and a second one by the other process, the runs of
which would meet if the claim were shorter; one fault is a lost answer, a failed
statement or a crash. A behaviour ends where `clock` does: the claim lapses, the job is
claimed again, and states at the end of time in which the job is still locked are not
due. For what a longer clock and more faults could show of exclusion there are the
proofs. Three slots are what a waiter for the mutex takes to be
overtaken: one URL holds it, one waits, one comes later and gets it first; a fourth URL
makes a second group. The token lives long enough to be used once and runs out within
the batch. With
a pause of two, a clock of 4 sees a poll, its successor and what lies between.
Two URLs and two
threads give a thread that is stored for one URL and sought for the other, and three
checks a back-off, a find and what follows; 33 checks, for one URL alone, go beyond the
width of the shift. Three processes give a holder, a
waiter and one that starts again, and two releases a binary older than the
schema. Two requests with two tags
in both orders are what a deadlock needs. The user who turns the pages begins with two
of three URLs: with pages of one, a form or an import adds the third while the second
page is still to come, or adds again one that is there. In `subscriptions_timeline` the
budget of three is shared by requests begun, faults, polls, marks, first pages,
changes of the blocklist and instants that pass: any three of them, with the steps of
requests and the turning of pages free. Three is what each hazard takes: two requests
and a failure; a blocklist entry, a request and its removal; a page, a poll and the
passing of time; a mark, an end of a subscription and a poll. Dates lie on both sides
of midnight, two months back and an instant ahead, and one item has none. Three accounts are a first one, one that an
invite let in and one that tries the invite again; an invite two have shared and one gives
back would take a fourth, for which there is the proof of `InviteStaysNearOne`; three keys go one beyond the bound
of two requests with a limit of one. The one feed of `feedpoll_poll` says nothing of the
limit of a run and of who comes first on its list, for which there is the proof of
`PassedOnce`. In `site_pages` two changes of the tables are what a page takes to
be left behind and patched, a form to be saved over what it showed, or a category to be
deleted while it is saved; reading and clicking are free, so that every page and every
offer comes up. Three bookmarks on two hosts with pages of one and two give pages that
are full, not full and followed by others. `MaxClock`,
`MaxFaults`, `MaxAsks`, `MaxVersion`, `MaxChecks`, `MaxRequests`, `MaxBlocks`,
`MaxEvents`, `MaxRevoked` and `MaxChanges` are the only bounds, in guards of the actions
that count.

Deadlock is checked where the system goes on for ever within the bounds
(`JobRunner`, `Migrate`, `Accounts`, and `Website`, whose tab can always ask for
something); a batch of `Fetchers` ends, and `FeedPoll`, `Discuss`, `Bookmarks` and
`Subscriptions` stop when their time or budget is used up.

Fairness. `JobRunner`: the ticker fires, calls return, the `select` sees a
cancelled context; nothing makes a process stop, restart, or an administrator
act. `Fetchers`: goroutines that can go on do (`Start`, `PoolStep`, `LockFirst` and the
steps of each URL), but answers are not bound to come: the deadlines of `Tick` end a
request. `FeedPoll`: some process goes on
listing (`DueJobIsClaimed`) and work begun goes on. `Migrate`: statements
return, and `TakeLock` is strongly fair because PostgreSQL queues those who wait
for an advisory lock. `Website`: the server answers a request the tab is waiting for
(`Answering`); nothing makes the user click, or a session end.

### Findings

* `feedpoll_requests`: `handleDispatchFeedPoll` says "also schedule all
  individual feeds to poll now so the batch job picks them up"
  (`internal/server/adminhandler/handler.go:143`). A feed whose fetch is under
  way is not picked up: `CompleteFeedPollJob` (`internal/feedworker/worker.go:87`
  and `:155`) overwrites `next_fetch_at` with an hour from now.
* `discuss_overflow`: `nextScheduledAt` "starts at 1 day, caps at 30"
  (`internal/discuss/discuss.go:142-143`). At the 31st empty check in a row
  `int32(1)<<emptyCount` is negative, which `min` does not catch, and the next
  check lies 166 years in the past; from the 32nd on the shift gives 0 and the
  URL is due in every run. With 30 days between the later checks this takes a
  little over two years for a URL nobody discusses.
* `library_tags`: "setURLTags replaces all tags for a user's URL with the given tag
  names" (`internal/store/tag.go:33`). Two names with one slug, such as `go, Go`,
  reach `SetURLTags` as duplicates, which its `on conflict (name) do update`
  refuses after `RemoveAllTagsFromURL` has taken effect: the bookmark loses its
  tags, and a new one is saved although the page says it was not.

## 4. What is proved

`ServerProofs`, of `JobRunner`, for any processes, jobs, intervals and clocks that satisfy
`JobRunnerAssumption`:

* `TypeCorrect`: `TypeOK`, and with it that a running goroutine refers to a row.
* `ClaimsSpaced`: two claims of a job are at least an interval apart, less the
  delay and the skew (`ClaimsAreSpaced`), by `ClaimInv` (calls keep their deadlines, the clock reading a
  claim carries is recent, `locked_until` is where the last claim put it). The
  readings are needed because `locked_until` is computed before the statement is
  sent: without them a claim could write a lock of the past.
* `RunsExclusive`, `RefinesLease`: by `RunInv`, which adds that a holder will
  have finished before `locked_until`. They assume `LeaseOutlivesRun`
  (`RunMax + 2 * MaxDelay + MaxSkew < Interval`), as an assumption of the
  theorems and not of the model: without it they are false.
* `OpenRowsAreFaults`, by `FaultInv`: of each job, the open rows nobody will complete and
  the runs of processes whose context is cancelled, which cannot record their end, are
  together no more than the faults there have been.

`PoolProofs`, for any number of items, concurrency and timeouts. Of `Pool`:
`PoolIsBounded` and `PoolWaitsForAll`, by `PoolInv`, which counts the values in the
channel and in the wait group by the goroutines that hold them (`TypeOK` of `Pool` is a
part of it); `PoolStartsInTurn`, by `TimeInv`: an item that waits for a slot finds all
slots taken by items started before it, so that one of them is of an earlier group
(a pigeonhole over the groups) and ends within a timeout. Of `Fetchers`:

* `FetchInvariant`: who holds the mutex, who waits for it in which order and since when
  (`MutexInv`, `WaitInv`), and that nothing outlives its deadline (`DeadlineInv`).
* `RenewalsFollowGrounds`, a part of it: `grounds` is never overdrawn, because a renewal is
  sent under the mutex after the second look at the token.
* `FetchersImplementPool`, from `FetchesFit` (a call of `fn` has room for both fetches and
  one renewal): every step is one of `Pool` or changes nothing of it, and time does not
  pass the timeout. It needs `WaitInv`: who holds the mutex was called no later than a
  waiter, and is done when the waiter's own context would be, or has overtaken the first
  in the queue, which happens once and costs one request more. `FetchersStartInTurn` follows
  from it and from `PoolStartsInTurn`.
* `OnlyRevokedAreRefused`, from `MarginCovers` (arrival of a token and judgement of a
  request fit into the margin), by `TokenInv`: what is asked with a token is asked before
  it runs out, less the margin. With a smaller margin it is false.

Of `Discuss`, also in `PoolProofs`, for any URLs, threads, number of fetchers, batch size
and number of checks:

* `SearchInvariant`: the types; what a check in progress knows (`CheckInv`: it has found
  something exactly when it was told of something, and has told nothing before it asks);
  what is on record of the last check (`RecordInv`). `CheckInv` is needed because `found`
  is set over several answers and reset only with the check.
* `FindsEndBackOff`: the counter is 0 exactly when the last check was told of a
  discussion; `MissingAreRetried`: what could not be stored is looked for again within a
  day. Both follow from `RecordInv`.
* `BackOffStaysInBounds`: "starts at 1 day, caps at 30" for up to 30 empty checks in a
  row. Beyond them it is false: the finding on `BackOffAlwaysInBounds`.

`FeedPollProofs`, for any feeds, items, workers, limit, pause and jitter:
`PollInvariant`, the conjunction `PollInv`: the types, one run at a time (`OneRun`),
counters read with the list that are still the row's (`CountInv`), documents fetched that
nothing stored is newer than (`ContentInv`), feeds that are due only a pause after their
last answer or on request (`PauseInv`), and feeds polled while another waited that are due
later than it (`PassedInv`). From it `CountersAreExact`, `ContentNeverOlder`,
`PollingIsPolite` and `NobodyPassedTwice` (`PassedOnce`).

`ServerProofs`, of `Migrate`, for any processes, releases and versions: `MigrateInvariant`,
`MigrationsApplyOnce`, `SchemaIsComplete`, `NoFailureByOthers`, by `MigrateInv`:
the lock keeps others out, so that what a process has read of the versions stays
true until it unlocks. `MigrationsInOrder` assumes `ReleasesExtend` (a release
contains all migrations of those before it).

`LabelsProofs`, for any editors, objects and labels: `LabelsInvariant` and
`LoneEditsStick`, by `EditsInv`: an edit that ran alone so far is the only one of
its object, which has exactly what the edit has put.

`BookmarksProofs`, for any users, URLs, requests and number of requests at a time:
`BookmarksImplementLabels`, one lemma per kind of step, from `RequestInv` (a request
that is not idle is at an entry of its call, and only one that is setting tags is
`alone`). `LoneTagsStick` follows from it and from `LoneEditsStick` of
`LabelsProofs`. That `ParseTags` and `FetchTags` give stored names is an assumption
on the constants (`TagsAreNames`), which TLC evaluates. `BlockedUrlsKeptOut`, by `BlockInv` (a
request in `shut` has its URL on the blocklist, and only an administrator's
has come past the check; one whose check failed is in `shut` no more), for imports of any length; `PagesShowAll`, by
`WalkInv` (what is due and not yet shown lies beyond the pages turned: new bookmarks come
first and push it back), for pages of any size; `TypeCorrect`, with nobody having a
bookmark twice and no statement holding a row of tags twice.

`SubscriptionsProofs`, for any users, feeds, requests and number of requests at a
time, of polls and failures: `SubscriptionsImplementLabels` and `LoneTagsStick`, as
above, from its own `RequestInv`; `BlockedFeedsKeptOut`, by `BlockInv` (a request in
`shut` has its feed on the blocklist, one in `shut` that is past the check is an
administrator's, and so is one whose answer was `blocked`); `ClearedItemsStayRead`, by induction on the property
itself with the fact that what is marked includes what is shown; `ReferencesHold`
(the types, with every subscription, bypass and item having its feed and every read mark
its item), by `ReferenceInv`, which adds that a request about to subscribe has seen to the
row of its feed. With finitely many items stored at the beginning
(`SubscriptionsAssumption`; every poll adds one):

* `WalksShowAll`, by `WalkInv`: what is due and not yet shown stands below the rows of the
  pages turned. An item that shares its date with no other has its place whatever the
  order of the others, which is the number of rows above it, and that number only grows,
  for the item drops out of `due` when a row above it goes away.
* `PagesAreGrouped`: a loop that opens a group where the label changes gives each label
  once because the rows are in the order of the dates and the days of one label
  (`LabelOf`) follow each other, and the counters of a group are those of its rows.
  The loops are followed row by row.

`AccountsProofs`, for any accounts, invites, keys, browsers and requests at a time:
`ReferencesHold` (`TypeOK`: whatever is deleted while requests are under way, no row
refers to one that is gone); `AdministratorRemains` and `LaterAccountsAreOrdinary`, by
`AdminInv`: a registration that needs no invite saw no accounts, so that none preceded
it; `InviteStaysNearOne`, by `InviteInv`: of each invite, the accounts that came with
it and whose registration is over (`Settled`) and the registrations that hold it are
together one and the `excess` at most, and while it is unused and nobody holds it there
is room for one more, so that it may be found again; `InviteRefs`, which is needed for
the deletion of an account, says that the account noted on an invite came with it;
`KeysStayNearLimit`, by
counting the keys of an account and the requests about to insert one: the check lets a
request pass only when there are fewer keys than the limit, and of the others at most
all are about to insert too.

`WebsiteProofs`, for any tables the site begins with, any number of rows, pages of any
size, and any requests from elsewhere that are well-formed:

* `SiteInvariant`, the conjunction `Inv`, which TLC has found to hold on the instance of
  `site_pages`: `TableInv` (the tables hold rows, and a request that saves a
  category has what is left to be inserted), `TabInv` and that `page` is a record of its
  fields. `TabInv` is what the properties take to be inductive. *Whatever* the page, what
  it offers is well-formed and what concerns a user concerns the one who is signed in
  (`Own`), for a click on a stale page must still find a handler. While it is *fresh*, every
  offer, and the request that is pending, is `Right`: it finds the row it is about, its
  user may do what it asks, the page it asks for has rows; what is filled in is what there
  is (`Filled`); and a page of items is `Current`. While a category is saved the page is
  blank, and the category is the user's. A handler that changes tables must thus leave no
  offer behind that the change has made wrong: it redirects (`Redirect` leaves a blank
  page), shows a new page, or changes marks only (`Fragment`).
* From it `OffersAreHonoured` (a refusal on a fresh page is a name or an address that is
  taken), `LinkedPagesDoShow` (a further page is offered only when `hasMore` has seen a row
  of it) and `PatchedPagesAreCurrent`.
* `FormsAreReadBack` (`SavedUnchangedKeeps`), from `Filled` and handler by handler: what a
  form is filled with is what parsing it gives back. It is here that tags must be slugs.
* `SiteImplementsLabels`, one lemma per statement, from `TableInv`: a statement of
  `setCategoryMembers` is a step of an edit, and nothing else touches the members but the
  deletion of the category. `LoneSavingsStick` follows from it and
  from `LoneEditsStick` of `LabelsProofs`.

Loops over rows. The provers cannot instantiate the induction theorems of the library,
which take an operator, but they can use that `<` on the natural numbers is well-founded
(`NatLessThanWellFounded`, `WFMin`): a set of numbers that has 0 and with a number the next
has them all, since there is no least one it lacks (`Induction`). That a recursive function
over the first n rows is defined at all is shown the same way (`LoopExists`). Pages, groups
and selections are therefore proved for any number of rows.

Only model-checked: everything under fairness (`DueJobIsClaimed`, `RunnersStop`,
`Returns`, `DueIsPolled`, `WaitersProceed`, `RedirectsEnd`), which is beyond the backends;
the assumptions that TLC evaluates about folds over sequences (`EntriesAreParsed`,
`RowsAreParsed`, `TagsAreNames`), each on its instance; and the three findings, which are
violations. Every other property of a run is a theorem.

## 5. Not modelled

See the components in `PROJECT.json`.

* `LobstersFetcher` (`internal/discuss/lobsters.go`) is constructed nowhere, and
  `internal/server/invitehandler` with `internal/ui/invites` is behind no route:
  administrators manage invites under `/admin`.
* The network and the HTML of the page fetcher; the regular expressions of the importer.
  What they yield is a constant or a choice.
* The scanning of rows in the generated queries; each statement itself is modelled where
  it is used.
* Hashing, cookies, signatures, titles, descriptions, custom names, themes, the filter in
  the browser, layout.
* `booksmkctl`: it runs the migrations as a server does (`Migrate`); its `import-blocklist` is a sequence of
  additions to the blocklist, which `Bookmarks` and `Subscriptions` have; its
  `backfill-feed-urls` sets `feed_url` of each bookmark on its own. The test database is
  a fixture.
* Shutdown of requests in progress, which is `net/http`'s.
* A page number so large that the offset, computed with 64 bits and handed over as 32,
  is negative: no page offers it.

## 6. Plan

In the order of importance for the system: the background jobs, the start of a server,
the bookmarks, the subscriptions, the accounts, the fetchers and the pages are done
(section 2). What is left:

1. `TagsAreNames` as a theorem: `ParseTags` and `FetchTags` as loops, proved like the
   grouping of rows.
2. The parsers of `Importer` as loops, with the theorem that every entry of a file of any
   length is parsed.
3. `Website` with two tabs of one user, each of which is what the other calls elsewhere.
