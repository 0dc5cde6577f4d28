---------------------------- MODULE Subscriptions ----------------------------
(***************************************************************************)
(* The feeds of the users (internal/server/feedhandler, store/feed.go):    *)
(* requests that subscribe, change the tags of a subscription and end it,  *)
(* statement by statement and without a transaction, as in Bookmarks; the  *)
(* items that polls store meanwhile; what a user has read of them, also    *)
(* through the API (apihandler); the timeline, its pages and its groups.   *)
(*                                                                         *)
(* Custom names, titles and summaries are left out, and so is the content  *)
(* of an item but for its date: FeedPoll is about content and polling.     *)
(***************************************************************************)
EXTENDS Integers, Sequences, SequencesExt, FiniteSets

CONSTANTS
  Users, Admins,
  Feeds, Guids,
  Dates,      \* instants at which items may be published
  PerDay,     \* instants in a day
  Typed,      \* names of tags as typed or found in a feed
  Names,      \* names of tags as stored
  Slug,       \* store.Slug on Typed; no name is left of some
  Categories, \* the categories of a feed's document
  Calls,      \* requests that clients may send
  Subscribed, \* the subscriptions there are at first
  Stored,     \* the items there are at first
  Now,        \* the time at first
  PageSize,   \* rows of a page of the timeline
  FeedLimit,  \* rows of the page of a feed
  TieBreaks,  \* orders in which the database may return rows of one date
  Slots,      \* requests served at a time
  MaxEvents   \* bound on what users, publishers, time and faults do, for model checking

CONSTANTS NoCall, NoName, Absent, Undated

Items == Feeds \X Guids

ASSUME SubscriptionsAssumption ==
  /\ Admins \subseteq Users
  /\ Dates \subseteq Nat /\ PerDay \in Nat \ {0} /\ Now \in Nat
  /\ Slug \in [Typed -> Names \cup {NoName}] /\ NoName \notin Names
  /\ Categories \in [Feeds -> SUBSET Typed]
  /\ \A c \in Calls :
       /\ c.via \in {"subscribe", "update", "unsubscribe"}
       /\ c.user \in Users /\ c.feed \in Feeds /\ c.tags \subseteq Typed
  /\ NoCall \notin Calls /\ Absent # Undated /\ {Absent, Undated} \cap Dates = {}
  /\ Subscribed \subseteq Users \X Feeds
  /\ Stored \in [Items -> Dates \cup {Undated, Absent}]
  /\ \A i \in Items : Stored[i] # Absent => \E u \in Users : <<u, i[1]>> \in Subscribed
  /\ IsFiniteSet({i \in Items : Stored[i] # Absent})
  /\ PageSize \in Nat \ {0} /\ FeedLimit \in Nat
  /\ \A t \in TieBreaks : t \in [Items -> Nat] /\ IsInjective(t)
  /\ MaxEvents \in Nat

VARIABLES
  feeds,      \* feeds that have a row
  bypass,     \* ... with is_blocked_bypass
  user_feeds, \* subscriptions
  feed_tags,  \* the tags of a user's subscription, also of one that has ended
  feed_items, \* when an item was published, or Undated; Absent if there is no row
  feed_item_reads,
  blocklist,  \* the feeds whose URL is blocked
  now,
  pc,         \* the statement a request is about to execute
  call,       \* the request
  left,       \* the tags it has yet to insert
  blocked,    \* what IsBlocked answered
  walk,       \* a user turning the pages of the timeline
  events,     \* number of events so far
  alone,      \* history: requests setting tags that no other has disturbed
  settled,    \* history: {S} once such a request has given a subscription S
  shut,       \* history: requests whose feed has been blocked since they began
  cleared     \* history: what a user has marked read as a whole, and not unmarked

tables  == <<feeds, bypass, user_feeds, feed_tags>>
content == <<feed_items, feed_item_reads, now>>
request == <<pc, call, left, blocked>>
history == <<alone, settled, shut, cleared>>
vars    == <<tables, content, blocklist, request, walk, events, history>>

Points == {"idle", "check", "upsert", "add", "owner", "remove", "clear", "tag"}

-----------------------------------------------------------------------------
At(s, p) == pc[s] = p
GoTo(s, p) == pc' = [pc EXCEPT ![s] = p]

User(s) == call[s].user
Feed(s) == call[s].feed
Sub(s)  == <<User(s), Feed(s)>>

Event == events < MaxEvents /\ events' = events + 1

\* parseTags, and the loop of handleCreate over the categories of the feed.
\* AddTagToFeed does nothing on conflict, so that duplicates do not matter.
ParseTags(raw) == {Slug[n] : n \in raw} \ {NoName}

\* A feed is published with tags of its own, which stand in for none.
TagsFor(c) ==
  IF c.via = "subscribe" /\ ParseTags(c.tags) = {} THEN ParseTags(Categories[c.feed])
  ELSE ParseTags(c.tags)

-----------------------------------------------------------------------------
(***************************************************************************)
(* The timeline of a user and the page of a feed.                          *)
(***************************************************************************)
\* fi.published_at is null or fi.published_at <= now()
Visible(i) ==
  feed_items[i] # Absent /\ (feed_items[i] # Undated => feed_items[i] <= now)

\* The rows of the timeline.
Rows(u) == {i \in Items : <<u, i[1]>> \in user_feeds /\ Visible(i)}

\* Faulty variant of Newer: desc puts nulls first unless told otherwise.
NewerNullsFirst(i, j) ==
  /\ feed_items[j] # Undated
  /\ feed_items[i] = Undated \/ feed_items[i] > feed_items[j]

\* order by fi.published_at desc nulls last
Newer(i, j) ==
  /\ feed_items[i] # Undated
  /\ feed_items[j] = Undated \/ feed_items[i] > feed_items[j]

Before(i, j, t) == Newer(i, j) \/ (~Newer(j, i) /\ t[i] < t[j])

\* The k-th row has k - 1 rows before it.
Sorted(S, t) ==
  [k \in 1 .. Cardinality(S) |->
     CHOOSE i \in S : Cardinality({j \in S : Before(j, i, t)}) = k - 1]

Slice(rows, limit, offset) ==
  SubSeq(rows, offset + 1, IF offset + limit < Len(rows) THEN offset + limit ELSE Len(rows))

ListTimelineItems(u, limit, offset, t) == Slice(Sorted(Rows(u), t), limit, offset)

ListFeedItems(f, t) == Slice(Sorted({i \in {f} \X Guids : Visible(i)}, t), FeedLimit, 0)

\* dateLabel.  Days are counted between midnights.
Weekday == <<"monday", "tuesday", "wednesday", "thursday", "friday", "saturday", "sunday">>

LabelOf(day, days) ==
  CASE days <= 0         -> "today"
    [] days = 1          -> "yesterday"
    [] days \in 2 .. 6   -> Weekday[(day % 7) + 1]
    [] days \in 7 .. 13  -> "last week"
    [] days \in 14 .. 59 -> "last month"
    [] OTHER             -> "older"

DateLabel(i) ==
  LET day == feed_items[i] \div PerDay
  IN  IF feed_items[i] = Undated THEN "older" ELSE LabelOf(day, now \div PerDay - day)

IsRead(u, i) == <<u, i>> \in feed_item_reads

\* An item joins the group of its feed, at the end of which a new one is opened.
AddToFeed(groups, u, i) ==
  LET unread == IF IsRead(u, i) THEN 0 ELSE 1
  IN  IF \E k \in DOMAIN groups : groups[k].feed = i[1]
      THEN [k \in DOMAIN groups |->
              IF groups[k].feed # i[1] THEN groups[k]
              ELSE [feed |-> i[1], items |-> Append(groups[k].items, i),
                    unread |-> groups[k].unread + unread]]
      ELSE Append(groups, [feed |-> i[1], items |-> <<i>>, unread |-> unread])

\* The loop of groupTimeline: a new group begins where the label changes.
AddToTimeline(groups, u, i) ==
  IF groups # <<>> /\ groups[Len(groups)].label = DateLabel(i)
  THEN [groups EXCEPT ![Len(groups)].feeds = AddToFeed(@, u, i)]
  ELSE Append(groups, [label |-> DateLabel(i), feeds |-> AddToFeed(<<>>, u, i)])

GroupTimeline(rows, u) ==
  LET groups[k \in 0 .. Len(rows)] ==
        IF k = 0 THEN <<>> ELSE AddToTimeline(groups[k - 1], u, rows[k])
  IN  groups[Len(rows)]

\* The loop of groupFeedItems.
AddToPage(groups, i) ==
  IF groups # <<>> /\ groups[Len(groups)].label = DateLabel(i)
  THEN [groups EXCEPT ![Len(groups)].items = Append(@, i)]
  ELSE Append(groups, [label |-> DateLabel(i), items |-> <<i>>])

GroupFeedItems(rows) ==
  LET groups[k \in 0 .. Len(rows)] ==
        IF k = 0 THEN <<>> ELSE AddToPage(groups[k - 1], rows[k])
  IN  groups[Len(rows)]

(***************************************************************************)
(* The place of a row in the timeline is certain unless another row has    *)
(* its date.  A page that is asked for by its number shows it later, if    *)
(* not yet, as long as no fewer rows stand above it than before.           *)
(***************************************************************************)
Certain(u, i) ==
  i \in Rows(u) /\ \A j \in Rows(u) \ {i} : feed_items[j] # feed_items[i]

Above(u, i) == Cardinality({j \in Rows(u) : Newer(j, i)})

\* What is still due to a user after a step.
RowsMove ==
  walk' = [u \in Users |->
             [walk[u] EXCEPT !.due = {i \in @ : Certain(u, i)' /\ Above(u, i)' >= Above(u, i)}]]

-----------------------------------------------------------------------------
Init ==
  /\ feeds = {f \in Feeds : \E u \in Users : <<u, f>> \in Subscribed}
  /\ bypass = {} /\ blocklist = {} /\ now = Now
  /\ user_feeds = Subscribed
  /\ feed_tags = [m \in Users \X Feeds |-> {}]
  /\ feed_items = Stored /\ feed_item_reads = {}
  /\ pc = [s \in Slots |-> "idle"]
  /\ call = [s \in Slots |-> NoCall]
  /\ left = [s \in Slots |-> {}]
  /\ blocked = [s \in Slots |-> FALSE]
  /\ walk = [u \in Users |-> [page |-> 0, shown |-> {}, due |-> {}]]
  /\ events = 0
  /\ alone = {} /\ settled = [m \in Users \X Feeds |-> {}]
  /\ shut = {} /\ cleared = [u \in Users |-> {}]

Begin(s, c) ==
  /\ At(s, "idle") /\ Event
  /\ GoTo(s, IF c.via = "subscribe" THEN "check" ELSE "owner")
  /\ call' = [call EXCEPT ![s] = c]
  /\ left' = [left EXCEPT ![s] = TagsFor(c)]
  /\ shut' = IF c.feed \in blocklist THEN shut \cup {s} ELSE shut
  /\ UNCHANGED <<tables, content, blocklist, blocked, walk, alone, settled, cleared>>

Answer(s) ==
  /\ GoTo(s, "idle")
  /\ call' = [call EXCEPT ![s] = NoCall]
  /\ left' = [left EXCEPT ![s] = {}]
  /\ blocked' = [blocked EXCEPT ![s] = FALSE]
  /\ alone' = alone \ {s}
  /\ shut' = shut \ {s}

\* The request ends without another statement: the feed is blocked and the user
\* no administrator, or the feed cannot be fetched or parsed.
Reject(s) ==
  /\ At(s, "check")
  /\ Answer(s)
  /\ UNCHANGED <<tables, content, blocklist, walk, events, settled, cleared>>

\* Faulty variant of Admit: administrators and others are taken alike.
AdmitAll(s) ==
  /\ At(s, "check")
  /\ GoTo(s, "upsert")
  /\ blocked' = [blocked EXCEPT ![s] = Feed(s) \in blocklist]
  /\ UNCHANGED <<tables, content, blocklist, call, left, walk, events, history>>

\* The feed is allowed, fetched and parsed, which may take 15 seconds.
Admit(s) ==
  /\ At(s, "check") /\ (Feed(s) \in blocklist => User(s) \in Admins)
  /\ GoTo(s, "upsert")
  /\ blocked' = [blocked EXCEPT ![s] = Feed(s) \in blocklist]
  /\ UNCHANGED <<tables, content, blocklist, call, left, walk, events, history>>

\* An error of IsBlocked is logged, and the feed taken not to be blocked.
CheckFails(s) ==
  /\ At(s, "check") /\ Event
  /\ GoTo(s, "upsert")
  /\ shut' = shut \ {s}
  /\ UNCHANGED <<tables, content, blocklist, call, left, blocked, walk, alone, settled,
                 cleared>>

UpsertFeed(s) ==
  /\ At(s, "upsert")
  /\ feeds' = feeds \cup {Feed(s)}
  /\ bypass' = IF blocked[s] THEN bypass \cup {Feed(s)} ELSE bypass
  /\ GoTo(s, "add")
  /\ UNCHANGED <<user_feeds, feed_tags, content, blocklist, call, left, blocked, walk,
                 events, history>>

AddFeedToUser(s) ==
  /\ At(s, "add")
  /\ user_feeds' = user_feeds \cup {Sub(s)}
  /\ GoTo(s, "clear")
  /\ UNCHANGED <<feeds, bypass, feed_tags, content, blocklist, call, left, blocked, events,
                 history>>
  /\ RowsMove

\* requireFeedOwner; handleUpdate goes on with the custom name.
RequireFeedOwner(s) ==
  /\ At(s, "owner")
  /\ IF Sub(s) \in user_feeds
     THEN /\ GoTo(s, IF call[s].via = "update" THEN "clear" ELSE "remove")
          /\ UNCHANGED <<call, left, blocked, alone, shut>>
     ELSE Answer(s)
  /\ UNCHANGED <<tables, content, blocklist, walk, events, settled, cleared>>

\* The tags and what was read stay.
RemoveFeedFromUser(s) ==
  /\ At(s, "remove")
  /\ user_feeds' = user_feeds \ {Sub(s)}
  /\ Answer(s)
  /\ UNCHANGED <<feeds, bypass, feed_tags, content, blocklist, events, settled, cleared>>
  /\ RowsMove

-----------------------------------------------------------------------------
(***************************************************************************)
(* setFeedTags, as a part of SubscribeToFeed and UpdateFeed.  UpdateFeed   *)
(* goes on though the subscription has ended meanwhile: feed_tags refers   *)
(* to the feed and not to the subscription.                                *)
(***************************************************************************)
Tagging(m) == {s \in Slots : At(s, "tag") /\ Sub(s) = m}

\* Faulty variant of RemoveAllTagsFromFeed: nothing is removed when no tags are given.
RemoveSomeTagsFromFeed(s) ==
  /\ At(s, "clear")
  /\ feed_tags' = IF left[s] = {} THEN feed_tags ELSE [feed_tags EXCEPT ![Sub(s)] = {}]
  /\ GoTo(s, "tag")
  /\ alone' = IF Tagging(Sub(s)) = {} THEN alone \cup {s} ELSE alone \ Tagging(Sub(s))
  /\ settled' = [settled EXCEPT ![Sub(s)] = {}]
  /\ UNCHANGED <<feeds, bypass, user_feeds, content, blocklist, call, left, blocked, walk,
                 events, shut, cleared>>

RemoveAllTagsFromFeed(s) ==
  /\ At(s, "clear")
  /\ feed_tags' = [feed_tags EXCEPT ![Sub(s)] = {}]
  /\ GoTo(s, "tag")
  /\ alone' = IF Tagging(Sub(s)) = {} THEN alone \cup {s} ELSE alone \ Tagging(Sub(s))
  /\ settled' = [settled EXCEPT ![Sub(s)] = {}]
  /\ UNCHANGED <<feeds, bypass, user_feeds, content, blocklist, call, left, blocked, walk,
                 events, shut, cleared>>

\* UpsertTag and AddTagToFeed.  The order is the client's.
AddTagToFeed(s, n) ==
  /\ At(s, "tag") /\ n \in left[s]
  /\ feed_tags' = [feed_tags EXCEPT ![Sub(s)] = @ \cup {n}]
  /\ left' = [left EXCEPT ![s] = @ \ {n}]
  /\ UNCHANGED <<feeds, bypass, user_feeds, content, blocklist, pc, call, blocked, walk,
                 events, history>>

\* The tags are set: EnqueueFeedPollJob, of which FeedPoll is about, and GetFeed.
EndOfTags(s) ==
  /\ At(s, "tag") /\ left[s] = {}
  /\ settled' = IF s \in alone THEN [settled EXCEPT ![Sub(s)] = {TagsFor(call[s])}]
                ELSE settled
  /\ Answer(s)
  /\ UNCHANGED <<tables, content, blocklist, walk, events, cleared>>

\* A statement fails, as all do once the client has gone: the error is returned,
\* and what was done so far stays done.
StatementFails(s) ==
  /\ pc[s] \in {"upsert", "add", "owner", "remove", "clear", "tag"} /\ Event
  /\ Answer(s)
  /\ UNCHANGED <<tables, content, blocklist, walk, settled, cleared>>

-----------------------------------------------------------------------------
\* The administrator changes the blocklist.
ChangeBlocklist(S) ==
  /\ S # blocklist /\ Event
  /\ blocklist' = S
  /\ shut' = {s \in shut : Feed(s) \in S}
  /\ UNCHANGED <<tables, content, request, walk, alone, settled, cleared>>

\* Faulty variant of UpsertFeedItem: the row is replaced, and what refers to it
\* goes with it.
ReplaceFeedItem(i, d) ==
  /\ i[1] \in feeds /\ feed_items[i] # d /\ Event
  /\ feed_items' = [feed_items EXCEPT ![i] = d]
  /\ feed_item_reads' = {r \in feed_item_reads : r[2] # i}
  /\ UNCHANGED <<tables, now, blocklist, request, history>>
  /\ RowsMove

\* A poll inserts an item, or finds it published anew; the row keeps its id.
UpsertFeedItem(i, d) ==
  /\ i[1] \in feeds /\ feed_items[i] # d /\ Event
  /\ feed_items' = [feed_items EXCEPT ![i] = d]
  /\ UNCHANGED <<tables, feed_item_reads, now, blocklist, request, history>>
  /\ RowsMove

TimePasses ==
  /\ Event
  /\ now' = now + 1
  /\ UNCHANGED <<tables, feed_items, feed_item_reads, blocklist, request, history>>
  /\ RowsMove

-----------------------------------------------------------------------------
\* What is read, from the pages or through the API.  Neither asks whether the
\* user is subscribed to the feed of a single item.
MarkItemRead(u, i) ==
  /\ feed_items[i] # Absent /\ ~IsRead(u, i) /\ Event
  /\ feed_item_reads' = feed_item_reads \cup {<<u, i>>}
  /\ UNCHANGED <<tables, feed_items, now, blocklist, request, walk, history>>

MarkItemUnread(u, i) ==
  /\ IsRead(u, i) /\ Event
  /\ feed_item_reads' = feed_item_reads \ {<<u, i>>}
  /\ cleared' = [cleared EXCEPT ![u] = @ \ {i}]
  /\ UNCHANGED <<tables, feed_items, now, blocklist, request, walk, alone, settled, shut>>

\* insert into feed_item_reads select ... join user_feeds
MarkRead(u, S) ==
  feed_item_reads' = feed_item_reads \cup
    {<<u, i>> : i \in {j \in S : <<u, j[1]>> \in user_feeds /\ Visible(j)}}

MarkAllItemsRead(u) ==
  /\ Event
  /\ MarkRead(u, Items)
  /\ cleared' = [cleared EXCEPT ![u] = @ \cup Rows(u)]
  /\ UNCHANGED <<tables, feed_items, now, blocklist, request, walk, alone, settled, shut>>

\* Items beyond the limit of the feed's page are marked too.  Without a subscription
\* nothing is: the page refuses, and so in effect does the statement, to which the
\* API goes directly.
MarkFeedItemsRead(u, f) ==
  /\ <<u, f>> \in user_feeds /\ Event
  /\ MarkRead(u, {f} \X Guids)
  /\ cleared' = [cleared EXCEPT ![u] = @ \cup {i \in Rows(u) : i[1] = f}]
  /\ UNCHANGED <<tables, feed_items, now, blocklist, request, walk, alone, settled, shut>>

-----------------------------------------------------------------------------
(***************************************************************************)
(* handleTimeline: one row more than a page holds is asked for, and tells  *)
(* whether there is another page.  Page 0 stands for no page.              *)
(***************************************************************************)
\* Faulty variant of OpenPage: pages are counted in the rows asked for.
OpenWidePage(u, page, w, t) ==
  LET rows == ListTimelineItems(u, PageSize + 1, (page - 1) * (PageSize + 1), t)
  IN  walk' = [walk EXCEPT ![u] =
                 [page |-> IF Len(rows) > PageSize THEN page ELSE 0,
                  shown |-> w.shown \cup {rows[k] : k \in DOMAIN rows \cap 1 .. PageSize},
                  due |-> w.due]]

OpenPage(u, page, w, t) ==
  LET rows == ListTimelineItems(u, PageSize + 1, (page - 1) * PageSize, t)
  IN  walk' = [walk EXCEPT ![u] =
                 [page |-> IF Len(rows) > PageSize THEN page ELSE 0,
                  shown |-> w.shown \cup {rows[k] : k \in DOMAIN rows \cap 1 .. PageSize},
                  due |-> w.due]]

FirstPage(u, t) ==
  /\ walk[u].page = 0 /\ Rows(u) # {} /\ Event
  /\ OpenPage(u, 1, [shown |-> {}, due |-> {i \in Rows(u) : Certain(u, i)}], t)
  /\ UNCHANGED <<tables, content, blocklist, request, history>>

TurnPage(u, t) ==
  /\ walk[u].page > 0
  /\ OpenPage(u, walk[u].page + 1, walk[u], t)
  /\ UNCHANGED <<tables, content, blocklist, request, events, history>>

-----------------------------------------------------------------------------
Step(s) ==
  \/ Reject(s) \/ Admit(s) \/ CheckFails(s) \/ UpsertFeed(s) \/ AddFeedToUser(s)
  \/ RequireFeedOwner(s) \/ RemoveFeedFromUser(s) \/ RemoveAllTagsFromFeed(s)
  \/ \E n \in Names : AddTagToFeed(s, n)
  \/ EndOfTags(s) \/ StatementFails(s)

Read(u) ==
  \/ \E i \in Items : MarkItemRead(u, i) \/ MarkItemUnread(u, i)
  \/ MarkAllItemsRead(u) \/ \E f \in Feeds : MarkFeedItemsRead(u, f)
  \/ \E t \in TieBreaks : FirstPage(u, t) \/ TurnPage(u, t)

Next ==
  \/ \E s \in Slots : Step(s) \/ \E c \in Calls : Begin(s, c)
  \/ \E u \in Users : Read(u)
  \/ \E S \in SUBSET Feeds : ChangeBlocklist(S)
  \/ \E i \in Items, d \in Dates \cup {Undated} : UpsertFeedItem(i, d)
  \/ TimePasses

Spec == Init /\ [][Next]_vars

-----------------------------------------------------------------------------
\* Besides the types: a subscription, an item and a bypass have their feed, and
\* what was read has its item.
TypeOK ==
  /\ feeds \subseteq Feeds /\ bypass \subseteq feeds
  /\ user_feeds \subseteq Users \X feeds
  /\ feed_tags \in [Users \X Feeds -> SUBSET Names]
  /\ feed_items \in [Items -> Dates \cup {Undated, Absent}] /\ now \in Nat
  /\ \A i \in Items : feed_items[i] # Absent => i[1] \in feeds
  /\ feed_item_reads \subseteq Users \X {i \in Items : feed_items[i] # Absent}
  /\ blocklist \subseteq Feeds
  /\ pc \in [Slots -> Points] /\ call \in [Slots -> Calls \cup {NoCall}]
  /\ left \in [Slots -> SUBSET Names] /\ blocked \in [Slots -> BOOLEAN]
  /\ events \in 0 .. MaxEvents
  /\ alone \subseteq Slots /\ settled \in [Users \X Feeds -> SUBSET SUBSET Names]
  /\ shut \subseteq Slots /\ cleared \in [Users -> SUBSET Items]

\* A request that set the tags of a subscription, and whose statements no other
\* request came between, leaves exactly the tags it was given, and they stay
\* until the next request on the subscription, whatever failed before and
\* however often the subscription ended.
LoneEditSticks == \A m \in Users \X Feeds : \A S \in settled[m] : feed_tags[m] = S

\* Setting tags is replacing labels.
EditOf(s) ==
  [by |-> s, object |-> Sub(s), want |-> TagsFor(call[s]), left |-> left[s],
   alone |-> s \in alone]

Edits == {EditOf(s) : s \in {t \in Slots : At(t, "tag")}}

Tags ==
  INSTANCE Labels WITH
    Editors <- Slots, Objects <- Users \X Feeds, labels <- feed_tags, edits <- Edits

ImplementsLabels == Tags!Spec

\* A feed that has been blocked for as long as the request runs does not become
\* a subscription of a user who is no administrator, unless the blocklist could
\* not be read; and only an administrator's request sets the is_blocked_bypass of
\* a feed.  (What is polled is not decided here: ListDueFeedPollJobs and the worker
\* read neither the blocklist nor the bypass, and a feed blocked after somebody
\* subscribed to it goes on being polled.)
BlockedKeptOut ==
  [][\A s \in Slots :
       /\ (user_feeds' # user_feeds /\ AddFeedToUser(s) /\ User(s) \notin Admins)
            => s \notin shut
       /\ (bypass' # bypass /\ UpsertFeed(s)) => User(s) \in Admins]_vars

\* What a user has marked read as a whole, the timeline or the page of a feed,
\* stays read until the user marks it unread: polls that find the item again,
\* and the end and renewal of the subscription, change nothing.
ClearedStaysRead == \A u \in Users : \A i \in cleared[u] : IsRead(u, i)

\* A user who turns the pages of the timeline from the first to the last has seen
\* every item there was at the beginning, though others are published meanwhile,
\* if its date was its own and no item above it went away, was put further down or
\* lost its date.
WalkShowsAll == \A u \in Users : walk[u].page = 0 => walk[u].due \subseteq walk[u].shown

\* What PagesGroupOnce says of the timeline of a user, for one order of rows of one date.
TimelineGroupsOnce(u, t) ==
  LET groups == GroupTimeline(Sorted(Rows(u), t), u)
      Group(g, h) == groups[g].feeds[h]
      Members(label, f) == {i \in Rows(u) : DateLabel(i) = label /\ i[1] = f}
  IN  /\ \A g, h \in DOMAIN groups : groups[g].label = groups[h].label => g = h
      /\ \A g \in DOMAIN groups : \A h, k \in DOMAIN groups[g].feeds :
           Group(g, h).feed = Group(g, k).feed => h = k
      /\ \A i \in Rows(u) : \E g \in DOMAIN groups : \E h \in DOMAIN groups[g].feeds :
           /\ groups[g].label = DateLabel(i) /\ Group(g, h).feed = i[1]
           /\ ToSet(Group(g, h).items) = Members(DateLabel(i), i[1])
           /\ Group(g, h).unread =
                Cardinality({j \in Members(DateLabel(i), i[1]) : ~IsRead(u, j)})

\* What it says of the page of a feed.
FeedPageGroupsOnce(f, t) ==
  LET rows   == ListFeedItems(f, t)
      groups == GroupFeedItems(rows)
  IN  /\ \A i \in {f} \X Guids : \A j \in ToSet(rows) :
           Visible(i) /\ Newer(i, j) => i \in ToSet(rows)
      /\ \A g, h \in DOMAIN groups : groups[g].label = groups[h].label => g = h
      /\ \A i \in ToSet(rows) : \E g \in DOMAIN groups :
           /\ groups[g].label = DateLabel(i)
           /\ ToSet(groups[g].items) = {j \in ToSet(rows) : DateLabel(j) = DateLabel(i)}

\* A page has no two groups with the same label, and in none of them two of the
\* same feed; each holds the items of its feed and label, and counts those unread.
\* The page of a feed has the newest items, each label once, and under it those
\* items that bear it.
PagesGroupOnce ==
  \A t \in TieBreaks : /\ \A u \in Users : TimelineGroupsOnce(u, t)
                       /\ \A f \in feeds : FeedPageGroupsOnce(f, t)

=============================================================================
