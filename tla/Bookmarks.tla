------------------------------ MODULE Bookmarks ------------------------------
(***************************************************************************)
(* The bookmarks of the users, their tags and the blocklist: the requests  *)
(* of the pages (internal/server/urlhandler), of the API (apihandler), the *)
(* import of a file (userhandler/import.go) and the administrator's        *)
(* changes of the blocklist, statement by statement.  No request uses a    *)
(* transaction, so that the statements of several requests interleave.     *)
(*                                                                         *)
(* Titles and descriptions are left out: nothing depends on them.  The     *)
(* discussion job that a new bookmark enqueues is a step of Discuss.       *)
(***************************************************************************)
EXTENDS Integers, Sequences, SequencesExt, FiniteSets

CONSTANTS
  Users, Admins,
  Urls,
  Typed,       \* names of tags as typed
  Names,       \* names of tags as stored
  Slug,        \* store.Slug on Typed; no name is left of some
  HostTags,    \* urlfetch.DefaultTags of a URL
  MetaTags,    \* the tags its page bears, duplicates included
  PageFeeds,   \* the URLs whose page links to a feed
  Patterns,    \* patterns of the blocklist
  Matches,     \* the URLs a pattern matches
  Calls,       \* requests that clients may send
  Kept,        \* the bookmarks the users begin with
  KeptTags,    \* ... and the tags of each
  PageSize,    \* users.results_per_page
  Slots,       \* requests served at a time
  MaxRequests, \* bound on requests, for model checking
  MaxBlocks,   \* bound on additions to the blocklist, for model checking
  MaxFaults    \* bound on failing statements, for model checking

CONSTANTS NoCall, NoName

Vias == {"form", "api", "import", "edit", "delete"}

\* The statements of a request.
Points == {"idle", "check", "upsert", "add", "clear", "tag", "enqueue", "get", "feed",
           "owner", "update", "remove"}

ASSUME BookmarksAssumption ==
  /\ Admins \subseteq Users
  /\ Slug \in [Typed -> Names \cup {NoName}] /\ NoName \notin Names
  /\ HostTags \in [Urls -> Seq(Names)] /\ MetaTags \in [Urls -> Seq(Names)]
  /\ PageFeeds \subseteq Urls
  /\ Matches \in [Patterns -> SUBSET Urls]
  /\ \A c \in Calls :
       /\ c.via \in Vias /\ c.user \in Users /\ Len(c.items) > 0
       /\ \A i \in 1 .. Len(c.items) :
            /\ c.items[i].url \in Urls
            /\ c.items[i].tags \in Seq(IF c.via = "api" THEN Names ELSE Typed)
  /\ NoCall \notin Calls
  /\ Kept \in [Users -> Seq(Urls)] /\ \A u \in Users : IsInjective(Kept[u])
  /\ KeptTags \in [Users \X Urls -> SUBSET Names]
  /\ PageSize \in Nat \ {0}
  /\ MaxRequests \in Nat /\ MaxBlocks \in Nat /\ MaxFaults \in Nat

VARIABLES
  library,   \* user_urls: the bookmarks of a user in the order of created_at
  url_tags,  \* the tags of a user's bookmark, also of one that was deleted
  bypass,    \* urls with is_blocked_bypass
  feed_url,  \* urls with a feed_url
  blocklist,
  pc,        \* the statement a request is about to execute
  call,      \* the request
  item,      \* the entry of the file it has come to; 1 unless it imports one
  names,     \* the tags to be set
  blocked,   \* what IsBlocked answered
  fetched,   \* whether the page was read
  locked,    \* how many rows of tags SetURLTags has locked so far
  walk,      \* a user turning the pages of the list
  started,   \* number of requests so far
  blocks,    \* number of additions to the blocklist so far
  faults,    \* number of failed statements so far
  alone,     \* history: requests setting tags that no other has disturbed
  settled,   \* history: {S} once such a request has given a bookmark S
  shut       \* history: requests whose URL has been blocked since they began

tables  == <<library, url_tags, bypass, feed_url>>
request == <<pc, call, item, names, blocked, fetched, locked>>
bounds  == <<started, blocks, faults>>
history == <<alone, settled, shut>>
vars    == <<tables, blocklist, request, walk, bounds, history>>

-----------------------------------------------------------------------------
At(s, p) == pc[s] = p
GoTo(s, p) == pc' = [pc EXCEPT ![s] = p]

User(s) == call[s].user
Url(s) == call[s].items[item[s]].url
Mark(s) == <<User(s), Url(s)>>

Fault == faults < MaxFaults /\ faults' = faults + 1

\* parseTags, and the same loop over the tags of an imported bookmark.
ParseTags(raw) == SelectSeq([i \in DOMAIN raw |-> Slug[raw[i]]], LAMBDA n : n # NoName)

\* The tags that come with an entry; the API takes them as they are.
Given(c, i) == IF c.via = "api" THEN c.items[i].tags ELSE ParseTags(c.items[i].tags)

IsBlocked(u, entries) == \E p \in entries : u \in Matches[p]

MergeTags(base, extra) ==
  FoldLeft(LAMBDA out, n : IF Contains(out, n) THEN out ELSE Append(out, n),
           <<>>, base \o extra)

\* urlfetch.Fetch, whether the page could be read or not.
FetchTags(u, page) == MergeTags(HostTags[u], IF page THEN MetaTags[u] ELSE <<>>)

\* Both give tags as they are stored.
ASSUME TagsAreNames ==
  /\ \A c \in Calls : \A i \in 1 .. Len(c.items) : Given(c, i) \in Seq(Names)
  /\ \A u \in Urls, page \in BOOLEAN : FetchTags(u, page) \in Seq(Names)

First(c) == IF c.via \in {"edit", "delete"} THEN "owner" ELSE "check"

\* The request is at an entry of its call.
Reach(s, c, i) ==
  /\ GoTo(s, First(c))
  /\ call' = [call EXCEPT ![s] = c]
  /\ item' = [item EXCEPT ![s] = i]
  /\ names' = [names EXCEPT ![s] = Given(c, i)]
  /\ blocked' = [blocked EXCEPT ![s] = FALSE]
  /\ fetched' = [fetched EXCEPT ![s] = FALSE]
  /\ locked' = [locked EXCEPT ![s] = 0]
  /\ shut' = IF IsBlocked(c.items[i].url, blocklist) THEN shut \cup {s} ELSE shut \ {s}

Answer(s) ==
  /\ GoTo(s, "idle")
  /\ call' = [call EXCEPT ![s] = NoCall]
  /\ item' = [item EXCEPT ![s] = 0]
  /\ names' = [names EXCEPT ![s] = <<>>]
  /\ blocked' = [blocked EXCEPT ![s] = FALSE]
  /\ fetched' = [fetched EXCEPT ![s] = FALSE]
  /\ locked' = [locked EXCEPT ![s] = 0]
  /\ shut' = shut \ {s}

\* The request is through with an entry, saved or not: the next one of the file
\* follows, or the answer.
Leave(s) ==
  IF item[s] < Len(call[s].items) THEN Reach(s, call[s], item[s] + 1) ELSE Answer(s)

-----------------------------------------------------------------------------
Init ==
  /\ library = Kept /\ url_tags = KeptTags
  /\ bypass = {} /\ feed_url = {} /\ blocklist = {}
  /\ pc = [s \in Slots |-> "idle"]
  /\ call = [s \in Slots |-> NoCall]
  /\ item = [s \in Slots |-> 0]
  /\ names = [s \in Slots |-> <<>>]
  /\ blocked = [s \in Slots |-> FALSE]
  /\ fetched = [s \in Slots |-> FALSE]
  /\ locked = [s \in Slots |-> 0]
  /\ walk = [u \in Users |-> [page |-> 0, shown |-> {}, due |-> {}]]
  /\ started = 0 /\ blocks = 0 /\ faults = 0
  /\ alone = {} /\ settled = [m \in Users \X Urls |-> {}] /\ shut = {}

Begin(s, c) ==
  /\ At(s, "idle") /\ started < MaxRequests
  /\ started' = started + 1
  /\ Reach(s, c, 1)
  /\ UNCHANGED <<tables, blocklist, walk, blocks, faults, alone, settled>>

\* The URL is blocked and the user is no administrator: nothing is saved.
Reject(s) ==
  /\ At(s, "check") /\ IsBlocked(Url(s), blocklist) /\ User(s) \notin Admins
  /\ Leave(s)
  /\ UNCHANGED <<tables, blocklist, walk, bounds, alone, settled>>

\* The form and the API try to read the page; what they find stands in for no tags.
Proceed(s, answer) ==
  \E page \in IF call[s].via = "import" THEN {FALSE} ELSE BOOLEAN :
    /\ GoTo(s, "upsert")
    /\ blocked' = [blocked EXCEPT ![s] = answer]
    /\ fetched' = [fetched EXCEPT ![s] = page]
    /\ names' = IF names[s] = <<>> /\ call[s].via # "import"
                THEN [names EXCEPT ![s] = FetchTags(Url(s), page)] ELSE names
    /\ UNCHANGED <<call, item, locked>>

\* Faulty variant of Admit: administrators and others are taken alike.
AdmitAll(s) ==
  /\ At(s, "check")
  /\ Proceed(s, IsBlocked(Url(s), blocklist))
  /\ UNCHANGED <<tables, blocklist, walk, bounds, history>>

Admit(s) ==
  /\ At(s, "check") /\ (IsBlocked(Url(s), blocklist) => User(s) \in Admins)
  /\ Proceed(s, IsBlocked(Url(s), blocklist))
  /\ UNCHANGED <<tables, blocklist, walk, bounds, history>>

\* An error of IsBlocked is logged, and the URL taken not to be blocked.
CheckFails(s) ==
  /\ At(s, "check") /\ Fault
  /\ Proceed(s, FALSE)
  /\ shut' = shut \ {s}
  /\ UNCHANGED <<tables, blocklist, walk, started, blocks, alone, settled>>

UpsertURL(s) ==
  /\ At(s, "upsert")
  /\ bypass' = IF blocked[s] THEN bypass \cup {Url(s)} ELSE bypass
  /\ GoTo(s, "add")
  /\ UNCHANGED <<library, url_tags, feed_url, blocklist, call, item, names, blocked,
                 fetched, locked, walk, bounds, history>>

Has(u, b) == Contains(library[u], b)

\* Faulty variant of AddURLToUser: bookmarking again makes the bookmark new.
AddURLToUserAnew(s) ==
  /\ At(s, "add")
  /\ library' = [library EXCEPT ![User(s)] = Append(Remove(@, Url(s)), Url(s))]
  /\ GoTo(s, "clear")
  /\ UNCHANGED <<url_tags, bypass, feed_url, blocklist, call, item, names, blocked,
                 fetched, locked, walk, bounds, history>>

\* On conflict nothing is done: the bookmark stays as it is.
AddURLToUser(s) ==
  /\ At(s, "add")
  /\ library' = IF Has(User(s), Url(s)) THEN library
                ELSE [library EXCEPT ![User(s)] = Append(@, Url(s))]
  /\ GoTo(s, "clear")
  /\ UNCHANGED <<url_tags, bypass, feed_url, blocklist, call, item, names, blocked,
                 fetched, locked, walk, bounds, history>>

-----------------------------------------------------------------------------
(***************************************************************************)
(* setURLTags.  SetURLTags is one statement: it upserts the rows of the    *)
(* names one after the other, each locked until the statement ends, and    *)
(* inserts the rows of url_tags.  The database refuses to upsert a row     *)
(* twice in it, and ends a deadlock by failing one of the statements.      *)
(***************************************************************************)
Tagging(m) == {s \in Slots : At(s, "tag") /\ Mark(s) = m}

\* Faulty variant of RemoveAllTagsFromURL: nothing is removed when no tags are given.
RemoveSomeTagsFromURL(s) ==
  /\ At(s, "clear")
  /\ url_tags' = IF names[s] = <<>> THEN url_tags ELSE [url_tags EXCEPT ![Mark(s)] = {}]
  /\ GoTo(s, "tag")
  /\ alone' = IF Tagging(Mark(s)) = {} THEN alone \cup {s} ELSE alone \ Tagging(Mark(s))
  /\ settled' = [settled EXCEPT ![Mark(s)] = {}]
  /\ UNCHANGED <<library, bypass, feed_url, blocklist, call, item, names, blocked,
                 fetched, locked, walk, bounds, shut>>

RemoveAllTagsFromURL(s) ==
  /\ At(s, "clear")
  /\ url_tags' = [url_tags EXCEPT ![Mark(s)] = {}]
  /\ GoTo(s, "tag")
  /\ alone' = IF Tagging(Mark(s)) = {} THEN alone \cup {s} ELSE alone \ Tagging(Mark(s))
  /\ settled' = [settled EXCEPT ![Mark(s)] = {}]
  /\ UNCHANGED <<library, bypass, feed_url, blocklist, call, item, names, blocked,
                 fetched, locked, walk, bounds, shut>>

Locked(s) == {names[s][i] : i \in 1 .. locked[s]}

Upserting(s) == At(s, "tag") /\ locked[s] < Len(names[s])
NextName(s) == names[s][locked[s] + 1]

LockTag(s) ==
  /\ Upserting(s)
  /\ \A t \in Slots : NextName(s) \notin Locked(t)
  /\ locked' = [locked EXCEPT ![s] = @ + 1]
  /\ UNCHANGED <<tables, blocklist, pc, call, item, names, blocked, fetched, walk,
                 bounds, history>>

SetURLTags(s) ==
  /\ At(s, "tag") /\ locked[s] = Len(names[s])
  /\ url_tags' = [url_tags EXCEPT ![Mark(s)] = @ \cup ToSet(names[s])]
  /\ GoTo(s, IF call[s].via = "edit" THEN "get" ELSE "enqueue")
  /\ locked' = [locked EXCEPT ![s] = 0]
  /\ alone' = alone \ {s}
  /\ settled' = IF s \in alone THEN [settled EXCEPT ![Mark(s)] = {ToSet(names[s])}]
                ELSE settled
  /\ UNCHANGED <<library, bypass, feed_url, blocklist, call, item, names, blocked,
                 fetched, walk, bounds, shut>>

\* The statement fails: every caller gives the bookmark up.
GiveUpTags(s) ==
  /\ Leave(s)
  /\ alone' = alone \ {s}
  /\ UNCHANGED <<tables, blocklist, walk, started, blocks, settled>>

RefusedTwice(s) ==
  /\ Upserting(s) /\ NextName(s) \in Locked(s)
  /\ GiveUpTags(s)
  /\ UNCHANGED faults

\* Every one of S waits for a row that another one of S has locked.
Deadlocked(S) ==
  \A s \in S : Upserting(s) /\ \E t \in S \ {s} : NextName(s) \in Locked(t)

DeadlockVictim(s) ==
  /\ \E S \in SUBSET Slots : s \in S /\ Deadlocked(S)
  /\ GiveUpTags(s)
  /\ UNCHANGED faults

TagsFail(s) ==
  /\ At(s, "tag") /\ names[s] # <<>> /\ Fault
  /\ GiveUpTags(s)

-----------------------------------------------------------------------------
\* Discuss takes the job from here.
EnqueueDiscussionJob(s) ==
  /\ At(s, "enqueue")
  /\ GoTo(s, "get")
  /\ UNCHANGED <<tables, blocklist, call, item, names, blocked, fetched, locked, walk,
                 bounds, history>>

\* CreateURL and UpdateURL end with GetURL, which fails when the bookmark was
\* deleted meanwhile.  Only the form goes on, to store the feed of the page.
GetURL(s) ==
  /\ At(s, "get")
  /\ IF call[s].via = "form" /\ fetched[s] /\ Url(s) \in PageFeeds /\ Has(User(s), Url(s))
     THEN GoTo(s, "feed") /\ UNCHANGED <<call, item, names, blocked, fetched, locked, shut>>
     ELSE Leave(s)
  /\ UNCHANGED <<tables, blocklist, walk, bounds, alone, settled>>

SetURLFeedURL(s) ==
  /\ At(s, "feed")
  /\ feed_url' = feed_url \cup {Url(s)}
  /\ Leave(s)
  /\ UNCHANGED <<library, url_tags, bypass, blocklist, walk, bounds, alone, settled>>

\* requireURLOwner
RequireURLOwner(s) ==
  /\ At(s, "owner")
  /\ IF Has(User(s), Url(s))
     THEN /\ GoTo(s, IF call[s].via = "edit" THEN "update" ELSE "remove")
          /\ UNCHANGED <<call, item, names, blocked, fetched, locked, shut>>
     ELSE Leave(s)
  /\ UNCHANGED <<tables, blocklist, walk, bounds, alone, settled>>

\* The row may be gone since requireURLOwner: ErrNotFound.
UpdateUserURL(s) ==
  /\ At(s, "update")
  /\ IF Has(User(s), Url(s))
     THEN GoTo(s, "clear") /\ UNCHANGED <<call, item, names, blocked, fetched, locked, shut>>
     ELSE Leave(s)
  /\ UNCHANGED <<tables, blocklist, walk, bounds, alone, settled>>

\* The rows of url_tags stay.  What the pages still show of a list that shrinks
\* is not asked.
RemoveURLFromUser(s) ==
  /\ At(s, "remove")
  /\ \/ ~Has(User(s), Url(s)) /\ UNCHANGED library
     \/ \E k \in DOMAIN library[User(s)] :
          /\ library[User(s)][k] = Url(s)
          /\ library' = [library EXCEPT ![User(s)] = RemoveAt(@, k)]
  /\ walk' = [walk EXCEPT ![User(s)].due = {}]
  /\ Leave(s)
  /\ UNCHANGED <<url_tags, bypass, feed_url, blocklist, bounds, alone, settled>>

\* Any other statement fails, as all do once the client has gone: the error is
\* returned, and what was done so far stays done.
StatementFails(s) ==
  /\ pc[s] \in {"upsert", "add", "clear", "enqueue", "get", "feed", "owner", "update",
                "remove"}
  /\ Fault
  /\ Leave(s)
  /\ UNCHANGED <<tables, blocklist, walk, started, blocks, alone, settled>>

-----------------------------------------------------------------------------
\* handleCreateBlocklistEntry, and the lines of an imported list: a pattern that
\* is there already is refused.
CreateBlocklistEntry(p) ==
  /\ p \notin blocklist /\ blocks < MaxBlocks
  /\ blocklist' = blocklist \cup {p}
  /\ blocks' = blocks + 1
  /\ UNCHANGED <<tables, request, walk, started, faults, history>>

DeleteBlocklistEntry(p) ==
  /\ p \in blocklist
  /\ blocklist' = blocklist \ {p}
  /\ shut' = {s \in shut : IsBlocked(Url(s), blocklist \ {p})}
  /\ UNCHANGED <<tables, request, walk, bounds, alone, settled>>

-----------------------------------------------------------------------------
(***************************************************************************)
(* handleList: one row more than a page holds is asked for, and tells      *)
(* whether there is another page.  A user who turns the pages asks for     *)
(* each by its number.  Page 0 stands for no page.                         *)
(***************************************************************************)
\* order by created_at desc limit PageSize + 1
ListURLs(u, page) ==
  LET rows == Reverse(library[u]) off == (page - 1) * PageSize
  IN  IF off >= Len(rows) THEN <<>>
      ELSE SubSeq(rows, off + 1, IF off + PageSize + 1 < Len(rows)
                                 THEN off + PageSize + 1 ELSE Len(rows))

OpenPage(u, page, w) ==
  LET rows == ListURLs(u, page)
      shown == {rows[i] : i \in DOMAIN rows \cap 1 .. PageSize}
  IN  walk' = [walk EXCEPT ![u] =
                 IF Len(rows) > PageSize
                 THEN [page |-> page, shown |-> w.shown \cup shown, due |-> w.due]
                 ELSE [page |-> 0, shown |-> w.shown \cup shown, due |-> w.due]]

FirstPage(u) ==
  /\ walk[u].page = 0 /\ library[u] # <<>>
  /\ OpenPage(u, 1, [shown |-> {}, due |-> ToSet(library[u])])
  /\ UNCHANGED <<tables, blocklist, request, bounds, history>>

TurnPage(u) ==
  /\ walk[u].page > 0
  /\ OpenPage(u, walk[u].page + 1, walk[u])
  /\ UNCHANGED <<tables, blocklist, request, bounds, history>>

-----------------------------------------------------------------------------
Step(s) ==
  \/ Reject(s) \/ Admit(s) \/ CheckFails(s) \/ UpsertURL(s) \/ AddURLToUser(s)
  \/ RemoveAllTagsFromURL(s) \/ LockTag(s) \/ SetURLTags(s) \/ RefusedTwice(s)
  \/ DeadlockVictim(s) \/ TagsFail(s) \/ EnqueueDiscussionJob(s) \/ GetURL(s)
  \/ SetURLFeedURL(s) \/ RequireURLOwner(s) \/ UpdateUserURL(s) \/ RemoveURLFromUser(s)
  \/ StatementFails(s)

Next ==
  \/ \E s \in Slots : Step(s) \/ \E c \in Calls : Begin(s, c)
  \/ \E p \in Patterns : CreateBlocklistEntry(p) \/ DeleteBlocklistEntry(p)
  \/ \E u \in Users : FirstPage(u) \/ TurnPage(u)

Spec == Init /\ [][Next]_vars

-----------------------------------------------------------------------------
\* Besides the types: a user has no bookmark twice, and no two requests have
\* locked the same row.
TypeOK ==
  /\ library \in [Users -> Seq(Urls)]
  /\ url_tags \in [Users \X Urls -> SUBSET Names]
  /\ bypass \subseteq Urls /\ feed_url \subseteq Urls /\ blocklist \subseteq Patterns
  /\ pc \in [Slots -> Points]
  /\ call \in [Slots -> Calls \cup {NoCall}] /\ item \in [Slots -> Nat]
  /\ names \in [Slots -> Seq(Names)]
  /\ blocked \in [Slots -> BOOLEAN] /\ fetched \in [Slots -> BOOLEAN]
  /\ locked \in [Slots -> Nat]
  /\ walk \in [Users -> [page : Nat, shown : SUBSET Urls, due : SUBSET Urls]]
  /\ started \in 0 .. MaxRequests /\ blocks \in 0 .. MaxBlocks /\ faults \in 0 .. MaxFaults
  /\ alone \subseteq Slots /\ settled \in [Users \X Urls -> SUBSET SUBSET Names]
  /\ shut \subseteq Slots
  /\ \A u \in Users : IsInjective(library[u])
  /\ \A s, t \in Slots : s # t => Locked(s) \cap Locked(t) = {}

\* A request that set the tags of a bookmark, and whose two statements no other
\* request came between, leaves exactly the tags it was given, and they stay
\* until the next request on the bookmark, whatever failed before and however
\* often the bookmark was deleted.
LoneEditSticks == \A m \in Users \X Urls : \A S \in settled[m] : url_tags[m] = S

\* Setting tags is replacing labels.
EditOf(s) ==
  [by |-> s, object |-> Mark(s), want |-> ToSet(names[s]), left |-> ToSet(names[s]),
   alone |-> s \in alone]

Edits == {EditOf(s) : s \in {t \in Slots : At(t, "tag")}}

Tags ==
  INSTANCE Labels WITH
    Editors <- Slots, Objects <- Users \X Urls, labels <- url_tags, edits <- Edits

ImplementsLabels == Tags!Spec

\* A URL that has been blocked for as long as the request runs does not become
\* a bookmark of a user who is no administrator, unless the blocklist could not
\* be read.
BlockedKeptOut ==
  [][\A s \in Slots :
       (AddURLToUser(s) /\ library' # library /\ User(s) \notin Admins) => s \notin shut]_vars

\* A user who turns the pages from the first to the last, while nothing is
\* deleted, has seen every bookmark there was at the beginning, though others
\* are added meanwhile.
WalkShowsAll == \A u \in Users : walk[u].page = 0 => walk[u].due \subseteq walk[u].shown

\* "setURLTags replaces all tags for a user's URL with the given tag names."
\* When it is through, alone and with no statement lost, the bookmark has the
\* tags given.  The code does not keep this: two names with the same slug make
\* the second statement fail after the first has removed the tags.
TagsAreReplaced ==
  [][\A s \in Slots :
       (At(s, "tag") /\ pc'[s] # "tag" /\ s \in alone /\ faults' = faults) =>
         url_tags'[Mark(s)] = ToSet(names[s])]_vars

=============================================================================
