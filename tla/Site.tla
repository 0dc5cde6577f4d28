--------------------------------- MODULE Site ---------------------------------
(***************************************************************************)
(* The pages of booksmk as one browser tab meets them: which requests a    *)
(* page offers as links, forms and buttons (internal/ui), which handler    *)
(* takes each (internal/server), and with which page, redirect or refusal  *)
(* it answers, while the same user or others change the tables elsewhere.  *)
(*                                                                         *)
(* This module holds the tables, the tab and what all handlers share.      *)
(* SiteUrls, SiteFeeds and SiteAccounts hold the handlers and the pages,   *)
(* and Website puts them behind the routes.  A handler is one step, but    *)
(* for the saving of a category, which takes its statements one by one:    *)
(* how the statements of the others interleave is the matter of Bookmarks, *)
(* Subscriptions and Accounts.  Layout, titles, dates and all that         *)
(* nothing else depends on are left out.                                   *)
(***************************************************************************)
EXTENDS Integers, Sequences, SequencesExt, FiniteSets

CONSTANTS
  Users, Urls,
  Feeds, Items,
  Categories,   \* rows of categories that may come to be
  Names,        \* names of categories
  Tags,         \* names of tags, typed or stored
  Domains,
  Keys, Invites,
  Patterns,     \* of the blocklist
  Emails,
  Prefs         \* what the form of the preferences may give

CONSTANTS
  Slug,         \* store.Slug on Tags; no name is left of some
  Host,         \* the domain of a URL
  PageTags,     \* the tags urlfetch finds for a URL, as the page gives them
  PageFeed,     \* the feed its page links to, or Nothing
  FeedTags,     \* the categories a feed gives itself
  FeedOf,       \* the feed of an item
  Newest,       \* the items, the newest first
  Queries, Found, \* what each query of the search form matches
  Matches,      \* the URLs and feeds a pattern of the blocklist matches
  Size, Grouped,  \* results_per_page and feed_grouping_enabled of each of Prefs
  TimelineSize, \* pageSize of feedhandler
  FeedSize,     \* the limit of ListFeedItems
  MaxKeys       \* API keys of a user

CONSTANTS
  TagInputs,    \* the sets of tags a user may type into a form
  MemberInputs, \* ... of members of a category
  Begun,        \* the tables the site begins with
  Elsewhere,    \* requests sent from elsewhere, each with its user
  MaxChanges,   \* bound on changes of the tables, for model checking
  MaxFaults     \* bound on failing statements, for model checking

CONSTANTS Nothing, Gone, Password, Timeline, Tab, Other

Members == Tags \cup Domains
Senders == {Tab, Other}

ASSUME SiteAssumption ==
  /\ Slug \in [Tags -> Tags \cup {Nothing}]
  /\ \A t \in Tags : Slug[t] # Nothing => Slug[Slug[t]] = Slug[t]
  /\ Host \in [Urls -> Domains]
  /\ PageTags \in [Urls -> SUBSET Tags]
  /\ PageFeed \in [Urls -> Feeds \cup {Nothing}]
  /\ FeedTags \in [Feeds -> SUBSET Tags]
  /\ FeedOf \in [Items -> Feeds]
  /\ Newest \in Seq(Items) /\ ToSet(Newest) = Items /\ IsInjective(Newest)
  /\ Found \in [Queries -> SUBSET (Urls \cup Feeds)]
  /\ Matches \in [Patterns -> SUBSET (Urls \cup Feeds)]
  /\ Size \in [Prefs -> Nat \ {0}] /\ Grouped \in [Prefs -> BOOLEAN]
  /\ {TimelineSize, FeedSize, MaxKeys} \subseteq Nat \ {0}
  /\ TagInputs \subseteq SUBSET Tags /\ MemberInputs \subseteq SUBSET Members
  /\ MaxChanges \in Nat /\ MaxFaults \in Nat
  /\ Nothing \notin Users \cup Feeds \cup Tags /\ Gone \notin Users /\ Tab # Other
  /\ Names \cap Members = {}

\* The tables the site begins with are tables.
ASSUME BegunAssumption ==
  /\ Begun.users \subseteq Users /\ Begun.admins \subseteq Begun.users
  /\ Begun.emails \in [Users -> Emails \cup {Nothing}]
  /\ \A u \in Begun.users : Begun.emails[u] \in Emails
  /\ Begun.prefs \in [Users -> Prefs]
  /\ Begun.library \in [Users -> Seq(Urls)]
  /\ Begun.url_tags \in [Users \X Urls -> SUBSET Tags]
  /\ Begun.owner \in [Categories -> Users \cup {Nothing, Gone}]
  /\ Begun.cat_name \in [Categories -> Names]
  /\ Begun.members \in [Categories -> SUBSET Members]
  /\ Begun.subs \in [Users -> SUBSET Feeds]
  /\ Begun.feed_tags \in [Users \X Feeds -> SUBSET Tags]
  /\ Begun.items \subseteq Items

VARIABLES
  users, admins, emails, prefs,
  invites,    \* the state of each code
  api_keys,   \* whose key each is; Gone when deleted
  blocklist,
  library,    \* user_urls: the bookmarks of a user in the order of created_at
  url_tags,
  feed_url,   \* urls with a feed_url
  owner,      \* whose category each is; Gone when deleted
  cat_name, members,
  saving,     \* the category a request is saving, and what is left to be done
  alone,      \* history: requests saving a category that no other has disturbed
  settled,    \* history: {S} once such a request has given a category S
  subs,       \* user_feeds
  feed_tags, items, read

VARIABLES
  session,    \* the user the tab's cookie stands for, or Nothing
  page,       \* what the tab shows
  pending,    \* the request the tab is waiting for the answer of, or NoRequest
  answer,     \* how the last request ended: "page", "refused" or "failed"
  fresh,      \* history: nobody else has changed a table since the page was made
  changes,    \* number of changes so far
  faults      \* number of failed statements so far

accounts   == <<users, admins, emails, prefs, invites, api_keys, blocklist>>
bookmarks  == <<library, url_tags, feed_url>>
categories == <<owner, cat_name, members, saving, alone, settled>>
feeds      == <<subs, feed_tags, items, read>>
tables     == <<accounts, bookmarks, categories, feeds>>
tab        == <<session, page, pending, answer, fresh>>
vars       == <<tables, tab, changes, faults>>

-----------------------------------------------------------------------------
(***************************************************************************)
(* Requests: the pattern of the route, the row it is about, the number of  *)
(* the page and what the form gives.  GET /url/{id} is written             *)
(* "GET:/url/:id", as the provers take no names with blanks or braces.     *)
(***************************************************************************)
Request(route, id, form) == [route |-> route, id |-> id, n |-> 1, form |-> form]
Go(route) == Request(route, Nothing, {})
Link(route, id) == Request(route, id, {})
Numbered(route, id, n) == [route |-> route, id |-> id, n |-> n, form |-> {}]

NoRequest == Go("none")

\* What the router and the forms give the handlers: the rows that ids stand for,
\* lists by pages, and what a form must have before it is looked at further.
ListRoutes == {"GET:/url", "GET:/url?tag", "GET:/url?category", "GET:/feed"}
BookmarkRoutes == {"GET:/url/:id", "GET:/url/:id/edit", "PUT:/url/:id", "DELETE:/url/:id"}
FeedRoutes ==
  {"GET:/feed/:id", "GET:/feed/:id/edit", "PUT:/feed/:id", "DELETE:/feed/:id",
   "POST:/feed/:id/read-all"}
CategoryRoutes == {"GET:/category/:id/edit", "PUT:/category/:id"}
UserRoutes ==
  {"GET:/user/:id", "GET:/user/:id/edit", "PUT:/user/:id", "GET:/user/:id/change-password",
   "POST:/user/:id/change-password", "POST:/user/:id/settings", "POST:/user/:id/import"}

\* Sent by htmx, which follows redirects itself.
Toggles == {"POST:/feed/items/:itemID/read", "DELETE:/feed/items/:itemID/read"}

WellFormed(r) ==
  /\ r.n \in Nat \ {0} /\ (r.n > 1 => r.route \in ListRoutes)
  /\ r.route \in BookmarkRoutes \cup {"POST:/url", "POST:/api/urls"} => r.id \in Urls
  /\ r.route \in FeedRoutes \cup {"POST:/feed"} => r.id \in Feeds
  /\ r.route \in Toggles => r.id \in Items
  /\ r.route \in CategoryRoutes \cup {"DELETE:/category/:id", "GET:/url?category"} =>
       r.id \in Categories
  /\ r.route = "POST:/category" => r.id \in Names
  /\ r.route \in UserRoutes \cup {"POST:/user"} => r.id \in Users
  /\ r.route \in {"POST:/url", "POST:/api/urls", "PUT:/url/:id", "POST:/feed",
                  "PUT:/feed/:id"} => r.form \subseteq Tags
  /\ r.route = "PUT:/category/:id" => r.form \cap Names # {}
  /\ r.route \in {"POST:/user", "PUT:/user/:id"} => r.form \cap Emails # {}
  /\ r.route = "POST:/user/:id/settings" => r.form \cap Prefs # {}
  /\ r.route = "POST:/user/:id/import" => r.form \subseteq Urls

\* Requests from elsewhere come through the same router.
ASSUME ElsewhereAssumption == \A x \in Elsewhere : WellFormed(x.request)

\* navUser and Base: what every page of a user offers beside its content.
Nav(u) ==
  {Go("GET:/url"), Go("GET:/feed"), Link("GET:/user/:id", u), Go("POST:/logout")}
    \cup {Link("GET:/url?q", q) : q \in Queries}
    \cup {Go("GET:/admin/") : a \in admins \cap {u}}

\* newer and older
Pagination(route, id, n, more) ==
  {Numbered(route, id, n - 1) : x \in {y \in {n} : y > 1}}
    \cup {Numbered(route, id, n + 1) : x \in {y \in {more} : y}}

\* The rows of S, in their order: what a query selects.
Where(rows, S) ==
  LET kept[k \in 0 .. Len(rows)] ==
        IF k = 0 THEN <<>>
        ELSE IF rows[k] \in S THEN Append(kept[k - 1], rows[k]) ELSE kept[k - 1]
  IN  kept[Len(rows)]

\* limit size + 1 offset (n - 1) * size
Slice(rows, n, size) ==
  SubSeq(rows, (n - 1) * size + 1,
         IF n * size + 1 < Len(rows) THEN n * size + 1 ELSE Len(rows))

\* What a page holds of the rows asked for; one more tells that there are others.
Held(rows, size) == ToSet(SubSeq(rows, 1, IF size < Len(rows) THEN size ELSE Len(rows)))

\* Faulty variant of HasMore: a full page is taken for one that others follow.
HasMoreOrFull(rows, size) == Len(rows) >= size

HasMore(rows, size) == Len(rows) > size

-----------------------------------------------------------------------------
(***************************************************************************)
(* Answers.  The tab shows a page, follows a redirect, or is left with an  *)
(* error from which only the address bar leads on; a request sent from     *)
(* elsewhere has its effect and makes what the tab shows stale.            *)
(***************************************************************************)
\* prefilled: the forms as the page fills them in.  led, history: whether the page
\* the user came from was fresh.
Page(view, at, rows, done, offers, prefilled) ==
  [view |-> view, at |-> at, rows |-> rows, read |-> done, offers |-> offers,
   prefilled |-> prefilled, led |-> fresh]

Blank(r) == Page("blank", r, {}, {}, {Go("GET:/")}, {})

Ignored == fresh' = FALSE /\ UNCHANGED <<session, page, pending, answer>>

Put(s, p) ==
  IF s = Tab
  THEN /\ page' = p /\ pending' = NoRequest /\ answer' = "page" /\ fresh' = TRUE
       /\ UNCHANGED session
  ELSE Ignored

\* A page for user u.
Show(s, u, r, view, rows, offers) ==
  Put(s, Page(view, r, rows, {}, Nav(u) \cup offers, {}))

\* A page for user u with a form that shows what there is.
ShowForm(s, u, r, view, offers, prefilled) ==
  Put(s, Page(view, r, {}, {}, Nav(u) \cup offers \cup prefilled, prefilled))

Redirect(s, r) ==
  IF s = Tab
  THEN /\ page' = Blank(NoRequest) /\ pending' = r /\ answer' = "page"
       /\ UNCHANGED <<session, fresh>>
  ELSE Ignored

\* http.Error, for what the request asks or for a statement that failed.
Deny(s, r, how) ==
  IF s = Tab
  THEN /\ page' = Blank(r) /\ pending' = NoRequest /\ answer' = how
       /\ UNCHANGED <<session, fresh>>
  ELSE Ignored

Refuse(s, r) == Deny(s, r, "refused")

Reading == UNCHANGED tables

-----------------------------------------------------------------------------
\* parseTags, of urlhandler and feedhandler
ParseTags(typed) == {Slug[t] : t \in typed} \ {Nothing}

\* parseMembers: only tags become slugs.
ParseMembers(typed) == ParseTags(typed \cap Tags) \cup (typed \cap Domains)

IsBlocked(x) == \E p \in blocklist : x \in Matches[p]

Refused(u, x) == IsBlocked(x) /\ u \notin admins

\* Saved unless it is blocked.
Has(u, b) == Contains(library[u], b)

=============================================================================
