-------------------------------- MODULE Website -------------------------------
(***************************************************************************)
(* The site behind its routes (server/routes.go, middleware.go): a tab     *)
(* whose user clicks what the page offers, and requests from elsewhere.    *)
(***************************************************************************)
EXTENDS SiteUrls, SiteFeeds, SiteAccounts

PublicRoutes == {"GET:/login", "POST:/login", "POST:/logout", "GET:/user/new", "POST:/user"}

AdminRoutes ==
  {"GET:/admin/", "POST:/admin/run", "POST:/admin/feed-poll/run", "POST:/admin/invite/",
   "DELETE:/admin/invite/:id", "GET:/admin/users", "GET:/admin/users/:id/reset-password",
   "POST:/admin/users/:id/reset-password", "GET:/admin/blocklist",
   "GET:/admin/blocklist/new", "POST:/admin/blocklist", "DELETE:/admin/blocklist/:id"}

\* Sent by htmx too, to be led to another page.
Buttons == {"POST:/feed/items/read-all", "POST:/feed/:id/read-all"}

-----------------------------------------------------------------------------
\* htmx puts the form to sign in where it would put the answer: in place of the
\* card, or into the button.
LoginFragment(r) ==
  /\ page' = [page EXCEPT !.offers =
                (IF r.route \in Toggles THEN @ \ {r} ELSE @) \cup LoginPage]
  /\ answer' = "page"
  /\ UNCHANGED <<session, pending, fresh>>

\* Faulty variant of ToLogin: registering is the only way in.
ToIndex(s, r) == Redirect(s, Go("GET:/"))

ToLogin(s, r) ==
  IF r.route \in Toggles \cup Buttons THEN LoginFragment(r) ELSE Redirect(s, Go("GET:/login"))

RequireAuth(s, u, r, Handle) ==
  \/ u = Nothing /\ ToLogin(s, r) /\ Reading
  \/ u # Nothing /\ Handle

RequireAdmin(s, u, r, Handle) ==
  RequireAuth(s, u, r,
    \/ u \notin admins /\ Refuse(s, r) /\ Reading
    \/ u \in admins /\ Handle)

HandleRoot(s, r) ==
  /\ r.route = "GET:/"
  /\ Redirect(s, Go("GET:/url"))
  /\ Reading

\* registerRoutes
Serve(s, u, r) ==
  \/ HandleRoot(s, r)
  \/ r.route \in PublicRoutes /\ PublicHandler(s, u, r)
  \/ /\ r.route \in AdminRoutes
     /\ RequireAdmin(s, u, r, AdminHandler(s, u, r))
  \/ /\ r.route \notin PublicRoutes \cup AdminRoutes \cup {"GET:/"}
     /\ RequireAuth(s, u, r,
          \/ UrlHandler(s, u, r) \/ CategoryHandler(s, u, r) \/ FeedHandler(s, u, r)
          \/ UserHandler(s, u, r) \/ ApiKeyHandler(s, u, r))

-----------------------------------------------------------------------------
Counted ==
  /\ changes' = IF tables' = tables THEN changes ELSE changes + 1
  /\ changes' <= MaxChanges
  /\ UNCHANGED faults

Init ==
  /\ users = Begun.users /\ admins = Begun.admins /\ emails = Begun.emails
  /\ prefs = Begun.prefs /\ invites = Begun.invites /\ api_keys = Begun.api_keys
  /\ blocklist = {}
  /\ library = Begun.library /\ url_tags = Begun.url_tags /\ feed_url = {}
  /\ owner = Begun.owner /\ cat_name = Begun.cat_name /\ members = Begun.members
  /\ saving = [s \in Senders |-> Idle] /\ alone = {} /\ settled = [c \in Categories |-> {}]
  /\ subs = Begun.subs /\ feed_tags = Begun.feed_tags /\ items = Begun.items
  /\ read = [u \in Users |-> {}]
  /\ session = Nothing /\ pending = NoRequest /\ answer = "page" /\ fresh = TRUE
  /\ page = [view |-> "blank", at |-> NoRequest, rows |-> {}, read |-> {},
             offers |-> {Go("GET:/")}, prefilled |-> {}, led |-> TRUE]
  /\ changes = 0 /\ faults = 0

\* The user clicks, or submits a form; the browser sends what it is led to.
Incoming == IF pending = NoRequest THEN page.offers ELSE {pending}

TabServed == saving[Tab] = Idle /\ (\E r \in Incoming : Serve(Tab, session, r)) /\ Counted

TabSaving == SetCategoryMembers(Tab) /\ UNCHANGED changes

\* Only one request from elsewhere saves a category at a time.
OtherServed ==
  /\ saving[Other] = Idle
  /\ \E x \in Elsewhere : x.user \in users \cup {Nothing} /\ Serve(Other, x.user, x.request)
  /\ tables' # tables
  /\ Counted

OtherSaving == SetCategoryMembers(Other) /\ UNCHANGED changes

Polled == (\E i \in Items : FeedPolled(i)) /\ Counted

\* GetSessionUser finds it no more: it expired, or its user signed out everywhere.
SessionEnds ==
  /\ session # Nothing
  /\ session' = Nothing /\ fresh' = FALSE
  /\ UNCHANGED <<tables, page, pending, answer, changes, faults>>

Next == TabServed \/ TabSaving \/ OtherServed \/ OtherSaving \/ Polled \/ SessionEnds

\* The tab waits for an answer, and the server gives it.
Answering == pending # NoRequest /\ (TabServed \/ TabSaving)

Spec == Init /\ [][Next]_vars /\ WF_vars(Answering)

-----------------------------------------------------------------------------
\* A name or an address that is taken is not noticed before the database refuses it.
Clash(r) ==
  \/ r.route = "PUT:/category/:id" /\ Taken(session, NameIn(r))
  \/ r.route = "PUT:/user/:id" /\ GetUserByEmail(EmailIn(r)) # {}

\* What a page offers is honoured: while nobody else changes anything, no link,
\* form or button of a page, and no redirect that follows, is refused, unless a
\* form is given a name or an address that is taken.
OffersHonoured == answer = "refused" /\ fresh => Clash(page.at)

\* A page turned to from a page that was up to date, and the page behind the tag
\* of a bookmark, show something.  Tags that a program or a page gave and that are
\* no slugs are left out: their links need not lead back to them.
LinkedPagesShow ==
  page.led /\ (page.at.n > 1 \/ (page.view = "TagPage" /\ page.at.id # Nothing)) =>
    page.rows # {}

\* While nobody else changes anything, a page whose cards were replaced one by one
\* is what the server would give now: the same items, each with its mark and with
\* the button for the other.
Shown ==
  IF page.view = "TimelinePage"
  THEN Held(Slice(ListTimelineItems(session), page.at.n, TimelineSize), TimelineSize)
  ELSE ToSet(ListFeedItems(page.at.id))

PatchedPageIsCurrent ==
  fresh /\ pending = NoRequest /\ page.view \in {"TimelinePage", "FeedDetailPage"} =>
    /\ page.rows = Shown
    /\ page.read = Shown \cap read[session]
    /\ \A i \in Shown, done \in BOOLEAN :
         Toggle(i, done) \in page.offers <=> (done <=> i \in read[session])

\* A form saved as the page filled it in, while nobody else changes anything,
\* changes nothing: what is shown in it is read back as it was.  Tags that a
\* program or a page gave are left out, as they need not be slugs.
Kept ==
  /\ UNCHANGED <<accounts, bookmarks, owner, cat_name, members, feeds>>
  /\ saving'[Tab] # Idle => saving'[Tab].want = members[saving'[Tab].category]

SavedUnchangedKeeps ==
  [][\A r \in page.prefilled :
       /\ fresh /\ pending = NoRequest /\ session # Nothing
       /\ \A t \in r.form \cap Tags : Slug[t] = t
       /\ Serve(Tab, session, r)
       => Kept]_vars

\* Saving a category is replacing the labels it has.
EditOf(s) ==
  [by |-> s, object |-> saving[s].category, want |-> saving[s].want, left |-> saving[s].left,
   alone |-> s \in alone]

Edits == {EditOf(s) : s \in {t \in Senders : saving[t].at = "insert"}}

CategoryEdits ==
  INSTANCE Labels WITH
    Editors <- Senders, Objects <- Categories, Names <- Members, labels <- members,
    edits <- Edits

ImplementsLabels == CategoryEdits!Spec

\* Every request ends with a page, however often the answer leads to another:
\* signed in or not, no redirects go round in a circle.
RedirectsEnd == pending # NoRequest ~> pending = NoRequest

=============================================================================
