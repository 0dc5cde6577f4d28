------------------------------- MODULE SiteFeeds ------------------------------
(***************************************************************************)
(* The timeline and the pages of feeds: feedhandler and ui/feeds.  The     *)
(* buttons of an item replace its card in the page (htmx); the others load *)
(* a page anew.  The labels of dates are in Subscriptions; every item here *)
(* has been published.                                                     *)
(***************************************************************************)
EXTENDS Site

ListTimelineItems(u) == Where(Newest, {i \in items : FeedOf[i] \in subs[u]})

\* The latest FeedSize items of a feed.
ListFeedItems(f) ==
  LET all == Where(Newest, {i \in items : FeedOf[i] = f})
  IN  SubSeq(all, 1, IF FeedSize < Len(all) THEN FeedSize ELSE Len(all))

ListUserFeeds(u) == subs[u]

GetUserFeed(u, f) == f \in subs[u]

\* The item with its feed, if the user has the feed.
GetTimelineItem(u, i) == i \in items /\ FeedOf[i] \in subs[u]

ListFeedTagNames(u, f) == feed_tags[<<u, f>>]

MarkItemRead(u, i) == read' = [read EXCEPT ![u] = @ \cup {i}]
MarkItemUnread(u, i) == read' = [read EXCEPT ![u] = @ \ {i}]

MarkAllItemsRead(u) ==
  read' = [read EXCEPT ![u] = @ \cup {i \in items : FeedOf[i] \in subs[u]}]

MarkFeedItemsRead(u, f) ==
  read' = [read EXCEPT ![u] = @ \cup {i \in items : FeedOf[i] = f}]

RemoveFeedFromUser(u, f) == subs' = [subs EXCEPT ![u] = @ \ {f}]

-----------------------------------------------------------------------------
Toggle(i, done) == Link(IF done THEN "DELETE:/feed/items/:itemID/read"
                        ELSE "POST:/feed/items/:itemID/read", i)

TimelineItemCard(i, done) == {Link("GET:/feed/:id", FeedOf[i]), Toggle(i, done)}

FeedItemCard(i, done) == {Toggle(i, done)}

FeedSidebar(u) ==
  {Go("GET:/feed"), Go("GET:/feed/new")} \cup {Link("GET:/feed/:id", f) : f \in ListUserFeeds(u)}

\* A group is marked read from the timeline, and leads back to it.
TimelineFeedGroupSection(f) ==
  {Link("GET:/feed/:id", f), Request("POST:/feed/:id/read-all", f, {Timeline})}

TimelineItemCards(u, shown) == UNION {TimelineItemCard(i, i \in read[u]) : i \in shown}

TimelinePage(u, n, shown, more) ==
  FeedSidebar(u) \cup {Go("POST:/feed/items/read-all")}
    \cup TimelineItemCards(u, shown)
    \cup (IF Grouped[prefs[u]]
          THEN UNION {TimelineFeedGroupSection(FeedOf[i]) : i \in shown} ELSE {})
    \cup (IF shown = {} THEN {} ELSE Pagination("GET:/feed", Nothing, n, more))

FeedDetailPage(u, f, shown) ==
  {Link("POST:/feed/:id/read-all", f), Link("GET:/feed/:id/edit", f),
   Link("DELETE:/feed/:id", f)}
    \cup UNION {FeedItemCard(i, i \in read[u]) : i \in shown}

NewFeedPage ==
  {Go("GET:/feed")} \cup {Request("POST:/feed", f, typed) : f \in Feeds, typed \in TagInputs}

EditFeedPage(f) ==
  {Link("GET:/feed/:id", f)} \cup {Request("PUT:/feed/:id", f, typed) : typed \in TagInputs}

FeedForm(u, f) == Request("PUT:/feed/:id", f, ListFeedTagNames(u, f))

ShowItems(s, u, r, view, shown, offers) ==
  Put(s, Page(view, r, shown, read[u] \cap shown, Nav(u) \cup offers, {}))

-----------------------------------------------------------------------------
HandleTimeline(s, u, r) ==
  /\ r.route = "GET:/feed"
  /\ LET asked == Slice(ListTimelineItems(u), r.n, TimelineSize)
         shown == Held(asked, TimelineSize)
     IN  ShowItems(s, u, r, "TimelinePage", shown,
                   TimelinePage(u, r.n, shown, HasMore(asked, TimelineSize)))
  /\ Reading

HandleNewFeed(s, u, r) ==
  /\ r.route = "GET:/feed/new"
  /\ Show(s, u, r, "NewFeedPage", {}, NewFeedPage)
  /\ Reading

\* SubscribeToFeed: its own categories stand in for no tags, slugs both.
\* Subscribing again sets the tags anew.
HandleCreateFeed(s, u, r) ==
  /\ r.route = "POST:/feed"
  /\ \/ /\ Show(s, u, r, "NewFeedPage", {}, NewFeedPage)  \* blocked, or no feed is found
        /\ Reading
     \/ /\ ~Refused(u, r.id)
        /\ subs' = [subs EXCEPT ![u] = @ \cup {r.id}]
        /\ feed_tags' = [feed_tags EXCEPT ![<<u, r.id>>] =
                           IF ParseTags(r.form) # {} THEN ParseTags(r.form)
                           ELSE ParseTags(FeedTags[r.id])]
        /\ Redirect(s, Link("GET:/feed/:id", r.id))
        /\ UNCHANGED <<items, read, accounts, bookmarks, categories>>

RequireFeedOwner(s, u, r, Handle) ==
  \/ GetUserFeed(u, r.id) /\ Handle
  \/ ~GetUserFeed(u, r.id) /\ Refuse(s, r) /\ Reading

HandleGetFeed(s, u, r) ==
  /\ r.route = "GET:/feed/:id"
  /\ RequireFeedOwner(s, u, r,
       /\ LET shown == ToSet(ListFeedItems(r.id))
          IN  ShowItems(s, u, r, "FeedDetailPage", shown, FeedDetailPage(u, r.id, shown))
       /\ Reading)

HandleEditFeed(s, u, r) ==
  /\ r.route = "GET:/feed/:id/edit"
  /\ RequireFeedOwner(s, u, r,
       ShowForm(s, u, r, "EditFeedPage", EditFeedPage(r.id), {FeedForm(u, r.id)}) /\ Reading)

HandleUpdateFeed(s, u, r) ==
  /\ r.route = "PUT:/feed/:id"
  /\ RequireFeedOwner(s, u, r,
       /\ feed_tags' = [feed_tags EXCEPT ![<<u, r.id>>] = ParseTags(r.form)]
       /\ Redirect(s, Link("GET:/feed/:id", r.id))
       /\ UNCHANGED <<subs, items, read, accounts, bookmarks, categories>>)

\* The tags and what was read stay.
HandleDeleteFeed(s, u, r) ==
  /\ r.route = "DELETE:/feed/:id"
  /\ RequireFeedOwner(s, u, r,
       /\ RemoveFeedFromUser(u, r.id)
       /\ Redirect(s, Go("GET:/feed"))
       /\ UNCHANGED <<feed_tags, items, read, accounts, bookmarks, categories>>)

-----------------------------------------------------------------------------
\* Faulty variant of TimelineItemCardAnew: the card as it was before.
TimelineItemCardAsBefore(u, i) ==
  IF page.view = "TimelinePage"
  THEN [page EXCEPT !.offers = (@ \ {Toggle(i, TRUE), Toggle(i, FALSE)})
                                 \cup TimelineItemCard(i, i \in read[u])]
  ELSE page

\* renderItemFragment: whatever card the page had of the item, it gets that of
\* the timeline, which leads to the feed.
TimelineItemCardAnew(u, i) ==
  [page EXCEPT
     !.read = IF i \in read'[u] THEN @ \cup {i} ELSE @ \ {i},
     !.offers = (@ \ {Toggle(i, TRUE), Toggle(i, FALSE)})
                  \cup TimelineItemCard(i, i \in read'[u])]

\* An error leaves the page as it is: htmx swaps nothing in.  An item whose feed
\* the user has left is marked, but not found.
Fragment(s, u, r) ==
  IF s # Tab THEN Ignored
  ELSE /\ IF GetTimelineItem(u, r.id)
          THEN page' = TimelineItemCardAnew(u, r.id) /\ answer' = "page"
          ELSE page' = page /\ answer' = "refused"
       /\ UNCHANGED <<session, pending, fresh>>

HandleMarkRead(s, u, r) ==
  /\ r.route = "POST:/feed/items/:itemID/read"
  /\ MarkItemRead(u, r.id)
  /\ Fragment(s, u, r)
  /\ UNCHANGED <<subs, feed_tags, items, accounts, bookmarks, categories>>

HandleMarkUnread(s, u, r) ==
  /\ r.route = "DELETE:/feed/items/:itemID/read"
  /\ MarkItemUnread(u, r.id)
  /\ Fragment(s, u, r)
  /\ UNCHANGED <<subs, feed_tags, items, accounts, bookmarks, categories>>

\* HX-Redirect
HandleMarkAllRead(s, u, r) ==
  /\ r.route = "POST:/feed/items/read-all"
  /\ MarkAllItemsRead(u)
  /\ Redirect(s, Go("GET:/feed"))
  /\ UNCHANGED <<subs, feed_tags, items, accounts, bookmarks, categories>>

HandleMarkFeedAllRead(s, u, r) ==
  /\ r.route = "POST:/feed/:id/read-all"
  /\ RequireFeedOwner(s, u, r,
       /\ MarkFeedItemsRead(u, r.id)
       /\ Redirect(s, IF Timeline \in r.form THEN Go("GET:/feed")
                      ELSE Link("GET:/feed/:id", r.id))
       /\ UNCHANGED <<subs, feed_tags, items, accounts, bookmarks, categories>>)

\* UpsertFeedItem, by the feed worker
FeedPolled(i) ==
  /\ i \notin items
  /\ items' = items \cup {i}
  /\ Ignored
  /\ UNCHANGED <<subs, feed_tags, read, accounts, bookmarks, categories>>

-----------------------------------------------------------------------------
FeedHandler(s, u, r) ==
  \/ HandleTimeline(s, u, r) \/ HandleNewFeed(s, u, r) \/ HandleCreateFeed(s, u, r)
  \/ HandleGetFeed(s, u, r) \/ HandleEditFeed(s, u, r) \/ HandleUpdateFeed(s, u, r)
  \/ HandleDeleteFeed(s, u, r) \/ HandleMarkRead(s, u, r) \/ HandleMarkUnread(s, u, r)
  \/ HandleMarkAllRead(s, u, r) \/ HandleMarkFeedAllRead(s, u, r)

=============================================================================
