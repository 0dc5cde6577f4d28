------------------------------- MODULE SiteUrls -------------------------------
(***************************************************************************)
(* The pages of bookmarks and categories, and the search: urlhandler,      *)
(* categoryhandler, ui/urls, ui/categories and ui/search.                  *)
(***************************************************************************)
EXTENDS Site

\* order by created_at desc
ListURLs(u) == Reverse(library[u])

ListURLsByTag(u, t) == Where(ListURLs(u), {b \in Urls : t \in url_tags[<<u, b>>]})

ListURLsByCategory(u, c) ==
  Where(ListURLs(u),
        {b \in Urls : url_tags[<<u, b>>] \cap members[c] # {} \/ Host[b] \in members[c]})

\* What each list is of.
Listed(u, r) ==
  CASE r.route = "GET:/url"          -> ListURLs(u)
    [] r.route = "GET:/url?tag"      -> ListURLsByTag(u, r.id)
    [] r.route = "GET:/url?category" -> ListURLsByCategory(u, r.id)

SearchURLs(u, q) == {b \in ToSet(library[u]) : b \in Found[q]}
SearchFeeds(u, q) == subs[u] \cap Found[q]

ListCategories(u) == {c \in Categories : owner[c] = u}

-----------------------------------------------------------------------------
\* The name of a tag is put into the link as it is; only a slug is sure to
\* come back from it.
TagLink(t) == Link("GET:/url?tag", IF Slug[t] = t THEN t ELSE Nothing)

CardFooter(b) == {Link("GET:/url/:id/edit", b), Link("DELETE:/url/:id", b)}

TagLinks(u, b) == {TagLink(t) : t \in url_tags[<<u, b>>]}

URLCard(u, b) == {Link("GET:/url/:id", b)} \cup TagLinks(u, b) \cup CardFooter(b)

URLCards(u, shown) == UNION {URLCard(u, b) : b \in shown}

CategoryNav(u) ==
  {Go("GET:/url"), Go("GET:/category/new")}
    \cup {Link("GET:/url?category", c) : c \in ListCategories(u)}

\* What the pages of a list have in common.
List(u, route, id, n, shown, more) ==
  CategoryNav(u) \cup {Go("GET:/url/new")} \cup URLCards(u, shown)
    \cup (IF shown = {} THEN {} ELSE Pagination(route, id, n, more))

ListPage(u, n, shown, more) == List(u, "GET:/url", Nothing, n, shown, more)

TagPage(u, t, n, shown, more) == List(u, "GET:/url?tag", t, n, shown, more)

\* Without the category, another user's or deleted, there is no link to edit it.
CategoryPage(u, c, n, shown, more) ==
  IF owner[c] = u
  THEN {Link("GET:/category/:id/edit", c)}
         \cup List(u, "GET:/url?category", c, n, shown, more)
  ELSE List(u, "GET:/url", Nothing, n, shown, more)

FeedCard(f) == {Link("GET:/feed/:id", f)}

ResultsPage(u, foundFeeds, foundUrls) ==
  URLCards(u, foundUrls) \cup UNION {FeedCard(f) : f \in foundFeeds}

\* GetFeedByURL
SubscribedFeed(u, b) == PageFeed[b] \in subs[u]

\* A link to the feed of the page if the user has it, else the form to get it.
FeedButton(u, b) ==
  {IF SubscribedFeed(u, b) THEN Link("GET:/feed/:id", PageFeed[b])
   ELSE Request("POST:/feed", PageFeed[b], {}) : x \in feed_url \cap {b}}

DetailCard(u, b) == TagLinks(u, b) \cup CardFooter(b)

DetailPage(u, b) == DetailCard(u, b) \cup FeedButton(u, b)

NewPage ==
  {Go("GET:/url")} \cup {Request("POST:/url", b, typed) : b \in Urls, typed \in TagInputs}

\* The URL itself cannot be changed.
EditPage(b) ==
  {Link("GET:/url/:id", b)} \cup {Request("PUT:/url/:id", b, typed) : typed \in TagInputs}

\* Faulty variant of EditForm: the tags are not filled in.
EditFormEmpty(u, b) == Request("PUT:/url/:id", b, {})

EditForm(u, b) == Request("PUT:/url/:id", b, url_tags[<<u, b>>])

-----------------------------------------------------------------------------
\* handleList: the number of a page that is not there gives an empty page.
HandleList(s, u, r) ==
  /\ r.route \in {"GET:/url", "GET:/url?tag", "GET:/url?category"}
  /\ LET size == Size[prefs[u]]
         asked == Slice(Listed(u, r), r.n, size)
         shown == Held(asked, size)
         more == HasMore(asked, size)
     IN  \/ /\ r.route = "GET:/url"
            /\ Show(s, u, r, "ListPage", shown, ListPage(u, r.n, shown, more))
         \/ /\ r.route = "GET:/url?tag"
            /\ Show(s, u, r, "TagPage", shown, TagPage(u, r.id, r.n, shown, more))
         \/ /\ r.route = "GET:/url?category"
            /\ Show(s, u, r, "CategoryPage", shown, CategoryPage(u, r.id, r.n, shown, more))
  /\ Reading

HandleSearch(s, u, r) ==
  /\ r.route = "GET:/url?q"
  /\ Show(s, u, r, "ResultsPage", SearchURLs(u, r.id) \cup SearchFeeds(u, r.id),
          ResultsPage(u, SearchFeeds(u, r.id), SearchURLs(u, r.id)))
  /\ Reading

HandleNew(s, u, r) ==
  /\ r.route = "GET:/url/new"
  /\ Show(s, u, r, "NewPage", {}, NewPage)
  /\ Reading

\* UpsertURL, AddURLToUser and setURLTags.
Bookmark(u, b, tags) ==
  /\ library' = IF Has(u, b) THEN library ELSE [library EXCEPT ![u] = Append(@, b)]
  /\ url_tags' = [url_tags EXCEPT ![<<u, b>>] = tags]

\* Where the page can be read, its tags stand in for none, and its feed is kept.
HandleCreate(s, u, r) ==
  /\ r.route = "POST:/url"
  /\ \/ /\ Refused(u, r.id)
        /\ Show(s, u, r, "NewPage", {}, NewPage)
        /\ Reading
     \/ /\ ~Refused(u, r.id)
        /\ \E fetched \in BOOLEAN :
             /\ Bookmark(u, r.id, IF ParseTags(r.form) # {} THEN ParseTags(r.form)
                                  ELSE IF fetched THEN PageTags[r.id] ELSE {})
             /\ feed_url' = feed_url \cup {b \in {r.id} : fetched /\ PageFeed[b] # Nothing}
        /\ Redirect(s, Link("GET:/url/:id", r.id))
        /\ UNCHANGED <<accounts, categories, feeds>>

\* The same from a program, which gives the tags as they shall be.
HandleCreateByAPI(s, u, r) ==
  /\ r.route = "POST:/api/urls" /\ ~Refused(u, r.id)
  /\ Bookmark(u, r.id, r.form)
  /\ Ignored
  /\ UNCHANGED <<feed_url, accounts, categories, feeds>>

\* requireURLOwner
RequireURLOwner(s, u, r, Handle) ==
  \/ Has(u, r.id) /\ Handle
  \/ ~Has(u, r.id) /\ Refuse(s, r) /\ Reading

HandleGet(s, u, r) ==
  /\ r.route = "GET:/url/:id"
  /\ RequireURLOwner(s, u, r, Show(s, u, r, "DetailPage", {r.id}, DetailPage(u, r.id)) /\ Reading)

HandleEdit(s, u, r) ==
  /\ r.route = "GET:/url/:id/edit"
  /\ RequireURLOwner(s, u, r,
       ShowForm(s, u, r, "EditPage", EditPage(r.id), {EditForm(u, r.id)}) /\ Reading)

HandleUpdate(s, u, r) ==
  /\ r.route = "PUT:/url/:id"
  /\ RequireURLOwner(s, u, r,
       /\ url_tags' = [url_tags EXCEPT ![<<u, r.id>>] = ParseTags(r.form)]
       /\ Redirect(s, Link("GET:/url/:id", r.id))
       /\ UNCHANGED <<library, feed_url, accounts, categories, feeds>>)

\* Faulty variant of HandleDelete: back to the page of the bookmark.
HandleDeleteBack(s, u, r) ==
  /\ r.route = "DELETE:/url/:id"
  /\ RequireURLOwner(s, u, r,
       /\ library' = [library EXCEPT ![u] = Where(@, Urls \ {r.id})]
       /\ Redirect(s, Link("GET:/url/:id", r.id))
       /\ UNCHANGED <<url_tags, feed_url, accounts, categories, feeds>>)

HandleDelete(s, u, r) ==
  /\ r.route = "DELETE:/url/:id"
  /\ RequireURLOwner(s, u, r,
       /\ library' = [library EXCEPT ![u] = Where(@, Urls \ {r.id})]
       /\ Redirect(s, Go("GET:/url"))
       /\ UNCHANGED <<url_tags, feed_url, accounts, categories, feeds>>)

-----------------------------------------------------------------------------
(***************************************************************************)
(* Categories.  Saving one takes a statement for its row, one that deletes *)
(* its members, one for each new member, and reads that give it back; a    *)
(* category that is deleted loses its members, and takes no others.        *)
(***************************************************************************)
Idle == [user |-> Nothing, category |-> Nothing, made |-> FALSE, at |-> "idle", want |-> {},
         left |-> {}]

CategoryNewPage ==
  {Go("GET:/url")}
    \cup {Request("POST:/category", n, typed) : n \in Names, typed \in MemberInputs}

CategoryEditPage(c) ==
  {Link("GET:/url?category", c), Link("DELETE:/category/:id", c)}
    \cup {Request("PUT:/category/:id", c, typed \cup {n}) : n \in Names, typed \in MemberInputs}

\* membersString
CategoryForm(c) == Request("PUT:/category/:id", c, members[c] \cup {cat_name[c]})

HandleNewCategory(s, u, r) ==
  /\ r.route = "GET:/category/new"
  /\ Show(s, u, r, "NewCategory", {}, CategoryNewPage)
  /\ Reading

Taken(u, n) == \E c \in ListCategories(u) : cat_name[c] = n

\* The statements go on in SetCategoryMembers.
Begin(s, u, r, c, made, typed) ==
  /\ saving' = [saving EXCEPT ![s] =
                  [user |-> u, category |-> c, made |-> made, at |-> "clear",
                   want |-> ParseMembers(typed), left |-> ParseMembers(typed)]]
  /\ IF s = Tab
     THEN page' = Blank(NoRequest) /\ pending' = r /\ UNCHANGED <<session, answer, fresh>>
     ELSE Ignored
  /\ UNCHANGED <<members, alone, settled, accounts, bookmarks, feeds>>

\* InsertCategory.  A user has no two categories of a name.
HandleCreateCategory(s, u, r) ==
  /\ r.route = "POST:/category"
  /\ \/ /\ Taken(u, r.id)
        /\ Show(s, u, r, "NewCategory", {}, CategoryNewPage)
        /\ Reading
     \/ /\ ~Taken(u, r.id)
        /\ \E c \in Categories :
             /\ owner[c] = Nothing
             /\ owner' = [owner EXCEPT ![c] = u]
             /\ cat_name' = [cat_name EXCEPT ![c] = r.id]
             /\ Begin(s, u, r, c, TRUE, r.form)

HandleEditCategory(s, u, r) ==
  /\ r.route = "GET:/category/:id/edit"
  /\ \/ /\ owner[r.id] = u
        /\ ShowForm(s, u, r, "EditCategory", CategoryEditPage(r.id), {CategoryForm(r.id)})
     \/ owner[r.id] # u /\ Refuse(s, r)
  /\ Reading

NameIn(r) == CHOOSE n \in Names : n \in r.form

HandleUpdateCategory(s, u, r) ==
  /\ r.route = "PUT:/category/:id"
  /\ \/ /\ owner[r.id] # u \/ (cat_name[r.id] # NameIn(r) /\ Taken(u, NameIn(r)))
        /\ Refuse(s, r)
        /\ Reading
     \/ /\ owner[r.id] = u /\ (cat_name[r.id] = NameIn(r) \/ ~Taken(u, NameIn(r)))
        /\ cat_name' = [cat_name EXCEPT ![r.id] = NameIn(r)]
        /\ Begin(s, u, r, r.id, FALSE, r.form \cap Members)
        /\ UNCHANGED owner

\* Requests between the first and the last statement on the members of c.
Saving(c) == {t \in Senders : saving[t].at = "insert" /\ saving[t].category = c}

\* Nothing is said of a category that was not there.
HandleDeleteCategory(s, u, r) ==
  /\ r.route = "DELETE:/category/:id"
  /\ IF owner[r.id] = u
     THEN /\ owner' = [owner EXCEPT ![r.id] = Gone]
          /\ members' = [members EXCEPT ![r.id] = {}]
          /\ alone' = alone \ Saving(r.id)
          /\ settled' = [settled EXCEPT ![r.id] = {}]
     ELSE UNCHANGED <<owner, members, alone, settled>>
  /\ Redirect(s, Go("GET:/url"))
  /\ UNCHANGED <<cat_name, saving, accounts, bookmarks, feeds>>

\* Faulty variant of DeleteAllCategoryMembers: a category without new members
\* keeps the old ones.
DeleteSomeCategoryMembers(s) ==
  /\ saving[s].at = "clear"
  /\ LET c == saving[s].category
     IN  /\ members' = [members EXCEPT ![c] = IF saving[s].want = {} THEN @ ELSE {}]
         /\ alone' = IF Saving(c) = {} THEN alone \cup {s} ELSE alone \ Saving(c)
         /\ settled' = [settled EXCEPT ![c] = {}]
  /\ saving' = [saving EXCEPT ![s].at = "insert"]
  /\ fresh' = (fresh /\ s = Tab)
  /\ UNCHANGED <<session, page, pending, answer, owner, cat_name, accounts, bookmarks, feeds,
                 faults>>

DeleteAllCategoryMembers(s) ==
  /\ saving[s].at = "clear"
  /\ LET c == saving[s].category
     IN  /\ members' = [members EXCEPT ![c] = {}]
         /\ alone' = IF Saving(c) = {} THEN alone \cup {s} ELSE alone \ Saving(c)
         /\ settled' = [settled EXCEPT ![c] = {}]
  /\ saving' = [saving EXCEPT ![s].at = "insert"]
  /\ fresh' = (fresh /\ s = Tab)
  /\ UNCHANGED <<session, page, pending, answer, owner, cat_name, accounts, bookmarks, feeds,
                 faults>>

InsertCategoryMember(s) ==
  /\ saving[s].at = "insert" /\ owner[saving[s].category] # Gone
  /\ \E m \in saving[s].left :
       /\ members' = [members EXCEPT ![saving[s].category] = @ \cup {m}]
       /\ saving' = [saving EXCEPT ![s].left = @ \ {m}]
  /\ fresh' = (fresh /\ s = Tab)
  /\ UNCHANGED <<session, page, pending, answer, owner, cat_name, alone, settled, accounts,
                 bookmarks, feeds, faults>>

\* What was done so far stays done: the row and some of the members.
GiveUp(s, how) ==
  /\ saving' = [saving EXCEPT ![s] = Idle]
  /\ alone' = alone \ {s}
  /\ IF saving[s].made
     THEN Show(s, saving[s].user, pending, "NewCategory", {}, CategoryNewPage)
     ELSE Deny(s, pending, how)
  /\ UNCHANGED <<owner, cat_name, members, settled, accounts, bookmarks, feeds>>

\* The category is deleted meanwhile: it takes no member and cannot be read.
CategoryIsGone(s) ==
  /\ saving[s].at = "insert" /\ owner[saving[s].category] = Gone
  /\ GiveUp(s, "refused")
  /\ UNCHANGED faults

StatementFails(s) ==
  /\ saving[s].at # "idle" /\ faults < MaxFaults
  /\ faults' = faults + 1
  /\ GiveUp(s, "failed")

\* GetCategory gives the category back.
CategorySaved(s) ==
  /\ saving[s].at = "insert" /\ saving[s].left = {} /\ owner[saving[s].category] # Gone
  /\ saving' = [saving EXCEPT ![s] = Idle]
  /\ alone' = alone \ {s}
  /\ settled' = IF s \in alone
                THEN [settled EXCEPT ![saving[s].category] = {saving[s].want}] ELSE settled
  /\ Redirect(s, Link("GET:/url?category", saving[s].category))
  /\ UNCHANGED <<owner, cat_name, members, accounts, bookmarks, feeds, faults>>

\* A page shows nothing of a request until it is answered.
SetCategoryMembers(s) ==
  \/ DeleteAllCategoryMembers(s) \/ InsertCategoryMember(s) \/ CategoryIsGone(s)
  \/ StatementFails(s) \/ CategorySaved(s)

-----------------------------------------------------------------------------
UrlHandler(s, u, r) ==
  \/ HandleList(s, u, r) \/ HandleSearch(s, u, r) \/ HandleNew(s, u, r)
  \/ HandleCreate(s, u, r) \/ HandleCreateByAPI(s, u, r) \/ HandleGet(s, u, r)
  \/ HandleEdit(s, u, r) \/ HandleUpdate(s, u, r) \/ HandleDelete(s, u, r)

CategoryHandler(s, u, r) ==
  \/ HandleNewCategory(s, u, r) \/ HandleCreateCategory(s, u, r)
  \/ HandleEditCategory(s, u, r) \/ HandleUpdateCategory(s, u, r)
  \/ HandleDeleteCategory(s, u, r)

=============================================================================
