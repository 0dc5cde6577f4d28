----------------------------- MODULE WebsiteProofs -----------------------------
(***************************************************************************)
(* What a page offers is honoured, a page that a page or a tag leads to    *)
(* shows something, a page patched card by card is what the server would   *)
(* give now, a form saved as it was filled in changes nothing, and saving  *)
(* a category implements Labels: for any tables the site begins with, any  *)
(* requests from elsewhere and any number of rows, and as long as the tab  *)
(* is used.                                                                *)
(***************************************************************************)
EXTENDS Website, SequenceTheorems, WellFoundedInduction, TLAPS

-----------------------------------------------------------------------------
(***************************************************************************)
(* Rows.  What a query computes in a loop over rows is proved by           *)
(* induction: there is no least number of rows for which it fails.         *)
(***************************************************************************)
LEMMA LeastNumber ==
  ASSUME NEW S \in SUBSET Nat, S # {}
  PROVE  \E m \in S : \A k \in S : m <= k
<1> DEFINE R == {p \in Nat \X Nat : p[1] < p[2]}
<1>1. IsWellFoundedOn(R, Nat)
  BY NatLessThanWellFounded DEF OpToRel
<1>2. \A x, y \in Nat : y < x => <<y, x>> \in R
  OBVIOUS
<1> HIDE DEF R
<1>3. PICK m \in S : \A y \in S : <<y, m>> \notin R
  BY <1>1, WFMin
<1>4. \A y \in S : ~(y < m)
  BY <1>2, <1>3
<1> QED BY <1>4

LEMMA Induction ==
  ASSUME NEW S, 0 \in S, \A n \in Nat : n \in S => n + 1 \in S
  PROVE  Nat \subseteq S
<1> SUFFICES ASSUME Nat \ S # {} PROVE FALSE
  OBVIOUS
<1>1. PICK m \in Nat \ S : \A k \in Nat \ S : m <= k
  BY LeastNumber
<1>2. m # 0 /\ m - 1 \in Nat
  BY <1>1
<1> QED BY <1>1, <1>2

\* A loop of n rounds that turns members of A into members of A has its results.
LEMMA LoopExists ==
  ASSUME NEW A, NEW base \in A, NEW n \in Nat, NEW round \in [1 .. n -> [A -> A]]
  PROVE  \E f \in [0 .. n -> A] : f[0] = base /\ \A k \in 1 .. n : f[k] = round[k][f[k - 1]]
<1> DEFINE Runs(m) ==
      {f \in [0 .. m -> A] : f[0] = base /\ \A k \in 1 .. m : f[k] = round[k][f[k - 1]]}
           S == {m \in Nat : m <= n => Runs(m) # {}}
<1>1. 0 \in S
  <2>1. [k \in 0 .. 0 |-> base] \in Runs(0)
    OBVIOUS
  <2> QED BY <2>1
<1>2. ASSUME NEW m \in Nat, m \in S PROVE m + 1 \in S
  <2> SUFFICES ASSUME m + 1 <= n PROVE Runs(m + 1) # {}
    OBVIOUS
  <2>1. PICK f \in Runs(m) : TRUE
    BY <1>2
  <2>2. /\ f \in [0 .. m -> A] /\ f[0] = base
        /\ \A k \in 1 .. m : f[k] = round[k][f[k - 1]]
    BY <2>1
  <2> DEFINE g == [k \in 0 .. m + 1 |-> IF k = m + 1 THEN round[m + 1][f[m]] ELSE f[k]]
  <2>3. m + 1 \in 1 .. n /\ round[m + 1] \in [A -> A] /\ f[m] \in A
    BY <2>2
  <2>4. g \in [0 .. m + 1 -> A] /\ g[0] = base /\ g[m + 1] = round[m + 1][f[m]]
    BY <2>2, <2>3
  <2>5. \A k \in 0 .. m : g[k] = f[k]
    OBVIOUS
  <2> HIDE DEF g
  <2>6. \A k \in 1 .. m + 1 : g[k] = round[k][g[k - 1]]
    BY <2>2, <2>4, <2>5
  <2> QED BY <2>4, <2>6
<1>3. n \in S
  <2> HIDE DEF S
  <2> QED BY <1>1, <1>2, Induction
<1>4. Runs(n) # {}
  BY <1>3
<1>5. PICK f \in Runs(n) : TRUE
  BY <1>4
<1> QED BY <1>5

\* Where takes the rows of S and no others.
Take(S, s, x) == IF x \in S THEN Append(s, x) ELSE s

LEMMA WhereFacts ==
  ASSUME NEW Rows, NEW rows \in Seq(Rows), NEW S
  PROVE  /\ Where(rows, S) \in Seq(Rows)
         /\ ToSet(Where(rows, S)) = ToSet(rows) \cap S
         /\ Len(Where(rows, S)) <= Len(rows)
<1> DEFINE A == Seq(Rows)
           n == Len(rows)
           Loop(f) == f = [k \in 0 .. n |->
                             IF k = 0 THEN <<>> ELSE Take(S, f[k - 1], rows[k])]
           round == [k \in 1 .. n |-> [s \in A |-> Take(S, s, rows[k])]]
           kept == CHOOSE f : Loop(f)
<1>1. n \in Nat /\ \A k \in 1 .. n : rows[k] \in Rows
  BY LenProperties, ElementOfSeq
<1>2. \E f : Loop(f)
  <2>1. \A k \in 1 .. n : [s \in A |-> Take(S, s, rows[k])] \in [A -> A]
    BY <1>1, AppendProperties DEF Take
  <2> DEFINE start == <<>>
  <2>2. round \in [1 .. n -> [A -> A]] /\ start \in A /\ n \in Nat
    BY <1>1, <2>1, EmptySeq
  <2>3. \A k \in 1 .. n : \A s \in A : round[k][s] = Take(S, s, rows[k])
    OBVIOUS
  <2> HIDE DEF round, A, n, start
  <2>4. PICK f \in [0 .. n -> A] :
         f[0] = start /\ \A k \in 1 .. n : f[k] = round[k][f[k - 1]]
    <3>1. ASSUME NEW B, NEW b \in B, NEW m \in Nat, NEW step \in [1 .. m -> [B -> B]]
          PROVE  \E f \in [0 .. m -> B] :
                   f[0] = b /\ \A k \in 1 .. m : f[k] = step[k][f[k - 1]]
      BY LoopExists
    <3> QED BY ONLY <2>2, <3>1
  <2>5. \A k \in 1 .. n : k - 1 \in 0 .. n /\ f[k - 1] \in A
    BY <1>1 DEF n
  <2>6. \A k \in 0 .. n : f[k] = IF k = 0 THEN <<>> ELSE Take(S, f[k - 1], rows[k])
    BY <1>1, <2>3, <2>4, <2>5 DEF start, n
  <2>7. Loop(f)
    BY <2>6 DEF n
  <2> QED BY <2>7
<1>3. Loop(kept)
  BY <1>2
<1>4. Where(rows, S) = kept[n]
  BY DEF Where, Take
<1> HIDE DEF kept
<1>5. /\ kept[0] = <<>>
      /\ \A k \in 1 .. n : kept[k] = Take(S, kept[k - 1], rows[k])
  BY <1>1, <1>3
<1> DEFINE Holds(s, k) == /\ s \in Seq(Rows) /\ Len(s) <= k
                          /\ \A x : x \in ToSet(s) <=> \E i \in 1 .. k : x = rows[i] /\ x \in S
           N == {k \in Nat : k <= n => Holds(kept[k], k)}
<1>6. 0 \in N
  <2>1. <<>> \in Seq(Rows) /\ Len(<<>>) = 0 /\ ToSet(<<>>) = {}
    BY EmptySeq DEF ToSet
  <2>2. Holds(<<>>, 0)
    BY <2>1
  <2> QED BY <1>5, <2>2
<1>7. ASSUME NEW k \in Nat, k \in N PROVE k + 1 \in N
  <2> SUFFICES ASSUME k + 1 <= n PROVE Holds(kept[k + 1], k + 1)
    OBVIOUS
  <2>1. k + 1 \in 1 .. n /\ (k + 1) - 1 = k /\ Holds(kept[k], k)
    BY <1>1, <1>7
  <2> DEFINE s == kept[k]
             x == rows[k + 1]
  <2>2. kept[k + 1] = IF x \in S THEN Append(s, x) ELSE s
    BY <1>5, <2>1 DEF Take
  <2>3. s \in Seq(Rows) /\ Len(s) \in Nat /\ Len(s) <= k /\ x \in Rows
    BY <1>1, <2>1, LenProperties
  <2>4. Append(s, x) \in Seq(Rows) /\ Len(Append(s, x)) = Len(s) + 1
    BY <2>3, AppendProperties
  <2>5. ToSet(Append(s, x)) = ToSet(s) \cup {x}
    <3> HIDE DEF s, x
    <3>1. /\ DOMAIN Append(s, x) = 1 .. Len(s) + 1 /\ DOMAIN s = 1 .. Len(s)
          /\ Append(s, x)[Len(s) + 1] = x
          /\ \A i \in 1 .. Len(s) : Append(s, x)[i] = s[i]
      BY <2>3, <2>4, AppendProperties, LenProperties
    <3> QED BY <2>3, <3>1 DEF ToSet
  <2>6. \A y : (\E i \in 1 .. k + 1 : y = rows[i] /\ y \in S)
                 <=> (\E i \in 1 .. k : y = rows[i] /\ y \in S) \/ (y = x /\ y \in S)
    <3>1. 1 .. k + 1 = (1 .. k) \cup {k + 1}
      OBVIOUS
    <3> QED BY <3>1
  <2> HIDE DEF s, x
  <2> QED BY <2>1, <2>2, <2>3, <2>4, <2>5, <2>6 DEF s
<1>8. n \in N
  <2> HIDE DEF N
  <2> QED BY <1>1, <1>6, <1>7, Induction
<1>9. Holds(kept[n], n)
  BY <1>1, <1>8
<1>10. ToSet(rows) = {rows[i] : i \in 1 .. n}
  BY LenProperties DEF ToSet
<1> QED BY <1>4, <1>9, <1>10

\* Page n of rows, size to a page, shows something.
Reaches(rows, n, size) == (n - 1) * size < Len(rows)

LEMMA SubSeqFacts ==
  ASSUME NEW B, NEW rows \in Seq(B), NEW m \in Nat, NEW k \in Nat, k <= Len(rows)
  PROVE  LET s == SubSeq(rows, m + 1, k)
         IN  /\ s \in Seq(B) /\ Len(s) \in Nat
             /\ Len(s) = IF m + 1 <= k THEN k - m ELSE 0
             /\ ToSet(s) \subseteq ToSet(rows)
<1> DEFINE s == SubSeq(rows, m + 1, k)
<1>1. Len(rows) \in Nat /\ DOMAIN rows = 1 .. Len(rows)
  BY LenProperties
<1>2. \A i \in m + 1 .. k : rows[i] \in B
  BY <1>1, ElementOfSeq
<1>3. /\ s \in Seq(B) /\ Len(s) = IF m + 1 <= k THEN k - m ELSE 0
      /\ \A i \in 1 .. k - m : s[i] = rows[m + i]
  BY <1>1, <1>2, SubSeqProperties
<1>4. DOMAIN s = 1 .. Len(s)
  BY <1>3, LenProperties
<1>5. ASSUME NEW i \in DOMAIN s PROVE s[i] \in ToSet(rows)
  <2>1. i \in 1 .. k - m /\ m + i \in DOMAIN rows
    BY <1>1, <1>3, <1>4, <1>5
  <2> QED BY <1>3, <2>1 DEF ToSet
<1>6. ToSet(s) \subseteq ToSet(rows)
  <2> HIDE DEF s
  <2> QED BY <1>5 DEF ToSet
<1> QED BY <1>3, <1>6

LEMMA SliceShows ==
  ASSUME NEW A, NEW rows \in Seq(A), NEW n \in Nat \ {0}, NEW size \in Nat \ {0}
  PROVE  LET asked == Slice(rows, n, size)
             shown == Held(asked, size)
         IN  /\ shown \subseteq ToSet(rows)
             /\ shown # {} <=> Reaches(rows, n, size)
             /\ HasMore(asked, size) => Reaches(rows, n + 1, size)
             /\ n > 1 /\ shown # {} => Reaches(rows, n - 1, size)
<1> DEFINE o == (n - 1) * size
           len == Len(rows)
           hi == IF n * size + 1 < len THEN n * size + 1 ELSE len
           asked == Slice(rows, n, size)
           cut == IF size < Len(asked) THEN size ELSE Len(asked)
           shown == Held(asked, size)
<1>1. /\ o \in Nat /\ len \in Nat /\ n * size = o + size
      /\ (n + 1 - 1) * size = o + size /\ (n > 1 => o >= size /\ (n - 1 - 1) * size = o - size)
  <2>1. len \in Nat
    BY LenProperties
  <2>2. o \in Nat /\ n * size = o + size /\ (n + 1 - 1) * size = o + size
    OBVIOUS
  <2>3. n > 1 => o >= size /\ (n - 1 - 1) * size = o - size
    OBVIOUS
  <2> QED BY <2>1, <2>2, <2>3
<1>2. asked = SubSeq(rows, o + 1, hi)
  BY DEF Slice
<1>3. /\ Reaches(rows, n, size) <=> o < len
      /\ Reaches(rows, n + 1, size) <=> o + size < len
      /\ n > 1 => (Reaches(rows, n - 1, size) <=> o - size < len)
  BY <1>1 DEF Reaches
<1>4. hi \in Nat /\ hi <= len /\ hi = IF o + size + 1 < len THEN o + size + 1 ELSE len
  BY <1>1
<1> HIDE DEF o, hi
<1>5. /\ asked \in Seq(A) /\ Len(asked) \in Nat
      /\ Len(asked) = IF o + 1 <= hi THEN hi - o ELSE 0
      /\ ToSet(asked) \subseteq ToSet(rows)
  <2> HIDE DEF asked, len
  <2> QED BY <1>1, <1>2, <1>4, SubSeqFacts DEF len
<1>6. shown = ToSet(SubSeq(asked, 1, cut))
  BY DEF Held
<1> HIDE DEF asked, len, shown
<1>7. cut \in Nat /\ cut <= Len(asked) /\ (cut = 0 <=> Len(asked) = 0)
  BY <1>5
<1> HIDE DEF cut
<1>8. LET held == SubSeq(asked, 1, cut)
      IN  /\ held \in Seq(A) /\ Len(held) = cut /\ ToSet(held) \subseteq ToSet(asked)
          /\ DOMAIN held = 1 .. cut
  <2> DEFINE none == 0
  <2>1. none \in Nat /\ none + 1 = 1 /\ \A k \in Nat : k - none = k
    OBVIOUS
  <2> HIDE DEF none
  <2>2. LET held == SubSeq(asked, none + 1, cut)
        IN  /\ held \in Seq(A)
            /\ Len(held) = IF none + 1 <= cut THEN cut - none ELSE 0
            /\ ToSet(held) \subseteq ToSet(asked)
    BY ONLY <1>5, <1>7, <2>1, SubSeqFacts
  <2>3. Len(SubSeq(asked, 1, cut)) = cut
    BY <1>7, <2>1, <2>2
  <2> QED BY <2>1, <2>2, <2>3, LenProperties
<1>9. shown # {} <=> Len(asked) # 0
  <2>1. shown # {} <=> cut # 0
    BY <1>6, <1>7, <1>8 DEF ToSet
  <2> QED BY <1>7, <2>1
<1>10. shown \subseteq ToSet(rows)
  BY <1>5, <1>6, <1>8
<1>11. Len(asked) # 0 <=> o < len
  BY <1>1, <1>4, <1>5
<1>12. Len(asked) > size => o + size < len
  BY <1>1, <1>4, <1>5
<1> QED BY <1>1, <1>3, <1>9, <1>10, <1>11, <1>12 DEF HasMore, shown, asked

-----------------------------------------------------------------------------
(***************************************************************************)
(* The tables hold rows, and a request that saves a category has what is   *)
(* left to be inserted.                                                    *)
(***************************************************************************)
Saves ==
  [user : Users, category : Categories, made : BOOLEAN, at : {"clear", "insert"},
   want : SUBSET Members, left : SUBSET Members]

SavingInv ==
  /\ saving \in [Senders -> {Idle} \cup Saves]
  /\ \A s \in Senders : saving[s].at = "clear" => saving[s].left = saving[s].want
  /\ \A s \in alone : s \in Senders /\ saving[s].at = "insert"

AccountsInv ==
  /\ users \subseteq Users
  /\ emails \in [Users -> Emails \cup {Nothing}] /\ \A u \in users : emails[u] \in Emails
  /\ prefs \in [Users -> Prefs]

BookmarksInv ==
  /\ library \in [Users -> Seq(Urls)]
  /\ url_tags \in [Users \X Urls -> SUBSET Tags]
  /\ feed_url \subseteq {b \in Urls : PageFeed[b] # Nothing}

CategoriesInv ==
  /\ owner \in [Categories -> Users \cup {Nothing, Gone}]
  /\ cat_name \in [Categories -> Names]
  /\ members \in [Categories -> SUBSET Members]

FeedsInv ==
  /\ subs \in [Users -> SUBSET Feeds]
  /\ feed_tags \in [Users \X Feeds -> SUBSET Tags]
  /\ items \subseteq Items
  /\ read \in [Users -> SUBSET Items]

TableInv == AccountsInv /\ BookmarksInv /\ CategoriesInv /\ FeedsInv /\ SavingInv

-----------------------------------------------------------------------------
\* What the queries select.

LEMMA LibraryRows ==
  ASSUME BookmarksInv, NEW u \in Users
  PROVE  /\ ListURLs(u) \in Seq(Urls) /\ Len(ListURLs(u)) \in Nat
         /\ \A b : Has(u, b) <=> b \in ToSet(library[u])
         /\ ToSet(ListURLs(u)) = ToSet(library[u]) /\ ToSet(library[u]) \subseteq Urls
<1> DEFINE s == library[u]
           t == ListURLs(u)
<1>1. /\ s \in Seq(Urls) /\ Len(s) \in Nat /\ DOMAIN s = 1 .. Len(s)
      /\ \A i \in 1 .. Len(s) : s[i] \in Urls
  BY LenProperties, ElementOfSeq DEF BookmarksInv
<1>2. t = [i \in 1 .. Len(s) |-> s[(Len(s) - i) + 1]]
  BY DEF ListURLs, Reverse
<1>3. \A b : Has(u, b) <=> b \in ToSet(library[u])
  BY <1>1 DEF Has, Contains, ToSet
<1> HIDE DEF s, t
<1>4. \A i \in 1 .. Len(s) : (Len(s) - i) + 1 \in 1 .. Len(s)
  BY <1>1
<1>5. t \in [1 .. Len(s) -> Urls]
  BY <1>1, <1>2, <1>4
<1>6. t \in Seq(Urls) /\ Len(t) = Len(s) /\ DOMAIN t = 1 .. Len(s)
  BY <1>1, <1>5, SeqDef, LenProperties
<1>7. ToSet(t) = ToSet(s)
  <2>1. ToSet(t) \subseteq ToSet(s)
    BY <1>1, <1>2, <1>4, <1>6 DEF ToSet
  <2>2. ASSUME NEW i \in 1 .. Len(s) PROVE s[i] \in ToSet(t)
    <3> DEFINE j == (Len(s) - i) + 1
    <3>1. j \in 1 .. Len(s) /\ (Len(s) - j) + 1 = i
      BY <1>1
    <3>2. t[j] = s[i]
      BY <1>2, <3>1
    <3> HIDE DEF j
    <3> QED BY <1>6, <3>1, <3>2 DEF ToSet
  <2> QED BY <1>1, <2>1, <2>2 DEF ToSet
<1>8. ToSet(s) \subseteq Urls
  BY <1>1 DEF ToSet
<1> QED BY <1>1, <1>3, <1>6, <1>7, <1>8 DEF s, t

LEMMA TagRows ==
  ASSUME BookmarksInv, NEW u \in Users, NEW t
  PROVE  /\ ListURLsByTag(u, t) \in Seq(Urls)
         /\ \A b : b \in ToSet(ListURLsByTag(u, t))
                     <=> b \in ToSet(library[u]) /\ t \in url_tags[<<u, b>>]
         /\ Len(ListURLsByTag(u, t)) <= Len(ListURLs(u))
<1> DEFINE S == {b \in Urls : t \in url_tags[<<u, b>>]}
<1>1. ListURLsByTag(u, t) = Where(ListURLs(u), S)
  BY DEF ListURLsByTag
<1>2. ToSet(library[u]) \cap S = {b \in ToSet(library[u]) : t \in url_tags[<<u, b>>]}
  BY LibraryRows
<1> HIDE DEF S
<1> QED BY <1>1, <1>2, LibraryRows, WhereFacts

LEMMA CategoryRows ==
  ASSUME BookmarksInv, NEW u \in Users, NEW c
  PROVE  /\ ListURLsByCategory(u, c) \in Seq(Urls)
         /\ ToSet(ListURLsByCategory(u, c)) \subseteq ToSet(library[u])
         /\ Len(ListURLsByCategory(u, c)) <= Len(ListURLs(u))
<1> DEFINE S == {b \in Urls :
                   url_tags[<<u, b>>] \cap members[c] # {} \/ Host[b] \in members[c]}
<1>1. ListURLsByCategory(u, c) = Where(ListURLs(u), S)
  BY DEF ListURLsByCategory
<1> HIDE DEF S
<1>2. /\ ListURLs(u) \in Seq(Urls) /\ ToSet(ListURLs(u)) = ToSet(library[u])
  BY LibraryRows
<1> QED BY <1>1, <1>2, WhereFacts

LEMMA ListedRows ==
  ASSUME BookmarksInv, NEW u \in Users, NEW r,
         r.route \in {"GET:/url", "GET:/url?tag", "GET:/url?category"}
  PROVE  /\ Listed(u, r) \in Seq(Urls)
         /\ ToSet(Listed(u, r)) \subseteq ToSet(library[u])
         /\ Len(Listed(u, r)) <= Len(ListURLs(u))
         /\ r.route = "GET:/url" => Listed(u, r) = ListURLs(u)
         /\ r.route = "GET:/url?tag" => Listed(u, r) = ListURLsByTag(u, r.id)
         /\ r.route = "GET:/url?category" => Listed(u, r) = ListURLsByCategory(u, r.id)
<1>1. CASE r.route = "GET:/url"
  <2>1. Listed(u, r) = ListURLs(u)
    BY <1>1 DEF Listed
  <2>2. /\ ListURLs(u) \in Seq(Urls) /\ Len(ListURLs(u)) \in Nat
        /\ ToSet(ListURLs(u)) = ToSet(library[u])
    BY LibraryRows
  <2>3. \A k \in Nat : k <= k
    BY ONLY SMT
  <2> QED BY <1>1, <2>1, <2>2, <2>3
<1>2. CASE r.route = "GET:/url?tag"
  <2>1. Listed(u, r) = ListURLsByTag(u, r.id)
    BY <1>2 DEF Listed
  <2> QED BY <1>2, <2>1, TagRows
<1>3. CASE r.route = "GET:/url?category"
  <2>1. Listed(u, r) = ListURLsByCategory(u, r.id)
    BY <1>3 DEF Listed
  <2> QED BY <1>3, <2>1, CategoryRows
<1> QED BY <1>1, <1>2, <1>3

LEMMA TimelineRows ==
  ASSUME NEW u
  PROVE  /\ ListTimelineItems(u) \in Seq(Items)
         /\ ToSet(ListTimelineItems(u)) = {i \in Items : GetTimelineItem(u, i)}
<1> DEFINE S == {i \in items : FeedOf[i] \in subs[u]}
<1>1. ListTimelineItems(u) = Where(Newest, S)
  BY DEF ListTimelineItems
<1>2. Items \cap S = {i \in Items : GetTimelineItem(u, i)}
  BY DEF GetTimelineItem
<1> HIDE DEF S
<1> QED BY <1>1, <1>2, SiteAssumption, WhereFacts

LEMMA FeedRows ==
  ASSUME NEW f
  PROVE  /\ ListFeedItems(f) \in Seq(Items)
         /\ ToSet(ListFeedItems(f)) \subseteq {i \in items \cap Items : FeedOf[i] = f}
<1> DEFINE S == {i \in items : FeedOf[i] = f}
           all == Where(Newest, S)
           n == IF FeedSize < Len(all) THEN FeedSize ELSE Len(all)
           none == 0
<1>1. ListFeedItems(f) = SubSeq(all, 1, n)
  BY DEF ListFeedItems
<1>2. Items \cap S = {i \in items \cap Items : FeedOf[i] = f}
  OBVIOUS
<1> HIDE DEF S
<1>3. all \in Seq(Items) /\ ToSet(all) = Items \cap S /\ Len(all) \in Nat
  BY SiteAssumption, WhereFacts, LenProperties
<1> HIDE DEF all
<1>4. n \in Nat /\ n <= Len(all)
  BY <1>3, SiteAssumption
<1>5. none \in Nat /\ none + 1 = 1
  OBVIOUS
<1> HIDE DEF n, none
<1>6. LET s == SubSeq(all, none + 1, n) IN s \in Seq(Items) /\ ToSet(s) \subseteq ToSet(all)
  BY ONLY <1>3, <1>4, <1>5, SubSeqFacts
<1> QED BY <1>1, <1>2, <1>3, <1>5, <1>6

-----------------------------------------------------------------------------
(***************************************************************************)
(* Every handler leaves tables behind that hold rows, whoever sent the     *)
(* request, and touches no category another request is saving.             *)
(***************************************************************************)
TablesKept(s) ==
  /\ TableInv' /\ users \subseteq users'
  /\ \A t \in Senders \ {s} : saving'[t] = saving[t]

LEMMA Unchanged ==
  ASSUME TableInv
  PROVE  /\ UNCHANGED accounts => AccountsInv' /\ users \subseteq users'
         /\ UNCHANGED bookmarks => BookmarksInv'
         /\ UNCHANGED <<owner, cat_name, members>> => CategoriesInv'
         /\ UNCHANGED feeds => FeedsInv'
         /\ UNCHANGED <<saving, alone>> => SavingInv' /\ saving' = saving
<1>1. UNCHANGED accounts => AccountsInv' /\ users \subseteq users'
  BY DEF TableInv, accounts, AccountsInv
<1>2. UNCHANGED bookmarks => BookmarksInv'
  BY DEF TableInv, bookmarks, BookmarksInv
<1>3. UNCHANGED <<owner, cat_name, members>> => CategoriesInv'
  BY DEF TableInv, CategoriesInv
<1>4. UNCHANGED feeds => FeedsInv'
  BY DEF TableInv, feeds, FeedsInv
<1>5. UNCHANGED <<saving, alone>> => SavingInv' /\ saving' = saving
  BY DEF TableInv, SavingInv
<1> QED BY <1>1, <1>2, <1>3, <1>4, <1>5

LEMMA ReadingKeeps ==
  ASSUME TableInv, NEW s, Reading
  PROVE  TablesKept(s)
  BY Unchanged DEF Reading, tables, categories, TablesKept, TableInv

\* A request that changes only bookmarks, and so on.
LEMMA BookmarksKeep ==
  ASSUME TableInv, NEW s, UNCHANGED <<accounts, categories, feeds>>, BookmarksInv'
  PROVE  TablesKept(s)
  BY Unchanged DEF categories, TablesKept, TableInv

LEMMA FeedsKeep ==
  ASSUME TableInv, NEW s, UNCHANGED <<accounts, bookmarks, categories>>, FeedsInv'
  PROVE  TablesKept(s)
  BY Unchanged DEF categories, TablesKept, TableInv

LEMMA AccountsKeep ==
  ASSUME TableInv, NEW s, UNCHANGED <<bookmarks, categories, feeds>>, AccountsInv',
         users \subseteq users'
  PROVE  TablesKept(s)
  BY Unchanged DEF categories, TablesKept, TableInv

LEMMA ParseTagsFacts ==
  ASSUME NEW typed, typed \subseteq Tags
  PROVE  ParseTags(typed) \subseteq Tags
  BY SiteAssumption DEF ParseTags

LEMMA ParseMembersFacts ==
  ASSUME NEW typed
  PROVE  ParseMembers(typed) \subseteq Members
<1>1. typed \cap Tags \subseteq Tags
  OBVIOUS
<1>2. ParseTags(typed \cap Tags) \subseteq Tags
  BY <1>1, ParseTagsFacts
<1> QED BY <1>2 DEF ParseMembers, Members

LEMMA UrlTables ==
  ASSUME TableInv, NEW s, NEW u \in Users, NEW r, WellFormed(r), UrlHandler(s, u, r)
  PROVE  TablesKept(s) /\ UNCHANGED <<accounts, categories, feeds>>
<1> DEFINE Done == TablesKept(s) /\ UNCHANGED <<accounts, categories, feeds>>
<1>1. Reading => Done
  BY ReadingKeeps DEF Reading, tables
<1>2. ASSUME BookmarksInv', UNCHANGED <<accounts, categories, feeds>> PROVE Done
  BY <1>2, BookmarksKeep
<1>3. BookmarksInv
  BY DEF TableInv
<1>4. ASSUME NEW b \in Urls, NEW tags, tags \subseteq Tags, Bookmark(u, b, tags)
      PROVE  /\ library' \in [Users -> Seq(Urls)]
             /\ url_tags' \in [Users \X Urls -> SUBSET Tags]
  <2>1. Append(library[u], b) \in Seq(Urls)
    BY <1>3, AppendProperties DEF BookmarksInv
  <2> QED BY <1>3, <1>4, <2>1 DEF Bookmark, BookmarksInv
<1>5. CASE HandleList(s, u, r) \/ HandleSearch(s, u, r) \/ HandleNew(s, u, r)
           \/ HandleGet(s, u, r) \/ HandleEdit(s, u, r)
  <2>1. Reading
    BY <1>5 DEF HandleList, HandleSearch, HandleNew, HandleGet, HandleEdit, RequireURLOwner
  <2> QED BY <1>1, <2>1
<1>6. CASE HandleCreate(s, u, r)
  <2>1. CASE Refused(u, r.id)
    BY <1>1, <1>6, <2>1 DEF HandleCreate
  <2>2. CASE ~Refused(u, r.id)
    <3>1. /\ UNCHANGED <<accounts, categories, feeds>> /\ r.id \in Urls /\ r.form \subseteq Tags
      BY <1>6, <2>2 DEF HandleCreate, WellFormed
    <3>2. PICK fetched \in BOOLEAN :
            /\ Bookmark(u, r.id, IF ParseTags(r.form) # {} THEN ParseTags(r.form)
                                 ELSE IF fetched THEN PageTags[r.id] ELSE {})
            /\ feed_url' = feed_url \cup {b \in {r.id} : fetched /\ PageFeed[b] # Nothing}
      BY <1>6, <2>2 DEF HandleCreate
    <3> DEFINE tags == IF ParseTags(r.form) # {} THEN ParseTags(r.form)
                       ELSE IF fetched THEN PageTags[r.id] ELSE {}
    <3>3. tags \subseteq Tags
      <4>1. ParseTags(r.form) \subseteq Tags
        BY <3>1, ParseTagsFacts
      <4>2. PageTags[r.id] \subseteq Tags
        BY <3>1, SiteAssumption
      <4> QED BY <4>1, <4>2
    <3> HIDE DEF tags
    <3>4. Bookmark(u, r.id, tags)
      BY <3>2 DEF tags
    <3>5. BookmarksInv'
      BY <1>3, <1>4, <3>1, <3>2, <3>3, <3>4 DEF BookmarksInv
    <3> QED BY <1>2, <3>1, <3>5
  <2> QED BY <2>1, <2>2
<1>7. CASE HandleCreateByAPI(s, u, r)
  <2>1. /\ UNCHANGED <<accounts, categories, feeds, feed_url>>
        /\ r.id \in Urls /\ r.form \subseteq Tags /\ Bookmark(u, r.id, r.form)
    BY <1>7 DEF HandleCreateByAPI, WellFormed
  <2>2. BookmarksInv'
    BY <1>3, <1>4, <2>1 DEF BookmarksInv
  <2> QED BY <1>2, <2>1, <2>2
<1>8. CASE HandleUpdate(s, u, r)
  <2>1. CASE Reading
    BY <1>1, <2>1
  <2>2. CASE ~Reading
    <3>1. /\ url_tags' = [url_tags EXCEPT ![<<u, r.id>>] = ParseTags(r.form)]
          /\ UNCHANGED <<library, feed_url, accounts, categories, feeds>>
          /\ r.id \in Urls /\ r.form \subseteq Tags
      BY <1>8, <2>2 DEF HandleUpdate, RequireURLOwner, WellFormed, BookmarkRoutes
    <3>2. BookmarksInv'
      BY <1>3, <3>1, ParseTagsFacts DEF BookmarksInv
    <3> QED BY <1>2, <3>1, <3>2
  <2> QED BY <2>1, <2>2
<1>9. CASE HandleDelete(s, u, r)
  <2>1. CASE Reading
    BY <1>1, <2>1
  <2>2. CASE ~Reading
    <3>1. /\ library' = [library EXCEPT ![u] = Where(@, Urls \ {r.id})]
          /\ UNCHANGED <<url_tags, feed_url, accounts, categories, feeds>>
      BY <1>9, <2>2 DEF HandleDelete, RequireURLOwner
    <3>2. Where(library[u], Urls \ {r.id}) \in Seq(Urls)
      BY <1>3, WhereFacts DEF BookmarksInv
    <3>3. BookmarksInv'
      BY <1>3, <3>1, <3>2 DEF BookmarksInv
    <3> QED BY <1>2, <3>1, <3>3
  <2> QED BY <2>1, <2>2
<1>10. Done
  BY <1>5, <1>6, <1>7, <1>8, <1>9 DEF UrlHandler
<1> QED BY <1>10 DEF Done

LEMMA FeedTables ==
  ASSUME TableInv, NEW s, NEW u \in Users, NEW r, WellFormed(r), FeedHandler(s, u, r)
  PROVE  TablesKept(s) /\ UNCHANGED <<accounts, bookmarks, categories>>
<1> DEFINE Done == TablesKept(s) /\ UNCHANGED <<accounts, bookmarks, categories>>
<1>1. Reading => Done
  BY ReadingKeeps DEF Reading, tables
<1>2. ASSUME FeedsInv', UNCHANGED <<accounts, bookmarks, categories>> PROVE Done
  BY <1>2, FeedsKeep
<1>3. FeedsInv
  BY DEF TableInv
<1>4. CASE HandleTimeline(s, u, r) \/ HandleNewFeed(s, u, r) \/ HandleGetFeed(s, u, r)
           \/ HandleEditFeed(s, u, r)
  <2>1. Reading
    BY <1>4 DEF HandleTimeline, HandleNewFeed, HandleGetFeed, HandleEditFeed, RequireFeedOwner
  <2> QED BY <1>1, <2>1
<1>5. CASE HandleCreateFeed(s, u, r)
  <2>1. CASE Reading
    BY <1>1, <2>1
  <2>2. CASE ~Reading
    <3> DEFINE tags == IF ParseTags(r.form) # {} THEN ParseTags(r.form)
                       ELSE ParseTags(FeedTags[r.id])
    <3>1. /\ subs' = [subs EXCEPT ![u] = @ \cup {r.id}]
          /\ feed_tags' = [feed_tags EXCEPT ![<<u, r.id>>] = tags]
          /\ UNCHANGED <<items, read, accounts, bookmarks, categories>>
          /\ r.id \in Feeds /\ r.form \subseteq Tags
      BY <1>5, <2>2 DEF HandleCreateFeed, WellFormed
    <3>2. FeedTags[r.id] \subseteq Tags
      BY <3>1, SiteAssumption
    <3>3. tags \subseteq Tags
      BY <3>1, <3>2, ParseTagsFacts
    <3> HIDE DEF tags
    <3>4. FeedsInv'
      BY <1>3, <3>1, <3>3 DEF FeedsInv
    <3> QED BY <1>2, <3>1, <3>4
  <2> QED BY <2>1, <2>2
<1>6. CASE HandleUpdateFeed(s, u, r)
  <2>1. CASE Reading
    BY <1>1, <2>1
  <2>2. CASE ~Reading
    <3>1. /\ feed_tags' = [feed_tags EXCEPT ![<<u, r.id>>] = ParseTags(r.form)]
          /\ UNCHANGED <<subs, items, read, accounts, bookmarks, categories>>
          /\ r.form \subseteq Tags
      BY <1>6, <2>2 DEF HandleUpdateFeed, RequireFeedOwner, WellFormed
    <3>2. FeedsInv'
      BY <1>3, <3>1, ParseTagsFacts DEF FeedsInv
    <3> QED BY <1>2, <3>1, <3>2
  <2> QED BY <2>1, <2>2
<1>7. CASE HandleDeleteFeed(s, u, r)
  <2>1. CASE Reading
    BY <1>1, <2>1
  <2>2. CASE ~Reading
    <3>1. /\ subs' = [subs EXCEPT ![u] = @ \ {r.id}]
          /\ UNCHANGED <<feed_tags, items, read, accounts, bookmarks, categories>>
      BY <1>7, <2>2 DEF HandleDeleteFeed, RequireFeedOwner, RemoveFeedFromUser
    <3>2. FeedsInv'
      BY <1>3, <3>1 DEF FeedsInv
    <3> QED BY <1>2, <3>1, <3>2
  <2> QED BY <2>1, <2>2
<1>8. CASE HandleMarkRead(s, u, r) \/ HandleMarkUnread(s, u, r)
  <2>1. /\ r.id \in Items /\ UNCHANGED <<subs, feed_tags, items, accounts, bookmarks, categories>>
        /\ MarkItemRead(u, r.id) \/ MarkItemUnread(u, r.id)
    BY <1>8 DEF HandleMarkRead, HandleMarkUnread, WellFormed, Toggles
  <2>2. FeedsInv'
    BY <1>3, <2>1 DEF FeedsInv, MarkItemRead, MarkItemUnread
  <2> QED BY <1>2, <2>1, <2>2
<1>9. CASE HandleMarkAllRead(s, u, r)
  <2>1. /\ UNCHANGED <<subs, feed_tags, items, accounts, bookmarks, categories>>
        /\ MarkAllItemsRead(u)
    BY <1>9 DEF HandleMarkAllRead
  <2>2. FeedsInv'
    BY <1>3, <2>1 DEF FeedsInv, MarkAllItemsRead
  <2> QED BY <1>2, <2>1, <2>2
<1>10. CASE HandleMarkFeedAllRead(s, u, r)
  <2>1. CASE Reading
    BY <1>1, <2>1
  <2>2. CASE ~Reading
    <3>1. /\ UNCHANGED <<subs, feed_tags, items, accounts, bookmarks, categories>>
          /\ MarkFeedItemsRead(u, r.id)
      BY <1>10, <2>2 DEF HandleMarkFeedAllRead, RequireFeedOwner
    <3>2. FeedsInv'
      BY <1>3, <3>1 DEF FeedsInv, MarkFeedItemsRead
    <3> QED BY <1>2, <3>1, <3>2
  <2> QED BY <2>1, <2>2
<1>11. Done
  BY <1>4, <1>5, <1>6, <1>7, <1>8, <1>9, <1>10 DEF FeedHandler
<1> QED BY <1>11

LEMMA AccountTables ==
  ASSUME TableInv, NEW s, NEW u, NEW r, WellFormed(r),
         \/ PublicHandler(s, u, r)
         \/ u \in Users /\ (ApiKeyHandler(s, u, r) \/ AdminHandler(s, u, r))
  PROVE  TablesKept(s) /\ UNCHANGED <<bookmarks, categories, feeds>>
<1> DEFINE Done == TablesKept(s) /\ UNCHANGED <<bookmarks, categories, feeds>>
<1>1. Reading => Done
  BY ReadingKeeps DEF Reading, tables
<1>2. ASSUME AccountsInv', users \subseteq users', UNCHANGED <<bookmarks, categories, feeds>>
      PROVE  Done
  BY <1>2, AccountsKeep
<1>3. AccountsInv
  BY DEF TableInv
<1>4. ASSUME UNCHANGED <<users, emails, prefs, bookmarks, categories, feeds>> PROVE Done
  <2>1. AccountsInv' /\ users \subseteq users'
    BY <1>3, <1>4 DEF AccountsInv
  <2> QED BY <1>2, <1>4, <2>1
<1>5. CASE HandleCreateUser(s, u, r)
  <2>1. CASE Reading
    BY <1>1, <2>1
  <2>2. CASE ~Reading
    <3>1. /\ users' = users \cup {r.id} /\ emails' = [emails EXCEPT ![r.id] = EmailIn(r)]
          /\ UNCHANGED <<prefs, api_keys, blocklist, bookmarks, categories, feeds>>
          /\ r.id \in Users /\ r.form \cap Emails # {}
      BY <1>5, <2>2 DEF HandleCreateUser, CreateUser, WellFormed
    <3>2. EmailIn(r) \in Emails
      BY <3>1 DEF EmailIn
    <3>3. AccountsInv' /\ users \subseteq users'
      BY <1>3, <3>1, <3>2 DEF AccountsInv
    <3> QED BY <1>2, <3>1, <3>3
  <2> QED BY <2>1, <2>2
<1>6. CASE PublicHandler(s, u, r) /\ ~HandleCreateUser(s, u, r)
  <2>1. Reading
    BY <1>6 DEF PublicHandler, HandleLoginForm, HandleLogin, HandleLogout, HandleNewUser
  <2> QED BY <1>1, <2>1
<1>7. CASE ApiKeyHandler(s, u, r)
  <2>1. CASE Reading
    BY <1>1, <2>1
  <2>2. CASE ~Reading
    BY <1>4, <1>7, <2>2
       DEF ApiKeyHandler, HandleListKeys, HandleNewKey, HandleCreateKey, HandleDeleteKey
  <2> QED BY <2>1, <2>2
<1>8. CASE AdminHandler(s, u, r)
  <2>1. CASE Reading
    BY <1>1, <2>1
  <2>2. CASE ~Reading
    BY <1>4, <1>8, <2>2
       DEF AdminHandler, HandleIndex, HandleDispatch, HandleCreateInvite, HandleDeleteInvite,
           HandleListUsers, HandleResetPasswordForm, HandleResetPassword, HandleListBlocklist,
           HandleNewBlocklistForm, HandleCreateBlocklistEntry, HandleDeleteBlocklistEntry
  <2> QED BY <2>1, <2>2
<1>9. Done
  BY <1>5, <1>6, <1>7, <1>8
<1> QED BY <1>9

LEMMA UserTables ==
  ASSUME TableInv, NEW s, NEW u \in users, NEW r, WellFormed(r), UserHandler(s, u, r)
  PROVE  TablesKept(s) /\ UNCHANGED <<categories, feeds>>
<1> DEFINE Done == TablesKept(s) /\ UNCHANGED <<categories, feeds>>
<1>1. Reading => Done
  BY ReadingKeeps DEF Reading, tables
<1>2. ASSUME AccountsInv', users \subseteq users', UNCHANGED <<bookmarks, categories, feeds>>
      PROVE  Done
  BY <1>2, AccountsKeep
<1>3. AccountsInv /\ BookmarksInv /\ u \in Users
  BY DEF TableInv, AccountsInv
<1>4. CASE HandleSettings(s, u, r) \/ HandleEditUser(s, u, r)
           \/ HandleChangePasswordForm(s, u, r) \/ HandleChangePassword(s, u, r)
  <2>1. Reading
    BY <1>4 DEF HandleSettings, HandleEditUser, HandleChangePasswordForm, HandleChangePassword
  <2> QED BY <1>1, <2>1
<1>5. CASE HandleUpdateUser(s, u, r)
  <2>1. CASE Reading
    BY <1>1, <2>1
  <2>2. CASE ~Reading
    <3>1. /\ emails' = [emails EXCEPT ![r.id] = EmailIn(r)]
          /\ UNCHANGED <<users, prefs, bookmarks, categories, feeds>>
          /\ r.id \in Users /\ r.form \cap Emails # {}
      BY <1>5, <2>2 DEF HandleUpdateUser, UpdateUser, WellFormed, UserRoutes
    <3>2. EmailIn(r) \in Emails
      BY <3>1 DEF EmailIn
    <3>3. AccountsInv' /\ users \subseteq users'
      BY <1>3, <3>1, <3>2 DEF AccountsInv
    <3> QED BY <1>2, <3>1, <3>3
  <2> QED BY <2>1, <2>2
<1>6. CASE HandleUpdateSettings(s, u, r)
  <2>1. CASE Reading
    BY <1>1, <2>1
  <2>2. CASE ~Reading
    <3>1. /\ prefs' = [prefs EXCEPT ![u] = CHOOSE p \in Prefs : p \in r.form]
          /\ UNCHANGED <<users, emails, bookmarks, categories, feeds>>
          /\ r.form \cap Prefs # {}
      BY <1>6, <2>2 DEF HandleUpdateSettings, UpdateUserSettings, WellFormed
    <3>2. (CHOOSE p \in Prefs : p \in r.form) \in Prefs
      BY <3>1
    <3>3. AccountsInv' /\ users \subseteq users'
      BY <1>3, <3>1, <3>2 DEF AccountsInv
    <3> QED BY <1>2, <3>1, <3>3
  <2> QED BY <2>1, <2>2
<1>7. CASE HandleImport(s, u, r)
  <2>1. CASE Reading
    BY <1>1, <2>1
  <2>2. CASE ~Reading
    <3>1. /\ UNCHANGED <<feed_url, accounts, categories, feeds>> /\ r.form \subseteq Urls
          /\ \E b \in r.form :
               \/ UNCHANGED <<library, url_tags>>
               \/ /\ library' = IF Has(u, b) THEN library
                                ELSE [library EXCEPT ![u] = Append(@, b)]
                  /\ url_tags' = [url_tags EXCEPT ![<<u, b>>] = {}]
      BY <1>7, <2>2 DEF HandleImport, WellFormed
    <3>2. PICK b \in Urls :
            \/ UNCHANGED <<library, url_tags>>
            \/ /\ library' = IF Has(u, b) THEN library
                             ELSE [library EXCEPT ![u] = Append(@, b)]
               /\ url_tags' = [url_tags EXCEPT ![<<u, b>>] = {}]
      BY <3>1
    <3>3. Append(library[u], b) \in Seq(Urls)
      BY <1>3, AppendProperties DEF BookmarksInv
    <3>4. library' \in [Users -> Seq(Urls)]
      BY <1>3, <3>2, <3>3 DEF BookmarksInv
    <3>5. url_tags' \in [Users \X Urls -> SUBSET Tags]
      BY <1>3, <3>2 DEF BookmarksInv
    <3>6. BookmarksInv'
      BY <1>3, <3>1, <3>4, <3>5 DEF BookmarksInv
    <3> QED BY <3>1, <3>6, BookmarksKeep
  <2> QED BY <2>1, <2>2
<1>8. Done
  BY <1>4, <1>5, <1>6, <1>7 DEF UserHandler
<1> QED BY <1>8

\* A request that saves a category.
LEMMA BusyFacts ==
  ASSUME SavingInv, NEW s \in Senders, saving[s].at # "idle"
  PROVE  /\ saving[s] \in Saves /\ saving[s].user \in Users /\ saving[s].category \in Categories
         /\ saving[s].want \subseteq Members /\ saving[s].left \subseteq Members
         /\ saving[s].at \in {"clear", "insert"} /\ saving[s].made \in BOOLEAN
<1>1. saving[s] \in {Idle} \cup Saves /\ Idle.at = "idle"
  BY DEF SavingInv, Idle
<1>2. saving[s] \in Saves
  BY <1>1
<1> QED BY <1>2 DEF Saves

LEMMA IdleFacts ==
  ASSUME SavingInv, NEW s \in Senders, saving[s] = Idle
  PROVE  saving[s].at = "idle" /\ s \notin alone
  BY DEF SavingInv, Idle

LEMMA CategoriesKeep ==
  ASSUME TableInv, NEW s, UNCHANGED <<accounts, bookmarks, feeds>>, CategoriesInv', SavingInv',
         \A t \in Senders \ {s} : saving'[t] = saving[t]
  PROVE  TablesKept(s)
  BY Unchanged DEF TablesKept, TableInv

\* What a request writes when it begins to save a category.
LEMMA BeginFacts ==
  ASSUME TableInv, NEW s \in Senders, NEW u \in Users, NEW r, NEW c \in Categories,
         NEW made \in BOOLEAN, NEW typed, saving[s] = Idle, Begin(s, u, r, c, made, typed)
  PROVE  /\ saving' = [saving EXCEPT ![s] =
                         [user |-> u, category |-> c, made |-> made, at |-> "clear",
                          want |-> ParseMembers(typed), left |-> ParseMembers(typed)]]
         /\ SavingInv' /\ saving'[s] # Idle /\ UNCHANGED <<accounts, bookmarks, feeds>>
         /\ UNCHANGED <<members, alone, settled>>
         /\ \A t \in Senders \ {s} : saving'[t] = saving[t]
<1> DEFINE new == [user |-> u, category |-> c, made |-> made, at |-> "clear",
                   want |-> ParseMembers(typed), left |-> ParseMembers(typed)]
<1>1. /\ saving' = [saving EXCEPT ![s] = new]
      /\ UNCHANGED <<members, alone, settled, accounts, bookmarks, feeds>>
  BY DEF Begin
<1>2. new \in Saves
  BY ParseMembersFacts DEF Saves
<1>3. new.at = "clear" /\ new.left = new.want /\ new # Idle
  BY DEF Idle
<1> HIDE DEF new
<1>4. SavingInv /\ s \notin alone
  BY IdleFacts DEF TableInv
<1>5. SavingInv'
  BY <1>1, <1>2, <1>3, <1>4 DEF SavingInv
<1>6. saving'[s] = new /\ \A t \in Senders \ {s} : saving'[t] = saving[t]
  BY <1>1, <1>4 DEF SavingInv
<1> QED BY <1>1, <1>3, <1>5, <1>6 DEF new

LEMMA CategoryTables ==
  ASSUME TableInv, NEW s \in Senders, NEW u \in Users, NEW r, WellFormed(r),
         saving[s] = Idle, CategoryHandler(s, u, r)
  PROVE  TablesKept(s) /\ UNCHANGED <<accounts, bookmarks, feeds>>
<1> DEFINE Done == TablesKept(s) /\ UNCHANGED <<accounts, bookmarks, feeds>>
<1>1. Reading => Done
  BY ReadingKeeps DEF Reading, tables
<1>2. CategoriesInv /\ SavingInv
  BY DEF TableInv
<1>3. CASE HandleNewCategory(s, u, r) \/ HandleEditCategory(s, u, r)
  <2>1. Reading
    BY <1>3 DEF HandleNewCategory, HandleEditCategory
  <2> QED BY <1>1, <2>1
<1>4. CASE HandleCreateCategory(s, u, r)
  <2>1. CASE Reading
    BY <1>1, <2>1
  <2>2. CASE ~Reading
    <3>1. r.id \in Names
      BY <1>4 DEF HandleCreateCategory, WellFormed
    <3>2. PICK c \in Categories :
            /\ owner' = [owner EXCEPT ![c] = u]
            /\ cat_name' = [cat_name EXCEPT ![c] = r.id]
            /\ Begin(s, u, r, c, TRUE, r.form)
      BY <1>4, <2>2 DEF HandleCreateCategory
    <3>3. /\ SavingInv' /\ UNCHANGED <<accounts, bookmarks, feeds, members>>
          /\ \A t \in Senders \ {s} : saving'[t] = saving[t]
      BY <3>2, BeginFacts
    <3>4. CategoriesInv'
      BY <1>2, <3>1, <3>2, <3>3 DEF CategoriesInv
    <3> QED BY <3>3, <3>4, CategoriesKeep
  <2> QED BY <2>1, <2>2
<1>5. CASE HandleUpdateCategory(s, u, r)
  <2>1. CASE Reading
    BY <1>1, <2>1
  <2>2. CASE ~Reading
    <3>1. r.id \in Categories /\ r.form \cap Names # {}
      BY <1>5 DEF HandleUpdateCategory, WellFormed, CategoryRoutes
    <3>2. /\ cat_name' = [cat_name EXCEPT ![r.id] = NameIn(r)] /\ UNCHANGED owner
          /\ Begin(s, u, r, r.id, FALSE, r.form \cap Members)
      BY <1>5, <2>2 DEF HandleUpdateCategory
    <3>3. /\ SavingInv' /\ UNCHANGED <<accounts, bookmarks, feeds, members>>
          /\ \A t \in Senders \ {s} : saving'[t] = saving[t]
      BY <3>1, <3>2, BeginFacts
    <3>4. NameIn(r) \in Names
      BY <3>1 DEF NameIn
    <3>5. CategoriesInv'
      BY <1>2, <3>1, <3>2, <3>3, <3>4 DEF CategoriesInv
    <3> QED BY <3>3, <3>5, CategoriesKeep
  <2> QED BY <2>1, <2>2
<1>6. CASE HandleDeleteCategory(s, u, r)
  <2>1. /\ UNCHANGED <<cat_name, saving, accounts, bookmarks, feeds>>
        /\ \/ UNCHANGED <<owner, members, alone>>
           \/ /\ owner' = [owner EXCEPT ![r.id] = Gone]
              /\ members' = [members EXCEPT ![r.id] = {}]
              /\ alone' = alone \ Saving(r.id)
    BY <1>6 DEF HandleDeleteCategory
  <2>2. CategoriesInv'
    BY <1>2, <2>1 DEF CategoriesInv
  <2>3. SavingInv'
    BY <1>2, <2>1 DEF SavingInv
  <2> QED BY <2>1, <2>2, <2>3, CategoriesKeep
<1>7. Done
  BY <1>3, <1>4, <1>5, <1>6 DEF CategoryHandler
<1> QED BY <1>7

\* What is left of the record of s when it goes on, or when it is over.
LEMMA SavingStep ==
  ASSUME SavingInv, NEW s \in Senders,
         \/ saving' = [saving EXCEPT ![s] = Idle] /\ alone' = alone \ {s}
         \/ /\ saving' = [saving EXCEPT ![s].at = "insert"] /\ saving[s].at # "idle"
            /\ alone' \subseteq alone \cup {s}
         \/ /\ \E m : saving' = [saving EXCEPT ![s].left = @ \ {m}]
            /\ saving[s].at = "insert" /\ UNCHANGED alone
  PROVE  SavingInv' /\ \A t \in Senders \ {s} : saving'[t] = saving[t]
<1>1. CASE saving' = [saving EXCEPT ![s] = Idle] /\ alone' = alone \ {s}
  <2>1. /\ saving' \in [Senders -> {Idle} \cup Saves] /\ saving'[s] = Idle
        /\ \A t \in Senders \ {s} : saving'[t] = saving[t]
    BY <1>1 DEF SavingInv
  <2>2. Idle.at = "idle"
    BY DEF Idle
  <2> QED BY <1>1, <2>1, <2>2 DEF SavingInv
<1>2. CASE /\ saving' = [saving EXCEPT ![s].at = "insert"] /\ saving[s].at # "idle"
           /\ alone' \subseteq alone \cup {s}
  <2> DEFINE new == [saving[s] EXCEPT !.at = "insert"]
  <2>1. new \in Saves /\ new.at = "insert"
    BY <1>2, BusyFacts DEF Saves
  <2>2. saving' = [saving EXCEPT ![s] = new]
    BY <1>2
  <2> HIDE DEF new
  <2>3. /\ saving' \in [Senders -> {Idle} \cup Saves] /\ saving'[s] = new
        /\ \A t \in Senders \ {s} : saving'[t] = saving[t]
    BY <2>1, <2>2 DEF SavingInv
  <2> QED BY <1>2, <2>1, <2>3 DEF SavingInv
<1>3. CASE /\ \E m : saving' = [saving EXCEPT ![s].left = @ \ {m}]
           /\ saving[s].at = "insert" /\ UNCHANGED alone
  <2>1. PICK m : saving' = [saving EXCEPT ![s].left = @ \ {m}]
    BY <1>3
  <2> DEFINE new == [saving[s] EXCEPT !.left = @ \ {m}]
  <2>2. new \in Saves /\ new.at = "insert"
    BY <1>3, BusyFacts DEF Saves
  <2>3. saving' = [saving EXCEPT ![s] = new]
    BY <2>1
  <2> HIDE DEF new
  <2>4. /\ saving' \in [Senders -> {Idle} \cup Saves] /\ saving'[s] = new
        /\ \A t \in Senders \ {s} : saving'[t] = saving[t]
    BY <2>2, <2>3 DEF SavingInv
  <2> QED BY <1>3, <2>2, <2>4 DEF SavingInv
<1> QED BY <1>1, <1>2, <1>3

LEMMA SavingTables ==
  ASSUME TableInv, NEW s \in Senders, SetCategoryMembers(s)
  PROVE  TablesKept(s) /\ UNCHANGED <<accounts, bookmarks, feeds, owner, cat_name>>
<1> DEFINE Done == TablesKept(s) /\ UNCHANGED <<accounts, bookmarks, feeds, owner, cat_name>>
<1>1. CategoriesInv /\ SavingInv
  BY DEF TableInv
<1>2. ASSUME UNCHANGED <<accounts, bookmarks, feeds, owner, cat_name>>,
             members' \in [Categories -> SUBSET Members],
             \/ saving' = [saving EXCEPT ![s] = Idle] /\ alone' = alone \ {s}
             \/ /\ saving' = [saving EXCEPT ![s].at = "insert"] /\ saving[s].at # "idle"
                /\ alone' \subseteq alone \cup {s}
             \/ /\ \E m : saving' = [saving EXCEPT ![s].left = @ \ {m}]
                /\ saving[s].at = "insert" /\ UNCHANGED alone
      PROVE  Done
  <2>1. SavingInv' /\ \A t \in Senders \ {s} : saving'[t] = saving[t]
    BY <1>1, <1>2, SavingStep
  <2>2. CategoriesInv'
    BY <1>1, <1>2 DEF CategoriesInv
  <2> QED BY <1>2, <2>1, <2>2, CategoriesKeep
<1>3. CASE DeleteAllCategoryMembers(s)
  <2>1. /\ UNCHANGED <<accounts, bookmarks, feeds, owner, cat_name>>
        /\ members' = [members EXCEPT ![saving[s].category] = {}]
        /\ saving' = [saving EXCEPT ![s].at = "insert"] /\ saving[s].at # "idle"
        /\ alone' \subseteq alone \cup {s}
    BY <1>3 DEF DeleteAllCategoryMembers
  <2>2. members' \in [Categories -> SUBSET Members]
    BY <1>1, <2>1 DEF CategoriesInv
  <2> QED BY <1>2, <2>1, <2>2
<1>4. CASE InsertCategoryMember(s)
  <2>1. PICK m \in saving[s].left :
          /\ members' = [members EXCEPT ![saving[s].category] = @ \cup {m}]
          /\ saving' = [saving EXCEPT ![s].left = @ \ {m}]
    BY <1>4 DEF InsertCategoryMember
  <2>2. /\ UNCHANGED <<accounts, bookmarks, feeds, owner, cat_name, alone>>
        /\ saving[s].at = "insert"
    BY <1>4 DEF InsertCategoryMember
  <2>3. m \in Members
    BY <1>1, <2>2, BusyFacts
  <2>4. members' \in [Categories -> SUBSET Members]
    BY <1>1, <2>1, <2>3 DEF CategoriesInv
  <2> QED BY <1>2, <2>1, <2>2, <2>4
<1>5. CASE CategoryIsGone(s) \/ StatementFails(s) \/ CategorySaved(s)
  <2>1. /\ UNCHANGED <<accounts, bookmarks, feeds, owner, cat_name, members>>
        /\ saving' = [saving EXCEPT ![s] = Idle] /\ alone' = alone \ {s}
    BY <1>5 DEF CategoryIsGone, StatementFails, CategorySaved, GiveUp
  <2>2. members' \in [Categories -> SUBSET Members]
    BY <1>1, <2>1 DEF CategoriesInv
  <2> QED BY <1>2, <2>1, <2>2
<1>6. Done
  BY <1>3, <1>4, <1>5 DEF SetCategoryMembers
<1> QED BY <1>6

LEMMA ServeTables ==
  ASSUME TableInv, NEW s \in Senders, NEW u \in users \cup {Nothing}, NEW r, WellFormed(r),
         saving[s] = Idle, Serve(s, u, r)
  PROVE  TablesKept(s)
<1>1. CASE Reading
  BY <1>1, ReadingKeeps
<1>2. CASE ~Reading
  <2>1. \/ PublicHandler(s, u, r)
        \/ /\ u # Nothing
           /\ \/ AdminHandler(s, u, r) \/ UrlHandler(s, u, r) \/ CategoryHandler(s, u, r)
              \/ FeedHandler(s, u, r) \/ UserHandler(s, u, r) \/ ApiKeyHandler(s, u, r)
    BY <1>2 DEF Serve, HandleRoot, RequireAuth, RequireAdmin
  <2>2. CASE PublicHandler(s, u, r)
    BY <2>2, AccountTables
  <2>3. CASE ~PublicHandler(s, u, r)
    <3>1. u \in users /\ u \in Users
      BY <2>1, <2>3 DEF TableInv, AccountsInv
    <3> QED BY <2>1, <2>3, <3>1, AccountTables, UrlTables, CategoryTables, FeedTables, UserTables
  <2> QED BY <2>2, <2>3
<1> QED BY <1>1, <1>2

-----------------------------------------------------------------------------
(***************************************************************************)
(* The tab goes from page to page, and a request from elsewhere leaves it  *)
(* as it is, but stale.                                                    *)
(***************************************************************************)
IsPage(p) ==
  p = [view |-> p.view, at |-> p.at, rows |-> p.rows, read |-> p.read, offers |-> p.offers,
       prefilled |-> p.prefilled, led |-> p.led]

Turned(s) == (s # Tab => Ignored) /\ (IsPage(page) => IsPage(page'))

LEMMA Turns ==
  ASSUME NEW s
  PROVE  /\ Ignored => Turned(s)
         /\ \A r : Redirect(s, r) => Turned(s)
         /\ \A r, how : Deny(s, r, how) => Turned(s)
         /\ \A u, r, view, rows, offers : Show(s, u, r, view, rows, offers) => Turned(s)
         /\ \A u, r, view, offers, prefilled :
              ShowForm(s, u, r, view, offers, prefilled) => Turned(s)
         /\ \A u, r, view, shown, offers : ShowItems(s, u, r, view, shown, offers) => Turned(s)
         /\ \A r, view, offers : ShowStranger(s, r, view, offers) => Turned(s)
         /\ \A r : Refuse(s, r) => Turned(s)
         /\ \A u, r : Fragment(s, u, r) => Turned(s)
         /\ s = Tab /\ (\E r : page' = Blank(r)) => Turned(s)
<1>1. Ignored => Turned(s)
  BY DEF Turned, Ignored
<1>2. \A view, at, rows, done, offers, prefilled :
        IsPage(Page(view, at, rows, done, offers, prefilled))
  BY DEF IsPage, Page
<1>3. \A r : IsPage(Blank(r))
  BY <1>2 DEF Blank
<1>4. \A p : IsPage(p) /\ Put(s, p) => Turned(s)
  BY <1>1 DEF Put, Turned
<1>5. \A r : Redirect(s, r) => Turned(s)
  BY <1>1, <1>3 DEF Redirect, Turned
<1>6. \A r, how : Deny(s, r, how) => Turned(s)
  BY <1>1, <1>3 DEF Deny, Turned
<1>7. \A u, i : IsPage(page) => IsPage(TimelineItemCardAnew(u, i))
  <2>1. ASSUME IsPage(page), NEW done, NEW offers
        PROVE  IsPage([page EXCEPT !.read = done, !.offers = offers])
    <3>1. PICK a, b, c, d, e, f, g :
            page = [view |-> a, at |-> b, rows |-> c, read |-> d, offers |-> e,
                    prefilled |-> f, led |-> g]
      BY <2>1 DEF IsPage
    <3>2. PICK q : q = [page EXCEPT !.read = done]
      OBVIOUS
    <3>3. q = [view |-> a, at |-> b, rows |-> c, read |-> done, offers |-> e,
               prefilled |-> f, led |-> g]
      BY <3>1, <3>2
    <3>4. [q EXCEPT !.offers = offers]
            = [view |-> a, at |-> b, rows |-> c, read |-> done, offers |-> offers,
               prefilled |-> f, led |-> g]
      BY ONLY <3>3
    <3>5. [page EXCEPT !.read = done, !.offers = offers] = [q EXCEPT !.offers = offers]
      BY <3>1, <3>2
    <3>6. IsPage([view |-> a, at |-> b, rows |-> c, read |-> done, offers |-> offers,
                  prefilled |-> f, led |-> g])
      BY DEF IsPage
    <3> QED BY <3>4, <3>5, <3>6
  <2> QED BY <2>1 DEF TimelineItemCardAnew
<1>8. \A u, r : Fragment(s, u, r) => Turned(s)
  BY <1>1, <1>7 DEF Fragment, Turned
<1>9. \A u, r, view, rows, offers : Show(s, u, r, view, rows, offers) => Turned(s)
  BY <1>2, <1>4 DEF Show
<1>10. \A u, r, view, offers, prefilled :
         ShowForm(s, u, r, view, offers, prefilled) => Turned(s)
  BY <1>2, <1>4 DEF ShowForm
<1>11. \A u, r, view, shown, offers : ShowItems(s, u, r, view, shown, offers) => Turned(s)
  BY <1>2, <1>4 DEF ShowItems
<1>12. \A r, view, offers : ShowStranger(s, r, view, offers) => Turned(s)
  BY <1>2, <1>4 DEF ShowStranger
<1>13. s = Tab /\ (\E r : page' = Blank(r)) => Turned(s)
  BY <1>3 DEF Turned
<1> QED BY <1>1, <1>5, <1>6, <1>8, <1>9, <1>10, <1>11, <1>12, <1>13 DEF Refuse

LEMMA UrlTurns ==
  ASSUME NEW s, NEW u, NEW r, UrlHandler(s, u, r) PROVE Turned(s)
  BY Turns
     DEF UrlHandler, HandleList, HandleSearch, HandleNew, HandleCreate, HandleCreateByAPI,
         HandleGet, HandleEdit, HandleUpdate, HandleDelete, RequireURLOwner

LEMMA CategoryTurns ==
  ASSUME NEW s, NEW u, NEW r, CategoryHandler(s, u, r) PROVE Turned(s)
  BY Turns
     DEF CategoryHandler, HandleNewCategory, HandleCreateCategory, HandleEditCategory,
         HandleUpdateCategory, HandleDeleteCategory, Begin

LEMMA SavingTurns ==
  ASSUME NEW s, SetCategoryMembers(s) PROVE Turned(s)
  BY Turns
     DEF SetCategoryMembers, DeleteAllCategoryMembers, InsertCategoryMember, CategoryIsGone,
         StatementFails, CategorySaved, GiveUp, Ignored, Turned

LEMMA FeedTurns ==
  ASSUME NEW s, NEW u, NEW r, FeedHandler(s, u, r) PROVE Turned(s)
  BY Turns
     DEF FeedHandler, HandleTimeline, HandleNewFeed, HandleCreateFeed, HandleGetFeed,
         HandleEditFeed, HandleUpdateFeed, HandleDeleteFeed, HandleMarkRead, HandleMarkUnread,
         HandleMarkAllRead, HandleMarkFeedAllRead, RequireFeedOwner

LEMMA UserTurns ==
  ASSUME NEW s, NEW u, NEW r,
         PublicHandler(s, u, r) \/ UserHandler(s, u, r) \/ ApiKeyHandler(s, u, r)
  PROVE  Turned(s)
<1>1. CASE PublicHandler(s, u, r)
  BY <1>1, Turns
     DEF PublicHandler, HandleLoginForm, HandleLogin, HandleLogout, HandleNewUser,
         HandleCreateUser
<1>2. CASE UserHandler(s, u, r)
  BY <1>2, Turns
     DEF UserHandler, HandleSettings, HandleEditUser, HandleUpdateUser,
         HandleChangePasswordForm, HandleChangePassword, HandleUpdateSettings, HandleImport
<1>3. CASE ApiKeyHandler(s, u, r)
  BY <1>3, Turns
     DEF ApiKeyHandler, HandleListKeys, HandleNewKey, HandleCreateKey, HandleDeleteKey
<1> QED BY <1>1, <1>2, <1>3

LEMMA AdminTurns ==
  ASSUME NEW s, NEW u, NEW r, AdminHandler(s, u, r) PROVE Turned(s)
  BY Turns
     DEF AdminHandler, HandleIndex, HandleDispatch, HandleCreateInvite, HandleDeleteInvite,
         HandleListUsers, HandleResetPasswordForm, HandleResetPassword, HandleListBlocklist,
         HandleNewBlocklistForm, HandleCreateBlocklistEntry, HandleDeleteBlocklistEntry

\* Another request may be answered with the form to sign in, which is lost.
LEMMA ServeTurns ==
  ASSUME NEW s, NEW u, NEW r, Serve(s, u, r), s = Tab \/ ~Reading PROVE Turned(s)
<1>1. \/ (HandleRoot(s, r) /\ Reading) \/ (ToLogin(s, r) /\ Reading) \/ Refuse(s, r)
      \/ PublicHandler(s, u, r) \/ AdminHandler(s, u, r) \/ UrlHandler(s, u, r)
      \/ CategoryHandler(s, u, r) \/ FeedHandler(s, u, r) \/ UserHandler(s, u, r)
      \/ ApiKeyHandler(s, u, r)
  BY DEF Serve, HandleRoot, RequireAuth, RequireAdmin
<1>2. CASE HandleRoot(s, r)
  BY <1>2, Turns DEF HandleRoot
<1>3. CASE ToLogin(s, r) /\ Reading
  <2>1. LoginFragment(r) => (IsPage(page) => IsPage(page'))
    BY DEF LoginFragment, IsPage
  <2>2. s = Tab
    BY <1>3
  <2> QED BY <1>3, <2>1, <2>2, Turns DEF ToLogin, Turned
<1> QED BY <1>1, <1>2, <1>3, Turns, UserTurns, AdminTurns, UrlTurns, CategoryTurns, FeedTurns

-----------------------------------------------------------------------------
(***************************************************************************)
(* What makes a request of user v one that is not refused, and a page of v *)
(* one that offers no others.                                              *)
(***************************************************************************)
RowsOf(v, q) == IF q.route = "GET:/feed" THEN ListTimelineItems(v) ELSE Listed(v, q)
SizeOf(v, q) == IF q.route = "GET:/feed" THEN TimelineSize ELSE Size[prefs[v]]

Good(v, q) ==
  /\ q.route \in BookmarkRoutes => Has(v, q.id)
  /\ q.route \in FeedRoutes => q.id \in subs[v]
  /\ q.route \in Toggles => GetTimelineItem(v, q.id)
  /\ q.route \in CategoryRoutes => owner[q.id] = v
  /\ q.route \in {"GET:/admin/users/:id/reset-password",
                  "POST:/admin/users/:id/reset-password"} => q.id \in users
  /\ q.route \in AdminRoutes => v \in admins
  /\ q.n > 1 => Reaches(RowsOf(v, q), q.n, SizeOf(v, q))
  /\ q.route = "GET:/url?tag" /\ q.id # Nothing => ToSet(ListURLsByTag(v, q.id)) # {}

\* What concerns a user concerns v, even when the page is stale.
Own(v, q) == q.route \in UserRoutes => q.id = v

Right(v, q) == WellFormed(q) /\ Own(v, q) /\ Good(v, q)

\* A form that shows what there is.
Filled(v, q) ==
  \/ q.route = "PUT:/url/:id" /\ q = EditForm(v, q.id)
  \/ q.route = "PUT:/category/:id" /\ q = CategoryForm(q.id)
  \/ q.route = "PUT:/feed/:id" /\ q = FeedForm(v, q.id)
  \/ q.route = "POST:/user/:id/settings" /\ q = SettingsForm(v)
  \/ q.route = "PUT:/user/:id" /\ q = EmailForm(v)

ItemViews == {"TimelinePage", "FeedDetailPage"}

\* The items that page p of user v would show now.
ShownOn(v, p) ==
  IF p.view = "TimelinePage"
  THEN Held(Slice(ListTimelineItems(v), p.at.n, TimelineSize), TimelineSize)
  ELSE ToSet(ListFeedItems(p.at.id))

Current(v, p) ==
  /\ p.rows = ShownOn(v, p)
  /\ p.read = ShownOn(v, p) \cap read[v]
  /\ \A i \in ShownOn(v, p), done \in BOOLEAN :
       Toggle(i, done) \in p.offers <=> (done <=> i \in read[v])
  /\ \A q \in p.offers : q.route \in Toggles => q.id \in ShownOn(v, p)

\* What p shows of the rows it was asked for.
Shows(p) == p.at.n > 1 \/ (p.view = "TagPage" /\ p.at.id # Nothing) => p.rows # {}

RightPage(v, p) ==
  /\ \A q \in p.offers \cup p.prefilled : Right(v, q)
  /\ \A q \in p.prefilled : Filled(v, q)
  /\ p.led => Shows(p)
  /\ p.view \in ItemViews => Current(v, p)

\* The page is left blank while a category is being saved.
TabSavingInv ==
  saving[Tab] # Idle =>
    /\ session \in {saving[Tab].user, Nothing}
    /\ page.offers = {Go("GET:/")} /\ page.prefilled = {}
    /\ pending.route \in {"POST:/category", "PUT:/category/:id"}
    /\ fresh => session = saving[Tab].user /\ owner[saving[Tab].category] = session

RefusedInv ==
  fresh /\ answer = "refused" =>
    Clash(page.at) /\ page.offers = {Go("GET:/")} /\ pending = NoRequest

Offered == page.offers \cup page.prefilled \cup {pending}

TabInv ==
  /\ session \in users \cup {Nothing}
  /\ \A q \in Offered : WellFormed(q) /\ (session # Nothing => Own(session, q))
  /\ page.led => Shows(page)
  /\ pending # NoRequest => page.view = "blank"
  /\ TabSavingInv
  /\ RefusedInv
  /\ fresh /\ session # Nothing => RightPage(session, page) /\ Good(session, pending)
  /\ fresh /\ session = Nothing => page.view \notin ItemViews

Inv == TableInv /\ TabInv /\ IsPage(page)

-----------------------------------------------------------------------------
\* Requests that are right, by what they are about.

\* About nothing that could be missing.
FreeRoutes ==
  {"none", "GET:/", "GET:/url", "GET:/feed", "GET:/login", "POST:/login", "POST:/logout",
   "GET:/user/new", "GET:/url?q", "GET:/url/new", "GET:/category/new", "GET:/feed/new",
   "POST:/feed/items/read-all", "GET:/apikey/", "GET:/apikey/new", "POST:/apikey/",
   "DELETE:/apikey/:id"}

LEMMA FreeRight ==
  ASSUME NEW v, NEW route \in FreeRoutes, NEW id, NEW form
  PROVE  Right(v, Request(route, id, form)) /\ Right(v, Request(route, id, form))'
  BY DEF FreeRoutes, Right, WellFormed, Own, Good, Request, BookmarkRoutes, FeedRoutes,
         Toggles, CategoryRoutes, UserRoutes, AdminRoutes, ListRoutes

LEMMA BookmarkRight ==
  ASSUME NEW v, NEW route \in BookmarkRoutes, NEW b \in Urls, Has(v, b), NEW form \in SUBSET Tags
  PROVE  Right(v, Request(route, b, form))
  BY DEF Right, WellFormed, Own, Good, Request, BookmarkRoutes, FeedRoutes, Toggles,
         CategoryRoutes, UserRoutes, AdminRoutes, ListRoutes

LEMMA NewBookmarkRight ==
  ASSUME NEW v, NEW b \in Urls, NEW form \in SUBSET Tags
  PROVE  Right(v, Request("POST:/url", b, form))
  BY DEF Right, WellFormed, Own, Good, Request, BookmarkRoutes, FeedRoutes, Toggles,
         CategoryRoutes, UserRoutes, AdminRoutes, ListRoutes

LEMMA FeedRight ==
  ASSUME NEW v, NEW route \in FeedRoutes, NEW f \in Feeds, f \in subs[v], NEW form,
         route = "PUT:/feed/:id" => form \subseteq Tags
  PROVE  Right(v, Request(route, f, form))
  BY DEF Right, WellFormed, Own, Good, Request, BookmarkRoutes, FeedRoutes, Toggles,
         CategoryRoutes, UserRoutes, AdminRoutes, ListRoutes

LEMMA NewFeedRight ==
  ASSUME NEW v, NEW f \in Feeds, NEW form \in SUBSET Tags
  PROVE  Right(v, Request("POST:/feed", f, form))
  BY DEF Right, WellFormed, Own, Good, Request, BookmarkRoutes, FeedRoutes, Toggles,
         CategoryRoutes, UserRoutes, AdminRoutes, ListRoutes

LEMMA ToggleRight ==
  ASSUME NEW v, NEW route \in Toggles, NEW i \in Items, GetTimelineItem(v, i)
  PROVE  Right(v, Request(route, i, {}))
  BY DEF Right, WellFormed, Own, Good, Request, BookmarkRoutes, FeedRoutes, Toggles,
         CategoryRoutes, UserRoutes, AdminRoutes, ListRoutes

LEMMA CategoryRight ==
  ASSUME NEW v, NEW route \in CategoryRoutes, NEW c \in Categories, owner[c] = v, NEW form,
         route = "PUT:/category/:id" => form \cap Names # {}
  PROVE  Right(v, Request(route, c, form))
  BY DEF Right, WellFormed, Own, Good, Request, BookmarkRoutes, FeedRoutes, Toggles,
         CategoryRoutes, UserRoutes, AdminRoutes, ListRoutes

LEMMA SomeCategoryRight ==
  ASSUME NEW v, NEW route \in {"DELETE:/category/:id", "GET:/url?category"},
         NEW c \in Categories, NEW form
  PROVE  Right(v, Request(route, c, form))
  BY DEF Right, WellFormed, Own, Good, Request, BookmarkRoutes, FeedRoutes, Toggles,
         CategoryRoutes, UserRoutes, AdminRoutes, ListRoutes

LEMMA NewCategoryRight ==
  ASSUME NEW v, NEW n \in Names, NEW form
  PROVE  Right(v, Request("POST:/category", n, form))
  BY DEF Right, WellFormed, Own, Good, Request, BookmarkRoutes, FeedRoutes, Toggles,
         CategoryRoutes, UserRoutes, AdminRoutes, ListRoutes

LEMMA UserRight ==
  ASSUME NEW v \in Users, NEW route \in UserRoutes, NEW form,
         route = "PUT:/user/:id" => form \cap Emails # {},
         route = "POST:/user/:id/settings" => form \cap Prefs # {},
         route = "POST:/user/:id/import" => form \subseteq Urls
  PROVE  Right(v, Request(route, v, form))
  BY DEF Right, WellFormed, Own, Good, Request, BookmarkRoutes, FeedRoutes, Toggles,
         CategoryRoutes, UserRoutes, AdminRoutes, ListRoutes

LEMMA NewUserRight ==
  ASSUME NEW v, NEW u \in Users, NEW form, form \cap Emails # {}
  PROVE  Right(v, Request("POST:/user", u, form))
  BY DEF Right, WellFormed, Own, Good, Request, BookmarkRoutes, FeedRoutes, Toggles,
         CategoryRoutes, UserRoutes, AdminRoutes, ListRoutes

LEMMA AdminRight ==
  ASSUME NEW v \in admins, NEW route \in AdminRoutes, NEW id, NEW form,
         route \in {"GET:/admin/users/:id/reset-password",
                    "POST:/admin/users/:id/reset-password"} => id \in users
  PROVE  Right(v, Request(route, id, form))
  BY DEF Right, WellFormed, Own, Good, Request, BookmarkRoutes, FeedRoutes, Toggles,
         CategoryRoutes, UserRoutes, AdminRoutes, ListRoutes

\* The page of a tag, with nothing for a tag that is none.
LEMMA TagRight ==
  ASSUME NEW v, NEW t, t # Nothing => ToSet(ListURLsByTag(v, t)) # {}
  PROVE  Right(v, Request("GET:/url?tag", t, {}))
  BY DEF Right, WellFormed, Own, Good, Request, BookmarkRoutes, FeedRoutes, Toggles,
         CategoryRoutes, UserRoutes, AdminRoutes, ListRoutes

\* A page further on, or back.
LEMMA NumberedRight ==
  ASSUME NEW v, NEW route \in ListRoutes, NEW id, NEW n \in Nat \ {0},
         route = "GET:/url?category" => id \in Categories,
         LET q == Numbered(route, id, n)
         IN  /\ Reaches(RowsOf(v, q), n, SizeOf(v, q))
             /\ route = "GET:/url?tag" => ToSet(ListURLsByTag(v, id)) # {}
  PROVE  Right(v, Numbered(route, id, n))
  BY DEF Right, WellFormed, Own, Good, Numbered, BookmarkRoutes, FeedRoutes, Toggles,
         CategoryRoutes, UserRoutes, AdminRoutes, ListRoutes

-----------------------------------------------------------------------------
\* Pages, and the parts they are made of.

LEMMA UserFacts ==
  ASSUME TableInv, NEW v \in users
  PROVE  v \in Users /\ v # Nothing /\ v # Gone /\ emails[v] \in Emails /\ prefs[v] \in Prefs
         /\ Size[prefs[v]] \in Nat \ {0}
  BY SiteAssumption DEF TableInv, AccountsInv

LEMMA NavRight ==
  ASSUME NEW v \in Users
  PROVE  \A q \in Nav(v) : Right(v, q)
<1>1. /\ Right(v, Go("GET:/url")) /\ Right(v, Go("GET:/feed")) /\ Right(v, Go("POST:/logout"))
      /\ \A id : Right(v, Link("GET:/url?q", id))
  BY FreeRight DEF FreeRoutes, Go, Link
<1>2. Right(v, Link("GET:/user/:id", v))
  BY UserRight DEF UserRoutes, Link
<1>3. v \in admins => Right(v, Go("GET:/admin/"))
  BY AdminRight DEF AdminRoutes, Go
<1> QED BY <1>1, <1>2, <1>3 DEF Nav

\* The tags of a bookmark lead to a page that shows it, and its buttons to the bookmark.
LEMMA CardRight ==
  ASSUME TableInv, NEW v \in users, NEW b \in ToSet(library[v])
  PROVE  \A q \in URLCard(v, b) : Right(v, q)
<1>1. v \in Users /\ BookmarksInv
  BY UserFacts DEF TableInv
<1>2. Has(v, b) /\ b \in Urls
  BY <1>1, LibraryRows
<1>3. {} \in SUBSET Tags
  OBVIOUS
<1>4. /\ Right(v, Link("GET:/url/:id", b)) /\ Right(v, Link("GET:/url/:id/edit", b))
      /\ Right(v, Link("DELETE:/url/:id", b))
  BY <1>2, <1>3, BookmarkRight DEF BookmarkRoutes, Link
<1>5. ASSUME NEW t \in url_tags[<<v, b>>] PROVE Right(v, TagLink(t))
  <2>1. ToSet(ListURLsByTag(v, t)) # {}
    BY <1>1, TagRows
  <2>2. CASE Slug[t] = t
    BY <2>1, <2>2, TagRight DEF TagLink, Link
  <2>3. CASE Slug[t] # t
    BY <2>3, TagRight DEF TagLink, Link
  <2> QED BY <2>2, <2>3
<1> QED BY <1>4, <1>5 DEF URLCard, TagLinks, CardFooter

LEMMA CardsRight ==
  ASSUME TableInv, NEW v \in users, NEW shown, shown \subseteq ToSet(library[v])
  PROVE  \A q \in URLCards(v, shown) : Right(v, q)
  BY CardRight DEF URLCards

LEMMA CategoryNavRight ==
  ASSUME TableInv, NEW v \in users
  PROVE  \A q \in CategoryNav(v) : Right(v, q)
<1>1. Right(v, Go("GET:/url")) /\ Right(v, Go("GET:/category/new"))
  BY FreeRight DEF FreeRoutes, Go
<1>2. \A c \in ListCategories(v) : Right(v, Link("GET:/url?category", c))
  BY SomeCategoryRight DEF ListCategories, Link
<1> QED BY <1>1, <1>2 DEF CategoryNav

\* newer and older lead to rows.
LEMMA PaginationRight ==
  ASSUME NEW v, NEW route \in ListRoutes, NEW id, NEW n \in Nat \ {0}, NEW more \in BOOLEAN,
         route = "GET:/url?category" => id \in Categories,
         route = "GET:/url?tag" => ToSet(ListURLsByTag(v, id)) # {},
         \A k \in Nat \ {0} : (k = n + 1 /\ more) \/ (k = n - 1 /\ n > 1) =>
           LET q == Numbered(route, id, k) IN Reaches(RowsOf(v, q), k, SizeOf(v, q))
  PROVE  \A q \in Pagination(route, id, n, more) : Right(v, q)
<1>1. ASSUME n > 1 PROVE Right(v, Numbered(route, id, n - 1))
  <2> DEFINE k == n - 1
  <2>1. k \in Nat \ {0} /\ k = n - 1
    BY <1>1
  <2> HIDE DEF k
  <2>2. Right(v, Numbered(route, id, k))
    BY <1>1, <2>1, NumberedRight
  <2> QED BY <2>1, <2>2
<1>2. ASSUME more PROVE Right(v, Numbered(route, id, n + 1))
  <2> DEFINE k == n + 1
  <2>1. k \in Nat \ {0} /\ k = n + 1
    OBVIOUS
  <2> HIDE DEF k
  <2>2. Right(v, Numbered(route, id, k))
    BY <1>2, <2>1, NumberedRight
  <2> QED BY <2>1, <2>2
<1> QED BY <1>1, <1>2 DEF Pagination

\* The page of a list of bookmarks, with what rows there are of it.
LEMMA ListRight ==
  ASSUME TableInv, NEW v \in users, NEW route \in {"GET:/url", "GET:/url?tag", "GET:/url?category"},
         NEW id, NEW n \in Nat \ {0}, NEW shown, NEW more \in BOOLEAN,
         shown \subseteq ToSet(library[v]),
         route = "GET:/url?category" => id \in Categories,
         shown # {} /\ route = "GET:/url?tag" => ToSet(ListURLsByTag(v, id)) # {},
         \A k \in Nat \ {0} : shown # {} /\ ((k = n + 1 /\ more) \/ (k = n - 1 /\ n > 1)) =>
           LET q == Numbered(route, id, k) IN Reaches(RowsOf(v, q), k, SizeOf(v, q))
  PROVE  \A q \in List(v, route, id, n, shown, more) : Right(v, q)
<1>1. /\ \A q \in CategoryNav(v) : Right(v, q)
      /\ \A q \in URLCards(v, shown) : Right(v, q)
      /\ Right(v, Go("GET:/url/new"))
  BY CategoryNavRight, CardsRight, FreeRight DEF FreeRoutes, Go
<1>2. ASSUME shown # {} PROVE \A q \in Pagination(route, id, n, more) : Right(v, q)
  <2>1. route \in ListRoutes
    BY DEF ListRoutes
  <2> QED BY <1>2, <2>1, PaginationRight
<1> QED BY <1>1, <1>2 DEF List

-----------------------------------------------------------------------------
(***************************************************************************)
(* Answers to the tab that keep what is offered right.                     *)
(***************************************************************************)
Answered(v, r) ==
  \/ \E p : Put(Tab, p) /\ RightPage(v, p)' /\ (v = Nothing => p.view \notin ItemViews)
  \/ \E q : Redirect(Tab, q) /\ Right(v, q)'
  \/ Refuse(Tab, r) /\ r.n = 1 /\ (fresh => Clash(r)')

LEMMA BlankRight ==
  ASSUME NEW v, NEW p, NEW r, r.n = 1, p = Blank(r)
  PROVE  /\ RightPage(v, p)' /\ Shows(p) /\ p.offers = {Go("GET:/")} /\ p.prefilled = {}
         /\ p.view = "blank" /\ p.at = r /\ p.view \notin ItemViews
<1>1. Right(v, Go("GET:/"))'
  BY FreeRight DEF FreeRoutes, Go
<1>2. /\ p.offers = {Go("GET:/")} /\ p.prefilled = {} /\ p.at = r
      /\ p.view = "blank" /\ p.view \notin ItemViews /\ p.view # "TagPage"
  BY DEF Blank, Page, ItemViews
<1>3. Shows(p)
  BY <1>2 DEF Shows
<1> QED BY <1>1, <1>2, <1>3 DEF RightPage

\* The tab after an answer, with a page made or blank and what it waits for.
LEMMA TabKept ==
  ASSUME NEW v, NEW p, NEW q, v \in users' \cup {Nothing}, saving'[Tab] = Idle,
         session' = v, page' = p, pending' = q, RightPage(v, p)', Right(v, q)',
         q # NoRequest => p.view = "blank", v = Nothing => p.view \notin ItemViews,
         RefusedInv'
  PROVE  TabInv'
<1>1. \A x \in p.offers \cup p.prefilled \cup {q} : Right(v, x)'
  BY DEF RightPage
<1>2. \A x \in p.offers \cup p.prefilled \cup {q} : WellFormed(x) /\ Own(v, x)
  BY <1>1 DEF Right
<1>3. \A x \in Offered' : WellFormed(x) /\ (session' # Nothing => Own(session', x))
  BY <1>2 DEF Offered
<1>4. TabSavingInv'
  BY DEF TabSavingInv
<1>5. Good(v, q)' /\ (p.led => Shows(p))
  BY DEF Right, RightPage
<1>6. page'.led => Shows(page')
  BY <1>5
<1> QED BY <1>3, <1>4, <1>5, <1>6 DEF TabInv

LEMMA AnsweredKeeps ==
  ASSUME Inv, TablesKept(Tab), NEW v, v = session, NEW r, Answered(v, r), saving'[Tab] = Idle
  PROVE  TabInv'
<1>1. v \in users' \cup {Nothing} /\ session' = v
  BY DEF Answered, Put, Redirect, Refuse, Deny, TablesKept, Inv, TabInv
<1>2. Right(v, NoRequest)' /\ NoRequest.n = 1
  BY FreeRight DEF FreeRoutes, NoRequest, Go, Request
<1>3. ASSUME NEW p, Put(Tab, p), RightPage(v, p)', v = Nothing => p.view \notin ItemViews
      PROVE  TabInv'
  <2>1. page' = p /\ pending' = NoRequest /\ answer' = "page"
    BY <1>3 DEF Put
  <2>2. RefusedInv'
    BY <2>1 DEF RefusedInv
  <2> QED BY <1>1, <1>2, <1>3, <2>1, <2>2, TabKept
<1>4. ASSUME NEW q, Redirect(Tab, q), Right(v, q)' PROVE TabInv'
  <2>1. PICK p : p = Blank(NoRequest)
    OBVIOUS
  <2>2. page' = p /\ pending' = q /\ answer' = "page"
    BY <1>4, <2>1 DEF Redirect
  <2>3. RefusedInv'
    BY <2>2 DEF RefusedInv
  <2>4. RightPage(v, p)' /\ Shows(p) /\ p.view = "blank" /\ p.view \notin ItemViews
    BY <1>2, <2>1, BlankRight
  <2> QED BY <1>1, <1>4, <2>2, <2>3, <2>4, TabKept
<1>5. CASE Refuse(Tab, r) /\ r.n = 1 /\ (fresh => Clash(r)')
  <2>1. PICK p : p = Blank(r)
    OBVIOUS
  <2>2. page' = p /\ pending' = NoRequest /\ fresh' = fresh
    BY <1>5, <2>1 DEF Refuse, Deny
  <2>3. /\ RightPage(v, p)' /\ Shows(p) /\ p.view = "blank" /\ p.view \notin ItemViews
        /\ p.at = r /\ p.offers = {Go("GET:/")} /\ p.prefilled = {}
    BY <1>5, <2>1, BlankRight
  <2>4. RefusedInv'
    BY <1>5, <2>2, <2>3 DEF RefusedInv
  <2> QED BY <1>1, <1>2, <2>2, <2>3, <2>4, TabKept
<1> QED BY <1>3, <1>4, <1>5 DEF Answered

\* What the queries give does not change unless the tables do.
Relied ==
  <<users, admins, emails, prefs, bookmarks, owner, cat_name, members, subs, feed_tags, items>>

LEMMA SameRows ==
  ASSUME NEW v, UNCHANGED Relied
  PROVE  /\ \A b : Has(v, b)' = Has(v, b)
         /\ \A t : ListURLsByTag(v, t)' = ListURLsByTag(v, t)
         /\ \A q : RowsOf(v, q)' = RowsOf(v, q)
         /\ \A i : GetTimelineItem(v, i)' = GetTimelineItem(v, i)
         /\ ListTimelineItems(v)' = ListTimelineItems(v)
         /\ \A f : ListFeedItems(f)' = ListFeedItems(f)
<1>1. /\ library' = library /\ url_tags' = url_tags /\ members' = members /\ subs' = subs
      /\ items' = items
  BY DEF Relied, bookmarks
<1>2. /\ \A b : Has(v, b)' = Has(v, b)
      /\ \A i : GetTimelineItem(v, i)' = GetTimelineItem(v, i)
      /\ ListURLs(v)' = ListURLs(v)
  BY <1>1 DEF Has, GetTimelineItem, ListURLs
<1>3. \A t : ListURLsByTag(v, t)' = ListURLsByTag(v, t)
  BY <1>1, <1>2 DEF ListURLsByTag
<1>4. \A c : ListURLsByCategory(v, c)' = ListURLsByCategory(v, c)
  BY <1>1, <1>2 DEF ListURLsByCategory
<1>5. ListTimelineItems(v)' = ListTimelineItems(v)
  BY <1>1 DEF ListTimelineItems
<1>6. \A f : ListFeedItems(f)' = ListFeedItems(f)
  BY <1>1 DEF ListFeedItems
<1>7. \A q : Listed(v, q)' = Listed(v, q)
  BY <1>2, <1>3, <1>4 DEF Listed
<1>8. \A q : RowsOf(v, q)' = RowsOf(v, q)
  BY <1>5, <1>7 DEF RowsOf
<1> QED BY <1>2, <1>3, <1>5, <1>6, <1>8

LEMMA SameRight ==
  ASSUME NEW v, NEW q, UNCHANGED Relied, Right(v, q)
  PROVE  Right(v, q)'
<1>1. Good(v, q)
  BY DEF Right
<1>2. /\ subs' = subs /\ owner' = owner /\ users' = users /\ admins' = admins /\ prefs' = prefs
  BY DEF Relied
<1>3. RowsOf(v, q)' = RowsOf(v, q) /\ SizeOf(v, q)' = SizeOf(v, q)
  BY <1>2, SameRows DEF SizeOf
<1>4. Good(v, q)'
  BY <1>1, <1>2, <1>3, SameRows DEF Good
<1> QED BY <1>4 DEF Right

LEMMA SameFilled ==
  ASSUME NEW v, NEW q, UNCHANGED Relied, Filled(v, q)
  PROVE  Filled(v, q)'
<1>1. /\ url_tags' = url_tags /\ members' = members /\ cat_name' = cat_name
      /\ feed_tags' = feed_tags /\ prefs' = prefs /\ emails' = emails
  BY DEF Relied, bookmarks
<1> QED BY <1>1 DEF Filled, EditForm, CategoryForm, FeedForm, ListFeedTagNames,
                    SettingsForm, EmailForm

LEMMA SamePage ==
  ASSUME NEW v, NEW p, UNCHANGED Relied, p.view \in ItemViews => read' = read, RightPage(v, p)
  PROVE  RightPage(v, p)'
<1>1. \A q \in p.offers \cup p.prefilled : Right(v, q)'
  BY SameRight DEF RightPage
<1>2. \A q \in p.prefilled : Filled(v, q)'
  BY SameFilled DEF RightPage
<1>3. ASSUME p.view \in ItemViews PROVE Current(v, p)'
  <2>1. Current(v, p)
    BY <1>3 DEF RightPage
  <2>2. ShownOn(v, p)' = ShownOn(v, p)
    BY SameRows DEF ShownOn
  <2>3. read' = read
    BY <1>3
  <2> QED BY <2>1, <2>2, <2>3 DEF Current
<1>4. p.led => Shows(p)
  BY DEF RightPage
<1> QED BY <1>1, <1>2, <1>3, <1>4 DEF RightPage

\* How a page is put before user v.
LEMMA PutAnswers ==
  ASSUME NEW v, NEW r, NEW p, Put(Tab, p), RightPage(v, p), UNCHANGED Relied,
         p.view \in ItemViews => v # Nothing /\ read' = read
  PROVE  Answered(v, r)
  BY SamePage DEF Answered

LEMMA ReadingSame ==
  ASSUME Reading
  PROVE  UNCHANGED Relied /\ UNCHANGED saving /\ UNCHANGED read
  BY DEF Reading, tables, accounts, categories, feeds, Relied

LEMMA ShowAnswers ==
  ASSUME TableInv, NEW v \in users, NEW r, NEW view, NEW rows, NEW offers,
         Show(Tab, v, r, view, rows, offers), UNCHANGED Relied,
         \A q \in offers : Right(v, q), view \notin ItemViews,
         fresh /\ (r.n > 1 \/ (view = "TagPage" /\ r.id # Nothing)) => rows # {}
  PROVE  Answered(v, r)
<1>1. PICK p : p = Page(view, r, rows, {}, Nav(v) \cup offers, {})
  OBVIOUS
<1>2. Put(Tab, p)
  BY <1>1 DEF Show
<1>3. /\ p.offers = Nav(v) \cup offers /\ p.prefilled = {} /\ p.view = view /\ p.at = r
      /\ p.rows = rows /\ p.led = fresh
  BY <1>1 DEF Page
<1>4. p.led => Shows(p)
  BY <1>3 DEF Shows
<1>5. RightPage(v, p)
  BY <1>3, <1>4, NavRight, UserFacts DEF RightPage
<1> QED BY <1>2, <1>3, <1>5, PutAnswers

LEMMA ShowFormAnswers ==
  ASSUME TableInv, NEW v \in users, NEW r, NEW view, NEW offers, NEW filled,
         ShowForm(Tab, v, r, view, offers, {filled}), UNCHANGED Relied,
         \A q \in offers : Right(v, q), Right(v, filled), Filled(v, filled),
         view \notin ItemViews, view # "TagPage", r.n = 1
  PROVE  Answered(v, r)
<1>1. PICK p : p = Page(view, r, {}, {}, Nav(v) \cup offers \cup {filled}, {filled})
  OBVIOUS
<1>2. Put(Tab, p)
  BY <1>1 DEF ShowForm
<1>3. /\ p.offers = Nav(v) \cup offers \cup {filled} /\ p.prefilled = {filled}
      /\ p.view = view /\ p.at = r
  BY <1>1 DEF Page
<1>4. Shows(p)
  BY <1>3 DEF Shows
<1>5. RightPage(v, p)
  BY <1>3, <1>4, NavRight, UserFacts DEF RightPage
<1> QED BY <1>2, <1>3, <1>5, PutAnswers

LEMMA ShowStrangerAnswers ==
  ASSUME NEW v, NEW r, NEW view, NEW offers, ShowStranger(Tab, r, view, offers),
         UNCHANGED Relied, \A q \in offers : Right(v, q), view \notin ItemViews,
         view # "TagPage", r.n = 1
  PROVE  Answered(v, r)
<1>1. PICK p : p = Page(view, r, {}, {}, offers, {})
  OBVIOUS
<1>2. Put(Tab, p)
  BY <1>1 DEF ShowStranger
<1>3. /\ p.offers = offers /\ p.prefilled = {} /\ p.view = view /\ p.at = r
  BY <1>1 DEF Page
<1>4. Shows(p)
  BY <1>3 DEF Shows
<1>5. RightPage(v, p)
  BY <1>3, <1>4 DEF RightPage
<1> QED BY <1>2, <1>3, <1>5, PutAnswers

LEMMA RedirectAnswers ==
  ASSUME NEW v, NEW r, NEW route \in FreeRoutes, Redirect(Tab, Go(route))
  PROVE  Answered(v, r)
<1>1. Right(v, Go(route))'
  BY FreeRight DEF Go
<1> QED BY <1>1 DEF Answered

\* A request of v that is sent from a page of v, or to which v was led.
Asked(v, r) ==
  /\ TableInv /\ v \in users /\ session = v /\ saving[Tab] = Idle
  /\ fresh /\ answer = "refused" => r.route = "GET:/"
  /\ WellFormed(r) /\ Own(v, r) /\ (fresh => Good(v, r))

-----------------------------------------------------------------------------
\* The pages of bookmarks.

LEMMA DetailRight ==
  ASSUME TableInv, NEW v \in users, NEW b \in ToSet(library[v])
  PROVE  \A q \in DetailPage(v, b) : Right(v, q)
<1>1. \A q \in DetailCard(v, b) : Right(v, q)
  BY CardRight DEF URLCard, DetailCard
<1>2. ASSUME b \in feed_url, SubscribedFeed(v, b) PROVE Right(v, Link("GET:/feed/:id", PageFeed[b]))
  <2>1. PageFeed[b] \in subs[v] /\ PageFeed[b] \in Feeds
    BY <1>2, UserFacts DEF SubscribedFeed, TableInv, FeedsInv
  <2> QED BY <2>1, FeedRight DEF FeedRoutes, Link
<1>3. ASSUME b \in feed_url PROVE Right(v, Request("POST:/feed", PageFeed[b], {}))
  <2>1. PageFeed[b] \in Feeds /\ {} \in SUBSET Tags
    BY <1>3, SiteAssumption DEF TableInv, BookmarksInv
  <2> QED BY <2>1, NewFeedRight
<1>4. \A q \in FeedButton(v, b) : Right(v, q)
  BY <1>2, <1>3 DEF FeedButton
<1> QED BY <1>1, <1>4 DEF DetailPage

LEMMA NewPageRight ==
  ASSUME NEW v
  PROVE  \A q \in NewPage : Right(v, q)
<1>1. Right(v, Go("GET:/url"))
  BY FreeRight DEF FreeRoutes, Go
<1>2. \A b \in Urls, typed \in TagInputs : Right(v, Request("POST:/url", b, typed))
  BY NewBookmarkRight, SiteAssumption
<1> QED BY <1>1, <1>2 DEF NewPage

LEMMA EditRight ==
  ASSUME TableInv, NEW v \in users, NEW b \in ToSet(library[v])
  PROVE  Right(v, EditForm(v, b)) /\ \A q \in EditPage(b) : Right(v, q)
<1>1. b \in Urls /\ Has(v, b)
  BY LibraryRows, UserFacts DEF TableInv
<1>2. \A form \in SUBSET Tags : Right(v, Request("PUT:/url/:id", b, form))
  BY <1>1, BookmarkRight DEF BookmarkRoutes
<1>3. Right(v, Link("GET:/url/:id", b))
  BY CardRight DEF URLCard
<1>4. url_tags[<<v, b>>] \in SUBSET Tags
  BY <1>1, UserFacts DEF TableInv, BookmarksInv
<1>5. Right(v, EditForm(v, b))
  BY <1>2, <1>4 DEF EditForm
<1>6. \A typed \in TagInputs : Right(v, Request("PUT:/url/:id", b, typed))
  BY <1>2, SiteAssumption
<1> QED BY <1>3, <1>5, <1>6 DEF EditPage

LEMMA ResultsRight ==
  ASSUME TableInv, NEW v \in users, NEW foundFeeds, NEW foundUrls,
         foundFeeds \subseteq subs[v], foundUrls \subseteq ToSet(library[v])
  PROVE  \A q \in ResultsPage(v, foundFeeds, foundUrls) : Right(v, q)
<1>1. \A q \in URLCards(v, foundUrls) : Right(v, q)
  BY CardsRight
<1>2. subs[v] \subseteq Feeds
  BY UserFacts DEF TableInv, FeedsInv
<1>3. \A f \in foundFeeds : Right(v, Link("GET:/feed/:id", f))
  BY <1>2, FeedRight DEF FeedRoutes, Link
<1> QED BY <1>1, <1>3 DEF ResultsPage, FeedCard

LEMMA ListAnswers ==
  ASSUME NEW v, NEW r, Asked(v, r), HandleList(Tab, v, r)
  PROVE  Answered(v, r)
<1> DEFINE size == Size[prefs[v]]
           rows == Listed(v, r)
           asked == Slice(rows, r.n, size)
           shown == Held(asked, size)
           more == HasMore(asked, size)
<1>1. /\ TableInv /\ BookmarksInv /\ v \in Users /\ v \in users /\ size \in Nat \ {0}
      /\ r.n \in Nat \ {0} /\ (fresh => Good(v, r))
      /\ r.route \in {"GET:/url", "GET:/url?tag", "GET:/url?category"}
      /\ r.route = "GET:/url?category" => r.id \in Categories
  BY UserFacts DEF Asked, TableInv, WellFormed, HandleList
<1>2. UNCHANGED Relied
  BY ReadingSame DEF HandleList
<1>3. \/ /\ r.route = "GET:/url"
         /\ Show(Tab, v, r, "ListPage", shown, ListPage(v, r.n, shown, more))
      \/ /\ r.route = "GET:/url?tag"
         /\ Show(Tab, v, r, "TagPage", shown, TagPage(v, r.id, r.n, shown, more))
      \/ /\ r.route = "GET:/url?category"
         /\ Show(Tab, v, r, "CategoryPage", shown, CategoryPage(v, r.id, r.n, shown, more))
  BY DEF HandleList
<1> HIDE DEF size
<1>4. /\ rows \in Seq(Urls) /\ ToSet(rows) \subseteq ToSet(library[v])
      /\ Len(rows) <= Len(ListURLs(v)) /\ Len(rows) \in Nat /\ Len(ListURLs(v)) \in Nat
      /\ r.route = "GET:/url" => rows = ListURLs(v)
      /\ r.route = "GET:/url?tag" => rows = ListURLsByTag(v, r.id)
      /\ r.route = "GET:/url?category" => rows = ListURLsByCategory(v, r.id)
  BY <1>1, ListedRows, LibraryRows, LenProperties
<1> HIDE DEF rows
<1>5. /\ shown \subseteq ToSet(rows)
      /\ shown # {} <=> Reaches(rows, r.n, size)
      /\ more => Reaches(rows, r.n + 1, size)
      /\ r.n > 1 /\ shown # {} => Reaches(rows, r.n - 1, size)
  BY <1>1, <1>4, SliceShows
<1>6. more \in BOOLEAN
  BY DEF HasMore
<1> HIDE DEF asked, shown, more
<1>7. ASSUME fresh, r.n > 1 \/ (r.route = "GET:/url?tag" /\ r.id # Nothing) PROVE shown # {}
  <2>1. CASE r.n > 1
    <3>1. RowsOf(v, r) = rows /\ SizeOf(v, r) = size
      BY <1>1 DEF RowsOf, SizeOf, rows, size
    <3> QED BY <1>1, <1>5, <1>7, <2>1, <3>1 DEF Good
  <2>2. CASE r.n = 1 /\ r.route = "GET:/url?tag" /\ r.id # Nothing
    <3>1. ToSet(rows) # {}
      BY <1>1, <1>4, <1>7, <2>2 DEF Good
    <3>2. Len(rows) > 0
      BY <1>4, <3>1, LenProperties DEF ToSet
    <3>3. (1 - 1) * size = 0
      BY <1>1
    <3> QED BY <1>5, <2>2, <3>2, <3>3 DEF Reaches
  <2> QED BY <1>1, <1>7, <2>1, <2>2
<1>8. ASSUME NEW route \in {"GET:/url", "GET:/url?tag", "GET:/url?category"}, NEW id,
             route = "GET:/url?category" => id \in Categories,
             route = "GET:/url?tag" => rows = ListURLsByTag(v, id),
             \A k : LET q == Numbered(route, id, k)
                    IN  Len(RowsOf(v, q)) \in Nat /\ Len(rows) <= Len(RowsOf(v, q))
      PROVE  \A q \in List(v, route, id, r.n, shown, more) : Right(v, q)
  <2>1. ASSUME NEW k \in Nat \ {0}, shown # {}, (k = r.n + 1 /\ more) \/ (k = r.n - 1 /\ r.n > 1)
        PROVE  LET q == Numbered(route, id, k) IN Reaches(RowsOf(v, q), k, SizeOf(v, q))
    <3> DEFINE q == Numbered(route, id, k)
    <3>1. Reaches(rows, k, size)
      BY <1>5, <2>1
    <3>2. SizeOf(v, q) = size
      BY <1>8 DEF SizeOf, Numbered, size
    <3>3. Len(rows) <= Len(RowsOf(v, q)) /\ Len(RowsOf(v, q)) \in Nat
      BY <1>8
    <3>4. (k - 1) * size \in Nat
      BY <1>1
    <3> HIDE DEF q
    <3>5. Reaches(RowsOf(v, q), k, size)
      BY <1>4, <3>1, <3>3, <3>4 DEF Reaches
    <3> QED BY <3>2, <3>5 DEF q
  <2>2. shown # {} => ToSet(rows) # {}
    BY <1>5
  <2>3. shown \subseteq ToSet(library[v])
    BY <1>4, <1>5
  <2> QED BY <1>1, <1>6, <1>8, <2>1, <2>2, <2>3, ListRight
<1>9. \A n \in Nat : n <= n
  BY ONLY SMT
<1>10. \A k : RowsOf(v, Numbered("GET:/url", Nothing, k)) = ListURLs(v)
  BY DEF RowsOf, Numbered, Listed
<1>11. \A q \in List(v, "GET:/url", Nothing, r.n, shown, more) : Right(v, q)
  BY <1>4, <1>8, <1>10
<1>12. CASE r.route = "GET:/url"
  <2>1. Show(Tab, v, r, "ListPage", shown, List(v, "GET:/url", Nothing, r.n, shown, more))
    BY <1>3, <1>12 DEF ListPage, shown, more, asked
  <2>2. "ListPage" \notin ItemViews
    BY DEF ItemViews
  <2> QED BY <1>1, <1>2, <1>7, <1>11, <2>1, <2>2, ShowAnswers
<1>13. CASE r.route = "GET:/url?tag"
  <2>1. \A k : RowsOf(v, Numbered("GET:/url?tag", r.id, k)) = rows
    BY <1>4, <1>13 DEF RowsOf, Numbered, Listed
  <2>2. \A q \in List(v, "GET:/url?tag", r.id, r.n, shown, more) : Right(v, q)
    BY <1>4, <1>8, <1>9, <1>13, <2>1
  <2>3. Show(Tab, v, r, "TagPage", shown, List(v, "GET:/url?tag", r.id, r.n, shown, more))
    BY <1>3, <1>13 DEF TagPage, shown, more, asked
  <2>4. "TagPage" \notin ItemViews
    BY DEF ItemViews
  <2> QED BY <1>1, <1>2, <1>7, <1>13, <2>2, <2>3, <2>4, ShowAnswers
<1>14. CASE r.route = "GET:/url?category"
  <2>1. \A k : RowsOf(v, Numbered("GET:/url?category", r.id, k)) = rows
    BY <1>4, <1>14 DEF RowsOf, Numbered, Listed
  <2>2. \A q \in List(v, "GET:/url?category", r.id, r.n, shown, more) : Right(v, q)
    BY <1>1, <1>4, <1>8, <1>9, <1>14, <2>1
  <2>3. Show(Tab, v, r, "CategoryPage", shown, CategoryPage(v, r.id, r.n, shown, more))
    BY <1>3, <1>14 DEF shown, more, asked
  <2>4. ASSUME owner[r.id] = v PROVE Right(v, Link("GET:/category/:id/edit", r.id))
    BY <1>1, <1>14, <2>4, CategoryRight DEF CategoryRoutes, Link
  <2>5. \A q \in CategoryPage(v, r.id, r.n, shown, more) : Right(v, q)
    BY <1>11, <2>2, <2>4 DEF CategoryPage
  <2>6. "CategoryPage" \notin ItemViews
    BY DEF ItemViews
  <2> QED BY <1>1, <1>2, <1>7, <2>3, <2>5, <2>6, ShowAnswers
<1> QED BY <1>1, <1>12, <1>13, <1>14

\* Only a request that is not good is refused, or one whose name or address is taken.
LEMMA RefuseAnswers ==
  ASSUME NEW v, NEW r, Asked(v, r), Refuse(Tab, r), r.route \notin ListRoutes, ~Good(v, r)
  PROVE  Answered(v, r)
<1>1. r.n = 1
  BY DEF Asked, WellFormed
<1> QED BY <1>1 DEF Asked, Answered

LEMMA BookmarkRedirect ==
  ASSUME NEW v, NEW r, NEW b \in Urls, Has(v, b)', Redirect(Tab, Link("GET:/url/:id", b))
  PROVE  Answered(v, r)
<1>1. Right(v, Link("GET:/url/:id", b))'
  BY DEF Right, WellFormed, Own, Good, Link, Request, BookmarkRoutes, FeedRoutes, Toggles,
         CategoryRoutes, UserRoutes, AdminRoutes, ListRoutes
<1> QED BY <1>1 DEF Answered

LEMMA BookmarkStays ==
  ASSUME BookmarksInv, NEW v \in Users, NEW b \in Urls,
         \/ Has(v, b) /\ library' = library
         \/ library' = IF Has(v, b) THEN library ELSE [library EXCEPT ![v] = Append(@, b)]
  PROVE  Has(v, b)'
<1>1. CASE library' = library /\ Has(v, b)
  BY <1>1 DEF Has
<1>2. CASE library' = [library EXCEPT ![v] = Append(@, b)]
  <2>1. library[v] \in Seq(Urls) /\ Len(library[v]) \in Nat
    BY LenProperties DEF BookmarksInv
  <2>2. library'[v] = Append(library[v], b)
    BY <1>2 DEF BookmarksInv
  <2>3. /\ Len(library'[v]) = Len(library[v]) + 1
        /\ library'[v][Len(library[v]) + 1] = b
    BY <2>1, <2>2, AppendProperties
  <2> QED BY <2>1, <2>3 DEF Has, Contains
<1> QED BY <1>1, <1>2

LEMMA UrlAnswers ==
  ASSUME NEW v, NEW r, Asked(v, r), UrlHandler(Tab, v, r)
  PROVE  Answered(v, r) \/ Ignored
<1>1. /\ TableInv /\ BookmarksInv /\ v \in Users /\ v \in users
      /\ WellFormed(r)
  BY UserFacts DEF Asked, TableInv
<1>2. /\ \A b : Has(v, b) => b \in ToSet(library[v])
      /\ \A b \in ToSet(library[v]) : b \in Urls
  BY <1>1, LibraryRows
<1>3. {"ResultsPage", "NewPage", "DetailPage", "EditPage"} \cap ItemViews = {}
  BY DEF ItemViews
<1>4. r.route \in BookmarkRoutes \cup {"GET:/url?q", "GET:/url/new", "POST:/url"} =>
        r.n = 1 /\ r.route \notin ListRoutes
  BY <1>1 DEF WellFormed, ListRoutes, BookmarkRoutes
<1>5. CASE HandleList(Tab, v, r)
  BY <1>5, ListAnswers
<1>6. CASE HandleSearch(Tab, v, r)
  <2>1. /\ UNCHANGED Relied /\ r.route = "GET:/url?q"
        /\ Show(Tab, v, r, "ResultsPage", SearchURLs(v, r.id) \cup SearchFeeds(v, r.id),
                ResultsPage(v, SearchFeeds(v, r.id), SearchURLs(v, r.id)))
    BY <1>6, ReadingSame DEF HandleSearch
  <2>2. \A q \in ResultsPage(v, SearchFeeds(v, r.id), SearchURLs(v, r.id)) : Right(v, q)
    BY <1>1, ResultsRight DEF SearchFeeds, SearchURLs
  <2> QED BY <1>1, <1>3, <1>4, <2>1, <2>2, ShowAnswers
<1>7. ASSUME Show(Tab, v, r, "NewPage", {}, NewPage), Reading,
             r.route \in {"GET:/url/new", "POST:/url"}
      PROVE  Answered(v, r)
  <2>1. UNCHANGED Relied /\ \A q \in NewPage : Right(v, q)
    BY <1>7, ReadingSame, NewPageRight
  <2> QED BY <1>1, <1>3, <1>4, <1>7, <2>1, ShowAnswers
<1>8. CASE HandleNew(Tab, v, r)
  BY <1>7, <1>8 DEF HandleNew
<1>9. CASE HandleCreate(Tab, v, r)
  <2>1. CASE Refused(v, r.id)
    BY <1>7, <1>9, <2>1 DEF HandleCreate
  <2>2. CASE ~Refused(v, r.id)
    <3>1. /\ r.id \in Urls /\ Redirect(Tab, Link("GET:/url/:id", r.id))
          /\ library' = IF Has(v, r.id) THEN library
                        ELSE [library EXCEPT ![v] = Append(@, r.id)]
      BY <1>1, <1>9, <2>2 DEF HandleCreate, Bookmark, WellFormed
    <3>2. Has(v, r.id)'
      BY <1>1, <3>1, BookmarkStays
    <3> QED BY <3>1, <3>2, BookmarkRedirect
  <2> QED BY <2>1, <2>2
<1>10. CASE HandleCreateByAPI(Tab, v, r)
  BY <1>10 DEF HandleCreateByAPI
<1>11. ASSUME ~Has(v, r.id), Refuse(Tab, r), r.route \in BookmarkRoutes PROVE Answered(v, r)
  <2>1. ~Good(v, r)
    BY <1>11 DEF Good
  <2> QED BY <1>4, <1>11, <2>1, RefuseAnswers
<1>12. CASE HandleGet(Tab, v, r)
  <2>1. CASE ~Has(v, r.id)
    BY <1>11, <1>12, <2>1 DEF HandleGet, RequireURLOwner, BookmarkRoutes
  <2>2. CASE Has(v, r.id)
    <3>1. /\ UNCHANGED Relied /\ r.route \in BookmarkRoutes
          /\ Show(Tab, v, r, "DetailPage", {r.id}, DetailPage(v, r.id))
      BY <1>12, <2>2, ReadingSame DEF HandleGet, RequireURLOwner, BookmarkRoutes
    <3>2. \A q \in DetailPage(v, r.id) : Right(v, q)
      BY <1>1, <1>2, <2>2, DetailRight
    <3> QED BY <1>1, <1>3, <1>4, <3>1, <3>2, ShowAnswers
  <2> QED BY <2>1, <2>2
<1>13. CASE HandleEdit(Tab, v, r)
  <2>1. CASE ~Has(v, r.id)
    BY <1>11, <1>13, <2>1 DEF HandleEdit, RequireURLOwner, BookmarkRoutes
  <2>2. CASE Has(v, r.id)
    <3>1. /\ UNCHANGED Relied /\ r.route \in BookmarkRoutes
          /\ ShowForm(Tab, v, r, "EditPage", EditPage(r.id), {EditForm(v, r.id)})
      BY <1>13, <2>2, ReadingSame DEF HandleEdit, RequireURLOwner, BookmarkRoutes
    <3>2. Right(v, EditForm(v, r.id)) /\ \A q \in EditPage(r.id) : Right(v, q)
      BY <1>1, <1>2, <2>2, EditRight
    <3>3. Filled(v, EditForm(v, r.id))
      BY DEF Filled, EditForm, Request
    <3> QED BY <1>1, <1>3, <1>4, <3>1, <3>2, <3>3, ShowFormAnswers
  <2> QED BY <2>1, <2>2
<1>14. CASE HandleUpdate(Tab, v, r)
  <2>1. CASE ~Has(v, r.id)
    BY <1>11, <1>14, <2>1 DEF HandleUpdate, RequireURLOwner, BookmarkRoutes
  <2>2. CASE Has(v, r.id)
    <3>1. /\ r.id \in Urls /\ Redirect(Tab, Link("GET:/url/:id", r.id)) /\ library' = library
      BY <1>1, <1>14, <2>2 DEF HandleUpdate, RequireURLOwner, WellFormed, BookmarkRoutes
    <3>2. Has(v, r.id)'
      BY <1>1, <2>2, <3>1, BookmarkStays
    <3> QED BY <3>1, <3>2, BookmarkRedirect
  <2> QED BY <2>1, <2>2
<1>15. CASE HandleDelete(Tab, v, r)
  <2>1. CASE ~Has(v, r.id)
    BY <1>11, <1>15, <2>1 DEF HandleDelete, RequireURLOwner, BookmarkRoutes
  <2>2. CASE Has(v, r.id)
    <3>1. Redirect(Tab, Go("GET:/url")) /\ "GET:/url" \in FreeRoutes
      BY <1>15, <2>2 DEF HandleDelete, RequireURLOwner, FreeRoutes
    <3> QED BY <3>1, RedirectAnswers
  <2> QED BY <2>1, <2>2
<1> QED
  BY <1>5, <1>6, <1>8, <1>9, <1>10, <1>12, <1>13, <1>14, <1>15 DEF UrlHandler

-----------------------------------------------------------------------------
\* The pages of categories.

LEMMA NewCategoryPageRight ==
  ASSUME NEW v
  PROVE  \A q \in CategoryNewPage : Right(v, q)
<1>1. Right(v, Go("GET:/url"))
  BY FreeRight DEF FreeRoutes, Go
<1> QED BY <1>1, NewCategoryRight DEF CategoryNewPage

LEMMA EditCategoryRight ==
  ASSUME CategoriesInv, NEW v, NEW c \in Categories, owner[c] = v
  PROVE  Right(v, CategoryForm(c)) /\ \A q \in CategoryEditPage(c) : Right(v, q)
<1>1. Right(v, Link("GET:/url?category", c)) /\ Right(v, Link("DELETE:/category/:id", c))
  BY SomeCategoryRight DEF Link
<1>2. \A form : form \cap Names # {} => Right(v, Request("PUT:/category/:id", c, form))
  BY CategoryRight DEF CategoryRoutes
<1>3. \A typed : \A n \in Names : (typed \cup {n}) \cap Names # {}
  OBVIOUS
<1>4. \A typed : \A n \in Names : Right(v, Request("PUT:/category/:id", c, typed \cup {n}))
  BY <1>2, <1>3
<1>5. cat_name[c] \in Names
  BY DEF CategoriesInv
<1>6. Right(v, CategoryForm(c))
  BY <1>4, <1>5 DEF CategoryForm
<1>7. ASSUME NEW q \in {Request("PUT:/category/:id", c, typed \cup {n}) :
                         n \in Names, typed \in MemberInputs}
      PROVE  Right(v, q)
  <2> DEFINE Form(n, typed) == Request("PUT:/category/:id", c, typed \cup {n})
  <2>1. q \in {Form(n, typed) : n \in Names, typed \in MemberInputs}
    BY <1>7
  <2>2. \A n \in Names, typed \in MemberInputs : Right(v, Form(n, typed))
    BY <1>4
  <2> HIDE DEF Form
  <2> QED BY <2>1, <2>2
<1>8. \A q \in CategoryEditPage(c) : Right(v, q)
  BY <1>1, <1>7 DEF CategoryEditPage
<1> QED BY <1>6, <1>8

\* A category begins to be saved.
Started(v, r) ==
  /\ page' = Blank(NoRequest) /\ pending' = r /\ UNCHANGED <<session, answer, fresh>>
  /\ saving'[Tab].user = v /\ owner'[saving'[Tab].category] = v
  /\ r.route \in {"POST:/category", "PUT:/category/:id"} /\ Right(v, r)'

LEMMA StartedFacts ==
  ASSUME NEW v, NEW r, Asked(v, r), NEW c \in Categories, NEW made \in BOOLEAN, NEW typed,
         Begin(Tab, v, r, c, made, typed), owner'[c] = v,
         r.route \in {"POST:/category", "PUT:/category/:id"},
         r.route = "PUT:/category/:id" => r.id = c
  PROVE  Started(v, r)
<1>1. TableInv /\ v \in Users /\ Tab \in Senders /\ saving[Tab] = Idle
  BY UserFacts DEF Asked, Senders
<1>2. /\ saving' = [saving EXCEPT ![Tab] =
                      [user |-> v, category |-> c, made |-> made, at |-> "clear",
                       want |-> ParseMembers(typed), left |-> ParseMembers(typed)]]
  BY <1>1, BeginFacts
<1>3. saving'[Tab].user = v /\ saving'[Tab].category = c
  BY <1>1, <1>2 DEF TableInv, SavingInv
<1>4. Good(v, r)'
  BY DEF Asked, Good, WellFormed, BookmarkRoutes, FeedRoutes, Toggles, CategoryRoutes,
         UserRoutes, AdminRoutes, ListRoutes
<1>5. Right(v, r)'
  BY <1>4 DEF Right, Asked
<1>6. page' = Blank(NoRequest) /\ pending' = r /\ UNCHANGED <<session, answer, fresh>>
  BY DEF Begin
<1> QED BY <1>3, <1>5, <1>6 DEF Started

LEMMA StartedKeeps ==
  ASSUME NEW v, NEW r, Asked(v, r), TablesKept(Tab), Started(v, r)
  PROVE  TabInv'
<1>1. PICK p : p = Blank(NoRequest)
  OBVIOUS
<1>2. Right(v, NoRequest)' /\ NoRequest.n = 1
  BY FreeRight DEF FreeRoutes, NoRequest, Go, Request
<1>3. /\ RightPage(v, p)' /\ Shows(p) /\ p.view = "blank" /\ p.view \notin ItemViews
      /\ p.offers = {Go("GET:/")} /\ p.prefilled = {}
  BY <1>1, <1>2, BlankRight
<1>4. page' = p /\ pending' = r /\ session' = v /\ session = v /\ UNCHANGED <<answer, fresh>>
  BY <1>1 DEF Started, Asked
<1>5. v \in users' /\ v # Nothing
  BY UserFacts DEF Asked, TablesKept
<1>6. Right(v, r)'
  BY DEF Started
<1>7. \A x \in Offered' : WellFormed(x) /\ Own(v, x)
  BY <1>3, <1>4, <1>6 DEF Offered, RightPage, Right
<1>8. TabSavingInv'
  BY <1>3, <1>4 DEF TabSavingInv, Started
<1>9. RefusedInv'
  <2>1. ~(fresh /\ answer = "refused")
    BY DEF Asked, Started
  <2> QED BY <1>4, <2>1 DEF RefusedInv
<1>10. Good(v, r)'
  BY <1>6 DEF Right
<1> QED BY <1>3, <1>4, <1>5, <1>7, <1>8, <1>9, <1>10 DEF TabInv

LEMMA CategoryAnswers ==
  ASSUME NEW v, NEW r, Asked(v, r), CategoryHandler(Tab, v, r)
  PROVE  (Answered(v, r) /\ saving'[Tab] = Idle) \/ Started(v, r)
<1>1. /\ TableInv /\ CategoriesInv /\ v \in Users /\ v \in users /\ WellFormed(r)
      /\ saving[Tab] = Idle /\ session = v
  BY UserFacts DEF Asked, TableInv
<1>2. {"NewCategory", "EditCategory"} \cap ItemViews = {}
  BY DEF ItemViews
<1>3. r.route \notin ListRoutes /\ r.n = 1
  <2>1. r.route \in {"GET:/category/new", "POST:/category", "GET:/category/:id/edit",
                     "PUT:/category/:id", "DELETE:/category/:id"}
    BY DEF CategoryHandler, HandleNewCategory, HandleCreateCategory, HandleEditCategory,
           HandleUpdateCategory, HandleDeleteCategory
  <2>2. r.route \notin ListRoutes
    BY <2>1 DEF ListRoutes
  <2> QED BY <1>1, <2>2 DEF WellFormed
<1>4. ASSUME Show(Tab, v, r, "NewCategory", {}, CategoryNewPage), Reading
      PROVE  Answered(v, r) /\ saving'[Tab] = Idle
  <2>1. /\ UNCHANGED Relied /\ UNCHANGED saving
        /\ \A q \in CategoryNewPage : Right(v, q)
    BY <1>4, ReadingSame, NewCategoryPageRight
  <2> QED BY <1>1, <1>2, <1>3, <1>4, <2>1, ShowAnswers
<1>5. CASE HandleNewCategory(Tab, v, r)
  BY <1>4, <1>5 DEF HandleNewCategory
<1>6. CASE HandleCreateCategory(Tab, v, r)
  <2>1. CASE Taken(v, r.id)
    BY <1>4, <1>6, <2>1 DEF HandleCreateCategory
  <2>2. CASE ~Taken(v, r.id)
    <3>1. r.route = "POST:/category"
      BY <1>6 DEF HandleCreateCategory
    <3>2. PICK c \in Categories :
            owner' = [owner EXCEPT ![c] = v] /\ Begin(Tab, v, r, c, TRUE, r.form)
      BY <1>6, <2>2 DEF HandleCreateCategory
    <3>3. owner'[c] = v
      BY <1>1, <3>2 DEF CategoriesInv
    <3> QED BY <3>1, <3>2, <3>3, StartedFacts
  <2> QED BY <2>1, <2>2
<1>7. ASSUME owner[r.id] # v, r.route \in CategoryRoutes, Refuse(Tab, r) PROVE Answered(v, r)
  <2>1. ~Good(v, r)
    BY <1>7 DEF Good
  <2> QED BY <1>3, <1>7, <2>1, RefuseAnswers
<1>8. CASE HandleEditCategory(Tab, v, r)
  <2>1. r.route \in CategoryRoutes /\ r.id \in Categories /\ UNCHANGED Relied /\ UNCHANGED saving
    BY <1>1, <1>8, ReadingSame DEF HandleEditCategory, WellFormed, CategoryRoutes
  <2>2. CASE owner[r.id] # v
    BY <1>1, <1>7, <1>8, <2>1, <2>2 DEF HandleEditCategory
  <2>3. CASE owner[r.id] = v
    <3>1. ShowForm(Tab, v, r, "EditCategory", CategoryEditPage(r.id), {CategoryForm(r.id)})
      BY <1>8, <2>3 DEF HandleEditCategory
    <3>2. Right(v, CategoryForm(r.id)) /\ \A q \in CategoryEditPage(r.id) : Right(v, q)
      BY <1>1, <2>1, <2>3, EditCategoryRight
    <3>3. Filled(v, CategoryForm(r.id))
      BY DEF Filled, CategoryForm, Request
    <3> QED BY <1>1, <1>2, <1>3, <2>1, <3>1, <3>2, <3>3, ShowFormAnswers
  <2> QED BY <2>2, <2>3
<1>9. CASE HandleUpdateCategory(Tab, v, r)
  <2>1. r.route = "PUT:/category/:id" /\ r.route \in CategoryRoutes /\ r.id \in Categories
    BY <1>1, <1>9 DEF HandleUpdateCategory, WellFormed, CategoryRoutes
  <2>2. CASE owner[r.id] # v
    BY <1>1, <1>7, <1>9, <2>1, <2>2, ReadingSame DEF HandleUpdateCategory
  <2>3. CASE owner[r.id] = v /\ (cat_name[r.id] # NameIn(r) /\ Taken(v, NameIn(r)))
    <3>1. Refuse(Tab, r) /\ UNCHANGED Relied /\ UNCHANGED saving
      BY <1>9, <2>3, ReadingSame DEF HandleUpdateCategory
    <3>2. session' = v
      BY <1>1, <3>1 DEF Refuse, Deny
    <3>3. Taken(v, NameIn(r))'
      BY <2>3, <3>1 DEF Taken, ListCategories, Relied
    <3>4. Clash(r)'
      BY <2>1, <3>2, <3>3 DEF Clash
    <3> QED BY <1>1, <1>3, <3>1, <3>4 DEF Answered
  <2>4. CASE owner[r.id] = v /\ (cat_name[r.id] = NameIn(r) \/ ~Taken(v, NameIn(r)))
    <3>1. Begin(Tab, v, r, r.id, FALSE, r.form \cap Members) /\ owner' = owner
      BY <1>9, <2>4 DEF HandleUpdateCategory
    <3> QED BY <2>1, <2>4, <3>1, StartedFacts
  <2> QED BY <2>2, <2>3, <2>4
<1>10. CASE HandleDeleteCategory(Tab, v, r)
  <2>1. Redirect(Tab, Go("GET:/url")) /\ UNCHANGED saving /\ "GET:/url" \in FreeRoutes
    BY <1>10 DEF HandleDeleteCategory, FreeRoutes
  <2> QED BY <1>1, <2>1, RedirectAnswers
<1> QED BY <1>5, <1>6, <1>8, <1>9, <1>10 DEF CategoryHandler

\* While a category is saved the tab is blank, and stays so until the answer is there.
LEMMA WaitingFacts ==
  ASSUME Inv, saving[Tab] # Idle, NEW v, v = session, NEW p, p = page, NEW q, q = pending
  PROVE  /\ p.offers = {Go("GET:/")} /\ p.prefilled = {} /\ p.view = "blank"
         /\ RightPage(v, p)' /\ q # NoRequest /\ q.n = 1 /\ WellFormed(q)
         /\ v # Nothing => Own(v, q)
         /\ q.route \in {"POST:/category", "PUT:/category/:id"}
         /\ v \in users \cup {Nothing} /\ v \in {saving[Tab].user, Nothing}
         /\ ~(fresh /\ answer = "refused")
         /\ fresh => v = saving[Tab].user /\ owner[saving[Tab].category] = v
         /\ fresh /\ v # Nothing => Good(v, q)
<1>1. TabInv /\ TabSavingInv
  BY DEF Inv, TabInv
<1>2. p.offers = {Go("GET:/")} /\ p.prefilled = {} /\ q.route \in {"POST:/category", "PUT:/category/:id"}
  BY <1>1 DEF TabSavingInv
<1>3. q # NoRequest
  BY <1>2 DEF NoRequest, Go, Request
<1>4. p.view = "blank" /\ (p.led => Shows(p)) /\ v \in users \cup {Nothing}
  BY <1>1, <1>3 DEF TabInv
<1>5. WellFormed(q) /\ (v # Nothing => Own(v, q))
  BY <1>1 DEF TabInv, Offered
<1>6. q.n = 1
  BY <1>2, <1>5 DEF WellFormed, ListRoutes
<1>7. Right(v, Go("GET:/"))'
  BY FreeRight DEF FreeRoutes, Go
<1>8. RightPage(v, p)'
  BY <1>2, <1>4, <1>7 DEF RightPage, ItemViews
<1>9. ~(fresh /\ answer = "refused")
  BY <1>1, <1>3 DEF TabInv, RefusedInv
<1>10. /\ v \in {saving[Tab].user, Nothing}
       /\ fresh => v = saving[Tab].user /\ owner[saving[Tab].category] = v
  BY <1>1 DEF TabSavingInv
<1>11. fresh /\ v # Nothing => Good(v, q)
  BY <1>1 DEF TabInv
<1> QED BY <1>2, <1>3, <1>4, <1>5, <1>6, <1>8, <1>9, <1>10, <1>11

LEMMA SavingGoesOn ==
  ASSUME Inv, TablesKept(Tab), DeleteAllCategoryMembers(Tab) \/ InsertCategoryMember(Tab)
  PROVE  TabInv'
<1>1. TableInv /\ SavingInv /\ Tab \in Senders
  BY DEF Inv, TableInv, Senders
<1>2. /\ UNCHANGED <<session, page, pending, answer, owner>> /\ (fresh' => fresh)
      /\ saving[Tab].at # "idle"
      /\ \/ saving' = [saving EXCEPT ![Tab].at = "insert"]
         \/ \E m : saving' = [saving EXCEPT ![Tab].left = @ \ {m}]
  <2>1. CASE DeleteAllCategoryMembers(Tab)
    BY <2>1 DEF DeleteAllCategoryMembers
  <2>2. CASE InsertCategoryMember(Tab)
    BY <2>2 DEF InsertCategoryMember
  <2> QED BY <2>1, <2>2
<1>3. saving[Tab] \in Saves /\ saving[Tab] # Idle
  BY <1>1, <1>2, BusyFacts DEF Idle
<1>4. saving'[Tab].user = saving[Tab].user /\ saving'[Tab].category = saving[Tab].category
  <2>1. CASE saving' = [saving EXCEPT ![Tab].at = "insert"]
    BY <1>1, <1>3, <2>1 DEF SavingInv, Saves
  <2>2. CASE \E m : saving' = [saving EXCEPT ![Tab].left = @ \ {m}]
    BY <1>1, <1>3, <2>2 DEF SavingInv, Saves
  <2> QED BY <1>2, <2>1, <2>2
<1>5. PICK v, p, q : v = session /\ p = page /\ q = pending
  OBVIOUS
<1>6. /\ p.offers = {Go("GET:/")} /\ p.prefilled = {} /\ p.view = "blank"
      /\ RightPage(v, p)' /\ q # NoRequest /\ q.n = 1 /\ WellFormed(q)
      /\ v # Nothing => Own(v, q)
      /\ q.route \in {"POST:/category", "PUT:/category/:id"}
      /\ v \in users \cup {Nothing} /\ v \in {saving[Tab].user, Nothing}
      /\ ~(fresh /\ answer = "refused")
      /\ fresh => v = saving[Tab].user /\ owner[saving[Tab].category] = v
      /\ fresh /\ v # Nothing => Good(v, q)
  BY <1>3, <1>5, WaitingFacts
<1>7. session' = v /\ page' = p /\ pending' = q
  BY <1>2, <1>5
<1>8. v \in users' \cup {Nothing}
  BY <1>6 DEF TablesKept
<1>9. \A x \in Offered' : WellFormed(x) /\ (v # Nothing => Own(v, x))
  BY <1>6, <1>7 DEF Offered, RightPage, Right
<1>10. p.led => Shows(p)
  BY <1>6 DEF RightPage
<1>11. TabSavingInv'
  BY <1>2, <1>4, <1>6, <1>7 DEF TabSavingInv
<1>12. RefusedInv'
  BY <1>2, <1>6 DEF RefusedInv
<1>13. fresh' /\ v # Nothing => Good(v, q)'
  BY <1>2, <1>6
     DEF Good, BookmarkRoutes, FeedRoutes, Toggles, CategoryRoutes, UserRoutes, AdminRoutes
<1>14. p.view \notin ItemViews
  BY <1>6 DEF ItemViews
<1> QED BY <1>6, <1>7, <1>8, <1>9, <1>10, <1>11, <1>12, <1>13, <1>14 DEF TabInv

LEMMA SavingEnds ==
  ASSUME Inv, TablesKept(Tab), CategoryIsGone(Tab) \/ StatementFails(Tab) \/ CategorySaved(Tab)
  PROVE  TabInv'
<1>1. TableInv /\ SavingInv /\ Tab \in Senders
  BY DEF Inv, TableInv, Senders
<1>2. saving[Tab].at # "idle" /\ saving' = [saving EXCEPT ![Tab] = Idle] /\ owner' = owner
  BY DEF CategoryIsGone, StatementFails, CategorySaved, GiveUp
<1>3. /\ saving[Tab] # Idle /\ saving[Tab].user \in Users /\ saving[Tab].category \in Categories
      /\ saving'[Tab] = Idle
  BY <1>1, <1>2, BusyFacts DEF Idle, SavingInv
<1>4. PICK v, u, q : v = session /\ u = saving[Tab].user /\ q = pending
  OBVIOUS
<1>5. /\ q.n = 1 /\ v \in users \cup {Nothing} /\ v \in {u, Nothing}
      /\ ~(fresh /\ answer = "refused")
      /\ fresh => v = u /\ owner[saving[Tab].category] = v
  BY <1>3, <1>4, WaitingFacts
<1>6. Right(v, NoRequest)' /\ NoRequest.n = 1
  BY FreeRight DEF FreeRoutes, NoRequest, Go, Request
<1>7. v \in users' \cup {Nothing}
  BY <1>5 DEF TablesKept
<1>8. CASE CategorySaved(Tab)
  <2>1. PICK c : c = saving[Tab].category
    OBVIOUS
  <2>2. PICK p : p = Blank(NoRequest)
    OBVIOUS
  <2>3. /\ page' = p /\ pending' = Link("GET:/url?category", c) /\ answer' = "page"
        /\ session' = v
    BY <1>4, <1>8, <2>1, <2>2 DEF CategorySaved, Redirect
  <2>4. Right(v, Link("GET:/url?category", c))'
    BY <1>3, <2>1
       DEF Right, WellFormed, Own, Good, Link, Request, BookmarkRoutes, FeedRoutes, Toggles,
           CategoryRoutes, UserRoutes, AdminRoutes, ListRoutes
  <2>5. RightPage(v, p)' /\ p.view = "blank" /\ p.view \notin ItemViews
    BY <1>6, <2>2, BlankRight
  <2>6. RefusedInv'
    BY <2>3 DEF RefusedInv
  <2> QED BY <1>3, <1>7, <2>3, <2>4, <2>5, <2>6, TabKept
<1>9. CASE ~CategorySaved(Tab)
  <2>1. PICK how : /\ GiveUp(Tab, how)
                   /\ how = "refused" => owner[saving[Tab].category] = Gone
    BY <1>9 DEF CategoryIsGone, StatementFails
  <2>2. CASE ~saving[Tab].made
    <3>1. PICK p : p = Blank(q)
      OBVIOUS
    <3>2. page' = p /\ pending' = NoRequest /\ answer' = how /\ session' = v /\ fresh' = fresh
      BY <1>4, <2>1, <2>2, <3>1 DEF GiveUp, Deny
    <3>3. RightPage(v, p)' /\ p.view = "blank" /\ p.view \notin ItemViews
      BY <1>5, <3>1, BlankRight
    <3>4. ~(fresh /\ how = "refused")
      BY <1>3, <1>4, <1>5, <2>1, SiteAssumption
    <3>5. RefusedInv'
      BY <3>2, <3>4 DEF RefusedInv
    <3> QED BY <1>3, <1>6, <1>7, <3>2, <3>3, <3>5, TabKept
  <2>3. CASE saving[Tab].made
    <3>1. PICK p : p = Page("NewCategory", q, {}, {}, Nav(u) \cup CategoryNewPage, {})
      OBVIOUS
    <3>2. /\ p.offers = Nav(u) \cup CategoryNewPage /\ p.prefilled = {} /\ p.at = q
          /\ p.view = "NewCategory"
      BY <3>1 DEF Page
    <3>3. /\ page' = p /\ pending' = NoRequest /\ answer' = "page" /\ session' = v
      BY <1>4, <2>1, <2>3, <3>1 DEF GiveUp, Show, Put
    <3>4. \A x \in p.offers : Right(u, x)
      BY <1>3, <1>4, <3>2, NavRight, NewCategoryPageRight
    <3>5. UNCHANGED Relied
      <4>1. UNCHANGED <<accounts, bookmarks, feeds, owner, cat_name, members>>
        BY <2>1 DEF GiveUp
      <4> QED BY <4>1 DEF accounts, feeds, Relied
    <3>6. \A x \in p.offers : Right(u, x)'
      BY <3>4, <3>5, SameRight
    <3>7. RefusedInv'
      BY <3>3 DEF RefusedInv
    <3>8. Shows(p) /\ p.view \notin ItemViews
      BY <1>5, <3>2 DEF Shows, ItemViews
    <3>9. RightPage(u, p)'
      BY <3>2, <3>6, <3>8 DEF RightPage
    <3>10. CASE v = u
      BY <1>3, <1>6, <1>7, <3>3, <3>7, <3>8, <3>9, <3>10, TabKept
    <3>11. CASE v = Nothing
      <4>1. \A x \in Offered' : WellFormed(x)
        BY <1>6, <3>2, <3>3, <3>6 DEF Offered, Right
      <4>2. TabSavingInv'
        BY <1>3 DEF TabSavingInv
      <4> QED BY <1>7, <3>3, <3>7, <3>8, <3>11, <4>1, <4>2 DEF TabInv
    <3> QED BY <1>5, <3>10, <3>11
  <2> QED BY <2>2, <2>3
<1> QED BY <1>8, <1>9

LEMMA TabSavingKeeps ==
  ASSUME Inv, SetCategoryMembers(Tab)
  PROVE  TablesKept(Tab) /\ TabInv'
<1>1. TablesKept(Tab)
  BY SavingTables DEF Inv, Senders
<1> QED BY <1>1, SavingGoesOn, SavingEnds DEF SetCategoryMembers

-----------------------------------------------------------------------------
\* The pages of feeds.

LEMMA ToggleFacts ==
  ASSUME NEW i, NEW done \in BOOLEAN
  PROVE  /\ Toggle(i, done).route \in Toggles /\ Toggle(i, done).id = i
         /\ \A j : \A d \in BOOLEAN : Toggle(j, d) = Toggle(i, done) => j = i /\ d = done
<1>1. /\ Toggle(i, done).id = i
      /\ Toggle(i, done).route = IF done THEN "DELETE:/feed/items/:itemID/read"
                                 ELSE "POST:/feed/items/:itemID/read"
  BY DEF Toggle, Link, Request
<1>2. \A j : \A d \in BOOLEAN :
        /\ Toggle(j, d).id = j
        /\ Toggle(j, d).route = IF d THEN "DELETE:/feed/items/:itemID/read"
                                ELSE "POST:/feed/items/:itemID/read"
  BY DEF Toggle, Link, Request
<1> QED BY <1>1, <1>2 DEF Toggles

LEMMA CardTogglesRight ==
  ASSUME FeedsInv, NEW v \in Users, NEW i \in Items, GetTimelineItem(v, i)
  PROVE  /\ \A done \in BOOLEAN : Right(v, Toggle(i, done))
         /\ Right(v, Link("GET:/feed/:id", FeedOf[i]))
         /\ FeedOf[i] \in Feeds /\ FeedOf[i] \in subs[v]
<1>1. FeedOf[i] \in subs[v] /\ FeedOf[i] \in Feeds
  BY DEF GetTimelineItem, FeedsInv
<1>2. \A done \in BOOLEAN : Right(v, Toggle(i, done))
  BY ToggleRight DEF Toggle, Toggles, Link
<1>3. Right(v, Link("GET:/feed/:id", FeedOf[i]))
  BY <1>1, FeedRight DEF FeedRoutes, Link
<1> QED BY <1>1, <1>2, <1>3

LEMMA MarkFacts ==
  ASSUME NEW v, NEW i
  PROVE  \E done \in BOOLEAN : Toggle(i, i \in read[v]) = Toggle(i, done) /\ (done <=> i \in read[v])
<1>1. CASE i \in read[v]
  <2>1. Toggle(i, i \in read[v]) = Toggle(i, TRUE)
    BY <1>1 DEF Toggle
  <2> QED BY <1>1, <2>1
<1>2. CASE i \notin read[v]
  <2>1. Toggle(i, i \in read[v]) = Toggle(i, FALSE)
    BY <1>2 DEF Toggle
  <2> QED BY <1>2, <2>1
<1> QED BY <1>1, <1>2

\* Each item on the page has the button for what it is not.
Marked(v, shown, offers) ==
  /\ \A i \in shown, done \in BOOLEAN : Toggle(i, done) \in offers <=> (done <=> i \in read[v])
  /\ \A q \in offers : q.route \in Toggles => q.id \in shown

LEMMA MarkedFacts ==
  ASSUME NEW v, NEW shown, NEW others, \A q \in others : q.route \notin Toggles
  PROVE  Marked(v, shown, others \cup {Toggle(i, i \in read[v]) : i \in shown})
<1>1. \A i : \E d \in BOOLEAN : Toggle(i, i \in read[v]) = Toggle(i, d) /\ (d <=> i \in read[v])
  BY MarkFacts
<1>2. ASSUME NEW i \in shown, NEW done \in BOOLEAN
      PROVE  Toggle(i, done) \in others \cup {Toggle(j, j \in read[v]) : j \in shown}
               <=> (done <=> i \in read[v])
  <2>1. Toggle(i, done) \notin others
    BY ToggleFacts
  <2>2. ASSUME NEW j \in shown, Toggle(i, done) = Toggle(j, j \in read[v])
        PROVE  done <=> i \in read[v]
    <3>1. PICK d \in BOOLEAN : Toggle(j, j \in read[v]) = Toggle(j, d) /\ (d <=> j \in read[v])
      BY <1>1
    <3>2. i = j /\ done = d
      BY <2>2, <3>1, ToggleFacts
    <3> QED BY <3>1, <3>2
  <2>3. ASSUME done <=> i \in read[v] PROVE Toggle(i, done) = Toggle(i, i \in read[v])
    BY <2>3 DEF Toggle
  <2> QED BY <2>1, <2>2, <2>3
<1>3. \A i \in shown : Toggle(i, i \in read[v]).id = i
  BY <1>1, ToggleFacts
<1> QED BY <1>2, <1>3 DEF Marked

LEMMA TimelineRight ==
  ASSUME TableInv, NEW v \in users, NEW n \in Nat \ {0}, NEW shown, NEW more \in BOOLEAN,
         shown \subseteq ToSet(ListTimelineItems(v)),
         \A k \in Nat \ {0} : shown # {} /\ ((k = n + 1 /\ more) \/ (k = n - 1 /\ n > 1)) =>
           Reaches(ListTimelineItems(v), k, TimelineSize)
  PROVE  /\ \A q \in TimelinePage(v, n, shown, more) : Right(v, q)
         /\ \E others :
              /\ TimelinePage(v, n, shown, more)
                   = others \cup {Toggle(i, i \in read[v]) : i \in shown}
              /\ \A q \in others : q.route \notin Toggles
<1>1. FeedsInv /\ v \in Users /\ subs[v] \subseteq Feeds
  BY UserFacts DEF TableInv, FeedsInv
<1>2. \A i \in shown : i \in Items /\ GetTimelineItem(v, i)
  BY TimelineRows
<1>3. ASSUME NEW i \in shown
      PROVE  /\ \A done \in BOOLEAN : Right(v, Toggle(i, done))
             /\ Right(v, Link("GET:/feed/:id", FeedOf[i]))
             /\ FeedOf[i] \in Feeds /\ FeedOf[i] \in subs[v]
  BY <1>1, <1>2, CardTogglesRight
<1> DEFINE Side == FeedSidebar(v) \cup {Go("POST:/feed/items/read-all")}
           Leads == {Link("GET:/feed/:id", FeedOf[i]) : i \in shown}
           Buttoned == {Toggle(i, i \in read[v]) : i \in shown}
           Grouping == IF Grouped[prefs[v]]
                       THEN UNION {TimelineFeedGroupSection(FeedOf[i]) : i \in shown} ELSE {}
           Pages == IF shown = {} THEN {} ELSE Pagination("GET:/feed", Nothing, n, more)
<1>4. \A q \in Side : Right(v, q) /\ q.route \notin Toggles
  <2>1. /\ Right(v, Go("GET:/feed")) /\ Right(v, Go("GET:/feed/new"))
        /\ Right(v, Go("POST:/feed/items/read-all"))
    BY FreeRight DEF FreeRoutes, Go
  <2>2. \A f \in subs[v] : Right(v, Link("GET:/feed/:id", f))
    BY <1>1, FeedRight DEF FeedRoutes, Link
  <2>3. \A q \in Side : q.route \notin Toggles
    BY DEF FeedSidebar, ListUserFeeds, Go, Link, Request, Toggles
  <2> QED BY <2>1, <2>2, <2>3 DEF FeedSidebar, ListUserFeeds
<1>5. \A q \in Leads : Right(v, q) /\ q.route \notin Toggles
  <2>1. \A f : Link("GET:/feed/:id", f).route \notin Toggles
    BY DEF Link, Request, Toggles
  <2> QED BY <1>3, <2>1
<1>6. \A q \in Buttoned : Right(v, q)
  BY <1>3, MarkFacts
<1>7. \A q \in Grouping : Right(v, q) /\ q.route \notin Toggles
  <2>1. ASSUME NEW f \in Feeds, f \in subs[v]
        PROVE  \A q \in TimelineFeedGroupSection(f) : Right(v, q) /\ q.route \notin Toggles
    <3>1. /\ Right(v, Link("GET:/feed/:id", f))
          /\ Right(v, Request("POST:/feed/:id/read-all", f, {Timeline}))
      BY <2>1, FeedRight DEF FeedRoutes, Link
    <3>2. /\ Link("GET:/feed/:id", f).route \notin Toggles
          /\ Request("POST:/feed/:id/read-all", f, {Timeline}).route \notin Toggles
      BY DEF Link, Request, Toggles
    <3> QED BY <3>1, <3>2 DEF TimelineFeedGroupSection
  <2> QED BY <1>3, <2>1
<1>8. \A q \in Pages : Right(v, q) /\ q.route \notin Toggles
  <2>1. \A k : LET q == Numbered("GET:/feed", Nothing, k)
               IN  RowsOf(v, q) = ListTimelineItems(v) /\ SizeOf(v, q) = TimelineSize
    BY DEF RowsOf, SizeOf, Numbered
  <2>2. "GET:/feed" \in ListRoutes
    BY DEF ListRoutes
  <2>3. ASSUME shown # {} PROVE \A q \in Pagination("GET:/feed", Nothing, n, more) : Right(v, q)
    BY <2>1, <2>2, <2>3, PaginationRight
  <2>4. \A q \in Pagination("GET:/feed", Nothing, n, more) : q.route \notin Toggles
    BY DEF Pagination, Numbered, Toggles
  <2> QED BY <2>3, <2>4
<1>9. TimelineItemCards(v, shown) = Leads \cup Buttoned
  BY DEF TimelineItemCards, TimelineItemCard
<1>10. TimelinePage(v, n, shown, more) = Side \cup TimelineItemCards(v, shown) \cup Grouping \cup Pages
  BY Zenon DEF TimelinePage
<1> HIDE DEF Side, Leads, Buttoned, Grouping, Pages
<1>11. TimelinePage(v, n, shown, more) = (Side \cup Leads \cup Grouping \cup Pages) \cup Buttoned
  BY <1>9, <1>10
<1>12. \A q \in Side \cup Leads \cup Grouping \cup Pages : q.route \notin Toggles
  BY <1>4, <1>5, <1>7, <1>8
<1>13. \A q \in TimelinePage(v, n, shown, more) : Right(v, q)
  BY <1>4, <1>5, <1>6, <1>7, <1>8, <1>11
<1> QED BY <1>11, <1>12, <1>13 DEF Buttoned

LEMMA FeedDetailRight ==
  ASSUME TableInv, NEW v \in users, NEW f \in Feeds, f \in subs[v], NEW shown,
         shown \subseteq ToSet(ListFeedItems(f))
  PROVE  /\ \A q \in FeedDetailPage(v, f, shown) : Right(v, q)
         /\ \E others :
              /\ FeedDetailPage(v, f, shown)
                   = others \cup {Toggle(i, i \in read[v]) : i \in shown}
              /\ \A q \in others : q.route \notin Toggles
<1>1. FeedsInv /\ v \in Users
  BY UserFacts DEF TableInv
<1>2. \A i \in shown : i \in Items /\ GetTimelineItem(v, i)
  BY FeedRows DEF GetTimelineItem
<1>3. ASSUME NEW i \in shown PROVE \A done \in BOOLEAN : Right(v, Toggle(i, done))
  BY <1>1, <1>2, CardTogglesRight
<1> DEFINE others == {Link("POST:/feed/:id/read-all", f), Link("GET:/feed/:id/edit", f),
                      Link("DELETE:/feed/:id", f)}
           Buttoned == {Toggle(i, i \in read[v]) : i \in shown}
<1>4. \A q \in others : Right(v, q)
  BY FeedRight DEF FeedRoutes, Link
<1>5. \A q \in others : q.route \notin Toggles
  BY DEF Link, Request, Toggles
<1>6. \A q \in Buttoned : Right(v, q)
  BY <1>3, MarkFacts
<1>7. FeedDetailPage(v, f, shown) = others \cup Buttoned
  BY DEF FeedDetailPage, FeedItemCard
<1> HIDE DEF others, Buttoned
<1>8. \A q \in FeedDetailPage(v, f, shown) : Right(v, q)
  BY <1>4, <1>6, <1>7
<1> QED BY <1>5, <1>7, <1>8 DEF Buttoned

LEMMA NewFeedPageRight ==
  ASSUME NEW v
  PROVE  \A q \in NewFeedPage : Right(v, q)
<1>1. Right(v, Go("GET:/feed"))
  BY FreeRight DEF FreeRoutes, Go
<1>2. \A f \in Feeds, typed \in TagInputs : Right(v, Request("POST:/feed", f, typed))
  BY NewFeedRight, SiteAssumption
<1> QED BY <1>1, <1>2 DEF NewFeedPage

LEMMA EditFeedRight ==
  ASSUME FeedsInv, NEW v \in Users, NEW f \in Feeds, f \in subs[v]
  PROVE  Right(v, FeedForm(v, f)) /\ \A q \in EditFeedPage(f) : Right(v, q)
<1>1. Right(v, Link("GET:/feed/:id", f))
  BY FeedRight DEF FeedRoutes, Link
<1>2. \A form \in SUBSET Tags : Right(v, Request("PUT:/feed/:id", f, form))
  BY FeedRight DEF FeedRoutes
<1>3. feed_tags[<<v, f>>] \in SUBSET Tags /\ TagInputs \subseteq SUBSET Tags
  BY SiteAssumption DEF FeedsInv
<1>4. Right(v, FeedForm(v, f))
  BY <1>2, <1>3 DEF FeedForm, ListFeedTagNames
<1>5. \A typed \in TagInputs : Right(v, Request("PUT:/feed/:id", f, typed))
  BY <1>2, <1>3
<1> QED BY <1>1, <1>4, <1>5 DEF EditFeedPage

LEMMA ShowItemsAnswers ==
  ASSUME TableInv, NEW v \in users, NEW r, NEW view \in ItemViews, NEW shown, NEW offers,
         ShowItems(Tab, v, r, view, shown, offers), UNCHANGED Relied, read' = read,
         \A q \in offers : Right(v, q),
         \E others : /\ offers = others \cup {Toggle(i, i \in read[v]) : i \in shown}
                     /\ \A q \in others : q.route \notin Toggles,
         shown = IF view = "TimelinePage"
                 THEN Held(Slice(ListTimelineItems(v), r.n, TimelineSize), TimelineSize)
                 ELSE ToSet(ListFeedItems(r.id)),
         fresh /\ r.n > 1 => shown # {}
  PROVE  Answered(v, r)
<1>1. PICK p : p = Page(view, r, shown, read[v] \cap shown, Nav(v) \cup offers, {})
  OBVIOUS
<1>2. Put(Tab, p)
  BY <1>1 DEF ShowItems
<1>3. /\ p.offers = Nav(v) \cup offers /\ p.prefilled = {} /\ p.view = view /\ p.at = r
      /\ p.rows = shown /\ p.read = read[v] \cap shown /\ p.led = fresh
  BY <1>1 DEF Page
<1>4. p.led => Shows(p)
  BY <1>3 DEF Shows, ItemViews
<1>5. \A q \in p.offers : Right(v, q)
  BY <1>3, NavRight, UserFacts
<1>6. PICK others : /\ offers = others \cup {Toggle(i, i \in read[v]) : i \in shown}
                    /\ \A q \in others : q.route \notin Toggles
  OBVIOUS
<1>7. \A q \in Nav(v) : q.route \notin Toggles
  BY DEF Nav, Go, Link, Request, Toggles
<1>8. p.offers = (Nav(v) \cup others) \cup {Toggle(i, i \in read[v]) : i \in shown}
  <2>1. PICK buttons : buttons = {Toggle(i, i \in read[v]) : i \in shown}
    OBVIOUS
  <2>2. offers = others \cup buttons
    BY <1>6, <2>1, Zenon
  <2>3. p.offers = (Nav(v) \cup others) \cup buttons
    BY <1>3, <2>2
  <2> QED BY <2>1, <2>3, Zenon
<1>9. Marked(v, shown, p.offers)
  <2>1. \A q \in Nav(v) \cup others : q.route \notin Toggles
    BY <1>6, <1>7
  <2>2. Marked(v, shown, (Nav(v) \cup others) \cup {Toggle(i, i \in read[v]) : i \in shown})
    BY <2>1, MarkedFacts, Zenon
  <2> QED BY <1>8, <2>2, Zenon
<1>10. ShownOn(v, p) = shown
  BY <1>3 DEF ShownOn
<1>11. Current(v, p)
  BY <1>3, <1>9, <1>10 DEF Current, Marked
<1>12. RightPage(v, p)
  BY <1>3, <1>4, <1>5, <1>11 DEF RightPage
<1>13. v # Nothing
  BY UserFacts
<1> QED BY <1>2, <1>12, <1>13, PutAnswers

LEMMA TimelineAnswers ==
  ASSUME NEW v, NEW r, Asked(v, r), HandleTimeline(Tab, v, r)
  PROVE  Answered(v, r)
<1> DEFINE rows == ListTimelineItems(v)
           asked == Slice(rows, r.n, TimelineSize)
           shown == Held(asked, TimelineSize)
           more == HasMore(asked, TimelineSize)
           offers == TimelinePage(v, r.n, shown, more)
<1>1. /\ TableInv /\ v \in users /\ r.n \in Nat \ {0} /\ (fresh => Good(v, r))
      /\ r.route = "GET:/feed" /\ TimelineSize \in Nat \ {0}
  BY SiteAssumption DEF Asked, WellFormed, HandleTimeline
<1>2. UNCHANGED Relied /\ read' = read
  BY ReadingSame DEF HandleTimeline
<1>3. ShowItems(Tab, v, r, "TimelinePage", shown, offers)
  BY DEF HandleTimeline
<1>4. rows \in Seq(Items)
  BY TimelineRows
<1> HIDE DEF offers
<1>5. /\ shown \subseteq ToSet(rows)
      /\ shown # {} <=> Reaches(rows, r.n, TimelineSize)
      /\ more => Reaches(rows, r.n + 1, TimelineSize)
      /\ r.n > 1 /\ shown # {} => Reaches(rows, r.n - 1, TimelineSize)
  <2> HIDE DEF rows
  <2> QED BY <1>1, <1>4, SliceShows
<1>6. shown = IF "TimelinePage" = "TimelinePage"
              THEN Held(Slice(ListTimelineItems(v), r.n, TimelineSize), TimelineSize)
              ELSE ToSet(ListFeedItems(r.id))
  OBVIOUS
<1>7. more \in BOOLEAN
  BY DEF HasMore
<1> HIDE DEF asked, shown, more
<1>8. \A k \in Nat \ {0} : shown # {} /\ ((k = r.n + 1 /\ more) \/ (k = r.n - 1 /\ r.n > 1)) =>
        Reaches(rows, k, TimelineSize)
  BY <1>5
<1>9. /\ \A q \in offers : Right(v, q)
      /\ \E others : /\ offers = others \cup {Toggle(i, i \in read[v]) : i \in shown}
                     /\ \A q \in others : q.route \notin Toggles
  BY <1>1, <1>5, <1>7, <1>8, TimelineRight DEF offers
<1>10. fresh /\ r.n > 1 => shown # {}
  <2>1. RowsOf(v, r) = rows /\ SizeOf(v, r) = TimelineSize
    BY <1>1 DEF RowsOf, SizeOf
  <2> QED BY <1>1, <1>5, <2>1 DEF Good
<1>11. "TimelinePage" \in ItemViews
  BY DEF ItemViews
<1> QED BY <1>1, <1>2, <1>3, <1>6, <1>9, <1>10, <1>11, ShowItemsAnswers

LEMMA FeedRedirect ==
  ASSUME NEW v, NEW r, NEW f \in Feeds, f \in subs'[v], Redirect(Tab, Link("GET:/feed/:id", f))
  PROVE  Answered(v, r)
<1>1. Right(v, Link("GET:/feed/:id", f))'
  BY DEF Right, WellFormed, Own, Good, Link, Request, BookmarkRoutes, FeedRoutes, Toggles,
         CategoryRoutes, UserRoutes, AdminRoutes, ListRoutes
<1> QED BY <1>1 DEF Answered

LEMMA FeedAnswers ==
  ASSUME NEW v, NEW r, Asked(v, r), FeedHandler(Tab, v, r),
         ~HandleMarkRead(Tab, v, r), ~HandleMarkUnread(Tab, v, r)
  PROVE  Answered(v, r)
<1>1. /\ TableInv /\ FeedsInv /\ v \in Users /\ v \in users /\ WellFormed(r)
  BY UserFacts DEF Asked, TableInv
<1>2. {"NewFeedPage", "EditFeedPage"} \cap ItemViews = {} /\ "FeedDetailPage" \in ItemViews
  BY DEF ItemViews
<1>3. r.route \in FeedRoutes \cup {"GET:/feed/new", "POST:/feed"} =>
        r.n = 1 /\ r.route \notin ListRoutes
  BY <1>1 DEF WellFormed, ListRoutes, FeedRoutes
<1>4. r.route \in FeedRoutes => r.id \in Feeds
  BY <1>1 DEF WellFormed
<1>5. CASE HandleTimeline(Tab, v, r)
  BY <1>5, TimelineAnswers
<1>6. ASSUME Show(Tab, v, r, "NewFeedPage", {}, NewFeedPage), Reading,
             r.route \in {"GET:/feed/new", "POST:/feed"}
      PROVE  Answered(v, r)
  <2>1. UNCHANGED Relied /\ \A q \in NewFeedPage : Right(v, q)
    BY <1>6, ReadingSame, NewFeedPageRight
  <2> QED BY <1>1, <1>2, <1>3, <1>6, <2>1, ShowAnswers
<1>7. CASE HandleNewFeed(Tab, v, r)
  BY <1>6, <1>7 DEF HandleNewFeed
<1>8. CASE HandleCreateFeed(Tab, v, r)
  <2>1. CASE Show(Tab, v, r, "NewFeedPage", {}, NewFeedPage) /\ Reading
    BY <1>6, <1>8, <2>1 DEF HandleCreateFeed
  <2>2. CASE ~(Show(Tab, v, r, "NewFeedPage", {}, NewFeedPage) /\ Reading)
    <3>1. /\ subs' = [subs EXCEPT ![v] = @ \cup {r.id}]
          /\ Redirect(Tab, Link("GET:/feed/:id", r.id)) /\ r.route = "POST:/feed"
      BY <1>8, <2>2 DEF HandleCreateFeed
    <3>2. r.id \in Feeds /\ r.id \in subs'[v]
      BY <1>1, <3>1 DEF WellFormed, FeedsInv
    <3> QED BY <3>1, <3>2, FeedRedirect
  <2> QED BY <2>1, <2>2
<1>9. ASSUME ~GetUserFeed(v, r.id), Refuse(Tab, r), r.route \in FeedRoutes PROVE Answered(v, r)
  <2>1. ~Good(v, r)
    BY <1>9 DEF Good, GetUserFeed
  <2> QED BY <1>3, <1>9, <2>1, RefuseAnswers
<1>10. CASE HandleGetFeed(Tab, v, r)
  <2>1. r.route \in FeedRoutes
    BY <1>10 DEF HandleGetFeed, FeedRoutes
  <2>2. CASE ~GetUserFeed(v, r.id)
    BY <1>9, <1>10, <2>1, <2>2 DEF HandleGetFeed, RequireFeedOwner
  <2>3. CASE GetUserFeed(v, r.id)
    <3> DEFINE shown == ToSet(ListFeedItems(r.id))
               offers == FeedDetailPage(v, r.id, shown)
    <3>1. ShowItems(Tab, v, r, "FeedDetailPage", shown, offers) /\ Reading
      BY <1>10, <2>3 DEF HandleGetFeed, RequireFeedOwner
    <3>2. UNCHANGED Relied /\ read' = read
      BY <3>1, ReadingSame
    <3>3. r.id \in Feeds /\ r.id \in subs[v]
      BY <1>4, <2>1, <2>3 DEF GetUserFeed
    <3>4. shown = IF "FeedDetailPage" = "TimelinePage"
                  THEN Held(Slice(ListTimelineItems(v), r.n, TimelineSize), TimelineSize)
                  ELSE ToSet(ListFeedItems(r.id))
      OBVIOUS
    <3> HIDE DEF shown
    <3>5. shown \subseteq ToSet(ListFeedItems(r.id))
      BY DEF shown
    <3>6. /\ \A q \in offers : Right(v, q)
          /\ \E others : /\ offers = others \cup {Toggle(i, i \in read[v]) : i \in shown}
                         /\ \A q \in others : q.route \notin Toggles
      BY <1>1, <3>3, <3>5, FeedDetailRight
    <3> HIDE DEF offers
    <3>7. fresh /\ r.n > 1 => shown # {}
      BY <1>3, <2>1
    <3> QED BY <1>1, <1>2, <3>1, <3>2, <3>4, <3>6, <3>7, ShowItemsAnswers
  <2> QED BY <2>2, <2>3
<1>11. CASE HandleEditFeed(Tab, v, r)
  <2>1. r.route \in FeedRoutes
    BY <1>11 DEF HandleEditFeed, FeedRoutes
  <2>2. CASE ~GetUserFeed(v, r.id)
    BY <1>9, <1>11, <2>1, <2>2 DEF HandleEditFeed, RequireFeedOwner
  <2>3. CASE GetUserFeed(v, r.id)
    <3>1. /\ UNCHANGED Relied
          /\ ShowForm(Tab, v, r, "EditFeedPage", EditFeedPage(r.id), {FeedForm(v, r.id)})
      BY <1>11, <2>3, ReadingSame DEF HandleEditFeed, RequireFeedOwner
    <3>2. Right(v, FeedForm(v, r.id)) /\ \A q \in EditFeedPage(r.id) : Right(v, q)
      BY <1>1, <1>4, <2>1, <2>3, EditFeedRight DEF GetUserFeed
    <3>3. Filled(v, FeedForm(v, r.id))
      BY DEF Filled, FeedForm, Request
    <3> QED BY <1>1, <1>2, <1>3, <2>1, <3>1, <3>2, <3>3, ShowFormAnswers
  <2> QED BY <2>2, <2>3
<1>12. CASE HandleUpdateFeed(Tab, v, r)
  <2>1. r.route \in FeedRoutes
    BY <1>12 DEF HandleUpdateFeed, FeedRoutes
  <2>2. CASE ~GetUserFeed(v, r.id)
    BY <1>9, <1>12, <2>1, <2>2 DEF HandleUpdateFeed, RequireFeedOwner
  <2>3. CASE GetUserFeed(v, r.id)
    <3>1. subs' = subs /\ Redirect(Tab, Link("GET:/feed/:id", r.id))
      BY <1>12, <2>3 DEF HandleUpdateFeed, RequireFeedOwner
    <3> QED BY <1>4, <2>1, <2>3, <3>1, FeedRedirect DEF GetUserFeed
  <2> QED BY <2>2, <2>3
<1>13. CASE HandleDeleteFeed(Tab, v, r)
  <2>1. r.route \in FeedRoutes
    BY <1>13 DEF HandleDeleteFeed, FeedRoutes
  <2>2. CASE ~GetUserFeed(v, r.id)
    BY <1>9, <1>13, <2>1, <2>2 DEF HandleDeleteFeed, RequireFeedOwner
  <2>3. CASE GetUserFeed(v, r.id)
    <3>1. Redirect(Tab, Go("GET:/feed")) /\ "GET:/feed" \in FreeRoutes
      BY <1>13, <2>3 DEF HandleDeleteFeed, RequireFeedOwner, FreeRoutes
    <3> QED BY <3>1, RedirectAnswers
  <2> QED BY <2>2, <2>3
<1>14. CASE HandleMarkAllRead(Tab, v, r)
  <2>1. Redirect(Tab, Go("GET:/feed")) /\ "GET:/feed" \in FreeRoutes
    BY <1>14 DEF HandleMarkAllRead, FreeRoutes
  <2> QED BY <2>1, RedirectAnswers
<1>15. CASE HandleMarkFeedAllRead(Tab, v, r)
  <2>1. r.route \in FeedRoutes
    BY <1>15 DEF HandleMarkFeedAllRead, FeedRoutes
  <2>2. CASE ~GetUserFeed(v, r.id)
    BY <1>9, <1>15, <2>1, <2>2 DEF HandleMarkFeedAllRead, RequireFeedOwner
  <2>3. CASE GetUserFeed(v, r.id)
    <3>1. /\ subs' = subs
          /\ Redirect(Tab, IF Timeline \in r.form THEN Go("GET:/feed")
                           ELSE Link("GET:/feed/:id", r.id))
      BY <1>15, <2>3 DEF HandleMarkFeedAllRead, RequireFeedOwner
    <3>2. CASE Timeline \in r.form
      <4>1. Redirect(Tab, Go("GET:/feed")) /\ "GET:/feed" \in FreeRoutes
        BY <3>1, <3>2 DEF FreeRoutes
      <4> QED BY <4>1, RedirectAnswers
    <3>3. CASE Timeline \notin r.form
      <4>1. Redirect(Tab, Link("GET:/feed/:id", r.id))
        BY <3>1, <3>3
      <4> QED BY <1>4, <2>1, <2>3, <3>1, <4>1, FeedRedirect DEF GetUserFeed
    <3> QED BY <3>2, <3>3
  <2> QED BY <2>2, <2>3
<1> QED
  BY <1>5, <1>7, <1>8, <1>10, <1>11, <1>12, <1>13, <1>14, <1>15 DEF FeedHandler

-----------------------------------------------------------------------------
\* The pages of a user's account, and those of an administrator.

LEMMA OwnPagesRight ==
  ASSUME TableInv, NEW v \in users
  PROVE  /\ Right(v, SettingsForm(v)) /\ \A q \in UserDetailPage(v) : Right(v, q)
         /\ Right(v, EmailForm(v)) /\ \A q \in UserEditPage(v) : Right(v, q)
         /\ \A q \in ChangePasswordPage(v) : Right(v, q)
         /\ \A q \in ImportResultPage(v) : Right(v, q)
         /\ \A q \in CreatedPage(v) : Right(v, q)
<1>1. v \in Users /\ emails[v] \in Emails /\ prefs[v] \in Prefs
  BY UserFacts
<1>2. /\ Right(v, Link("GET:/user/:id", v)) /\ Right(v, Link("GET:/user/:id/edit", v))
      /\ Right(v, Link("GET:/user/:id/change-password", v))
      /\ \A form : Right(v, Request("POST:/user/:id/change-password", v, form))
  BY <1>1, UserRight DEF UserRoutes, Link
<1>3. \A p \in Prefs : Right(v, Request("POST:/user/:id/settings", v, {p}))
  <2>1. \A p \in Prefs : {p} \cap Prefs # {}
    OBVIOUS
  <2> QED BY <1>1, <2>1, UserRight DEF UserRoutes
<1>4. \A e \in Emails : Right(v, Request("PUT:/user/:id", v, {e}))
  <2>1. \A e \in Emails : {e} \cap Emails # {}
    OBVIOUS
  <2> QED BY <1>1, <2>1, UserRight DEF UserRoutes
<1>5. \A q \in ImportForm(v) : Right(v, q)
  <2>1. \A file \in {{}} \cup {{b} : b \in Urls} : file \subseteq Urls
    OBVIOUS
  <2>2. \A file \in {{}} \cup {{b} : b \in Urls} : Right(v, Request("POST:/user/:id/import", v, file))
    BY <1>1, <2>1, UserRight DEF UserRoutes
  <2> QED BY <2>2 DEF ImportForm
<1>6. \A q \in KeySection(v) : Right(v, q)
  <2>1. Right(v, Go("GET:/apikey/new")) /\ \A k : Right(v, Link("DELETE:/apikey/:id", k))
    BY FreeRight DEF FreeRoutes, Go, Link
  <2> QED BY <2>1 DEF KeySection
<1>7. \A q \in UserDetailPage(v) : Right(v, q)
  BY <1>2, <1>3, <1>5, <1>6 DEF UserDetailPage, Preferences
<1>8. \A q \in UserEditPage(v) : Right(v, q)
  BY <1>2, <1>4 DEF UserEditPage
<1>9. \A q \in ChangePasswordPage(v) : Right(v, q)
  BY <1>2 DEF ChangePasswordPage
<1>10. Right(v, Go("GET:/url"))
  BY FreeRight DEF FreeRoutes, Go
<1> QED
  BY <1>1, <1>2, <1>3, <1>4, <1>7, <1>8, <1>9, <1>10
     DEF SettingsForm, EmailForm, ImportResultPage, CreatedPage

\* About nothing that a row of bookmarks, categories or feeds decides.
PlainRoutes == FreeRoutes \cup {"GET:/user/:id", "GET:/admin/"}

LEMMA ShowPlainAnswers ==
  ASSUME TableInv, NEW v \in users, NEW r, NEW view, NEW offers,
         Show(Tab, v, r, view, {}, offers), admins' = admins,
         \A q \in offers : Right(v, q) /\ q.route \in PlainRoutes /\ q.n = 1,
         view \notin ItemViews, view # "TagPage", r.n = 1
  PROVE  Answered(v, r)
<1>1. PICK p : p = Page(view, r, {}, {}, Nav(v) \cup offers, {})
  OBVIOUS
<1>2. Put(Tab, p)
  BY <1>1 DEF Show
<1>3. /\ p.offers = Nav(v) \cup offers /\ p.prefilled = {} /\ p.view = view /\ p.at = r
  BY <1>1 DEF Page
<1>4. Shows(p)
  BY <1>3 DEF Shows
<1>5. \A q \in Nav(v) : Right(v, q) /\ q.route \in PlainRoutes /\ q.n = 1
  <2>1. \A q \in Nav(v) : q.route \in PlainRoutes /\ q.n = 1
    BY DEF Nav, Go, Link, Request, PlainRoutes, FreeRoutes
  <2> QED BY <2>1, NavRight, UserFacts
<1>6. ASSUME NEW q \in p.offers PROVE Right(v, q)'
  <2>1. Right(v, q) /\ q.route \in PlainRoutes /\ q.n = 1
    BY <1>3, <1>5
  <2>2. q.route \in AdminRoutes => v \in admins'
    BY <2>1 DEF Right, Good
  <2>3. Good(v, q)'
    BY <2>1, <2>2 DEF Good, PlainRoutes, FreeRoutes, BookmarkRoutes, FeedRoutes, Toggles,
                      CategoryRoutes
  <2> QED BY <2>1, <2>3 DEF Right
<1>7. RightPage(v, p)'
  BY <1>3, <1>4, <1>6 DEF RightPage
<1> QED BY <1>2, <1>3, <1>7, UserFacts DEF Answered

LEMMA UserRedirect ==
  ASSUME NEW v \in Users, NEW r, Redirect(Tab, Link("GET:/user/:id", v))
  PROVE  Answered(v, r)
<1>1. Right(v, Link("GET:/user/:id", v))'
  BY DEF Right, WellFormed, Own, Good, Link, Request, BookmarkRoutes, FeedRoutes, Toggles,
         CategoryRoutes, UserRoutes, AdminRoutes, ListRoutes
<1> QED BY <1>1 DEF Answered

LEMMA UserAnswers ==
  ASSUME NEW v, NEW r, Asked(v, r), UserHandler(Tab, v, r)
  PROVE  Answered(v, r)
<1>1. TableInv /\ v \in Users /\ v \in users /\ WellFormed(r) /\ session = v
  BY UserFacts DEF Asked
<1>2. {"UserDetailPage", "UserEditPage", "ChangePassword", "ImportResultPage"} \cap ItemViews = {}
  BY DEF ItemViews
<1>3. r.route \in UserRoutes
  BY DEF UserHandler, HandleSettings, HandleEditUser, HandleUpdateUser, HandleChangePasswordForm,
         HandleChangePassword, HandleUpdateSettings, HandleImport, UserRoutes
<1>4. r.id = v /\ GetUser(r.id)
  BY <1>1, <1>3 DEF Asked, Own, GetUser
<1>5. r.n = 1
  <2>1. r.route \notin ListRoutes
    BY <1>3 DEF UserRoutes, ListRoutes
  <2> QED BY <1>1, <2>1 DEF WellFormed
<1>6. /\ Right(v, SettingsForm(v)) /\ \A q \in UserDetailPage(v) : Right(v, q)
      /\ Right(v, EmailForm(v)) /\ \A q \in UserEditPage(v) : Right(v, q)
      /\ \A q \in ChangePasswordPage(v) : Right(v, q)
      /\ \A q \in ImportResultPage(v) : Right(v, q)
  BY <1>1, OwnPagesRight
<1>7. Filled(v, SettingsForm(v)) /\ Filled(v, EmailForm(v))
  BY DEF Filled, SettingsForm, EmailForm, Request
<1>8. ASSUME ShowForm(Tab, v, r, "UserDetailPage", UserDetailPage(v), {SettingsForm(v)}), Reading
      PROVE  Answered(v, r)
  BY <1>1, <1>2, <1>5, <1>6, <1>7, <1>8, ReadingSame, ShowFormAnswers
<1>9. CASE HandleSettings(Tab, v, r)
  BY <1>4, <1>8, <1>9 DEF HandleSettings
<1>10. CASE HandleEditUser(Tab, v, r)
  <2>1. ShowForm(Tab, v, r, "UserEditPage", UserEditPage(v), {EmailForm(v)}) /\ UNCHANGED Relied
    BY <1>4, <1>10, ReadingSame DEF HandleEditUser
  <2> QED BY <1>1, <1>2, <1>5, <1>6, <1>7, <2>1, ShowFormAnswers
<1>11. CASE HandleUpdateUser(Tab, v, r)
  <2>1. CASE GetUserByEmail(EmailIn(r)) \ {r.id} # {}
    <3>1. Refuse(Tab, r) /\ Reading /\ r.route = "PUT:/user/:id"
      BY <1>11, <2>1 DEF HandleUpdateUser
    <3>2. users' = users /\ emails' = emails
      BY <3>1, ReadingSame DEF Relied
    <3>3. GetUserByEmail(EmailIn(r))' # {}
      BY <2>1, <3>2 DEF GetUserByEmail
    <3>4. Clash(r)'
      BY <3>1, <3>3 DEF Clash
    <3> QED BY <1>5, <3>1, <3>4 DEF Answered
  <2>2. CASE GetUserByEmail(EmailIn(r)) \ {r.id} = {}
    BY <1>1, <1>4, <1>11, <2>2, UserRedirect DEF HandleUpdateUser
  <2> QED BY <2>1, <2>2
<1>12. ASSUME Show(Tab, v, r, "ChangePassword", {}, ChangePasswordPage(v)), Reading
       PROVE  Answered(v, r)
  BY <1>1, <1>2, <1>5, <1>6, <1>12, ReadingSame, ShowAnswers
<1>13. CASE HandleChangePasswordForm(Tab, v, r)
  BY <1>4, <1>12, <1>13 DEF HandleChangePasswordForm
<1>14. CASE HandleChangePassword(Tab, v, r)
  BY <1>1, <1>4, <1>12, <1>14, UserRedirect DEF HandleChangePassword
<1>15. CASE HandleUpdateSettings(Tab, v, r)
  BY <1>1, <1>4, <1>15, UserRedirect DEF HandleUpdateSettings
<1>16. CASE HandleImport(Tab, v, r)
  <2>1. CASE r.form = {}
    BY <1>4, <1>8, <1>16, <2>1 DEF HandleImport
  <2>2. CASE r.form # {}
    <3>1. /\ Show(Tab, v, r, "ImportResultPage", {}, ImportResultPage(v))
          /\ UNCHANGED accounts
      BY <1>4, <1>16, <2>2 DEF HandleImport
    <3>2. \A q \in ImportResultPage(v) : q.route \in PlainRoutes /\ q.n = 1
      BY DEF ImportResultPage, Go, Link, Request, PlainRoutes, FreeRoutes
    <3>3. admins' = admins
      BY <3>1 DEF accounts
    <3> QED BY <1>1, <1>2, <1>5, <1>6, <3>1, <3>2, <3>3, ShowPlainAnswers
  <2> QED BY <2>1, <2>2
<1> QED
  BY <1>9, <1>10, <1>11, <1>13, <1>14, <1>15, <1>16 DEF UserHandler

LEMMA ApiKeyAnswers ==
  ASSUME NEW v, NEW r, Asked(v, r), ApiKeyHandler(Tab, v, r)
  PROVE  Answered(v, r)
<1>1. TableInv /\ v \in Users /\ v \in users /\ WellFormed(r)
  BY UserFacts DEF Asked
<1>2. {"KeysPage", "NewKeyPage", "CreatedPage"} \cap ItemViews = {}
  BY DEF ItemViews
<1>3. r.n = 1
  <2>1. r.route \in {"GET:/apikey/", "GET:/apikey/new", "POST:/apikey/", "DELETE:/apikey/:id"}
    BY DEF ApiKeyHandler, HandleListKeys, HandleNewKey, HandleCreateKey, HandleDeleteKey
  <2>2. r.route \notin ListRoutes
    BY <2>1 DEF ListRoutes
  <2> QED BY <1>1, <2>2 DEF WellFormed
<1>4. /\ Right(v, Go("GET:/apikey/new")) /\ Right(v, Go("GET:/apikey/"))
      /\ Right(v, Go("POST:/apikey/")) /\ \A k : Right(v, Link("DELETE:/apikey/:id", k))
  BY FreeRight DEF FreeRoutes, Go, Link
<1>5. ASSUME Show(Tab, v, r, "NewKeyPage", {}, NewKeyPage), Reading PROVE Answered(v, r)
  <2>1. UNCHANGED Relied /\ \A q \in NewKeyPage : Right(v, q)
    BY <1>4, <1>5, ReadingSame DEF NewKeyPage
  <2> QED BY <1>1, <1>2, <1>3, <1>5, <2>1, ShowAnswers
<1>6. CASE HandleListKeys(Tab, v, r)
  <2> DEFINE offers == KeysPage(ListAPIKeys(v), CountAPIKeys(v) >= MaxKeys)
  <2>1. Show(Tab, v, r, "KeysPage", ListAPIKeys(v), offers) /\ UNCHANGED Relied
    BY <1>6, ReadingSame DEF HandleListKeys
  <2>2. \A q \in offers : Right(v, q)
    BY <1>4 DEF KeysPage, KeyCard
  <2> HIDE DEF offers
  <2> QED BY <1>1, <1>2, <1>3, <2>1, <2>2, ShowAnswers
<1>7. CASE HandleNewKey(Tab, v, r)
  BY <1>5, <1>7 DEF HandleNewKey
<1>8. CASE HandleCreateKey(Tab, v, r)
  <2>1. CASE CountAPIKeys(v) >= MaxKeys
    BY <1>5, <1>8, <2>1 DEF HandleCreateKey
  <2>2. CASE ~(CountAPIKeys(v) >= MaxKeys)
    <3>1. /\ Show(Tab, v, r, "CreatedPage", {}, CreatedPage(v))
          /\ UNCHANGED <<users, admins, emails, prefs, bookmarks, categories, feeds>>
      BY <1>8, <2>2 DEF HandleCreateKey
    <3>2. UNCHANGED Relied
      BY <3>1 DEF Relied, categories, feeds
    <3>3. \A q \in CreatedPage(v) : Right(v, q)
      BY <1>1, OwnPagesRight
    <3> QED BY <1>1, <1>2, <1>3, <3>1, <3>2, <3>3, ShowAnswers
  <2> QED BY <2>1, <2>2
<1>9. CASE HandleDeleteKey(Tab, v, r)
  BY <1>1, <1>9, UserRedirect DEF HandleDeleteKey
<1> QED BY <1>6, <1>7, <1>8, <1>9 DEF ApiKeyHandler

LEMMA AdminPagesRight ==
  ASSUME TableInv, NEW v \in admins
  PROVE  /\ \A codes : \A q \in AdminPage(codes) : Right(v, q)
         /\ \A q \in UsersPage(users) : Right(v, q)
         /\ \A u \in users : \A q \in ResetPasswordPage(u) : Right(v, q)
         /\ \A entries : \A q \in BlocklistPage(entries) : Right(v, q)
         /\ \A q \in NewBlocklistEntryPage : Right(v, q)
<1>1. /\ Right(v, Go("GET:/admin/users")) /\ Right(v, Go("GET:/admin/blocklist"))
      /\ Right(v, Go("POST:/admin/invite/")) /\ Right(v, Go("POST:/admin/run"))
      /\ Right(v, Go("POST:/admin/feed-poll/run")) /\ Right(v, Go("GET:/admin/blocklist/new"))
      /\ \A c : Right(v, Link("DELETE:/admin/invite/:id", c))
      /\ \A p : Right(v, Link("POST:/admin/blocklist", p))
      /\ \A p : Right(v, Link("DELETE:/admin/blocklist/:id", p))
  BY AdminRight DEF AdminRoutes, Go, Link
<1>2. ASSUME NEW u \in users
      PROVE  /\ Right(v, Link("GET:/admin/users/:id/reset-password", u))
             /\ Right(v, Request("POST:/admin/users/:id/reset-password", u, {Password}))
  BY AdminRight DEF AdminRoutes, Link
<1>3. \A codes : \A q \in AdminPage(codes) : Right(v, q)
  BY <1>1 DEF AdminPage, JobRunsSection, InviteCard
<1>4. \A q \in UsersPage(users) : Right(v, q)
  BY <1>2 DEF UsersPage
<1>5. \A u \in users : \A q \in ResetPasswordPage(u) : Right(v, q)
  BY <1>1, <1>2 DEF ResetPasswordPage
<1>6. \A entries : \A q \in BlocklistPage(entries) : Right(v, q)
  BY <1>1 DEF BlocklistPage, BlocklistEntryCard
<1>7. \A q \in NewBlocklistEntryPage : Right(v, q)
  BY <1>1 DEF NewBlocklistEntryPage
<1> QED BY <1>3, <1>4, <1>5, <1>6, <1>7

LEMMA AdminRedirect ==
  ASSUME NEW v \in admins, NEW r, NEW route \in AdminRoutes, admins' = admins,
         route \notin {"GET:/admin/users/:id/reset-password",
                       "POST:/admin/users/:id/reset-password"},
         Redirect(Tab, Go(route))
  PROVE  Answered(v, r)
<1>1. Right(v, Go(route))'
  BY DEF Right, WellFormed, Own, Good, Go, Request, BookmarkRoutes, FeedRoutes, Toggles,
         CategoryRoutes, UserRoutes, AdminRoutes, ListRoutes
<1> QED BY <1>1 DEF Answered

LEMMA AdminAnswers ==
  ASSUME NEW v, NEW r, Asked(v, r), v \in admins, AdminHandler(Tab, v, r)
  PROVE  Answered(v, r)
<1>1. TableInv /\ v \in users /\ WellFormed(r)
  BY DEF Asked
<1>2. {"AdminPage", "UsersPage", "ResetPassword", "BlocklistPage", "NewBlocklistEntry"}
        \cap ItemViews = {}
  BY DEF ItemViews
<1>3. r.route \in AdminRoutes
  BY DEF AdminHandler, HandleIndex, HandleDispatch, HandleCreateInvite, HandleDeleteInvite,
         HandleListUsers, HandleResetPasswordForm, HandleResetPassword, HandleListBlocklist,
         HandleNewBlocklistForm, HandleCreateBlocklistEntry, HandleDeleteBlocklistEntry,
         AdminRoutes
<1>4. r.n = 1 /\ r.route \notin ListRoutes
  <2>1. r.route \notin ListRoutes
    BY <1>3 DEF AdminRoutes, ListRoutes
  <2> QED BY <1>1, <2>1 DEF WellFormed
<1>5. ASSUME NEW view, NEW rows, NEW offers, Show(Tab, v, r, view, rows, offers), Reading,
             \A q \in offers : Right(v, q),
             view \in {"AdminPage", "UsersPage", "ResetPassword", "BlocklistPage",
                       "NewBlocklistEntry"}
      PROVE  Answered(v, r)
  <2>1. view \notin ItemViews /\ view # "TagPage" /\ UNCHANGED Relied
    BY <1>2, <1>5, ReadingSame
  <2> QED BY <1>1, <1>4, <1>5, <2>1, ShowAnswers
<1>6. CASE HandleIndex(Tab, v, r)
  <2>1. /\ Show(Tab, v, r, "AdminPage", ListInviteCodes, AdminPage(ListInviteCodes)) /\ Reading
        /\ \A q \in AdminPage(ListInviteCodes) : Right(v, q)
    BY <1>1, <1>6, AdminPagesRight DEF HandleIndex
  <2> QED BY <1>5, <2>1
<1>7. CASE HandleListUsers(Tab, v, r)
  <2>1. /\ Show(Tab, v, r, "UsersPage", users, UsersPage(users)) /\ Reading
        /\ \A q \in UsersPage(users) : Right(v, q)
    BY <1>1, <1>7, AdminPagesRight DEF HandleListUsers
  <2> QED BY <1>5, <2>1
<1>8. CASE HandleListBlocklist(Tab, v, r)
  <2>1. /\ Show(Tab, v, r, "BlocklistPage", blocklist, BlocklistPage(blocklist)) /\ Reading
        /\ \A q \in BlocklistPage(blocklist) : Right(v, q)
    BY <1>1, <1>8, AdminPagesRight DEF HandleListBlocklist
  <2> QED BY <1>5, <2>1
<1>9. ASSUME Show(Tab, v, r, "NewBlocklistEntry", {}, NewBlocklistEntryPage), Reading
      PROVE  Answered(v, r)
  <2>1. \A q \in NewBlocklistEntryPage : Right(v, q)
    BY <1>1, AdminPagesRight
  <2> QED BY <1>5, <1>9, <2>1
<1>10. CASE HandleNewBlocklistForm(Tab, v, r)
  BY <1>9, <1>10 DEF HandleNewBlocklistForm
<1>11. ASSUME ~GetUser(r.id), Refuse(Tab, r),
              r.route \in {"GET:/admin/users/:id/reset-password",
                           "POST:/admin/users/:id/reset-password"}
       PROVE  Answered(v, r)
  <2>1. ~Good(v, r)
    BY <1>11 DEF Good, GetUser
  <2> QED BY <1>4, <1>11, <2>1, RefuseAnswers
<1>12. CASE HandleResetPasswordForm(Tab, v, r)
  <2>1. CASE ~GetUser(r.id)
    BY <1>11, <1>12, <2>1 DEF HandleResetPasswordForm
  <2>2. CASE GetUser(r.id)
    <3>1. /\ Show(Tab, v, r, "ResetPassword", {}, ResetPasswordPage(r.id)) /\ Reading
          /\ \A q \in ResetPasswordPage(r.id) : Right(v, q)
      BY <1>1, <1>12, <2>2, AdminPagesRight DEF HandleResetPasswordForm, GetUser
    <3> QED BY <1>5, <3>1
  <2> QED BY <2>1, <2>2
<1>13. ASSUME NEW route \in {"GET:/admin/", "GET:/admin/users", "GET:/admin/blocklist"},
              Redirect(Tab, Go(route)), admins' = admins
       PROVE  Answered(v, r)
  <2>1. route \in AdminRoutes
    BY DEF AdminRoutes
  <2> QED BY <1>13, <2>1, AdminRedirect
<1>14. Reading => admins' = admins
  BY ReadingSame DEF Relied
<1>15. CASE HandleResetPassword(Tab, v, r)
  BY <1>11, <1>13, <1>14, <1>15 DEF HandleResetPassword
<1>16. CASE HandleDispatch(Tab, v, r) \/ HandleCreateInvite(Tab, v, r) \/ HandleDeleteInvite(Tab, v, r)
  BY <1>13, <1>14, <1>16 DEF HandleDispatch, HandleCreateInvite, HandleDeleteInvite
<1>17. CASE HandleCreateBlocklistEntry(Tab, v, r) \/ HandleDeleteBlocklistEntry(Tab, v, r)
  BY <1>9, <1>13, <1>17 DEF HandleCreateBlocklistEntry, HandleDeleteBlocklistEntry
<1> QED
  BY <1>6, <1>7, <1>8, <1>10, <1>12, <1>15, <1>16, <1>17 DEF AdminHandler

-----------------------------------------------------------------------------
\* The pages without a user, and signing in and out.

LEMMA StrangerPagesRight ==
  ASSUME NEW v
  PROVE  /\ \A q \in LoginPage : Right(v, q) /\ q.route \notin UserRoutes \cup Toggles
         /\ \A q \in RegisterPage : Right(v, q)
<1>1. /\ Right(v, Go("GET:/user/new")) /\ Right(v, Go("GET:/login"))
      /\ \A form : Right(v, Request("POST:/login", Nothing, form))
  BY FreeRight DEF FreeRoutes, Go
<1>2. \A q \in LoginPage : Right(v, q)
  <2> DEFINE Form(e, typed) == Request("POST:/login", Nothing, {e} \cup typed)
  <2>1. \A e, typed : Right(v, Form(e, typed))
    BY <1>1
  <2>2. LoginPage = {Go("GET:/user/new")} \cup {Form(e, typed) : e \in Emails, typed \in {{}, {Password}}}
    BY DEF LoginPage
  <2> HIDE DEF Form
  <2> QED BY <1>1, <2>1, <2>2
<1>3. \A q \in LoginPage : q.route \notin UserRoutes \cup Toggles
  <2> DEFINE Form(e, typed) == Request("POST:/login", Nothing, {e} \cup typed)
  <2>1. /\ \A e, typed : Form(e, typed).route \notin UserRoutes \cup Toggles
        /\ Go("GET:/user/new").route \notin UserRoutes \cup Toggles
    BY DEF Go, Request, UserRoutes, Toggles
  <2>2. LoginPage = {Go("GET:/user/new")} \cup {Form(e, typed) : e \in Emails, typed \in {{}, {Password}}}
    BY DEF LoginPage
  <2> HIDE DEF Form
  <2> QED BY <2>1, <2>2
<1>4. \A q \in RegisterPage : Right(v, q)
  <2> DEFINE Form(u, e, typed) == Request("POST:/user", u, {e} \cup typed)
  <2>1. \A u \in Users, e \in Emails : \A typed : Right(v, Form(u, e, typed))
    <3>1. \A e \in Emails : \A typed : ({e} \cup typed) \cap Emails # {}
      OBVIOUS
    <3> QED BY <3>1, NewUserRight
  <2>2. RegisterPage = {Go("GET:/login")}
          \cup {Form(u, e, typed) : u \in Users \ users, e \in Emails, typed \in CodesTyped}
    BY DEF RegisterPage
  <2> HIDE DEF Form
  <2> QED BY <1>1, <2>1, <2>2
<1> QED BY <1>2, <1>3, <1>4

LEMMA PublicKeeps ==
  ASSUME Inv, TablesKept(Tab), NEW v, v = session, NEW r, WellFormed(r),
         PublicHandler(Tab, v, r), saving'[Tab] = Idle
  PROVE  TabInv'
<1>1. r.route \in PublicRoutes
  BY DEF PublicHandler, HandleLoginForm, HandleLogin, HandleLogout, HandleNewUser,
         HandleCreateUser, PublicRoutes
<1>2. r.n = 1
  <2>1. r.route \notin ListRoutes
    BY <1>1 DEF PublicRoutes, ListRoutes
  <2> QED BY <2>1 DEF WellFormed
<1>3. {"LoginPage", "RegisterPage"} \cap ItemViews = {}
  BY DEF ItemViews
<1>4. Answered(v, r) => TabInv'
  BY AnsweredKeeps
<1>5. ASSUME ShowStranger(Tab, r, "LoginPage", LoginPage), Reading PROVE TabInv'
  BY <1>2, <1>3, <1>4, <1>5, ReadingSame, StrangerPagesRight, ShowStrangerAnswers
<1>6. ASSUME ShowStranger(Tab, r, "RegisterPage", RegisterPage), Reading PROVE TabInv'
  BY <1>2, <1>3, <1>4, <1>6, ReadingSame, StrangerPagesRight, ShowStrangerAnswers
<1>7. ASSUME NEW w, session' = w, w \in users' \cup {Nothing}, page' = Blank(NoRequest),
             NEW route \in FreeRoutes, pending' = Go(route), answer' = "page"
      PROVE  TabInv'
  <2>1. PICK p : p = Blank(NoRequest)
    OBVIOUS
  <2>2. /\ Right(w, Go(route))' /\ NoRequest.n = 1
    BY FreeRight DEF NoRequest, Go, Request
  <2>3. RightPage(w, p)' /\ p.view = "blank" /\ p.view \notin ItemViews
    BY <2>1, <2>2, BlankRight
  <2>4. RefusedInv'
    BY <1>7 DEF RefusedInv
  <2> QED BY <1>7, <2>1, <2>2, <2>3, <2>4, TabKept
<1>8. CASE HandleLoginForm(Tab, v, r)
  BY <1>5, <1>8 DEF HandleLoginForm
<1>9. CASE HandleLogin(Tab, v, r)
  <2>1. CASE ShowStranger(Tab, r, "LoginPage", LoginPage)
    BY <1>5, <1>9, <2>1 DEF HandleLogin
  <2>2. CASE ~ShowStranger(Tab, r, "LoginPage", LoginPage)
    <3>1. /\ \E w \in GetUserByEmail(EmailIn(r)) : session' = w
          /\ page' = Blank(NoRequest) /\ pending' = Go("GET:/url") /\ answer' = "page"
      BY <1>9, <2>2 DEF HandleLogin, CreateSession
    <3>2. PICK w \in users : session' = w
      BY <3>1 DEF GetUserByEmail
    <3>3. w \in users' /\ "GET:/url" \in FreeRoutes
      BY DEF TablesKept, FreeRoutes
    <3> QED BY <1>7, <3>1, <3>2, <3>3
  <2> QED BY <2>1, <2>2
<1>10. CASE HandleLogout(Tab, v, r)
  <2>1. /\ session' = Nothing /\ page' = Blank(NoRequest) /\ answer' = "page"
        /\ \E route \in FreeRoutes : pending' = Go(route)
    BY <1>10 DEF HandleLogout, DeleteSession, FreeRoutes
  <2> QED BY <1>7, <2>1
<1>11. CASE HandleNewUser(Tab, v, r)
  BY <1>6, <1>11 DEF HandleNewUser
<1>12. CASE HandleCreateUser(Tab, v, r)
  <2>1. CASE ShowStranger(Tab, r, "RegisterPage", RegisterPage) /\ Reading
    BY <1>6, <2>1
  <2>2. CASE ~(ShowStranger(Tab, r, "RegisterPage", RegisterPage) /\ Reading)
    <3>1. Redirect(Tab, Go("GET:/login")) /\ "GET:/login" \in FreeRoutes
      BY <1>12, <2>2 DEF HandleCreateUser, FreeRoutes
    <3> QED BY <1>4, <3>1, RedirectAnswers
  <2> QED BY <2>1, <2>2
<1> QED BY <1>8, <1>9, <1>10, <1>11, <1>12 DEF PublicHandler

-----------------------------------------------------------------------------
\* A card replaced in the page.

\* A page of items stays one: the mark and the button of one item change with it.
LEMMA PatchedCurrent ==
  ASSUME NEW v, NEW i, NEW old, NEW p, NEW d \in BOOLEAN, d <=> i \in read'[v],
         p.view = old.view, p.at = old.at, p.rows = old.rows,
         p.read = IF i \in read'[v] THEN old.read \cup {i} ELSE old.read \ {i},
         p.offers = (old.offers \ {Toggle(i, TRUE), Toggle(i, FALSE)})
                      \cup {Link("GET:/feed/:id", FeedOf[i]), Toggle(i, d)},
         Current(v, old), UNCHANGED Relied,
         i \in ShownOn(v, old), \A j : j # i => (j \in read'[v] <=> j \in read[v])
  PROVE  Current(v, p)'
<1>1. ShownOn(v, p)' = ShownOn(v, old)
  BY SameRows DEF ShownOn
<1>2. PICK shown : shown = ShownOn(v, old)
  OBVIOUS
<1>3. /\ old.rows = shown /\ old.read = shown \cap read[v] /\ i \in shown
      /\ \A j \in shown, done \in BOOLEAN : Toggle(j, done) \in old.offers <=> (done <=> j \in read[v])
      /\ \A q \in old.offers : q.route \in Toggles => q.id \in shown
  BY <1>2 DEF Current
<1>4. p.rows = shown /\ p.read = shown \cap read'[v]
  BY <1>3
<1>5. Link("GET:/feed/:id", FeedOf[i]).route \notin Toggles
  BY DEF Link, Request, Toggles
<1>6. \A q \in p.offers : q.route \in Toggles => q.id \in shown
  <2>1. Toggle(i, d).id \in shown
    BY <1>3, ToggleFacts
  <2> QED BY <1>3, <1>5, <2>1
<1>7. ASSUME NEW j \in shown, NEW done \in BOOLEAN
      PROVE  Toggle(j, done) \in p.offers <=> (done <=> j \in read'[v])
  <2>1. Toggle(j, done) # Link("GET:/feed/:id", FeedOf[i])
    BY <1>5, ToggleFacts
  <2>2. CASE j = i
    <3>1. Toggle(j, done) \in {Toggle(i, TRUE), Toggle(i, FALSE)}
      BY <2>2
    <3>2. Toggle(j, done) = Toggle(i, d) <=> done = d
      BY <2>2, ToggleFacts
    <3>3. Toggle(j, done) \in p.offers <=> done = d
      BY <2>1, <3>1, <3>2
    <3> QED BY <2>2, <3>3
  <2>3. CASE j # i
    <3>1. /\ Toggle(j, done) # Toggle(i, TRUE) /\ Toggle(j, done) # Toggle(i, FALSE)
          /\ Toggle(j, done) # Toggle(i, d)
      BY <2>3, ToggleFacts
    <3>2. Toggle(j, done) \in p.offers <=> Toggle(j, done) \in old.offers
      BY <2>1, <3>1
    <3> QED BY <1>3, <2>3, <3>2
  <2> QED BY <2>2, <2>3
<1>8. shown = ShownOn(v, p)'
  BY <1>1, <1>2
<1>9. /\ \A j \in ShownOn(v, p)', done \in BOOLEAN :
           Toggle(j, done) \in p.offers <=> (done <=> j \in read'[v])
      /\ \A q \in p.offers : q.route \in Toggles => q.id \in ShownOn(v, p)'
  BY <1>6, <1>7, <1>8, Zenon
<1>10. p.rows = ShownOn(v, p)' /\ p.read = ShownOn(v, p)' \cap read'[v]
  BY <1>4, <1>8, Zenon
<1> QED BY <1>9, <1>10, Zenon DEF Current

LEMMA FragmentKeeps ==
  ASSUME Inv, TablesKept(Tab), NEW v, NEW r, Asked(v, r), r \in Incoming,
         HandleMarkRead(Tab, v, r) \/ HandleMarkUnread(Tab, v, r)
  PROVE  TabInv'
<1>1. /\ r.route \in Toggles /\ Fragment(Tab, v, r)
      /\ UNCHANGED <<subs, feed_tags, items, accounts, bookmarks, categories>>
      /\ read' = [read EXCEPT ![v] = @ \cup {r.id}] \/ read' = [read EXCEPT ![v] = @ \ {r.id}]
  BY DEF HandleMarkRead, HandleMarkUnread, MarkItemRead, MarkItemUnread, Toggles
<1>2. UNCHANGED Relied /\ saving'[Tab] = Idle
  BY <1>1 DEF Asked, Relied, accounts, categories
<1>3. session' = session /\ pending' = pending /\ fresh' = fresh
  BY <1>1 DEF Fragment
<1>4. /\ TableInv /\ FeedsInv /\ v \in Users /\ v \in users /\ v # Nothing /\ session = v
      /\ r.id \in Items /\ users' = users /\ (fresh => GetTimelineItem(v, r.id))
  BY <1>1, <1>2, UserFacts DEF Asked, TableInv, WellFormed, Good, Relied
<1>5. \A j : j # r.id => (j \in read'[v] <=> j \in read[v])
  BY <1>1, <1>4 DEF FeedsInv
<1>6. /\ TabInv /\ IsPage(page)
      /\ \A q \in Offered : WellFormed(q) /\ Own(v, q)
      /\ page.led => Shows(page)
      /\ pending # NoRequest => page.view = "blank"
  BY <1>4 DEF Inv, TabInv
<1>7. TabSavingInv'
  BY <1>2 DEF TabSavingInv
<1>8. CASE ~GetTimelineItem(v, r.id)
  <2>1. page' = page /\ ~fresh
    BY <1>1, <1>4, <1>8 DEF Fragment
  <2>2. Offered' = Offered
    BY <1>3, <2>1 DEF Offered
  <2>3. RefusedInv'
    BY <1>3, <2>1 DEF RefusedInv
  <2> QED BY <1>3, <1>4, <1>6, <1>7, <2>1, <2>2, <2>3 DEF TabInv
<1>9. CASE GetTimelineItem(v, r.id)
  <2>1. PICK p : p = TimelineItemCardAnew(v, r.id)
    OBVIOUS
  <2>2. PICK old : old = page
    OBVIOUS
  <2>3. page' = p /\ answer' = "page"
    BY <1>1, <1>9, <2>1 DEF Fragment
  <2>4. /\ p.view = old.view /\ p.at = old.at /\ p.rows = old.rows
        /\ p.prefilled = old.prefilled /\ p.led = old.led
        /\ p.read = IF r.id \in read'[v] THEN old.read \cup {r.id} ELSE old.read \ {r.id}
        /\ \E d \in BOOLEAN :
             /\ d <=> r.id \in read'[v]
             /\ p.offers = (old.offers \ {Toggle(r.id, TRUE), Toggle(r.id, FALSE)})
                             \cup {Link("GET:/feed/:id", FeedOf[r.id]), Toggle(r.id, d)}
    <3>1. PICK done :
            done = IF r.id \in read'[v] THEN old.read \cup {r.id} ELSE old.read \ {r.id}
      OBVIOUS
    <3>2. PICK offers :
            offers = (old.offers \ {Toggle(r.id, TRUE), Toggle(r.id, FALSE)})
                       \cup TimelineItemCard(r.id, r.id \in read'[v])
      OBVIOUS
    <3>3. p = [old EXCEPT !.read = done, !.offers = offers]
      BY <2>1, <2>2, <3>1, <3>2 DEF TimelineItemCardAnew
    <3>4. IsPage(old)
      BY <1>6, <2>2
    <3>5. /\ p.view = old.view /\ p.at = old.at /\ p.rows = old.rows
          /\ p.prefilled = old.prefilled /\ p.led = old.led
          /\ p.read = done /\ p.offers = offers
      <4>1. PICK a, b, c, d, e, f, g :
              old = [view |-> a, at |-> b, rows |-> c, read |-> d, offers |-> e,
                     prefilled |-> f, led |-> g]
        BY <3>4 DEF IsPage
      <4> QED BY ONLY <3>3, <4>1
    <3>6. CASE r.id \in read'[v]
      <4>1. offers = (old.offers \ {Toggle(r.id, TRUE), Toggle(r.id, FALSE)})
                       \cup {Link("GET:/feed/:id", FeedOf[r.id]), Toggle(r.id, TRUE)}
        BY <3>2, <3>6 DEF TimelineItemCard, Toggle
      <4> QED BY <3>1, <3>5, <3>6, <4>1
    <3>7. CASE r.id \notin read'[v]
      <4>1. offers = (old.offers \ {Toggle(r.id, TRUE), Toggle(r.id, FALSE)})
                       \cup {Link("GET:/feed/:id", FeedOf[r.id]), Toggle(r.id, FALSE)}
        BY <3>2, <3>7 DEF TimelineItemCard, Toggle
      <4> QED BY <3>1, <3>5, <3>7, <4>1
    <3> QED BY <3>6, <3>7
  <2>5. PICK q : q = pending
    OBVIOUS
  <2>6. /\ \A d \in BOOLEAN : Right(v, Toggle(r.id, d))
        /\ Right(v, Link("GET:/feed/:id", FeedOf[r.id]))
    BY <1>4, <1>9, CardTogglesRight
  <2>7. \A x \in Offered' : WellFormed(x) /\ (session' # Nothing => Own(session', x))
    <3>1. \A x \in p.offers \cup p.prefilled \cup {q} : x \in Offered \/ Right(v, x)
      BY <2>2, <2>4, <2>5, <2>6 DEF Offered
    <3>2. Offered' = p.offers \cup p.prefilled \cup {q}
      BY <1>3, <2>3, <2>5 DEF Offered
    <3> QED BY <1>3, <1>4, <1>6, <3>1, <3>2 DEF Right
  <2>8. page'.led => Shows(page')
    BY <1>6, <2>2, <2>3, <2>4 DEF Shows
  <2>9. RefusedInv'
    BY <2>3 DEF RefusedInv
  <2>10. ASSUME fresh PROVE RightPage(v, p)' /\ Good(v, q)'
    <3>1. RightPage(v, old) /\ Right(v, q)
      BY <1>4, <1>6, <2>2, <2>5, <2>10 DEF TabInv, Offered, Right
    <3>2. \A x \in p.offers \cup p.prefilled : Right(v, x)'
      BY <1>2, <2>4, <2>6, <3>1, SameRight DEF RightPage
    <3>3. Good(v, q)'
      BY <1>2, <3>1, SameRight DEF Right
    <3>4. \A x \in p.prefilled : Filled(v, x)'
      BY <1>2, <2>4, <3>1, SameFilled DEF RightPage
    <3>5. p.led => Shows(p)
      BY <2>3, <2>8
    <3>6. ASSUME p.view \in ItemViews PROVE Current(v, p)'
      <4>1. old.view \in ItemViews /\ old.view # "blank"
        BY <2>4, <3>6 DEF ItemViews
      <4>2. pending = NoRequest
        BY <1>6, <2>2, <4>1
      <4>3. r \in old.offers
        BY <2>2, <4>2 DEF Incoming
      <4>4. Current(v, old)
        BY <3>1, <4>1 DEF RightPage
      <4>5. r.id \in ShownOn(v, old)
        BY <1>1, <4>3, <4>4 DEF Current
      <4> QED BY <1>2, <1>5, <1>6, <2>4, <4>4, <4>5, PatchedCurrent
    <3> QED BY <3>2, <3>3, <3>4, <3>5, <3>6 DEF RightPage
  <2>11. fresh' /\ session' # Nothing => RightPage(session, page)' /\ Good(session, pending)'
    BY <1>3, <1>4, <2>3, <2>5, <2>10
  <2>12. pending' # NoRequest => page'.view = "blank"
    BY <1>3, <1>6, <2>2, <2>3, <2>4
  <2> QED BY <1>3, <1>4, <1>7, <2>7, <2>8, <2>9, <2>11, <2>12 DEF TabInv
<1> QED BY <1>8, <1>9

-----------------------------------------------------------------------------
(***************************************************************************)
(* The steps.                                                              *)
(***************************************************************************)
\* A tab whose page grows stale, or whose session ends, has the page still.
LEMMA IgnoredKeeps ==
  ASSUME TabInv, ~fresh', UNCHANGED <<page, pending>>, session' \in {session, Nothing},
         users \subseteq users', saving'[Tab] = saving[Tab]
  PROVE  TabInv'
<1>1. Offered' = Offered
  BY DEF Offered
<1>2. /\ session' \in users' \cup {Nothing}
      /\ \A q \in Offered' : WellFormed(q) /\ (session' # Nothing => Own(session', q))
      /\ page'.led => Shows(page')
      /\ pending' # NoRequest => page'.view = "blank"
  BY <1>1 DEF TabInv
<1>3. TabSavingInv' /\ RefusedInv'
  BY DEF TabInv, TabSavingInv, RefusedInv
<1> QED BY <1>2, <1>3 DEF TabInv

\* The form to sign in, in place of a card or in a button.
LEMMA LoginFragmentKeeps ==
  ASSUME Inv, Reading, saving[Tab] = Idle, session = Nothing, NEW r, LoginFragment(r)
  PROVE  TabInv'
<1>1. PICK old : old = page
  OBVIOUS
<1>2. PICK p : p = page'
  OBVIOUS
<1>3. PICK offers : offers = (IF r.route \in Toggles THEN old.offers \ {r} ELSE old.offers)
                               \cup LoginPage
  OBVIOUS
<1>4. PICK q : q = pending
  OBVIOUS
<1>5. p = [old EXCEPT !.offers = offers]
  BY <1>1, <1>2, <1>3 DEF LoginFragment
<1>6. PICK a, b, c, d, e, f, g :
        old = [view |-> a, at |-> b, rows |-> c, read |-> d, offers |-> e,
               prefilled |-> f, led |-> g]
  BY <1>1 DEF Inv, IsPage
<1>7. /\ p.view = old.view /\ p.at = old.at /\ p.rows = old.rows
      /\ p.prefilled = old.prefilled /\ p.led = old.led /\ p.offers = offers
  BY ONLY <1>5, <1>6
<1>8. session' = Nothing /\ pending' = q /\ fresh' = fresh /\ answer' = "page"
  BY <1>4 DEF LoginFragment
<1>9. \A x \in LoginPage : WellFormed(x)
  BY StrangerPagesRight DEF Right
<1>10. Offered' = p.offers \cup p.prefilled \cup {q}
  BY <1>2, <1>8 DEF Offered
<1>11. \A x \in Offered' : x \in Offered \/ x \in LoginPage
  BY <1>1, <1>3, <1>4, <1>7, <1>10 DEF Offered
<1>12. \A x \in Offered' : WellFormed(x)
  BY <1>9, <1>11 DEF Inv, TabInv
<1>13. p.led => Shows(p)
  BY <1>1, <1>7 DEF Inv, TabInv, Shows
<1>14. saving'[Tab] = Idle
  BY ReadingSame
<1>15. TabSavingInv' /\ RefusedInv'
  BY <1>8, <1>14 DEF TabSavingInv, RefusedInv
<1>16. /\ pending' # NoRequest => page'.view = "blank"
       /\ fresh' => page'.view \notin ItemViews
  BY <1>1, <1>2, <1>4, <1>7, <1>8 DEF Inv, TabInv
<1> QED BY <1>2, <1>8, <1>12, <1>13, <1>15, <1>16 DEF TabInv

\* What the tab asks for is well-formed, and right when the page is fresh.
LEMMA AskedFacts ==
  ASSUME Inv, saving[Tab] = Idle, NEW r \in Incoming
  PROVE  WellFormed(r) /\ \A v : v = session /\ v # Nothing => Asked(v, r)
<1>1. r \in Offered /\ (r = pending \/ r \in page.offers)
  BY DEF Incoming, Offered
<1>2. WellFormed(r) /\ (session # Nothing => Own(session, r))
  BY <1>1 DEF Inv, TabInv
<1>3. ASSUME fresh, answer = "refused" PROVE r.route = "GET:/"
  <2>1. page.offers = {Go("GET:/")} /\ pending = NoRequest
    BY <1>3 DEF Inv, TabInv, RefusedInv
  <2>2. r = Go("GET:/")
    BY <2>1 DEF Incoming
  <2> QED BY <2>2 DEF Go, Request
<1>4. ASSUME fresh, session # Nothing PROVE Good(session, r)
  <2>1. RightPage(session, page) /\ Good(session, pending)
    BY <1>4 DEF Inv, TabInv
  <2> QED BY <1>1, <2>1 DEF RightPage, Right
<1>5. session # Nothing => session \in users
  BY DEF Inv, TabInv
<1> QED BY <1>2, <1>3, <1>4, <1>5 DEF Asked, Inv

LEMMA TabServes ==
  ASSUME Inv, saving[Tab] = Idle, NEW r \in Incoming, Serve(Tab, session, r)
  PROVE  TablesKept(Tab) /\ TabInv' /\ IsPage(page')
<1>1. PICK v : v = session
  OBVIOUS
<1>2. /\ TableInv /\ TabInv /\ WellFormed(r) /\ v \in users \cup {Nothing}
      /\ Tab \in Senders /\ users \subseteq Users
      /\ v # Nothing => Asked(v, r) /\ v \in users /\ v \in Users
  BY <1>1, AskedFacts DEF Inv, TabInv, Senders, TableInv, AccountsInv
<1>3. Serve(Tab, v, r)
  BY <1>1
<1>4. TablesKept(Tab)
  BY <1>2, <1>3, ServeTables
<1>5. IsPage(page')
  BY <1>3, ServeTurns DEF Turned, Inv
<1>6. Answered(v, r) /\ saving'[Tab] = Idle => TabInv'
  BY <1>1, <1>4, AnsweredKeeps
<1>7. Reading => saving'[Tab] = Idle
  BY ReadingSame
<1>8. UNCHANGED categories => saving'[Tab] = Idle
  BY DEF categories
<1>9. CASE HandleRoot(Tab, r)
  <2>1. Answered(v, r)
    BY <1>9, RedirectAnswers DEF HandleRoot, FreeRoutes
  <2> QED BY <1>4, <1>5, <1>6, <1>7, <1>9, <2>1 DEF HandleRoot
<1>10. CASE PublicHandler(Tab, v, r)
  <2>1. UNCHANGED categories
    BY <1>2, <1>10, AccountTables
  <2> QED BY <1>1, <1>2, <1>4, <1>5, <1>8, <1>10, <2>1, PublicKeeps
<1>11. CASE v = Nothing /\ ToLogin(Tab, r) /\ Reading
  <2>1. CASE LoginFragment(r)
    BY <1>1, <1>4, <1>5, <1>11, <2>1, LoginFragmentKeeps
  <2>2. CASE Redirect(Tab, Go("GET:/login"))
    <3>1. Answered(v, r)
      BY <2>2, RedirectAnswers DEF FreeRoutes
    <3> QED BY <1>4, <1>5, <1>6, <1>7, <1>11, <3>1
  <2> QED BY <1>11, <2>1, <2>2 DEF ToLogin
<1>12. CASE v # Nothing /\ v \notin admins /\ Refuse(Tab, r) /\ Reading /\ r.route \in AdminRoutes
  <2>1. ~Good(v, r) /\ r.route \notin ListRoutes
    BY <1>12 DEF Good, AdminRoutes, ListRoutes
  <2>2. Answered(v, r)
    BY <1>2, <1>12, <2>1, RefuseAnswers
  <2> QED BY <1>4, <1>5, <1>6, <1>7, <1>12, <2>2
<1>13. CASE v # Nothing /\ v \in admins /\ AdminHandler(Tab, v, r)
  <2>1. UNCHANGED categories
    BY <1>2, <1>13, AccountTables
  <2> QED BY <1>2, <1>4, <1>5, <1>6, <1>8, <1>13, <2>1, AdminAnswers
<1>14. CASE v # Nothing /\ UrlHandler(Tab, v, r)
  <2>1. UNCHANGED <<accounts, categories>>
    BY <1>2, <1>14, UrlTables
  <2>2. Ignored => TabInv'
    BY <1>2, <1>8, <2>1, IgnoredKeeps DEF Ignored, accounts
  <2> QED BY <1>2, <1>4, <1>5, <1>6, <1>8, <1>14, <2>1, <2>2, UrlAnswers
<1>15. CASE v # Nothing /\ CategoryHandler(Tab, v, r)
  BY <1>2, <1>4, <1>5, <1>6, <1>15, CategoryAnswers, StartedKeeps
<1>16. CASE v # Nothing /\ FeedHandler(Tab, v, r)
  <2>1. UNCHANGED categories
    BY <1>2, <1>16, FeedTables
  <2>2. CASE HandleMarkRead(Tab, v, r) \/ HandleMarkUnread(Tab, v, r)
    BY <1>2, <1>4, <1>5, <1>16, <2>2, FragmentKeeps
  <2> QED BY <1>2, <1>4, <1>5, <1>6, <1>8, <1>16, <2>1, <2>2, FeedAnswers
<1>17. CASE v # Nothing /\ UserHandler(Tab, v, r)
  <2>1. UNCHANGED categories
    BY <1>2, <1>17, UserTables
  <2> QED BY <1>2, <1>4, <1>5, <1>6, <1>8, <1>17, <2>1, UserAnswers
<1>18. CASE v # Nothing /\ ApiKeyHandler(Tab, v, r)
  <2>1. UNCHANGED categories
    BY <1>2, <1>18, AccountTables
  <2> QED BY <1>2, <1>4, <1>5, <1>6, <1>8, <1>18, <2>1, ApiKeyAnswers
<1> QED
  BY <1>3, <1>9, <1>10, <1>11, <1>12, <1>13, <1>14, <1>15, <1>16, <1>17, <1>18
     DEF Serve, RequireAuth, RequireAdmin

LEMMA InitInv == Init => Inv
<1> SUFFICES ASSUME Init PROVE Inv
  OBVIOUS
<1>1. AccountsInv
  <2>1. users \subseteq Users /\ emails \in [Users -> Emails \cup {Nothing}]
        /\ \A u \in users : emails[u] \in Emails
    BY BegunAssumption DEF Init
  <2>2. prefs \in [Users -> Prefs]
    BY BegunAssumption DEF Init
  <2> QED BY <2>1, <2>2 DEF AccountsInv
<1>2. BookmarksInv
  BY BegunAssumption DEF Init, BookmarksInv
<1>3. CategoriesInv
  BY BegunAssumption DEF Init, CategoriesInv
<1>4. FeedsInv
  BY BegunAssumption DEF Init, FeedsInv
<1>5. /\ saving = [s \in Senders |-> Idle] /\ alone = {} /\ Idle.at = "idle"
      /\ saving[Tab] = Idle
  BY DEF Init, Idle, Senders
<1>6. SavingInv
  BY <1>5 DEF SavingInv
<1>7. /\ session = Nothing /\ pending = NoRequest /\ answer = "page"
      /\ page = [view |-> "blank", at |-> NoRequest, rows |-> {}, read |-> {},
                 offers |-> {Go("GET:/")}, prefilled |-> {}, led |-> TRUE]
  BY DEF Init
<1>8. /\ page.view = "blank" /\ page.at = NoRequest /\ page.offers = {Go("GET:/")}
      /\ page.prefilled = {} /\ IsPage(page)
  BY <1>7 DEF IsPage
<1>9. WellFormed(NoRequest) /\ WellFormed(Go("GET:/")) /\ NoRequest.n = 1
  BY FreeRight DEF FreeRoutes, NoRequest, Go, Right, Request
<1>10. \A q \in Offered : WellFormed(q)
  BY <1>7, <1>8, <1>9 DEF Offered
<1>11. Shows(page)
  BY <1>8, <1>9 DEF Shows
<1>12. TabSavingInv /\ RefusedInv
  BY <1>5, <1>7 DEF TabSavingInv, RefusedInv
<1>13. page.view \notin ItemViews
  BY <1>8 DEF ItemViews
<1>14. TabInv
  BY <1>7, <1>8, <1>10, <1>11, <1>12, <1>13 DEF TabInv
<1> QED BY <1>1, <1>2, <1>3, <1>4, <1>6, <1>8, <1>14 DEF Inv, TableInv

\* What happens elsewhere.
LEMMA AsideKeeps ==
  ASSUME Inv, TablesKept(Other), Ignored
  PROVE  Inv'
<1>1. saving'[Tab] = saving[Tab] /\ users \subseteq users' /\ TableInv'
  BY SiteAssumption DEF TablesKept, Senders
<1>2. ~fresh' /\ UNCHANGED <<page, pending>> /\ session' = session
  BY DEF Ignored
<1>3. TabInv'
  BY <1>1, <1>2, IgnoredKeeps DEF Inv
<1> QED BY <1>1, <1>2, <1>3 DEF Inv

LEMMA NextInv == Inv /\ [Next]_vars => Inv'
<1> SUFFICES ASSUME Inv, [Next]_vars PROVE Inv'
  OBVIOUS
<1>1. CASE TabServed
  BY <1>1, TabServes DEF TabServed, TablesKept, Inv
<1>2. CASE TabSaving
  BY <1>2, TabSavingKeeps, SavingTurns DEF TabSaving, TablesKept, Inv, Turned
<1>3. CASE OtherServed
  <2>1. PICK x \in Elsewhere :
          /\ x.user \in users \cup {Nothing} /\ Serve(Other, x.user, x.request)
          /\ saving[Other] = Idle /\ tables' # tables
    BY <1>3 DEF OtherServed
  <2>2. WellFormed(x.request)
    BY ElsewhereAssumption
  <2>3. ~Reading
    BY <2>1 DEF Reading
  <2>4. TablesKept(Other)
    BY <2>1, <2>2, ServeTables DEF Senders, Inv
  <2>5. Ignored
    BY <2>1, <2>3, ServeTurns, SiteAssumption DEF Turned
  <2> QED BY <2>4, <2>5, AsideKeeps
<1>4. CASE OtherSaving
  BY <1>4, SavingTables, SavingTurns, AsideKeeps, SiteAssumption
     DEF OtherSaving, Senders, Inv, Turned
<1>5. CASE Polled
  <2>1. PICK i \in Items : FeedPolled(i)
    BY <1>5 DEF Polled
  <2>2. /\ items' = items \cup {i} /\ Ignored
        /\ UNCHANGED <<subs, feed_tags, read, accounts, bookmarks, categories>>
    BY <2>1 DEF FeedPolled
  <2>3. FeedsInv'
    BY <2>2 DEF Inv, TableInv, FeedsInv
  <2>4. TablesKept(Other)
    BY <2>2, <2>3, FeedsKeep DEF Inv
  <2> QED BY <2>2, <2>4, AsideKeeps
<1>6. CASE SessionEnds
  <2>1. /\ session' = Nothing /\ ~fresh' /\ UNCHANGED <<page, pending>> /\ Reading
    BY <1>6 DEF SessionEnds, Reading
  <2>2. TablesKept(Other) /\ saving' = saving
    BY <2>1, ReadingKeeps, ReadingSame DEF Inv
  <2>3. TabInv'
    BY <2>1, <2>2, IgnoredKeeps DEF Inv, TablesKept
  <2> QED BY <2>1, <2>2, <2>3 DEF Inv, TablesKept
<1>7. CASE UNCHANGED vars
  <2>1. Reading /\ UNCHANGED <<session, page, pending, answer, fresh>>
    BY <1>7 DEF vars, tab, Reading
  <2>2. TableInv'
    BY <2>1, ReadingKeeps DEF Inv, TablesKept
  <2>3. UNCHANGED Relied /\ saving' = saving /\ read' = read
    BY <2>1, ReadingSame
  <2>4. PICK p, q, v : p = page /\ q = pending /\ v = session
    OBVIOUS
  <2>5. Offered' = Offered /\ users' = users /\ owner' = owner /\ cat_name' = cat_name
        /\ emails' = emails
    BY <2>1, <2>3 DEF Offered, Relied
  <2>6. RefusedInv'
    BY <2>1, <2>5
       DEF Inv, TabInv, RefusedInv, Clash, Taken, ListCategories, GetUserByEmail
  <2>7. TabSavingInv'
    BY <2>1, <2>3, <2>5 DEF Inv, TabInv, TabSavingInv
  <2>8. ASSUME fresh, v # Nothing PROVE RightPage(v, p)' /\ Good(v, q)'
    <3>1. RightPage(v, p) /\ Right(v, q)
      BY <2>4, <2>8 DEF Inv, TabInv, Right, Offered
    <3> QED BY <2>3, <3>1, SamePage, SameRight DEF Right
  <2>9. fresh' /\ session' # Nothing => RightPage(session, page)' /\ Good(session, pending)'
    BY <2>1, <2>4, <2>8
  <2>10. TabInv'
    BY <2>1, <2>5, <2>6, <2>7, <2>9 DEF Inv, TabInv, Shows
  <2> QED BY <2>1, <2>2, <2>10 DEF Inv
<1> QED BY <1>1, <1>2, <1>3, <1>4, <1>5, <1>6, <1>7 DEF Next

\* Whatever the users and the feed worker do, and in whatever order: the tables hold rows,
\* what the tab offers is well-formed and its user's own, and as long as nobody else
\* changes a table what a page offers, and what the answer to it leads to, finds the
\* row it is about, and the page shows what the tables hold.
THEOREM SiteInvariant == Spec => []Inv
  BY InitInv, NextInv, PTL DEF Spec

\* What a page offers is honoured: no link, form or button is refused while nobody else
\* changes anything, but for a name or an address that is taken.
THEOREM OffersAreHonoured == Spec => []OffersHonoured
<1>1. Inv => OffersHonoured
  BY DEF Inv, TabInv, RefusedInv, OffersHonoured
<1> QED BY <1>1, SiteInvariant, PTL

\* The next page of a list, and the page of a tag that a bookmark has, are not empty.
THEOREM LinkedPagesDoShow == Spec => []LinkedPagesShow
<1>1. Inv => LinkedPagesShow
  BY DEF Inv, TabInv, Shows, LinkedPagesShow
<1> QED BY <1>1, SiteInvariant, PTL

\* A page of items whose cards were replaced is what the server would give now.
THEOREM PatchedPagesAreCurrent == Spec => []PatchedPageIsCurrent
<1>1. Inv => PatchedPageIsCurrent
  <2> SUFFICES ASSUME Inv, fresh, pending = NoRequest,
                      page.view \in {"TimelinePage", "FeedDetailPage"}
               PROVE  /\ page.rows = Shown
                      /\ page.read = Shown \cap read[session]
                      /\ \A i \in Shown, done \in BOOLEAN :
                           Toggle(i, done) \in page.offers <=> (done <=> i \in read[session])
    BY DEF PatchedPageIsCurrent
  <2>1. page.view \in ItemViews
    BY DEF ItemViews
  <2>2. RightPage(session, page)
    BY <2>1 DEF Inv, TabInv
  <2>3. Current(session, page)
    BY <2>1, <2>2 DEF RightPage
  <2>4. Shown = ShownOn(session, page)
    BY DEF Shown, ShownOn
  <2> QED BY <2>3, <2>4, Zenon DEF Current
<1> QED BY <1>1, SiteInvariant, PTL

-----------------------------------------------------------------------------
\* Forms that show what there is.

LEMMA FormRoutes ==
  ASSUME NEW s, NEW u, u # Nothing, NEW r, Serve(s, u, r)
  PROVE  /\ r.route = "PUT:/url/:id" => HandleUpdate(s, u, r)
         /\ r.route = "PUT:/category/:id" => HandleUpdateCategory(s, u, r)
         /\ r.route = "PUT:/feed/:id" => HandleUpdateFeed(s, u, r)
         /\ r.route = "POST:/user/:id/settings" => HandleUpdateSettings(s, u, r)
         /\ r.route = "PUT:/user/:id" => HandleUpdateUser(s, u, r)
<1> DEFINE Forms == {"PUT:/url/:id", "PUT:/category/:id", "PUT:/feed/:id",
                     "POST:/user/:id/settings", "PUT:/user/:id"}
<1>1. r.route \in Forms => r.route \notin PublicRoutes \cup AdminRoutes \cup {"GET:/"}
  BY DEF PublicRoutes, AdminRoutes
<1>2. r.route \in Forms =>
        \/ UrlHandler(s, u, r) \/ CategoryHandler(s, u, r) \/ FeedHandler(s, u, r)
        \/ UserHandler(s, u, r) \/ ApiKeyHandler(s, u, r)
  BY <1>1 DEF Serve, HandleRoot, RequireAuth
<1>3. UrlHandler(s, u, r) /\ r.route \in Forms => r.route = "PUT:/url/:id" /\ HandleUpdate(s, u, r)
  BY DEF UrlHandler, HandleList, HandleSearch, HandleNew, HandleCreate, HandleCreateByAPI,
         HandleGet, HandleEdit, HandleUpdate, HandleDelete, ListRoutes
<1>4. CategoryHandler(s, u, r) /\ r.route \in Forms =>
        r.route = "PUT:/category/:id" /\ HandleUpdateCategory(s, u, r)
  BY DEF CategoryHandler, HandleNewCategory, HandleCreateCategory, HandleEditCategory,
         HandleUpdateCategory, HandleDeleteCategory
<1>5. FeedHandler(s, u, r) /\ r.route \in Forms =>
        r.route = "PUT:/feed/:id" /\ HandleUpdateFeed(s, u, r)
  BY DEF FeedHandler, HandleTimeline, HandleNewFeed, HandleCreateFeed, HandleGetFeed,
         HandleEditFeed, HandleUpdateFeed, HandleDeleteFeed, HandleMarkRead, HandleMarkUnread,
         HandleMarkAllRead, HandleMarkFeedAllRead
<1>6. UserHandler(s, u, r) /\ r.route \in Forms =>
        \/ r.route = "POST:/user/:id/settings" /\ HandleUpdateSettings(s, u, r)
        \/ r.route = "PUT:/user/:id" /\ HandleUpdateUser(s, u, r)
  BY DEF UserHandler, HandleSettings, HandleEditUser, HandleUpdateUser,
         HandleChangePasswordForm, HandleChangePassword, HandleUpdateSettings, HandleImport
<1>7. ApiKeyHandler(s, u, r) => r.route \notin Forms
  BY DEF ApiKeyHandler, HandleListKeys, HandleNewKey, HandleCreateKey, HandleDeleteKey
<1> QED BY <1>2, <1>3, <1>4, <1>5, <1>6, <1>7

\* Slugs are read back as they are written.
LEMMA SlugsStay ==
  ASSUME NEW typed \in SUBSET Tags, \A t \in typed : Slug[t] = t
  PROVE  ParseTags(typed) = typed
  BY SiteAssumption DEF ParseTags

LEMMA MembersStay ==
  ASSUME NEW typed \in SUBSET Members, \A t \in typed \cap Tags : Slug[t] = t
  PROVE  ParseMembers(typed) = typed
<1>1. ParseTags(typed \cap Tags) = typed \cap Tags
  BY SlugsStay
<1> QED BY <1>1 DEF ParseMembers, Members

LEMMA FormKept ==
  ASSUME Inv, NEW r \in page.prefilled, fresh, session # Nothing,
         \A t \in r.form \cap Tags : Slug[t] = t, Serve(Tab, session, r)
  PROVE  Kept
<1>1. PICK v : v = session
  OBVIOUS
<1>2. /\ TableInv /\ saving[Tab] = Idle /\ v \in users /\ v # Nothing
      /\ Right(v, r) /\ Filled(v, r)
  BY <1>1 DEF Inv, TabInv, TabSavingInv, RightPage
<1>3. /\ AccountsInv /\ BookmarksInv /\ CategoriesInv /\ FeedsInv /\ WellFormed(r) /\ Own(v, r)
      /\ v \in Users /\ emails[v] \in Emails /\ prefs[v] \in Prefs
  BY <1>2, UserFacts DEF TableInv, Right
<1>4. Serve(Tab, v, r)
  BY <1>1
<1>5. Reading => Kept
  BY <1>2, ReadingSame DEF Reading, tables, categories, Kept
<1>6. ASSUME UNCHANGED <<accounts, bookmarks, categories, feeds>> PROVE Kept
  BY <1>5, <1>6 DEF Reading, tables
<1>7. CASE r = EditForm(v, r.id)
  <2>1. r.route = "PUT:/url/:id" /\ r.form = url_tags[<<v, r.id>>]
    BY <1>7 DEF EditForm, Request
  <2>2. HandleUpdate(Tab, v, r) /\ r.id \in Urls
    BY <1>2, <1>3, <1>4, <2>1, FormRoutes DEF WellFormed, BookmarkRoutes
  <2>3. CASE Reading
    BY <1>5, <2>3
  <2>4. CASE /\ url_tags' = [url_tags EXCEPT ![<<v, r.id>>] = ParseTags(r.form)]
             /\ UNCHANGED <<library, feed_url, accounts, categories, feeds>>
    <3>1. r.form \in SUBSET Tags
      BY <1>3, <2>1, <2>2 DEF BookmarksInv
    <3>2. ParseTags(r.form) = r.form
      BY <3>1, SlugsStay
    <3>3. url_tags' = url_tags
      BY <1>3, <2>1, <2>2, <2>4, <3>2 DEF BookmarksInv
    <3> QED BY <1>6, <2>4, <3>3 DEF bookmarks
  <2> QED BY <2>2, <2>3, <2>4 DEF HandleUpdate, RequireURLOwner
<1>8. CASE r = CategoryForm(r.id)
  <2>1. r.route = "PUT:/category/:id" /\ r.form = members[r.id] \cup {cat_name[r.id]}
    BY <1>8 DEF CategoryForm, Request
  <2>2. HandleUpdateCategory(Tab, v, r) /\ r.id \in Categories
    BY <1>2, <1>3, <1>4, <2>1, FormRoutes DEF WellFormed, CategoryRoutes
  <2>3. members[r.id] \subseteq Members /\ cat_name[r.id] \in Names
    BY <1>3, <2>2 DEF CategoriesInv
  <2>4. r.form \cap Members = members[r.id] /\ r.form \cap Names = {cat_name[r.id]}
    BY <2>1, <2>3, SiteAssumption
  <2>5. NameIn(r) = cat_name[r.id]
    BY <2>3, <2>4 DEF NameIn
  <2>6. ParseMembers(r.form \cap Members) = members[r.id]
    <3>1. \A t \in (r.form \cap Members) \cap Tags : Slug[t] = t
      OBVIOUS
    <3>2. r.form \cap Members \in SUBSET Members
      OBVIOUS
    <3> QED BY <2>4, <3>1, <3>2, MembersStay
  <2>7. CASE Reading
    BY <1>5, <2>7
  <2>8. CASE /\ cat_name' = [cat_name EXCEPT ![r.id] = NameIn(r)]
             /\ Begin(Tab, v, r, r.id, FALSE, r.form \cap Members)
             /\ UNCHANGED owner
    <3>1. cat_name' = cat_name
      BY <1>3, <2>2, <2>5, <2>8 DEF CategoriesInv
    <3>2. /\ saving' = [saving EXCEPT ![Tab] =
                          [user |-> v, category |-> r.id, made |-> FALSE, at |-> "clear",
                           want |-> members[r.id], left |-> members[r.id]]]
          /\ UNCHANGED <<members, accounts, bookmarks, feeds>>
      BY <2>6, <2>8 DEF Begin
    <3>3. saving'[Tab].want = members[r.id] /\ saving'[Tab].category = r.id
      BY <1>2, <3>2 DEF TableInv, SavingInv, Senders
    <3> QED BY <2>8, <3>1, <3>2, <3>3 DEF Kept
  <2> QED BY <2>2, <2>7, <2>8 DEF HandleUpdateCategory
<1>9. CASE r = FeedForm(v, r.id)
  <2>1. r.route = "PUT:/feed/:id" /\ r.form = feed_tags[<<v, r.id>>]
    BY <1>9 DEF FeedForm, ListFeedTagNames, Request
  <2>2. HandleUpdateFeed(Tab, v, r) /\ r.id \in Feeds
    BY <1>2, <1>3, <1>4, <2>1, FormRoutes DEF WellFormed, FeedRoutes
  <2>3. CASE Reading
    BY <1>5, <2>3
  <2>4. CASE /\ feed_tags' = [feed_tags EXCEPT ![<<v, r.id>>] = ParseTags(r.form)]
             /\ UNCHANGED <<subs, items, read, accounts, bookmarks, categories>>
    <3>1. r.form \in SUBSET Tags
      BY <1>3, <2>1, <2>2 DEF FeedsInv
    <3>2. ParseTags(r.form) = r.form
      BY <3>1, SlugsStay
    <3>3. feed_tags' = feed_tags
      BY <1>3, <2>1, <2>2, <2>4, <3>2 DEF FeedsInv
    <3> QED BY <1>6, <2>4, <3>3 DEF feeds
  <2> QED BY <2>2, <2>3, <2>4 DEF HandleUpdateFeed, RequireFeedOwner
<1>10. CASE r = SettingsForm(v)
  <2>1. r.route = "POST:/user/:id/settings" /\ r.form = {prefs[v]} /\ r.id = v
    BY <1>10 DEF SettingsForm, Request
  <2>2. HandleUpdateSettings(Tab, v, r)
    BY <1>2, <1>4, <2>1, FormRoutes
  <2>3. (CHOOSE p \in Prefs : p \in r.form) = prefs[v]
    BY <1>3, <2>1
  <2>4. /\ prefs' = [prefs EXCEPT ![v] = prefs[v]]
        /\ UNCHANGED <<users, admins, emails, invites, api_keys, blocklist, bookmarks,
                       categories, feeds>>
    BY <2>1, <2>2, <2>3 DEF HandleUpdateSettings, UpdateUserSettings
  <2>5. prefs' = prefs
    BY <1>3, <2>4 DEF AccountsInv
  <2> QED BY <1>6, <2>4, <2>5 DEF accounts
<1>11. CASE r = EmailForm(v)
  <2>1. r.route = "PUT:/user/:id" /\ r.form = {emails[v]} /\ r.id = v
    BY <1>11 DEF EmailForm, Request
  <2>2. HandleUpdateUser(Tab, v, r)
    BY <1>2, <1>4, <2>1, FormRoutes
  <2>3. EmailIn(r) = emails[v]
    BY <1>3, <2>1 DEF EmailIn
  <2>4. CASE Reading
    BY <1>5, <2>4
  <2>5. CASE /\ emails' = [emails EXCEPT ![v] = emails[v]]
             /\ UNCHANGED <<users, admins, prefs, invites, api_keys, blocklist, bookmarks,
                            categories, feeds>>
    <3>1. emails' = emails
      BY <1>3, <2>5 DEF AccountsInv
    <3> QED BY <1>6, <2>5, <3>1 DEF accounts
  <2> QED BY <2>1, <2>2, <2>3, <2>4, <2>5 DEF HandleUpdateUser, UpdateUser
<1> QED BY <1>2, <1>7, <1>8, <1>9, <1>10, <1>11 DEF Filled

\* A form sent as the page filled it in changes nothing, and sets out to write the members
\* the category has.
THEOREM FormsAreReadBack == Spec => SavedUnchangedKeeps
<1>1. ASSUME Inv, [Next]_vars
      PROVE  [\A r \in page.prefilled :
                /\ fresh /\ pending = NoRequest /\ session # Nothing
                /\ \A t \in r.form \cap Tags : Slug[t] = t
                /\ Serve(Tab, session, r)
                => Kept]_vars
  BY <1>1, FormKept
<1> QED BY <1>1, SiteInvariant, PTL DEF Spec, SavedUnchangedKeeps

-----------------------------------------------------------------------------
(***************************************************************************)
(* Saving a category, as Labels sees it.                                   *)
(***************************************************************************)
LEMMA EditFacts ==
  ASSUME NEW s
  PROVE  /\ EditOf(s).by = s /\ EditOf(s).object = saving[s].category
         /\ EditOf(s).want = saving[s].want /\ EditOf(s).left = saving[s].left
         /\ EditOf(s).alone = (s \in alone)
  BY Zenon DEF EditOf

LEMMA SameEdit ==
  ASSUME NEW s, saving'[s] = saving[s], s \in alone' <=> s \in alone
  PROVE  EditOf(s)' = EditOf(s)
<1>1. (s \in alone') = (s \in alone)
  OBVIOUS
<1> QED BY <1>1, Zenon DEF EditOf

LEMMA QuietEdits ==
  ASSUME \A t \in Senders :
           /\ saving'[t].at = "insert" <=> saving[t].at = "insert"
           /\ saving[t].at = "insert" => saving'[t] = saving[t] /\ (t \in alone' <=> t \in alone)
  PROVE  Edits' = Edits
<1>1. \A t \in Senders : saving[t].at = "insert" => EditOf(t)' = EditOf(t)
  BY SameEdit
<1> QED BY <1>1, Zenon DEF Edits

LEMMA EndOfEdit ==
  ASSUME NEW s \in Senders, saving[s].at = "insert", saving'[s] = Idle,
         \A t \in Senders \ {s} : saving'[t] = saving[t], alone' = alone \ {s}
  PROVE  Edits' = Edits \ {EditOf(s)} /\ EditOf(s) \in Edits
<1>1. \A t \in Senders : saving'[t].at = "insert" <=> (saving[t].at = "insert" /\ t # s)
  BY DEF Idle
<1>2. \A t \in Senders \ {s} : EditOf(t)' = EditOf(t)
  BY SameEdit
<1>3. \A t \in Senders : EditOf(t) = EditOf(s) => t = s
  BY EditFacts
<1> QED BY <1>1, <1>2, <1>3 DEF Edits

LEMMA ClearStep ==
  ASSUME TableInv, NEW s \in Senders, DeleteAllCategoryMembers(s)
  PROVE  CategoryEdits!Clear(s, saving[s].category, saving[s].want)
<1>1. PICK c : c = saving[s].category
  OBVIOUS
<1>2. /\ saving[s].at = "clear"
      /\ members' = [members EXCEPT ![c] = {}] /\ settled' = [settled EXCEPT ![c] = {}]
      /\ alone' = IF Saving(c) = {} THEN alone \cup {s} ELSE alone \ Saving(c)
      /\ saving' = [saving EXCEPT ![s].at = "insert"]
  BY <1>1 DEF DeleteAllCategoryMembers
<1>3. /\ SavingInv /\ s \notin alone /\ saving[s].left = saving[s].want
      /\ saving[s] \in Saves
  BY <1>2, BusyFacts DEF TableInv, SavingInv
<1>4. Saving(c) = {t \in Senders : saving[t].at = "insert" /\ saving[t].category = c}
  BY DEF Saving
<1>5. /\ saving'[s] = [saving[s] EXCEPT !.at = "insert"]
      /\ \A t \in Senders \ {s} : saving'[t] = saving[t]
  BY <1>2, <1>3 DEF SavingInv
<1>6. /\ saving'[s].at = "insert" /\ saving'[s].category = c
      /\ saving'[s].want = saving[s].want /\ saving'[s].left = saving[s].want
  BY <1>1, <1>3, <1>5 DEF Saves
<1>7. CategoryEdits!Idle(s)
  BY <1>2, EditFacts DEF CategoryEdits!Idle, Edits
<1>8. ASSUME NEW t \in Senders, saving[t].at = "insert"
      PROVE  EditOf(t)' = CategoryEdits!Disturb(EditOf(t), c)
  <2>1. t # s /\ saving'[t] = saving[t]
    BY <1>2, <1>5, <1>8
  <2>2. (t \in alone') <=> (t \in alone /\ saving[t].category # c)
    BY <1>2, <1>4, <1>8, <2>1
  <2>3. (t \in alone') = (t \in alone /\ saving[t].category # c)
    BY <2>2
  <2>4. EditOf(t)' = [by |-> t, object |-> saving[t].category, want |-> saving[t].want,
                      left |-> saving[t].left,
                      alone |-> t \in alone /\ saving[t].category # c]
    BY <2>1, <2>3, Zenon DEF EditOf
  <2> QED BY <2>4, EditFacts, Zenon DEF CategoryEdits!Disturb
<1>9. EditOf(s)' = [by |-> s, object |-> c, want |-> saving[s].want, left |-> saving[s].want,
                    alone |-> \A x \in Edits : x.object # c]
  <2> DEFINE lone == \A x \in Edits : x.object # c
  <2>1. lone <=> Saving(c) = {}
    BY <1>4, EditFacts DEF Edits
  <2>2. (s \in alone') <=> Saving(c) = {}
    BY <1>2, <1>3
  <2>3. lone <=> s \in alone'
    BY <2>1, <2>2
  <2> HIDE DEF lone
  <2>4. (s \in alone') = lone
    BY <2>3
  <2>5. EditOf(s)' = [by |-> s, object |-> c, want |-> saving[s].want,
                      left |-> saving[s].want, alone |-> lone]
    BY <1>6, <2>4, Zenon DEF EditOf
  <2> QED BY <2>5 DEF lone
<1>10. Edits' = {EditOf(t)' : t \in {r \in Senders : saving'[r].at = "insert"}}
  BY DEF Edits
<1>11. Edits' = {CategoryEdits!Disturb(x, c) : x \in Edits} \cup {EditOf(s)'}
  <2>1. \A t \in Senders : saving'[t].at = "insert" <=> (t = s \/ saving[t].at = "insert")
    BY <1>5, <1>6
  <2> QED BY <1>8, <1>10, <2>1 DEF Edits
<1> QED BY <1>1, <1>2, <1>7, <1>9, <1>11 DEF CategoryEdits!Clear

LEMMA PutStep ==
  ASSUME TableInv, NEW s \in Senders, InsertCategoryMember(s)
  PROVE  EditOf(s) \in Edits /\ \E m \in EditOf(s).left : CategoryEdits!Put(EditOf(s), m)
<1>1. PICK m \in saving[s].left :
        /\ members' = [members EXCEPT ![saving[s].category] = @ \cup {m}]
        /\ saving' = [saving EXCEPT ![s].left = @ \ {m}]
  BY DEF InsertCategoryMember
<1>2. saving[s].at = "insert" /\ UNCHANGED <<alone, settled>>
  BY DEF InsertCategoryMember
<1>3. SavingInv /\ saving[s] \in Saves
  BY <1>2, BusyFacts DEF TableInv
<1>4. /\ saving'[s] = [saving[s] EXCEPT !.left = @ \ {m}]
      /\ \A t \in Senders \ {s} : saving'[t] = saving[t]
  BY <1>1, <1>3 DEF SavingInv
<1>5. /\ saving'[s].at = "insert" /\ saving'[s].category = saving[s].category
      /\ saving'[s].want = saving[s].want /\ saving'[s].left = saving[s].left \ {m}
  BY <1>2, <1>3, <1>4 DEF Saves
<1>6. EditOf(s) \in Edits
  BY <1>2 DEF Edits
<1>7. EditOf(s)' = CategoryEdits!Less(EditOf(s), m)
  BY <1>2, <1>5, EditFacts, Zenon DEF CategoryEdits!Less, EditOf
<1>8. \A t \in Senders \ {s} : EditOf(t)' = EditOf(t)
  BY <1>2, <1>4, SameEdit
<1>9. \A t \in Senders : EditOf(t) = EditOf(s) => t = s
  BY EditFacts
<1>10. \A t \in Senders : saving'[t].at = "insert" <=> saving[t].at = "insert"
  BY <1>2, <1>4, <1>5
<1>11. Edits' = {EditOf(t)' : t \in {r \in Senders : saving'[r].at = "insert"}}
  BY DEF Edits
<1>12. Edits' = (Edits \ {EditOf(s)}) \cup {EditOf(s)'}
  BY <1>2, <1>8, <1>9, <1>10, <1>11 DEF Edits
<1>13. CategoryEdits!Put(EditOf(s), m)
  BY <1>1, <1>2, <1>7, <1>12, EditFacts DEF CategoryEdits!Put
<1> QED BY <1>6, <1>13, EditFacts

LEMMA EndStep ==
  ASSUME TableInv, NEW s \in Senders, saving[s].at # "idle",
         saving' = [saving EXCEPT ![s] = Idle], alone' = alone \ {s}
  PROVE  \/ saving[s].at = "insert" /\ EditOf(s) \in Edits /\ Edits' = Edits \ {EditOf(s)}
         \/ saving[s].at = "clear" /\ Edits' = Edits
<1>1. /\ SavingInv /\ saving[s].at \in {"clear", "insert"}
      /\ saving[s].at = "clear" => s \notin alone
  BY BusyFacts DEF TableInv, SavingInv
<1>2. saving'[s] = Idle /\ \A t \in Senders \ {s} : saving'[t] = saving[t]
  BY <1>1 DEF SavingInv
<1>3. CASE saving[s].at = "insert"
  BY <1>2, <1>3, EndOfEdit
<1>4. CASE saving[s].at = "clear"
  <2>1. saving'[s].at # "insert"
    BY <1>2 DEF Idle
  <2>2. Edits' = Edits
    BY <1>1, <1>2, <1>4, <2>1, QuietEdits
  <2> QED BY <1>4, <2>2
<1> QED BY <1>1, <1>3, <1>4

LEMMA SavingIsEditing ==
  ASSUME TableInv, NEW s \in Senders, SetCategoryMembers(s)
  PROVE  CategoryEdits!Next \/ UNCHANGED <<members, Edits, settled>>
<1>1. CategoriesInv /\ SavingInv
  BY DEF TableInv
<1>2. CASE DeleteAllCategoryMembers(s)
  <2>1. saving[s].at = "clear"
    BY <1>2 DEF DeleteAllCategoryMembers
  <2>2. saving[s].category \in Categories /\ saving[s].want \in SUBSET Members
    BY <1>1, <2>1, BusyFacts
  <2> QED BY <1>2, <2>2, ClearStep DEF CategoryEdits!Next
<1>3. CASE InsertCategoryMember(s)
  BY <1>3, PutStep DEF CategoryEdits!Next
<1>4. ASSUME saving[s].at # "idle", \E how : GiveUp(s, how)
      PROVE  CategoryEdits!Next \/ UNCHANGED <<members, Edits, settled>>
  <2>1. /\ saving' = [saving EXCEPT ![s] = Idle] /\ alone' = alone \ {s}
        /\ UNCHANGED <<members, settled>>
    BY <1>4 DEF GiveUp
  <2>2. CASE EditOf(s) \in Edits /\ Edits' = Edits \ {EditOf(s)}
    BY <2>1, <2>2 DEF CategoryEdits!Next, CategoryEdits!Fail
  <2> QED BY <1>4, <2>1, <2>2, EndStep
<1>5. CASE CategoryIsGone(s) \/ StatementFails(s)
  BY <1>4, <1>5 DEF CategoryIsGone, StatementFails
<1>6. CASE CategorySaved(s)
  <2>1. /\ saving[s].at = "insert" /\ saving[s].left = {}
        /\ saving' = [saving EXCEPT ![s] = Idle] /\ alone' = alone \ {s}
        /\ settled' = IF s \in alone
                      THEN [settled EXCEPT ![saving[s].category] = {saving[s].want}] ELSE settled
        /\ members' = members
    BY <1>6 DEF CategorySaved
  <2>2. EditOf(s) \in Edits /\ Edits' = Edits \ {EditOf(s)}
    BY <2>1, EndStep
  <2>3. saving[s].category \in Categories
    BY <1>1, <2>1, BusyFacts
  <2>4. members' = [members EXCEPT ![saving[s].category] = @ \cup saving[s].left]
    BY <1>1, <2>1, <2>3 DEF CategoriesInv
  <2>5. CategoryEdits!Finish(EditOf(s))
    BY <2>1, <2>2, <2>4, EditFacts DEF CategoryEdits!Finish
  <2> QED BY <2>2, <2>5 DEF CategoryEdits!Next
<1> QED BY <1>2, <1>3, <1>5, <1>6 DEF SetCategoryMembers

LEMMA DeleteForgets ==
  ASSUME TableInv, NEW s \in Senders, NEW u, NEW r, WellFormed(r), HandleDeleteCategory(s, u, r)
  PROVE  CategoryEdits!Next \/ UNCHANGED <<members, Edits, settled>>
<1>1. PICK c : c = r.id
  OBVIOUS
<1>2. c \in Categories /\ saving' = saving
  BY <1>1 DEF HandleDeleteCategory, WellFormed
<1>3. CASE owner[c] = u
  <2>1. /\ members' = [members EXCEPT ![c] = {}] /\ settled' = [settled EXCEPT ![c] = {}]
        /\ alone' = alone \ Saving(c)
    BY <1>1, <1>3 DEF HandleDeleteCategory
  <2>2. ASSUME NEW t \in Senders, saving[t].at = "insert"
        PROVE  EditOf(t)' = CategoryEdits!Disturb(EditOf(t), c)
    <3>1. (t \in alone') <=> (t \in alone /\ saving[t].category # c)
      BY <2>1, <2>2 DEF Saving
    <3>2. (t \in alone') = (t \in alone /\ saving[t].category # c)
      BY <3>1
    <3>3. EditOf(t)' = [by |-> t, object |-> saving[t].category, want |-> saving[t].want,
                        left |-> saving[t].left,
                        alone |-> t \in alone /\ saving[t].category # c]
      BY <1>2, <3>2, Zenon DEF EditOf
    <3> QED BY <3>3, EditFacts, Zenon DEF CategoryEdits!Disturb
  <2>3. Edits' = {CategoryEdits!Disturb(x, c) : x \in Edits}
    BY <1>2, <2>2 DEF Edits
  <2> QED BY <1>2, <2>1, <2>3 DEF CategoryEdits!Next, CategoryEdits!Forget
<1>4. CASE owner[c] # u
  <2>1. UNCHANGED <<members, alone, settled>>
    BY <1>1, <1>4 DEF HandleDeleteCategory
  <2>2. Edits' = Edits
    BY <1>2, <2>1, QuietEdits
  <2> QED BY <2>1, <2>2
<1> QED BY <1>3, <1>4

LEMMA ServingIsEditing ==
  ASSUME TableInv, NEW s \in Senders, NEW u \in users \cup {Nothing}, NEW r, WellFormed(r),
         saving[s] = Idle, Serve(s, u, r)
  PROVE  CategoryEdits!Next \/ UNCHANGED <<members, Edits, settled>>
<1>1. UNCHANGED categories => UNCHANGED <<members, Edits, settled>>
  <2>1. ASSUME UNCHANGED categories PROVE UNCHANGED <<members, saving, alone, settled>>
    BY <2>1 DEF categories
  <2> QED BY <2>1, QuietEdits
<1>2. Reading => UNCHANGED categories
  BY DEF Reading, tables
<1>3. users \subseteq Users /\ SavingInv /\ CategoriesInv
  BY DEF TableInv, AccountsInv
<1>4. CASE CategoryHandler(s, u, r) /\ u # Nothing
  <2>1. CASE HandleNewCategory(s, u, r) \/ HandleEditCategory(s, u, r)
    BY <1>1, <1>2, <2>1 DEF HandleNewCategory, HandleEditCategory
  <2>2. CASE HandleDeleteCategory(s, u, r)
    BY <2>2, DeleteForgets
  <2>3. ASSUME NEW c, NEW made, NEW typed, Begin(s, u, r, c, made, typed)
        PROVE  UNCHANGED <<members, Edits, settled>>
    <3>1. PICK new : new = [user |-> u, category |-> c, made |-> made, at |-> "clear",
                            want |-> ParseMembers(typed), left |-> ParseMembers(typed)]
      OBVIOUS
    <3>2. saving' = [saving EXCEPT ![s] = new] /\ UNCHANGED <<members, alone, settled>>
      BY <2>3, <3>1 DEF Begin
    <3>3. new.at = "clear" /\ saving[s].at = "idle"
      BY <3>1 DEF Idle
    <3>4. /\ saving'[s].at # "insert" /\ saving[s].at # "insert"
          /\ \A t \in Senders \ {s} : saving'[t] = saving[t]
      BY <1>3, <3>2, <3>3 DEF SavingInv
    <3>5. Edits' = Edits
      BY <3>2, <3>4, QuietEdits
    <3> QED BY <3>2, <3>5
  <2>4. CASE HandleCreateCategory(s, u, r)
    BY <1>1, <1>2, <2>3, <2>4 DEF HandleCreateCategory
  <2>5. CASE HandleUpdateCategory(s, u, r)
    BY <1>1, <1>2, <2>3, <2>5 DEF HandleUpdateCategory
  <2> QED BY <1>4, <2>1, <2>2, <2>4, <2>5 DEF CategoryHandler
<1>5. CASE ~(CategoryHandler(s, u, r) /\ u # Nothing)
  <2>1. \/ Reading \/ PublicHandler(s, u, r)
        \/ /\ u # Nothing
           /\ \/ AdminHandler(s, u, r) \/ UrlHandler(s, u, r) \/ FeedHandler(s, u, r)
              \/ UserHandler(s, u, r) \/ ApiKeyHandler(s, u, r)
    BY <1>5 DEF Serve, HandleRoot, RequireAuth, RequireAdmin
  <2>2. u # Nothing => u \in users /\ u \in Users
    BY <1>3
  <2>3. UNCHANGED categories
    BY <1>2, <2>1, <2>2, AccountTables, UrlTables, FeedTables, UserTables
  <2> QED BY <1>1, <2>3
<1> QED BY <1>4, <1>5

LEMMA NextEdits ==
  ASSUME Inv, [Next]_vars
  PROVE  [CategoryEdits!Next]_(CategoryEdits!vars)
<1>1. UNCHANGED <<members, Edits, settled>> => UNCHANGED CategoryEdits!vars
  BY DEF CategoryEdits!vars
<1>2. TableInv /\ Senders = {Tab, Other} /\ session \in users \cup {Nothing}
  BY DEF Inv, TabInv, Senders
<1>3. Reading => UNCHANGED <<members, Edits, settled>>
  <2>1. ASSUME Reading PROVE UNCHANGED <<members, saving, alone, settled>>
    BY <2>1 DEF Reading, tables, categories
  <2> QED BY <2>1, QuietEdits
<1>4. CASE TabServed
  <2>1. PICK r \in Incoming : Serve(Tab, session, r) /\ saving[Tab] = Idle
    BY <1>4 DEF TabServed
  <2>2. WellFormed(r)
    BY <2>1, AskedFacts
  <2> QED BY <1>1, <1>2, <2>1, <2>2, ServingIsEditing
<1>5. CASE OtherServed
  <2>1. PICK x \in Elsewhere :
          /\ x.user \in users \cup {Nothing} /\ Serve(Other, x.user, x.request)
          /\ saving[Other] = Idle
    BY <1>5 DEF OtherServed
  <2>2. WellFormed(x.request)
    BY ElsewhereAssumption
  <2> QED BY <1>1, <1>2, <2>1, <2>2, ServingIsEditing
<1>6. CASE TabSaving \/ OtherSaving
  BY <1>1, <1>2, <1>6, SavingIsEditing DEF TabSaving, OtherSaving
<1>7. CASE Polled
  <2>1. UNCHANGED <<members, saving, alone, settled>>
    BY <1>7 DEF Polled, FeedPolled, categories
  <2> QED BY <1>1, <2>1, QuietEdits
<1>8. CASE SessionEnds \/ UNCHANGED vars
  BY <1>1, <1>3, <1>8 DEF SessionEnds, vars, Reading
<1> QED BY <1>4, <1>5, <1>6, <1>7, <1>8 DEF Next

\* However requests overlap and fail, saving the members of a category is replacing
\* labels as Labels describes it: every statement of setCategoryMembers is a step of
\* an edit, and no other statement touches members but the deletion of the category.
THEOREM SiteImplementsLabels == Spec => ImplementsLabels
<1>1. Init => CategoryEdits!Init
  <2> SUFFICES ASSUME Init PROVE CategoryEdits!Init
    OBVIOUS
  <2>1. members \in [Categories -> SUBSET Members] /\ settled = [c \in Categories |-> {}]
    BY BegunAssumption DEF Init
  <2>2. \A t \in Senders : saving[t].at = "idle"
    BY DEF Init, Idle
  <2>3. Edits = {}
    BY <2>2 DEF Edits
  <2> QED BY <2>1, <2>3 DEF CategoryEdits!Init
<1>2. Inv /\ [Next]_vars => [CategoryEdits!Next]_(CategoryEdits!vars)
  BY NextEdits
<1> QED BY <1>1, <1>2, SiteInvariant, PTL DEF Spec, ImplementsLabels, CategoryEdits!Spec

Promise ==
  INSTANCE LabelsProofs WITH
    Editors <- Senders, Objects <- Categories, Names <- Members, labels <- members,
    edits <- Edits

\* What a request that was alone has left (settled) is what the category has.
LoneSavingSticks == \A c \in Categories : \A S \in settled[c] : members[c] = S

\* A request that saved a category without another one on the category in between leaves
\* exactly the members it was given, until the category is saved again or deleted.
THEOREM LoneSavingsStick == Spec => []LoneSavingSticks
<1>1. Promise!Spec => []Promise!LoneEditSticks
  BY Promise!LoneEditsStick
<1>2. Promise!LoneEditSticks => LoneSavingSticks
  BY DEF Promise!LoneEditSticks, LoneSavingSticks
<1>3. CategoryEdits!Init => Promise!Init
  BY DEF CategoryEdits!Init, Promise!Init
<1>4. [CategoryEdits!Next]_(CategoryEdits!vars) => [Promise!Next]_(Promise!vars)
  BY DEF CategoryEdits!Next, CategoryEdits!vars, CategoryEdits!Forget, CategoryEdits!Clear,
         CategoryEdits!Idle, CategoryEdits!Disturb, CategoryEdits!Put, CategoryEdits!Less,
         CategoryEdits!Finish, CategoryEdits!Fail, Promise!Next, Promise!vars, Promise!Forget,
         Promise!Clear, Promise!Idle, Promise!Disturb, Promise!Put, Promise!Less,
         Promise!Finish, Promise!Fail
<1> QED
  BY <1>1, <1>2, <1>3, <1>4, SiteImplementsLabels, PTL
  DEF ImplementsLabels, CategoryEdits!Spec, Promise!Spec

=============================================================================
