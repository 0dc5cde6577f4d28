CONSTANTS
  ann = ann bob = bob b1 = b1 b2 = b2 b3 = b3 f1 = f1 f2 = f2
  i1 = i1 i2 = i2 i3 = i3 c1 = c1 c2 = c2 n1 = n1 n2 = n2
  go = go plain = plain raw = raw d1 = d1 d2 = d2 k1 = k1 k2 = k2
  code1 = code1 code2 = code2 p1 = p1 e1 = e1 e2 = e2 small = small large = large
  q1 = q1
  Nothing = Nothing Gone = Gone Password = Password Timeline = Timeline Tab = Tab Other = Other
  Users = {ann, bob}
  Urls = {b1, b2, b3}
  Feeds = {f1, f2}
  Items = {i1, i2, i3}
  Categories = {c1, c2}
  Names = {n1, n2}
  Tags = {go, plain, raw}
  Domains = {d1, d2}
  Keys = {k1, k2}
  Invites = {code1, code2}
  Patterns = {p1}
  Emails = {e1, e2}
  Prefs = {small, large}
  Queries = {q1}
  Slug <- Slugs
  Host <- Hosts
  PageTags <- TagsOfPages
  PageFeed <- FeedsOfPages
  FeedTags <- TagsOfFeeds
  FeedOf <- FeedsOfItems
  Newest <- NewestFirst
  Found <- FoundBy
  Matches <- Blocks
  Size <- Sizes
  Grouped <- Groups
  TimelineSize = 1
  FeedSize = 1
  MaxKeys = 1
  TagInputs <- TypedTags
  MemberInputs <- TypedMembers
  Begun <- Start
  Elsewhere <- Requests
  MaxChanges = 2
  MaxFaults = 1
SPECIFICATION Spec
INVARIANTS OffersHonoured LinkedPagesShow PatchedPageIsCurrent
PROPERTIES SavedUnchangedKeeps ImplementsLabels RedirectsEnd
