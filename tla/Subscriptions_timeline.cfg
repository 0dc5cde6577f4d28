SPECIFICATION Spec
CONSTANTS
  ann = ann
  bob = bob
  f1 = f1
  f2 = f2
  g1 = g1
  g2 = g2
  Users = {ann, bob}
  Admins = {ann}
  Feeds = {f1, f2}
  Guids = {g1, g2}
  Dates = {1, 119, 120, 121}
  PerDay = 2
  Typed = {"go", "db", "?"}
  Names = {"go", "db"}
  Slug <- Slugs
  Categories <- CategoriesOf
  Calls <- Requests
  Subscribed <- Followed
  Stored <- Published
  Now = 120
  PageSize = 1
  FeedLimit = 2
  TieBreaks <- BothWays
  Slots = {1, 2}
  MaxEvents = 3
  NoCall = NoCall
  NoName = NoName
  Absent = Absent
  Undated = Undated
INVARIANTS
  ClearedStaysRead
  WalkShowsAll
  PagesGroupOnce
PROPERTIES
  ImplementsLabels
  BlockedKeptOut
CHECK_DEADLOCK FALSE
