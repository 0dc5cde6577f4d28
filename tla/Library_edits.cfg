SPECIFICATION Spec
CONSTANTS
  ann = ann
  bob = bob
  b1 = b1
  b2 = b2
  b3 = b3
  p1 = p1
  Empty = Empty
  Users = {ann, bob}
  Admins = {ann}
  Urls = {b1, b2, b3}
  Typed = {"go", "Go", "db", "?"}
  Names = {"go", "db"}
  Slug <- Slugs
  HostTags <- TagsOfHosts
  MetaTags <- TagsOfPages
  PageFeeds = {b1}
  Patterns = {p1}
  Matches <- MatchedUrls
  Calls <- Requests
  Kept <- Bookmarked
  KeptTags <- Tagged
  PageSize = 1
  Slots = {1, 2}
  MaxRequests = 2
  MaxBlocks = 1
  MaxFaults = 1
  NoCall = NoCall
  NoName = NoName
INVARIANTS
  WalkShowsAll
PROPERTIES
  ImplementsLabels
  BlockedKeptOut
CHECK_DEADLOCK FALSE
