------------------------------- MODULE MCWebsite -------------------------------
EXTENDS Website

CONSTANTS ann, bob, b1, b2, b3, f1, f2, i1, i2, i3, c1, c2, n1, n2, go, plain, raw,
          d1, d2, k1, k2, code1, code2, p1, e1, e2, small, large, q1

Slugs == [t \in Tags |-> IF t = raw THEN plain ELSE t]
Hosts == [b \in Urls |-> IF b = b3 THEN d2 ELSE d1]
TagsOfPages == [b \in Urls |-> IF b = b2 THEN {raw} ELSE {go}]
FeedsOfPages == [b \in Urls |-> IF b = b1 THEN f2 ELSE Nothing]
TagsOfFeeds == [f \in Feeds |-> {raw}]
FeedsOfItems == [i \in Items |-> IF i = i3 THEN f2 ELSE f1]
NewestFirst == <<i1, i3, i2>>
FoundBy == [q \in Queries |-> {b1, f1}]
Blocks == [p \in Patterns |-> {b2, f2}]
Sizes == [p \in Prefs |-> IF p = small THEN 1 ELSE 2]
Groups == [p \in Prefs |-> p = small]

TypedTags == {{}, {raw}}
TypedMembers == {{}, {raw, d1}}

Start ==
  [users |-> {ann}, admins |-> {ann},
   emails |-> [u \in Users |-> IF u = ann THEN e1 ELSE Nothing],
   prefs |-> [u \in Users |-> small],
   invites |-> [c \in Invites |-> IF c = code1 THEN "open" ELSE "none"],
   api_keys |-> [k \in Keys |-> Nothing],
   library |-> [u \in Users |-> IF u = ann THEN <<b1, b3>> ELSE <<>>],
   url_tags |-> [m \in Users \X Urls |-> IF m = <<ann, b1>> THEN {go} ELSE {}],
   owner |-> [c \in Categories |-> IF c = c1 THEN ann ELSE Nothing],
   cat_name |-> [c \in Categories |-> n1],
   members |-> [c \in Categories |-> IF c = c1 THEN {go, d2} ELSE {}],
   subs |-> [u \in Users |-> IF u = ann THEN {f1} ELSE {}],
   feed_tags |-> [m \in Users \X Feeds |-> {}],
   items |-> {i1, i3}]

From(u, r) == [user |-> u, request |-> r]

Requests ==
  {From(ann, Link("DELETE:/url/:id", b1)), From(ann, Request("POST:/api/urls", b2, {raw})),
   From(ann, Request("PUT:/category/:id", c1, {n2, go})),
   From(ann, Link("DELETE:/category/:id", c1))}

=============================================================================
