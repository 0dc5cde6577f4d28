---------------------------- MODULE MCSubscriptions ---------------------------
(***************************************************************************)
(* Subscriptions for TLC: an administrator and another user, two feeds     *)
(* with two items each, and a timeline that reaches back two months.       *)
(***************************************************************************)
EXTENDS Subscriptions

CONSTANTS ann, bob, f1, f2, g1, g2

Slugs == [n \in Typed |-> CASE n = "go" -> "go" [] n = "db" -> "db" [] OTHER -> NoName]

CategoriesOf == [f \in Feeds |-> IF f = f1 THEN {"db"} ELSE {"?"}]

Followed == {<<bob, f1>>, <<bob, f2>>}

\* Day 60 is the day of the beginning; two instants make a day.
Published ==
  [i \in Items |-> CASE i = <<f1, g1>> -> 1 [] i = <<f1, g2>> -> Undated
                     [] i = <<f2, g1>> -> 119 [] OTHER -> Absent]

\* Both orders of the rows of one date, for any two rows.
Numbered == [i \in Items |-> CASE i = <<f1, g1>> -> 1 [] i = <<f1, g2>> -> 2
                               [] i = <<f2, g1>> -> 3 [] OTHER -> 4]
BothWays == {Numbered, [i \in Items |-> 5 - Numbered[i]]}

Request(via, u, f, tags) == [via |-> via, user |-> u, feed |-> f, tags |-> tags]

Requests ==
  {Request("subscribe", bob, f1, {"go", "?"}), Request("subscribe", ann, f2, {}),
   Request("subscribe", bob, f1, {}), Request("subscribe", bob, f2, {"db"}),
   Request("update", bob, f1, {"go", "db"}), Request("update", bob, f1, {"?"}),
   Request("unsubscribe", bob, f1, {})}

=============================================================================
