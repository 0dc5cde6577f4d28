------------------------------ MODULE MCFetchers -----------------------------
(***************************************************************************)
(* Fetchers for TLC, and the figures of the two workers: the longest batch *)
(* of each fits into its claim.                                            *)
(***************************************************************************)
EXTENDS Fetchers

\* ceil(items / slots) * timeout, in seconds
Longest(items, slots, timeout) == ((items + slots - 1) \div slots) * timeout

\* For each URL up to 10 s for Hacker News, 15 s for Reddit, and 10 s for one
\* renewal of the token that got ahead of the wait for the mutex.
ASSUME FeedPollFits == Longest(200, 5, 20) < 15 * 60
ASSUME DiscussFits  == Longest(500, 10, 10 + 15 + 10) < 30 * 60

\* The instance is one the theorems about Fetchers speak of.
ASSUME InstanceFits == FetchesFit /\ MarginCovers

=============================================================================
