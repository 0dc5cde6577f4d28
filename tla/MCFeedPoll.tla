------------------------------ MODULE MCFeedPoll -----------------------------
(***************************************************************************)
(* FeedPoll for TLC.  Time is counted in half hours: a pause of two.       *)
(***************************************************************************)
EXTENDS FeedPoll, TLC

CONSTANTS f1, f2, g1, w1, w2

FeedSymmetry == Permutations(Feeds)

=============================================================================
