----------------------------- MODULE MCFeedQueue -----------------------------
(* Instances of FeedQueue for TLC. *)
EXTENDS FeedQueue

(* The last item belongs to a second feed, which shares the queue. *)
TwoFeeds == [i \in Items |-> IF i = 7 THEN "news" ELSE "alerts"]
=============================================================================
