---------------------------- MODULE MCPublishing ----------------------------
(* Publishing for TLC: requests and webhooks are interchangeable.           *)
EXTENDS PublishingPromises, TLC

Alike == Permutations(Checkouts) \cup Permutations(Webhooks) \cup Permutations(Requests)
=============================================================================
