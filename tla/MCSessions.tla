----------------------------- MODULE MCSessions -----------------------------
(* Sessions for TLC.  Ids are drawn at random and requests are alike, so    *)
(* they are interchangeable, except the ids of legacy tokens.               *)
EXTENDS Sessions, TLC

Interchangeable ==
    Permutations(SessionIds) \cup Permutations(Requests)
        \cup Permutations(Jtis \ LegacyTokens)
=============================================================================
