--------------------------- MODULE MCNotification ---------------------------
EXTENDS Notification, TLC

CONSTANTS a, b, sa, sb, t1, t2, t3

MCAccountOf == (sa :> a) @@ (sb :> b)

(* Which operations meet.                                                  *)
MCMixes == {{"register", "signOut"}, {"register", "unregister"}, {"once", "promotion"}, {"unregister", "promotion"},
            {"switch", "promotion"}, {"unregister", "call"}, {"once", "call"}, {"once", "signIn"}}

Row1(i, u, s) == [id |-> i, user |-> u, session |-> s]

(* One of a's devices registered before sessions; any id is the free one.  *)
MCFirstRows ==
    {(t1 :> Row1(1, a, sa)) @@ (t2 :> Row1(2, a, Nil)) @@ (t3 :> Row1(3, b, sb)),
     (t1 :> Row1(3, a, sa)) @@ (t2 :> Row1(2, a, Nil)) @@ (t3 :> Nil)}

Symmetry == Permutations(Requests) \cup Permutations(Runs) \cup Permutations(Instances)
=============================================================================
