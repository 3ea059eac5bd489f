------------------------------- MODULE MCCalls -------------------------------
(* Three people, one of whom may have two phones, and two calls that need   *)
(* the same person.                                                         *)
EXTENDS Calls, TLC

CONSTANTS ann, bob, cat, annsPhone, bobsPhone, bobsTablet, catsPhone, first, second

OwnerOfPhone == [s \in Sockets |-> CASE s = annsPhone -> ann [] s = catsPhone -> cat [] OTHER -> bob]

(* Ann calls Bob and Cat.                                                   *)
AnnCallsBoth == [i \in CallIds |-> ann]
BobAndCat == [i \in CallIds |-> IF i = first THEN bob ELSE cat]

Alike == Permutations(Handlers)
=============================================================================
