--------------------------- MODULE MCCallPromises ---------------------------
(* The calls of MCCalls, with the memory of what the phones were sent.      *)
EXTENDS MCCalls, CallPromises
=============================================================================
