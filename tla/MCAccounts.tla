----------------------------- MODULE MCAccounts -----------------------------
EXTENDS Accounts, TLC

MCPoints == [login |-> 2, resetCooldown |-> 1, otp |-> 1, otpPerDay |-> 3, identityProof |-> 2]

(* Which operations meet: those that create the account, change passwords, *)
(* end sessions while one is renewed, hide or show the account, issue and  *)
(* use codes.                                                              *)
MCMixes == {{"register", "login", "google"}, {"login", "google", "change"},
            {"google", "create", "change"}, {"change", "addEmail", "reset"},
            {"renew", "google", "change"}, {"renew", "deactivate", "delete"},
            {"login", "deactivate", "delete"}, {"google", "deactivate", "delete"},
            {"forgot", "verifyOtp", "reset"}, {"forgot", "delete"}}

Symmetry == Permutations(Requests) \cup Permutations(Sids)
=============================================================================
