------------------------------ MODULE MCPeople ------------------------------
EXTENDS People, TLC

(* Which operations meet: those on blocks and follows and their copies,    *)
(* those on a profile and its picture, reports.                            *)
MCMixes == {{"block", "unblock", "follow", "readBlocks"}, {"block", "follow", "readFollowing"},
            {"follow", "unfollow", "readFollowing"},
            {"updateProfile", "visibilityChanged", "readProfile"},
            {"useUpload", "removeAvatar"}, {"useGooglePhoto", "googleSignIn", "readProfile"},
            {"useGooglePhoto", "googleSignIn", "useUpload"},
            {"useUpload", "erase"}, {"report", "review"}}

Symmetry == Permutations(Users) \cup Permutations(Requests) \cup Permutations(Pictures)
              \cup Permutations(Names)
=============================================================================
