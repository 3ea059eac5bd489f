------------------------------- MODULE MCChat -------------------------------
EXTENDS Chat, TLC

(* Which operations meet.                                                  *)
MCMixes == {{"send", "edit", "delete"}, {"send", "reply", "delete"}, {"send", "delete", "clear"},
            {"send", "file", "delete"}, {"send", "file", "deleteAll"}, {"send", "file", "clear"},
            {"send", "archive", "unarchive", "read"}, {"send", "block"}, {"file", "send", "erase"},
            {"keys"}, {"send", "keys"}, {"presence"}}

MCPairOf == [m \in Messages |-> Users]

Symmetry == Permutations(Requests) \cup Permutations(Messages)
=============================================================================
