------------------------------- MODULE MCSearch -------------------------------
EXTENDS Search

CONSTANTS i1, i2, market, school

(* What meets.                                                             *)
MCMixes == {{"publish", "rebuild", "empty"}, {"edit", "rebuild", "both"}, {"hide", "rebuild"},
            {"hide", "both", "once", "rebuild"}, {"edit", "rebuild", "down"},
            {"publish", "rebuild", "down", "once"}, {"edit", "rebuild", "crash"},
            {"publish", "two", "rebuild", "once"}, {"hide", "publish", "find", "crash"},
            {"nearby"}, {"history"}}

MCRunning == [m \in MCMixes |-> IF "two" \in m THEN {i1, i2} ELSE {i1}]
MCFirstActive ==
    [m \in MCMixes |-> IF "both" \in m THEN {{1, 2}} ELSE IF "publish" \in m THEN {{}, {1}} ELSE {{1}}]

MCAround == {<<market, 1>>, <<school, 1>>, <<market, 2>>}

=============================================================================
