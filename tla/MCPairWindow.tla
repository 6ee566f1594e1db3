----------------------------- MODULE MCPairWindow -----------------------------
EXTENDS PairWindow

\* Every command, alone and after a LIST.
MCPlans == {<<c>> : c \in Command} \cup {<<"LIST", c>> : c \in Command}

\* Missing, plain, of a length that is a multiple of 260, not deletable.
File(e, x, d) == [exists |-> e, extra |-> x, deletable |-> d]
MCFiles == {File(FALSE, FALSE, FALSE), File(TRUE, FALSE, TRUE), File(TRUE, TRUE, TRUE),
            File(TRUE, FALSE, FALSE)}

MCNetworks == {{}, {"lost"}, {"lost", "ackLost"}, {"helloLost"}}

\* A slow router and an early timeout meet one short command.
MCScenarios ==
  [plan : MCPlans, file : MCFiles, network : MCNetworks]
    \cup [plan : {<<"DEL">>}, file : {File(TRUE, FALSE, TRUE)}, network : {{"delay"}, {"early"}}]

\* For the violation: what is wrong without any fault.
MCReliable == [plan : MCPlans, file : MCFiles, network : {{}}]
===============================================================================
