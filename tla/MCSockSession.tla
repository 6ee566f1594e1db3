----------------------------- MODULE MCSockSession -----------------------------
EXTENDS SockSession

\* One request; one more by the same client, and by a restarted one.
MCOne  == {<<"get">>, <<"put">>}
MCQuit == {<<"get", "get">>, <<"get", "quit", "get">>}
MCMore == {<<"put", "get">>, <<"put", "put">>, <<"put", "quit", "get">>}

MCNetworks == {{}, {"lost"}, {"ackLost"}, {"lost", "ackLost"}, {"delay"}, {"ackLost", "delay"}}

Plain(cmds, k)  == [typed : cmds, exists : {TRUE}, extra : {FALSE}, wild : {FALSE},
                        network : MCNetworks, faults : {k}]
Absent(cmds, k) == [typed : cmds, exists : {FALSE}, extra : {FALSE}, wild : {FALSE},
                        network : MCNetworks, faults : {k}]
Extra(cmds, k)  == [typed : cmds, exists : {TRUE}, extra : {TRUE}, wild : {FALSE},
                        network : MCNetworks, faults : {k}]
Wild(cmds, k)   == [typed : cmds, exists : {TRUE}, extra : {FALSE}, wild : {TRUE},
                        network : {{"lost"}}, faults : {k}]

MCScenarios == Plain(MCOne, 3) \cup Plain(MCMore, 2) \cup Absent(MCOne \cup MCQuit, 2) \cup Extra(MCOne, 1)
                 \cup Wild(MCOne, 2)

\* For the violation: what is wrong without any fault.
MCReliable == [typed : MCMore, exists : {TRUE}, extra : {FALSE}, wild : {FALSE}, network : {{}},
               faults : {0}]

MCLinger == [client |-> 3, server |-> 10]
===============================================================================
