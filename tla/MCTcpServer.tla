----------------------------- MODULE MCTcpServer -----------------------------
EXTENDS TcpServer

CONSTANTS Ann, Bob

MCClients == {Ann, Bob}

(* Any two choices by one user, or one choice each by two.  GET and DELETE *)
(* begin with LIST, and it does not matter who chooses which; left out are *)
(* pairs in which no file is removed and the two threads differ.           *)
MCPairs == {<<"GET", "DELETE">>, <<"PUT", "PUT">>,
            <<"PUT", "DELETE">>, <<"DELETE", "DELETE">>}

MCPlans ==
  {[c \in MCClients |-> IF c = Ann THEN <<a, b>> ELSE <<>>] : a, b \in Choice}
    \cup {[c \in MCClients |-> <<IF c = Ann THEN p[1] ELSE p[2]>>] : p \in MCPairs}

\* One user, one choice.
MCSingle == {[c \in MCClients |-> IF c = Ann THEN <<a>> ELSE <<>>] : a \in Choice}
===============================================================================
