------------------------------ MODULE MCStopWait ------------------------------
EXTENDS StopWait

\* Every command, alone and after a LIST.
MCPlans == {<<c>> : c \in Command} \cup {<<"LIST", c>> : c \in Command}

MCNetworks == {{}, {"ackLost"}, {"ackLost", "early"}, {"delay"}}
===============================================================================
