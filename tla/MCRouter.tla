------------------------------- MODULE MCRouter -------------------------------
EXTENDS Router
===============================================================================
