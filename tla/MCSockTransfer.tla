---------------------------- MODULE MCSockTransfer ----------------------------
EXTENDS SockTransfer
===============================================================================
