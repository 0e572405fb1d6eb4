---------------------------- MODULE MCCallLists ------------------------------
EXTENDS CallLists
=============================================================================
