----------------------------- MODULE MCSyncCall -----------------------------
(* Instance of SyncCall for TLC: two threads that make three calls.         *)
EXTENDS SyncCall
=============================================================================
