---------------------------- MODULE MCFileCenter ----------------------------
(* Instance of FileCenter for TLC: a file of two ranges, two threads, and   *)
(* requests enough to send a range or the end of the upload again.          *)
EXTENDS FileCenter
=============================================================================
