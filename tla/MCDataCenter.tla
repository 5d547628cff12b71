---------------------------- MODULE MCDataCenter ----------------------------
(* Instance of DataCenter for TLC: two scripts, two threads of the data     *)
(* center, two databases and a restart.                                     *)
EXTENDS DataCenter, TLC

MCSymmetry == Permutations(Scripts) \cup Permutations(Threads) \cup Permutations(Databases)
=============================================================================
