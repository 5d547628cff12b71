--------------------------- MODULE MCReceivePath ---------------------------
(* Instances of ReceivePath for TLC: three frames of which the second is    *)
(* urgent, with length data of two units.                                   *)
EXTENDS ReceivePath, TLC

MCEndOf == [i \in 0 .. 3 |-> CASE i = 0 -> 0 [] i = 1 -> 3 [] i = 2 -> 7 [] i = 3 -> 10]
MCPriority == <<1, 0, 1>>
MCCuts == {3, 4, 5, 6, 7, 10}
MCSymmetry == Permutations(Epolls) \cup Permutations(Processes)
=============================================================================
