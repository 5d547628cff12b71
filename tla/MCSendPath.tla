----------------------------- MODULE MCSendPath -----------------------------
(* Instances of SendPath for TLC: an urgent package and two less urgent     *)
(* ones of one priority, of which one is longer than the socket buffer. The *)
(* threads of a kind are interchangeable, in the properties too.            *)
EXTENDS SendPath

MCPackages == {"a", "b", "c"}
MCPriority == [p \in MCPackages |-> IF p = "a" THEN 0 ELSE 1]
MCUnits == [p \in MCPackages |-> CASE p = "a" -> 4 [] p = "b" -> 2 [] p = "c" -> 6]
MCBoth == BOOLEAN
MCSymmetry == Permutations(Senders) \cup Permutations(Epolls)
=============================================================================
