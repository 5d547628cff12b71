--------------------------- MODULE FramedChannel ---------------------------
(***************************************************************************)
(* What one connection promises to the senders of packages: the packages   *)
(* reach the peer one at a time, each of them whole and at most once,      *)
(* until the connection breaks.                                            *)
(***************************************************************************)
EXTENDS Naturals, Sequences, SequencesExt

CONSTANTS
    Packages,
    Units       \* per package: the units of its frame, the length included

VARIABLES
    offered,   \* packages handed to the connection
    done,      \* packages transmitted, in order
    open,      \* the package whose frame has begun and not ended, or None
    at,        \* units of the open frame transmitted so far
    up         \* is the connection alive?

vars == <<offered, done, open, at, up>>

None == "none"

Init == offered = {} /\ done = <<>> /\ open = None /\ at = 0 /\ up = TRUE

Offer(p) ==
    /\ up /\ p \notin offered
    /\ offered' = offered \cup {p}
    /\ UNCHANGED <<done, open, at, up>>

Fresh(p) == p \in offered /\ p \notin ToSet(done)

\* A frame of which only the first n units fit.
Begin(p, n) ==
    /\ up /\ open = None /\ Fresh(p) /\ n \in 1..(Units[p] - 1)
    /\ open' = p /\ at' = n
    /\ UNCHANGED <<offered, done, up>>

Continue(n) ==
    /\ up /\ open # None /\ n \in (at + 1)..(Units[open] - 1)
    /\ at' = n
    /\ UNCHANGED <<offered, done, open, up>>

\* A frame that ends: the open one, or a new one that fits as a whole.
Finish(p) ==
    /\ up /\ open \in {p, None} /\ Fresh(p)
    /\ done' = Append(done, p) /\ open' = None /\ at' = 0
    /\ UNCHANGED <<offered, up>>

Break == up /\ up' = FALSE /\ UNCHANGED <<offered, done, open, at>>

Next ==
    \/ \E p \in Packages : Offer(p) \/ Finish(p)
    \/ \E p \in Packages : \E n \in 1..Units[p] : Begin(p, n)
    \/ open # None /\ \E n \in 1..Units[open] : Continue(n)
    \/ Break

Spec == Init /\ [][Next]_vars
=============================================================================
