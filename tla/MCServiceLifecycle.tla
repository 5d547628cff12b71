------------------------- MODULE MCServiceLifecycle -------------------------
(* Model checking of ServiceLifecycle on small instances. *)
EXTENDS ServiceLifecycle

CONSTANTS h1, h2, w1, w2

AnyCause == {"environment", "listen", "control event", "sigint"}
Setting(threads, early) == [hubThreads |-> threads, early |-> early]

\* One hub thread with stops at any time, two with a calm start.
BothSettings == {Setting({h1}, AnyCause), Setting({h1, h2}, {})}
=============================================================================
