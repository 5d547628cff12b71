---------------------------- MODULE MCSnowflake ----------------------------
(***************************************************************************)
(* Two threads share a generator with two ids per millisecond over five    *)
(* milliseconds: the sequence wraps, a caller waits while the other is     *)
(* kept out, and the clock skips milliseconds.                             *)
(***************************************************************************)
EXTENDS Snowflake

CONSTANTS t1, t2, noThread

MCThreads == {t1, t2}
=============================================================================
