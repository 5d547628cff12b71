----------------------------- MODULE Snowflake -----------------------------
(***************************************************************************)
(* The identifier generator of the core library (snowflake.h).  One       *)
(* generator per process, shared by every thread of the process: package   *)
(* serials, event serials and, in the Manager, the uuid of every worker    *)
(* come from nextid().                                                     *)
(*                                                                         *)
(* A step of nextid() that does not wait is one action, because the code   *)
(* runs it under lock_ and the only input it reads, the steady clock, is   *)
(* read once.  A thread that exhausts the sequence keeps lock_ while it    *)
(* spins in wait_next_millis, so that wait is a state of its own.          *)
(***************************************************************************)
EXTENDS Integers, Sequences

CONSTANTS
    Threads,        \* the threads that call nextid()
    NoThread,       \* lock_ is free
    SequenceMask,   \* SEQUENCE_MASK, the largest sequence number of a millisecond
    Twepoch,        \* TWEPOCH, the epoch ids count from
    StartMillis,    \* start_millsecond_, the clock when the process starts
    MaxMillis,      \* bound of the model: the clock stops here
    MaxIds          \* bound of the model: ids handed out

ASSUME SnowflakeAssumption ==
    /\ NoThread \notin Threads
    /\ SequenceMask \in Nat
    /\ Twepoch \in Nat
    /\ StartMillis \in Nat
    /\ MaxMillis \in Nat
    /\ MaxIds \in Nat
    /\ 0 < StartMillis /\ Twepoch <= StartMillis /\ StartMillis <= MaxMillis

VARIABLES
    clock,           \* what millsecond() reads
    last_timestamp,  \* last_timestamp_
    sequence,        \* sequence_
    lock,            \* the thread that holds lock_ across a wait, or NoThread
    issued           \* history: the ids returned, in the order of the returns

generatorVars == <<clock, last_timestamp, sequence, lock, issued>>

\* The initial last_timestamp_, (uint64_t)-1: the only use of it, an equality
\* with the clock, is false.
Never == -1

SequenceSize == SequenceMask + 1

\* The id: datacenterid_ and workerid_ are 0 in every process (nothing calls
\* init), so the bits below the timestamp are the sequence number alone.
Id(timestamp, seq) == (timestamp - Twepoch) * SequenceSize + seq

GeneratorInit ==
    /\ clock = StartMillis
    /\ last_timestamp = Never
    /\ sequence = 0
    /\ lock = NoThread
    /\ issued = <<>>

\* std::chrono::steady_clock: never decreases, may skip milliseconds.
Tick ==
    /\ \E now \in clock + 1 .. MaxMillis : clock' = now
    /\ UNCHANGED <<last_timestamp, sequence, lock, issued>>

\* The tail of nextid(): remember the timestamp and return the id.
ReturnId(timestamp, seq) ==
    /\ last_timestamp' = timestamp
    /\ sequence' = seq
    /\ issued' = Append(issued, Id(timestamp, seq))
    /\ lock' = NoThread
    /\ UNCHANGED clock

NextSequence == (sequence + 1) % SequenceSize

\* A call in a millisecond later than the last one: the sequence restarts.
NextIdNewMillis(t) ==
    /\ lock = NoThread /\ Len(issued) < MaxIds
    /\ last_timestamp # clock
    /\ ReturnId(clock, 0)

\* A call in the millisecond of the last one, with sequence numbers left.
NextIdSameMillis(t) ==
    /\ lock = NoThread /\ Len(issued) < MaxIds
    /\ last_timestamp = clock
    /\ NextSequence # 0
    /\ ReturnId(clock, NextSequence)

NextIdExhausted_NoReset(t) ==
    /\ lock = NoThread /\ Len(issued) < MaxIds
    /\ last_timestamp = clock
    /\ NextSequence = 0
    /\ lock' = t
    /\ UNCHANGED <<clock, last_timestamp, sequence, issued>>

\* A call that exhausts the millisecond: it enters wait_next_millis with
\* sequence_ already reset and lock_ held.
NextIdExhausted(t) ==
    /\ lock = NoThread /\ Len(issued) < MaxIds
    /\ last_timestamp = clock
    /\ NextSequence = 0
    /\ sequence' = 0
    /\ lock' = t
    /\ UNCHANGED <<clock, last_timestamp, issued>>

WaitNextMillis_NotPassed(t) ==
    /\ lock = t
    /\ clock >= last_timestamp
    /\ ReturnId(clock, sequence)

WaitNextMillis_Borrow(t) ==
    /\ lock = t
    /\ ReturnId(last_timestamp + 1, sequence)

WaitNextMillis_StaleClock(t) ==
    /\ lock = t
    /\ last_timestamp > last_timestamp
    /\ ReturnId(clock, sequence)

\* wait_next_millis reads the clock again until it has passed the last one.
WaitNextMillis(t) ==
    /\ lock = t
    /\ clock > last_timestamp
    /\ ReturnId(clock, sequence)

nextid(t) == NextIdNewMillis(t) \/ NextIdSameMillis(t) \/ NextIdExhausted(t)

GeneratorNext == Tick \/ \E t \in Threads : nextid(t) \/ WaitNextMillis(t)

GeneratorSpec == GeneratorInit /\ [][GeneratorNext]_generatorVars

\* The clock of a running machine advances, and the spinning thread is scheduled.
GeneratorFairSpec == GeneratorSpec /\ WF_generatorVars(Tick)
                     /\ \A t \in Threads : WF_generatorVars(WaitNextMillis(t))

----------------------------------------------------------------------------
GeneratorTypeOK ==
    /\ clock \in StartMillis .. MaxMillis
    /\ last_timestamp \in {Never} \cup StartMillis .. clock
    /\ sequence \in 0 .. SequenceMask
    /\ lock \in Threads \cup {NoThread}
    /\ issued \in Seq(Int)

\* Every id is larger than every id returned before it, whichever threads
\* asked: nextid() must not repeat or go back when a millisecond is exhausted.
IdsStrictlyIncrease ==
    \A i, j \in 1 .. Len(issued) : i < j => issued[i] < issued[j]

\* Ids never run ahead of the clock: an id issued now is smaller than every id
\* of a later millisecond, which is why a waiting caller must take the clock's
\* time and not last_timestamp_ + 1.
IdsNotFromTheFuture ==
    \A i \in 1 .. Len(issued) : issued[i] < Id(clock + 1, 0)

\* A caller that exhausted its millisecond returns as soon as time goes on; the
\* bound of the clock is excluded, where the model stops time.
WaitEnds ==
    \A t \in Threads : (lock = t /\ clock < MaxMillis) ~> (lock = NoThread)

\* What the two invariants rest on: while a caller waits, everything issued
\* belongs to the exhausted millisecond or an earlier one; otherwise nothing
\* is above the id the generator remembers.
GeneratorInv ==
    /\ GeneratorTypeOK
    /\ IdsStrictlyIncrease
    /\ \A i \in 1 .. Len(issued) :
          /\ issued[i] < Id(last_timestamp + 1, 0)
          /\ lock = NoThread => issued[i] <= Id(last_timestamp, sequence)
    /\ issued # <<>> => last_timestamp # Never
    /\ lock # NoThread => sequence = 0

=============================================================================
