--------------------------- MODULE SendPathProofs ---------------------------
(***************************************************************************)
(* The properties of SendPath, for every number of threads and packages,   *)
(* any priorities, frame lengths and buffer, and whatever the peer and the *)
(* control hub do.  What is about the queues holds without a condition.    *)
(* What is about the stream holds as long as no write stops right behind   *)
(* the length data (LengthNotAlone): EasyConnect.cpp:225 begins such a     *)
(* frame again.  It never does in a buffer that is freed in units the      *)
(* length data does not fill (Aligned).                                    *)
(***************************************************************************)
EXTENDS SendPath, FiniteSetTheorems, WellFoundedInduction, TLAPS

SenderRecords == [pc : SenderPcs, pkg : Packages \cup {None}]

-----------------------------------------------------------------------------
(* Sequences as sets. *)

LEMMA EmptySet == ToSet(<<>>) = {}
BY DEF ToSet

LEMMA AppendSet ==
    ASSUME NEW S, NEW q \in Seq(S), NEW x \in S
    PROVE  /\ Append(q, x) \in Seq(S)
           /\ ToSet(Append(q, x)) = ToSet(q) \cup {x}
<1>1. /\ Append(q, x) \in Seq(S) /\ Len(q) \in Nat
      /\ DOMAIN Append(q, x) = 1..(Len(q) + 1) /\ DOMAIN q = 1..Len(q)
      /\ \A i \in 1..Len(q) : Append(q, x)[i] = q[i]
      /\ Append(q, x)[Len(q) + 1] = x
    OBVIOUS
<1>2. \A i \in DOMAIN Append(q, x) : Append(q, x)[i] \in ToSet(q) \cup {x}
    BY <1>1 DEF ToSet
<1>3. x \in ToSet(Append(q, x))
    BY <1>1 DEF ToSet
<1>4. \A i \in 1..Len(q) : q[i] \in ToSet(Append(q, x))
    BY <1>1 DEF ToSet
<1> QED BY <1>1, <1>2, <1>3, <1>4 DEF ToSet

LEMMA TailSet ==
    ASSUME NEW S, NEW q \in Seq(S), q # <<>>
    PROVE  /\ Tail(q) \in Seq(S) /\ Head(q) \in S
           /\ Head(q) \in ToSet(q) /\ ToSet(Tail(q)) \subseteq ToSet(q)
           /\ Len(Tail(q)) = Len(q) - 1 /\ Len(q) \in Nat
           /\ \A i \in 1..Len(Tail(q)) : Tail(q)[i] = q[i + 1]
<1>1. /\ Tail(q) \in Seq(S) /\ Len(Tail(q)) = Len(q) - 1 /\ Len(q) \in Nat /\ Len(q) >= 1
      /\ \A i \in 1..Len(Tail(q)) : Tail(q)[i] = q[i + 1]
      /\ Head(q) = q[1] /\ DOMAIN q = 1..Len(q) /\ DOMAIN Tail(q) = 1..Len(Tail(q))
    OBVIOUS
<1>2. Head(q) \in ToSet(q)
    BY <1>1 DEF ToSet
<1>3. ToSet(Tail(q)) \subseteq ToSet(q)
    BY <1>1 DEF ToSet
<1> QED BY <1>1, <1>2, <1>3

LEMMA SetOfPackages ==
    ASSUME NEW S, NEW q \in Seq(S)
    PROVE  ToSet(q) \subseteq S
BY DEF ToSet

-----------------------------------------------------------------------------
(* What the steps do to the threads. *)

LEMMA SenderAtMoves ==
    ASSUME TypeOK, NEW s \in Senders, NEW pc \in SenderPcs, SenderAt(s, pc)
    PROVE  /\ sender' \in [Senders -> SenderRecords]
           /\ sender'[s].pc = pc /\ sender'[s].pkg = sender[s].pkg
           /\ \A t \in Senders : t # s => sender'[t] = sender[t]
<1>1. sender[s] \in SenderRecords
    BY DEF TypeOK, SenderRecords
<1>2. [sender[s] EXCEPT !.pc = pc] \in SenderRecords
    BY <1>1 DEF SenderRecords
<1>3. sender' = [sender EXCEPT ![s] = [sender[s] EXCEPT !.pc = pc]]
    BY DEF SenderAt
<1>4. sender' \in [Senders -> SenderRecords]
    BY <1>2, <1>3 DEF TypeOK, SenderRecords
<1> QED BY <1>1, <1>3, <1>4 DEF TypeOK, SenderRecords

LEMMA SenderDoneMoves ==
    ASSUME TypeOK, NEW s \in Senders, SenderDone(s)
    PROVE  /\ sender' \in [Senders -> SenderRecords]
           /\ sender'[s].pc = "idle"
           /\ \A t \in Senders : t # s => sender'[t] = sender[t]
<1>1. [pc |-> "idle", pkg |-> None] \in SenderRecords
    BY DEF SenderRecords, SenderPcs
<1> QED BY <1>1 DEF TypeOK, SenderDone, SenderRecords

\* A write keeps the buffer within its bounds, and what is half sent is not all sent.
LEMMA SendPackageTypes ==
    ASSUME TypeOK, HalfSent, NEW p \in Packages \cup {None}, NEW result \in Results,
           p = None => cur # None, SendPackage(p, result)
    PROVE  /\ cur' \in Packages \cup {None} /\ sent' \in Nat
           /\ wire' \in Seq(Packages \X (Nat \ {0})) /\ ends' \in Seq(Nat)
           /\ room' \in 0..BufferUnits /\ closed' \in BOOLEAN
           /\ IF cur' = None THEN sent' = 0 ELSE HeaderUnits + sent' < Units[cur']
<1>1. CASE Refused(p)
    BY <1>1 DEF SendPackage, TypeOK, HalfSent, connVars
<1>2. CASE ~Refused(p) /\ WriteFails(IF p = None THEN cur ELSE p, result)
  <2>1. UNCHANGED <<sent, wire, ends, room>> /\ closed' = TRUE
      BY <1>2 DEF WriteFails
  <2>2. /\ cur' \in Packages /\ None \notin Packages
        /\ cur' = cur \/ (cur = None /\ HeaderUnits < Units[cur'])
      BY <1>2, PackagesAssumption DEF WriteFails, Refused, TypeOK, None
  <2>3. HeaderUnits + sent' < Units[cur']
      BY <2>1, <2>2, SizesAssumption DEF HalfSent
  <2> QED BY <2>1, <2>2, <2>3 DEF TypeOK
<1>3. CASE ~Refused(p) /\ WriteSome(IF p = None THEN cur ELSE p, result)
  <2> DEFINE q == IF p = None THEN cur ELSE p
             n == Written(q)
             end == Position + n
  <2>1. q \in Packages /\ (cur = q \/ cur = None) /\ None \notin Packages
      BY <1>3, PackagesAssumption DEF Refused, TypeOK, None
  <2>2. Units[q] \in Nat /\ Units[q] > HeaderUnits /\ HeaderUnits \in Nat /\ HeaderUnits > 0
      BY <2>1, PackagesAssumption, SizesAssumption
  <2>3. Position \in Nat /\ Position < Units[q] /\ (Position > 0 => Position > HeaderUnits)
        /\ (Position = 0 => sent = 0) /\ sent \in Nat
      BY <2>1, <2>2 DEF Position, HalfSent, TypeOK
  <2>4. room \in Nat /\ room <= BufferUnits /\ BufferUnits \in Nat
      BY SizesAssumption DEF TypeOK
  <2>5. n \in Nat /\ n <= room /\ n <= Units[q] - Position
    <3> DEFINE M == {room, Units[q] - Position}
    <3>1. \E x \in M : \A y \in M : x <= y
      <4>1. CASE room <= Units[q] - Position BY <4>1, <2>2, <2>3, <2>4
      <4>2. CASE Units[q] - Position <= room BY <4>2, <2>2, <2>3, <2>4
      <4> QED BY <4>1, <4>2, <2>2, <2>3, <2>4
    <3>2. n = CHOOSE x \in M : \A y \in M : x <= y
        BY DEF Written, Min
    <3>3. n \in M /\ \A y \in M : n <= y
        BY <3>1, <3>2
    <3> QED BY <3>3, <2>2, <2>3, <2>4
  <2>6. end \in Nat /\ end <= Units[q]
      BY <2>2, <2>3, <2>5
  <2>7. /\ wire' = wire \o Part(q, Position, end) /\ room' = room - n
        /\ \/ end < HeaderUnits /\ cur' = q /\ closed' = TRUE /\ sent' = sent /\ ends' = ends
           \/ end \in HeaderUnits..(Units[q] - 1) /\ cur' = q /\ sent' = end - HeaderUnits
              /\ closed' = closed /\ ends' = ends
           \/ end = Units[q] /\ cur' = None /\ sent' = 0 /\ closed' = closed
              /\ ends' = Append(ends, Len(wire'))
      BY <1>3 DEF WriteSome
  <2>8. Part(q, Position, end) \in Seq(Packages \X (Nat \ {0}))
    <3>1. end - Position \in Nat
        BY <2>3, <2>5
    <3>2. \A i \in 1..(end - Position) : <<q, Position + i>> \in Packages \X (Nat \ {0})
        BY <2>1, <2>3, <3>1
    <3> QED BY <3>1, <3>2 DEF Part
  <2>9. wire' \in Seq(Packages \X (Nat \ {0})) /\ ends' \in Seq(Nat)
    <3>1. wire' \in Seq(Packages \X (Nat \ {0}))
        BY <2>7, <2>8 DEF TypeOK
    <3>2. Len(wire') \in Nat /\ ends \in Seq(Nat)
        BY <3>1 DEF TypeOK
    <3>3. ends' = ends \/ ends' = Append(ends, Len(wire'))
        BY <2>7
    <3>4. ends' \in Seq(Nat)
        BY <3>2, <3>3
    <3> QED BY <3>1, <3>4
  <2>10. end < HeaderUnits => sent = 0
      BY <2>2, <2>3, <2>5
  <2>11. room' \in 0..BufferUnits
      BY <2>4, <2>5, <2>7
  <2>12. cur' \in Packages \cup {None} /\ closed' \in BOOLEAN
      BY <2>1, <2>7 DEF TypeOK
  <2>13. sent' \in Nat
      BY <2>2, <2>3, <2>6, <2>7
  <2>14. IF cur' = None THEN sent' = 0 ELSE HeaderUnits + sent' < Units[cur']
      BY <2>1, <2>2, <2>6, <2>7, <2>10
  <2> HIDE DEF q, n, end
  <2> QED BY <2>9, <2>11, <2>12, <2>13, <2>14
<1> QED BY <1>1, <1>2, <1>3 DEF SendPackage

LEMMA InitQueueInv == Init => QueueInv
<1> SUFFICES ASSUME Init PROVE QueueInv
    OBVIOUS
<1>1. prep = <<>> /\ queued = <<>> /\ seen = {} /\ \A i \in PriorityLevels : lists[i] = <<>>
    BY DEF Init
<1>2. ToSet(prep) = {} /\ ToSet(queued) = {} /\ Listed = {}
    BY <1>1, EmptySet DEF Listed
<1>3. TypeOK
  <2>1. [pc |-> "idle", pkg |-> None] \in [pc : SenderPcs, pkg : Packages \cup {None}]
      BY DEF SenderPcs
  <2>2. BufferUnits \in 0..BufferUnits
      BY SizesAssumption
  <2>3. sender \in [Senders -> [pc : SenderPcs, pkg : Packages \cup {None}]]
      BY <2>1 DEF Init
  <2>4. epoll \in [Epolls -> EpollPcs]
      BY DEF Init, EpollPcs
  <2>5. prep \in Seq(Packages) /\ queued \in Seq(Packages)
        /\ lists \in [PriorityLevels -> Seq(Packages)]
        /\ wire \in Seq(Packages \X (Nat \ {0})) /\ ends \in Seq(Nat)
      BY DEF Init
  <2>6. sent \in Nat /\ room \in 0..BufferUnits /\ monitorMsgs \in Nat
      BY <2>2 DEF Init
  <2> QED BY <2>3, <2>4, <2>5, <2>6 DEF Init, TypeOK
<1>4. MutexHeld
    BY ThreadsAssumption DEF Init, MutexHeld, None
<1>5. HalfSent /\ ListsByPriority /\ SeenIsSorted
    BY DEF Init, HalfSent, ListsByPriority, SeenIsSorted
<1>6. QueuedOnce
    BY <1>1, <1>2 DEF Init, QueuedOnce, HasPackage
<1> QED BY <1>3, <1>4, <1>5, <1>6 DEF QueueInv

-----------------------------------------------------------------------------
(* The sending threads. *)

LEMMA SendStep ==
    ASSUME QueueInv, NEW s \in Senders, NEW p \in Packages, Send(s, p)
    PROVE  QueueInv'
<1> DEFINE pc == IF p \in Big \/ cur # None THEN "push" ELSE "lists"
<1>1. [pc |-> pc, pkg |-> p] \in SenderRecords
    BY DEF SenderRecords, SenderPcs
<1>2. /\ sender' \in [Senders -> SenderRecords]
      /\ sender'[s].pc = pc /\ sender'[s].pkg = p
      /\ \A t \in Senders : t # s => sender'[t] = sender[t]
    BY <1>1 DEF QueueInv, TypeOK, Send, SenderRecords
<1>3. TypeOK'
    BY <1>2 DEF QueueInv, TypeOK, Send, SenderRecords, queueVars, connVars, pollVars, hubVars
<1>4. MutexHeld'
    BY <1>2 DEF QueueInv, MutexHeld, Send
<1>5. HalfSent' /\ ListsByPriority' /\ SeenIsSorted'
    BY DEF QueueInv, HalfSent, ListsByPriority, SeenIsSorted, Send, queueVars, connVars
<1>6. QueuedOnce'
  <2>1. UNCHANGED <<queued, prep, lists, seen>> /\ offered' = offered \cup {p} /\ p \notin offered
      BY DEF Send, queueVars
  <2>2. Listed' = Listed /\ ToSet(prep)' = ToSet(prep) /\ ToSet(queued)' = ToSet(queued)
      BY <2>1 DEF Listed
  <2>3. \A t \in Senders : t # s => (HasPackage(t)' <=> HasPackage(t))
      BY <1>2 DEF HasPackage
  <2> QED BY <1>2, <2>1, <2>2, <2>3 DEF QueueInv, QueuedOnce
<1> QED BY <1>3, <1>4, <1>5, <1>6 DEF QueueInv

\* A step that leaves the queues alone and gives no thread a package.
LEMMA QueuedOnceKept ==
    ASSUME QueuedOnce, UNCHANGED <<prep, lists, queued, offered>>,
           seen' \subseteq ToSet(queued),
           \A t \in Senders :
               HasPackage(t)' => HasPackage(t) /\ sender'[t].pkg = sender[t].pkg
    PROVE  QueuedOnce'
<1>1. Listed' = Listed /\ ToSet(prep)' = ToSet(prep) /\ ToSet(queued)' = ToSet(queued)
    BY DEF Listed
<1> QED BY <1>1 DEF QueuedOnce

LEMMA TestListsStep ==
    ASSUME QueueInv, NEW s \in Senders, TestLists(s)
    PROVE  QueueInv'
<1> DEFINE pc == IF ~listEmpty /\ prep # <<>> THEN "push" ELSE "lock"
<1>1. /\ sender' \in [Senders -> SenderRecords]
      /\ sender'[s].pc = pc /\ sender'[s].pkg = sender[s].pkg
      /\ \A t \in Senders : t # s => sender'[t] = sender[t]
  <2>1. pc \in SenderPcs
      BY DEF SenderPcs
  <2> QED BY <2>1, SenderAtMoves DEF QueueInv, TestLists
<1>2. TypeOK'
    BY <1>1 DEF QueueInv, TypeOK, TestLists, SenderRecords, queueVars, connVars, pollVars, hubVars
<1>3. MutexHeld'
    BY <1>1 DEF QueueInv, MutexHeld, TestLists
<1>4. HalfSent' /\ ListsByPriority' /\ SeenIsSorted'
    BY DEF QueueInv, HalfSent, ListsByPriority, SeenIsSorted, TestLists, queueVars, connVars
<1>5. QueuedOnce'
  <2>1. \A t \in Senders : HasPackage(t)' => HasPackage(t) /\ sender'[t].pkg = sender[t].pkg
      BY <1>1 DEF HasPackage, TestLists
  <2> QED BY <2>1, QueuedOnceKept DEF QueueInv, QueuedOnce, TestLists, queueVars
<1> QED BY <1>2, <1>3, <1>4, <1>5 DEF QueueInv

LEMMA TryLockStep ==
    ASSUME QueueInv, NEW s \in Senders, TryLock(s)
    PROVE  QueueInv'
<1> DEFINE pc == IF holder = None THEN "write" ELSE "push"
<1>1. /\ sender' \in [Senders -> SenderRecords]
      /\ sender'[s].pc = pc /\ sender'[s].pkg = sender[s].pkg
      /\ \A t \in Senders : t # s => sender'[t] = sender[t]
  <2>1. pc \in SenderPcs
      BY DEF SenderPcs
  <2> QED BY <2>1, SenderAtMoves DEF QueueInv, TryLock
<1>2. TypeOK'
    BY <1>1 DEF QueueInv, TypeOK, TryLock, SenderRecords, queueVars, connVars, pollVars, hubVars
<1>3. MutexHeld'
  <2>1. CASE holder = None
      BY <1>1, <2>1, ThreadsAssumption DEF QueueInv, MutexHeld, TryLock, None
  <2>2. CASE holder # None
      BY <1>1, <2>2 DEF QueueInv, MutexHeld, TryLock
  <2> QED BY <2>1, <2>2
<1>4. HalfSent' /\ ListsByPriority' /\ SeenIsSorted'
    BY DEF QueueInv, HalfSent, ListsByPriority, SeenIsSorted, TryLock, queueVars, connVars
<1>5. QueuedOnce'
  <2>1. \A t \in Senders : HasPackage(t)' => HasPackage(t) /\ sender'[t].pkg = sender[t].pkg
      BY <1>1 DEF HasPackage, TryLock
  <2> QED BY <2>1, QueuedOnceKept DEF QueueInv, QueuedOnce, TryLock, queueVars
<1> QED BY <1>2, <1>3, <1>4, <1>5 DEF QueueInv

\* The interest stays a Boolean.
LEMMA MonitorTypes ==
    ASSUME TypeOK, Monitor \/ SocketPoll
    PROVE  monitored' \in BOOLEAN /\ edge' \in BOOLEAN /\ polled' \in BOOLEAN
BY DEF TypeOK, Monitor, SocketPoll, NotReported, pollVars

LEMMA SendNowStep ==
    ASSUME QueueInv, NEW s \in Senders, SendNow(s)
    PROVE  QueueInv'
<1>1. PICK result \in Results :
          /\ SendPackage(sender[s].pkg, result)
          /\ IF result = "Retry" THEN SenderAt(s, "arm") ELSE SenderDone(s)
          /\ breakMsg' = (breakMsg \/ result = "Error")
    BY DEF SendNow
<1>2. sender[s] \in SenderRecords /\ sender[s].pc = "write"
    BY DEF QueueInv, TypeOK, SendNow, SenderRecords
<1>3. sender[s].pkg \in Packages
  <2>1. HasPackage(s)
      BY <1>2 DEF HasPackage
  <2> QED BY <2>1 DEF QueueInv, QueuedOnce, TypeOK
<1>4. /\ sender' \in [Senders -> SenderRecords]
      /\ sender'[s].pc \in {"arm", "idle"}
      /\ \A t \in Senders : t # s => sender'[t] = sender[t]
  <2>1. CASE result = "Retry"
    <3>1. "arm" \in SenderPcs BY DEF SenderPcs
    <3> QED BY <1>1, <2>1, <3>1, SenderAtMoves DEF QueueInv
  <2>2. CASE result # "Retry"
      BY <1>1, <2>2, SenderDoneMoves DEF QueueInv
  <2> QED BY <2>1, <2>2
<1>5. /\ cur' \in Packages \cup {None} /\ sent' \in Nat
      /\ wire' \in Seq(Packages \X (Nat \ {0})) /\ ends' \in Seq(Nat)
      /\ room' \in 0..BufferUnits /\ closed' \in BOOLEAN
      /\ IF cur' = None THEN sent' = 0 ELSE HeaderUnits + sent' < Units[cur']
  <2>1. sender[s].pkg # None
      BY <1>3, PackagesAssumption DEF None
  <2> QED BY <1>1, <1>3, <2>1, SendPackageTypes DEF QueueInv
<1>6. monitored' \in BOOLEAN /\ edge' \in BOOLEAN /\ polled' \in BOOLEAN
    BY MonitorTypes DEF QueueInv, SendNow
<1>7. breakMsg' \in BOOLEAN
    BY <1>1 DEF QueueInv, TypeOK
<1>8. TypeOK'
    BY <1>4, <1>5, <1>6, <1>7 DEF QueueInv, TypeOK, SendNow, SenderRecords, queueVars
<1>9. holder = s /\ holder' = None /\ epoll' = epoll /\ None \notin Senders \cup Epolls
      /\ s \notin Epolls
    BY <1>2, ThreadsAssumption DEF QueueInv, MutexHeld, SendNow, None
<1>10. MutexHeld'
    BY <1>4, <1>9 DEF QueueInv, MutexHeld
<1>11. \A e \in Epolls : epoll[e] \notin {"sort", "flush", "pick"}
    BY <1>9 DEF QueueInv, MutexHeld
<1>12. HalfSent' /\ SeenIsSorted'
    BY <1>5, <1>9, <1>11 DEF HalfSent, SeenIsSorted
<1>13. ListsByPriority'
    BY DEF QueueInv, ListsByPriority, SendNow, queueVars
<1>14. QueuedOnce'
  <2>1. \A t \in Senders : HasPackage(t)' => HasPackage(t) /\ sender'[t].pkg = sender[t].pkg
      BY <1>4 DEF HasPackage
  <2> QED BY <2>1, QueuedOnceKept DEF QueueInv, QueuedOnce, SendNow, queueVars
<1> QED BY <1>8, <1>10, <1>12, <1>13, <1>14 DEF QueueInv

LEMMA PushStep ==
    ASSUME QueueInv, NEW s \in Senders, Push(s)
    PROVE  QueueInv'
<1> DEFINE p == sender[s].pkg
<1>1. HasPackage(s) /\ sender[s].pc = "push" /\ p \in Packages
    BY DEF QueueInv, TypeOK, QueuedOnce, Push, HasPackage
<1>2. [pc |-> "mark", pkg |-> None] \in SenderRecords
    BY DEF SenderRecords, SenderPcs
<1>3. /\ sender' \in [Senders -> SenderRecords] /\ sender'[s].pc = "mark"
      /\ \A t \in Senders : t # s => sender'[t] = sender[t]
    BY <1>2 DEF QueueInv, TypeOK, Push, SenderRecords
<1>4. /\ prep' \in Seq(Packages) /\ ToSet(prep)' = ToSet(prep) \cup {p}
      /\ queued' \in Seq(Packages) /\ ToSet(queued)' = ToSet(queued) \cup {p}
    BY <1>1, AppendSet DEF QueueInv, TypeOK, Push
<1>5. TypeOK'
    BY <1>3, <1>4 DEF QueueInv, TypeOK, Push, SenderRecords, connVars, pollVars, hubVars
<1>6. MutexHeld'
    BY <1>1, <1>3 DEF QueueInv, MutexHeld, Push
<1>7. HalfSent' /\ ListsByPriority'
    BY DEF QueueInv, HalfSent, ListsByPriority, Push, connVars
<1>8. SeenIsSorted'
  <2>1. p \notin seen
      BY <1>1 DEF QueueInv, QueuedOnce
  <2> QED BY <1>4, <2>1 DEF QueueInv, SeenIsSorted, Push
<1>9. QueuedOnce'
  <2>1. Listed' = Listed /\ seen' = seen /\ offered' = offered
      BY DEF Listed, Push
  <2>2. \A t \in Senders : HasPackage(t)' =>
            HasPackage(t) /\ t # s /\ sender'[t].pkg = sender[t].pkg /\ sender[t].pkg # p
      BY <1>1, <1>3 DEF QueueInv, QueuedOnce, HasPackage
  <2> QED BY <1>1, <1>4, <2>1, <2>2 DEF QueueInv, QueuedOnce
<1> QED BY <1>5, <1>6, <1>7, <1>8, <1>9 DEF QueueInv

LEMMA MarkStep ==
    ASSUME QueueInv, NEW s \in Senders, Mark(s)
    PROVE  QueueInv'
<1>1. /\ sender' \in [Senders -> SenderRecords] /\ sender'[s].pc = "arm"
      /\ \A t \in Senders : t # s => sender'[t] = sender[t]
  <2>1. "arm" \in SenderPcs
      BY DEF SenderPcs
  <2> QED BY <2>1, SenderAtMoves DEF QueueInv, Mark
<1>2. TypeOK'
  <2>1. listEmpty' \in BOOLEAN /\ breakMsg' \in BOOLEAN
      BY DEF QueueInv, TypeOK, Mark
  <2>2. monitorMsgs' \in Nat
      BY DEF QueueInv, TypeOK, Mark
  <2> QED BY <1>1, <2>1, <2>2 DEF QueueInv, TypeOK, Mark, SenderRecords, connVars, pollVars
<1>3. MutexHeld'
    BY <1>1 DEF QueueInv, MutexHeld, Mark
<1>4. HalfSent' /\ ListsByPriority' /\ SeenIsSorted'
    BY DEF QueueInv, HalfSent, ListsByPriority, SeenIsSorted, Mark, connVars
<1>5. QueuedOnce'
  <2>1. \A t \in Senders : HasPackage(t)' => HasPackage(t) /\ sender'[t].pkg = sender[t].pkg
      BY <1>1 DEF HasPackage
  <2> QED BY <2>1, QueuedOnceKept DEF QueueInv, QueuedOnce, Mark
<1> QED BY <1>2, <1>3, <1>4, <1>5 DEF QueueInv

LEMMA ArmStep ==
    ASSUME QueueInv, NEW s \in Senders, Arm(s)
    PROVE  QueueInv'
<1>1. /\ sender' \in [Senders -> SenderRecords] /\ sender'[s].pc = "idle"
      /\ \A t \in Senders : t # s => sender'[t] = sender[t]
    BY SenderDoneMoves DEF QueueInv, Arm
<1>2. monitored' \in BOOLEAN /\ edge' \in BOOLEAN /\ polled' \in BOOLEAN
    BY MonitorTypes DEF QueueInv, Arm
<1>3. TypeOK'
    BY <1>1, <1>2 DEF QueueInv, TypeOK, Arm, SenderRecords, queueVars, connVars, hubVars
<1>4. MutexHeld'
    BY <1>1 DEF QueueInv, MutexHeld, Arm
<1>5. HalfSent' /\ ListsByPriority' /\ SeenIsSorted'
    BY DEF QueueInv, HalfSent, ListsByPriority, SeenIsSorted, Arm, queueVars, connVars
<1>6. QueuedOnce'
  <2>1. \A t \in Senders : HasPackage(t)' => HasPackage(t) /\ sender'[t].pkg = sender[t].pkg
      BY <1>1 DEF HasPackage
  <2> QED BY <2>1, QueuedOnceKept DEF QueueInv, QueuedOnce, Arm, queueVars
<1> QED BY <1>3, <1>4, <1>5, <1>6 DEF QueueInv

-----------------------------------------------------------------------------
(* The epoll threads. *)

LEMMA TakeEventStep ==
    ASSUME QueueInv, NEW e \in Epolls, TakeEvent(e)
    PROVE  QueueInv'
<1>1. PICK pc \in {"wait", "try"} : epoll' = [epoll EXCEPT ![e] = pc]
    BY DEF TakeEvent
<1>2. epoll' \in [Epolls -> EpollPcs] /\ epoll[e] = "wait"
    BY <1>1 DEF QueueInv, TypeOK, EpollPcs, TakeEvent
<1>3. TypeOK'
    BY <1>2 DEF QueueInv, TypeOK, TakeEvent, queueVars, connVars, hubVars
<1>4. MutexHeld'
    BY <1>1, <1>2 DEF QueueInv, TypeOK, MutexHeld, TakeEvent
<1>5. HalfSent' /\ ListsByPriority' /\ SeenIsSorted'
    BY <1>1, <1>2 DEF QueueInv, TypeOK, HalfSent, ListsByPriority, SeenIsSorted, TakeEvent,
                      queueVars, connVars
<1>6. QueuedOnce'
    BY QueuedOnceKept DEF QueueInv, QueuedOnce, HasPackage, TakeEvent, queueVars
<1> QED BY <1>3, <1>4, <1>5, <1>6 DEF QueueInv

LEMMA ListedTypes ==
    ASSUME TypeOK
    PROVE  ToSet(prep) \subseteq Packages /\ Listed \subseteq Packages
<1>1. \A i \in PriorityLevels : ToSet(lists[i]) \subseteq Packages
    BY SetOfPackages DEF TypeOK
<1> QED BY <1>1, SetOfPackages DEF TypeOK, Listed

LEMMA TrySendLockStep ==
    ASSUME QueueInv, NEW e \in Epolls, TrySendLock(e)
    PROVE  QueueInv'
<1>1. CASE session /\ holder = None
  <2>1. /\ holder' = e /\ epoll' = [epoll EXCEPT ![e] = "sort"]
        /\ seen' = ToSet(prep) \cup Listed
      BY <1>1 DEF TrySendLock
  <2>2. epoll' \in [Epolls -> EpollPcs] /\ seen' \subseteq Packages
      BY <2>1, ListedTypes DEF QueueInv, TypeOK, EpollPcs
  <2>3. TypeOK'
      BY <2>1, <2>2 DEF QueueInv, TypeOK, TrySendLock, queueVars, connVars, pollVars, hubVars
  <2>4. \A t \in Senders : sender[t].pc # "write" /\ t # e
      BY <1>1, ThreadsAssumption DEF QueueInv, MutexHeld, None
  <2>5. \A d \in Epolls : epoll[d] \notin {"sort", "flush", "pick"}
      BY <1>1, ThreadsAssumption DEF QueueInv, MutexHeld, None
  <2>6. \A d \in Epolls : d # e => epoll'[d] = epoll[d]
      BY <2>1 DEF QueueInv, TypeOK
  <2>7. epoll'[e] = "sort"
      BY <2>1 DEF QueueInv, TypeOK
  <2>8. MutexHeld'
      BY <2>1, <2>4, <2>5, <2>6, <2>7 DEF MutexHeld, TrySendLock
  <2>9. HalfSent' /\ ListsByPriority' /\ SeenIsSorted'
      BY <2>5, <2>6, <2>7 DEF QueueInv, HalfSent, ListsByPriority, SeenIsSorted, TrySendLock,
                              queueVars, connVars
  <2>10. QueuedOnce'
      BY <2>1, QueuedOnceKept DEF QueueInv, QueuedOnce, HasPackage, TrySendLock, queueVars
  <2> QED BY <2>3, <2>8, <2>9, <2>10 DEF QueueInv
<1>2. CASE ~(session /\ holder = None)
  <2>1. epoll' = [epoll EXCEPT ![e] = "wait"] /\ UNCHANGED <<holder, seen>> /\ epoll[e] = "try"
      BY <1>2 DEF TrySendLock
  <2>2. epoll' \in [Epolls -> EpollPcs]
      BY <2>1 DEF QueueInv, TypeOK, EpollPcs
  <2>3. TypeOK'
      BY <2>1, <2>2 DEF QueueInv, TypeOK, TrySendLock, queueVars, connVars, pollVars, hubVars
  <2>4. MutexHeld'
      BY <2>1 DEF QueueInv, TypeOK, MutexHeld, TrySendLock
  <2>5. HalfSent' /\ ListsByPriority' /\ SeenIsSorted'
      BY <2>1 DEF QueueInv, TypeOK, HalfSent, ListsByPriority, SeenIsSorted, TrySendLock,
                  queueVars, connVars
  <2>6. QueuedOnce'
      BY <2>1, QueuedOnceKept DEF QueueInv, QueuedOnce, HasPackage, TrySendLock, queueVars
  <2> QED BY <2>3, <2>4, <2>5, <2>6 DEF QueueInv
<1> QED BY <1>1, <1>2

LEMMA SortOneStep ==
    ASSUME QueueInv, NEW e \in Epolls, SortOne(e)
    PROVE  QueueInv'
<1>1. CASE prep # <<>>
  <2> DEFINE p == Head(prep)
             i == Priority[p]
             l == Append(lists[i], p)
  <2>1. prep' = Tail(prep) /\ epoll' = epoll /\ lists' = [lists EXCEPT ![i] = l]
      BY <1>1 DEF SortOne
  <2>2. p \in Packages /\ p \in ToSet(prep) /\ ToSet(Tail(prep)) \subseteq ToSet(prep)
        /\ Tail(prep) \in Seq(Packages)
      BY <1>1, TailSet DEF QueueInv, TypeOK
  <2>3. i \in PriorityLevels
      BY <2>2, PackagesAssumption DEF PriorityLevels
  <2>4. l \in Seq(Packages) /\ ToSet(l) = ToSet(lists[i]) \cup {p}
      BY <2>2, <2>3, AppendSet DEF QueueInv, TypeOK
  <2>5. lists' \in [PriorityLevels -> Seq(Packages)]
      BY <2>1, <2>3, <2>4 DEF QueueInv, TypeOK
  <2>6. lists'[i] = l /\ \A j \in PriorityLevels : j # i => lists'[j] = lists[j]
      BY <2>1, <2>3 DEF QueueInv, TypeOK
  <2>7. TypeOK'
      BY <2>1, <2>2, <2>5 DEF QueueInv, TypeOK, SortOne, connVars, pollVars, hubVars
  <2>8. MutexHeld' /\ HalfSent'
      BY <2>1 DEF QueueInv, MutexHeld, HalfSent, SortOne, connVars
  <2>9. ListsByPriority'
    <3>1. \A k \in 1..Len(l) : Priority[l[k]] = i
      <4>1. lists[i] \in Seq(Packages) /\ \A k \in 1..Len(lists[i]) : Priority[lists[i][k]] = i
          BY <2>3 DEF QueueInv, TypeOK, ListsByPriority
      <4>2. Len(l) = Len(lists[i]) + 1 /\ l[Len(lists[i]) + 1] = p
            /\ \A k \in 1..Len(lists[i]) : l[k] = lists[i][k]
          BY <2>2, <4>1
      <4> QED BY <4>1, <4>2
    <3> QED BY <2>6, <3>1 DEF QueueInv, ListsByPriority
  <2>10. SeenIsSorted'
      BY <2>1, <2>2 DEF QueueInv, SeenIsSorted, SortOne
  <2>11. QueuedOnce'
    <3>1. Listed' \subseteq Listed \cup {p}
      <4>1. \A j \in PriorityLevels : ToSet(lists'[j]) \subseteq ToSet(lists[j]) \cup {p}
          BY <2>4, <2>6
      <4> QED BY <4>1 DEF Listed
    <3>2. ToSet(prep)' \cup Listed' \cup seen' \subseteq ToSet(queued)
        BY <2>1, <2>2, <3>1 DEF QueueInv, QueuedOnce, SortOne
    <3> QED BY <3>2 DEF QueueInv, QueuedOnce, HasPackage, SortOne
  <2> QED BY <2>7, <2>8, <2>9, <2>10, <2>11 DEF QueueInv
<1>2. CASE prep = <<>>
  <2> DEFINE pc == IF cur # None THEN "flush" ELSE "pick"
  <2>1. epoll' = [epoll EXCEPT ![e] = pc] /\ UNCHANGED <<prep, lists>> /\ epoll[e] = "sort"
      BY <1>2 DEF SortOne
  <2>2. epoll' \in [Epolls -> EpollPcs] /\ epoll'[e] = pc
        /\ \A d \in Epolls : d # e => epoll'[d] = epoll[d]
      BY <2>1 DEF QueueInv, TypeOK, EpollPcs
  <2>3. TypeOK'
      BY <2>1, <2>2 DEF QueueInv, TypeOK, SortOne, connVars, pollVars, hubVars
  <2>4. MutexHeld'
      BY <2>1, <2>2 DEF QueueInv, MutexHeld, SortOne
  <2>5. HalfSent' /\ ListsByPriority'
      BY <2>1, <2>2 DEF QueueInv, HalfSent, ListsByPriority, SortOne, connVars
  <2>6. SeenIsSorted'
      BY <1>2, <2>1, EmptySet DEF SeenIsSorted
  <2>7. QueuedOnce'
      BY <2>1, QueuedOnceKept DEF QueueInv, QueuedOnce, HasPackage, SortOne
  <2> QED BY <2>3, <2>4, <2>5, <2>6, <2>7 DEF QueueInv
<1> QED BY <1>1, <1>2

\* What ProcessSendList does with a result.
LEMMA AfterSendMoves ==
    ASSUME QueueInv, NEW e \in Epolls, holder = e, UNCHANGED sender,
           NEW result \in Results, AfterSend(e, result)
    PROVE  /\ epoll' \in [Epolls -> EpollPcs] /\ breakMsg' \in BOOLEAN
           /\ holder' \in Senders \cup Epolls \cup {None}
           /\ epoll'[e] \in {"pick", "wait"}
           /\ \A d \in Epolls : d # e =>
                  epoll'[d] = epoll[d] /\ epoll[d] \notin {"sort", "flush", "pick"}
           /\ MutexHeld'
<1>1. /\ epoll' = [epoll EXCEPT ![e] = IF result = "Succeed" THEN "pick" ELSE "wait"]
      /\ holder' = IF result = "Succeed" THEN e ELSE None
    BY DEF AfterSend
<1>2. /\ epoll' \in [Epolls -> EpollPcs]
      /\ epoll'[e] = IF result = "Succeed" THEN "pick" ELSE "wait"
      /\ \A d \in Epolls : d # e => epoll'[d] = epoll[d]
    BY <1>1 DEF QueueInv, TypeOK, EpollPcs
<1>3. breakMsg' \in BOOLEAN
    BY DEF QueueInv, TypeOK, AfterSend
<1>4. \A d \in Epolls : d # e => epoll[d] \notin {"sort", "flush", "pick"}
    BY DEF QueueInv, MutexHeld
<1>5. /\ \A t \in Senders : sender[t].pc # "write" /\ t # e /\ t # None
      /\ \A d \in Epolls : d # None
    BY ThreadsAssumption DEF QueueInv, MutexHeld, None
<1>6. MutexHeld'
    BY <1>1, <1>2, <1>4, <1>5 DEF MutexHeld
<1> QED BY <1>1, <1>2, <1>3, <1>4, <1>6

LEMMA FlushStep ==
    ASSUME QueueInv, NEW e \in Epolls, Flush(e)
    PROVE  QueueInv'
<1>1. PICK result \in Results : SendPackage(None, result) /\ AfterSend(e, result)
    BY DEF Flush
<1>2. epoll[e] = "flush" /\ holder = e /\ cur # None
    BY DEF QueueInv, MutexHeld, HalfSent, Flush
<1>3. /\ cur' \in Packages \cup {None} /\ sent' \in Nat
      /\ wire' \in Seq(Packages \X (Nat \ {0})) /\ ends' \in Seq(Nat)
      /\ room' \in 0..BufferUnits /\ closed' \in BOOLEAN
      /\ IF cur' = None THEN sent' = 0 ELSE HeaderUnits + sent' < Units[cur']
    BY <1>1, <1>2, SendPackageTypes DEF QueueInv
<1>4. /\ epoll' \in [Epolls -> EpollPcs] /\ breakMsg' \in BOOLEAN
      /\ holder' \in Senders \cup Epolls \cup {None}
      /\ epoll'[e] \in {"pick", "wait"}
      /\ \A d \in Epolls : d # e =>
             epoll'[d] = epoll[d] /\ epoll[d] \notin {"sort", "flush", "pick"}
      /\ MutexHeld'
    BY <1>1, <1>2, AfterSendMoves DEF Flush
<1>5. monitored' \in BOOLEAN /\ edge' \in BOOLEAN /\ polled' \in BOOLEAN
    BY MonitorTypes DEF QueueInv, Flush
<1>6. TypeOK'
    BY <1>3, <1>4, <1>5 DEF QueueInv, TypeOK, Flush, queueVars
<1>7. HalfSent'
    BY <1>3, <1>4 DEF HalfSent
<1>8. ListsByPriority' /\ SeenIsSorted'
    BY <1>2, <1>4 DEF QueueInv, ListsByPriority, SeenIsSorted, Flush, queueVars
<1>9. QueuedOnce'
    BY QueuedOnceKept DEF QueueInv, QueuedOnce, HasPackage, Flush, queueVars
<1> QED BY <1>4, <1>6, <1>7, <1>8, <1>9 DEF QueueInv

\* The least number of a set: Min is defined by CHOOSE.
LEMMA LeastNumber ==
    ASSUME NEW S \in SUBSET Nat, S # {}
    PROVE  Min(S) \in S /\ \A y \in S : Min(S) <= y
<1>1. PICK x \in S : \A y \in S : <<y, x>> \notin OpToRel(<, Nat)
    BY WFMin, NatLessThanWellFounded, Zenon
<1>2. \A y \in S : ~(y < x)
    BY <1>1 DEF OpToRel
<1>3. \A y \in S : x <= y
    BY <1>2
<1>4. Min(S) = CHOOSE z \in S : \A y \in S : z <= y
    BY DEF Min
<1> QED BY <1>3, <1>4

LEMMA MostUrgentList ==
    ASSUME TypeOK, Listed # {}
    PROVE  /\ MostUrgent \in PriorityLevels /\ lists[MostUrgent] # <<>>
           /\ \A i \in PriorityLevels : lists[i] # <<>> => MostUrgent <= i
<1> DEFINE S == {i \in PriorityLevels : lists[i] # <<>>}
<1>1. S \in SUBSET Nat
    BY SizesAssumption DEF PriorityLevels
<1>2. S # {}
  <2>1. PICK i \in PriorityLevels : ToSet(lists[i]) # {}
      BY DEF Listed
  <2>2. lists[i] # <<>>
      BY <2>1, EmptySet
  <2> QED BY <2>2
<1>3. MostUrgent = Min(S)
    BY DEF MostUrgent
<1> QED BY <1>1, <1>2, <1>3, LeastNumber

LEMMA SendNextStep ==
    ASSUME QueueInv, NEW e \in Epolls, SendNext(e)
    PROVE  QueueInv'
<1> DEFINE m == MostUrgent
           l == lists[m]
<1>1. PICK result \in Results : SendPackage(Head(l), result) /\ AfterSend(e, result)
    BY DEF SendNext
<1>2. epoll[e] = "pick" /\ holder = e /\ Listed # {}
    BY DEF QueueInv, MutexHeld, SendNext
<1>3. m \in PriorityLevels /\ l # <<>> /\ l \in Seq(Packages)
    BY <1>2, MostUrgentList DEF QueueInv, TypeOK
<1> HIDE DEF m
<1>4. /\ Tail(l) \in Seq(Packages) /\ Head(l) \in Packages
      /\ ToSet(Tail(l)) \subseteq ToSet(l)
      /\ Len(Tail(l)) = Len(l) - 1 /\ Len(l) \in Nat
      /\ \A i \in 1..Len(Tail(l)) : Tail(l)[i] = l[i + 1]
    BY <1>3, TailSet
<1>5. lists' = [lists EXCEPT ![m] = Tail(l)]
    BY DEF SendNext, m
<1>6. /\ lists' \in [PriorityLevels -> Seq(Packages)] /\ lists'[m] = Tail(l)
      /\ \A i \in PriorityLevels : i # m => lists'[i] = lists[i]
    BY <1>3, <1>4, <1>5 DEF QueueInv, TypeOK
<1>7. /\ cur' \in Packages \cup {None} /\ sent' \in Nat
      /\ wire' \in Seq(Packages \X (Nat \ {0})) /\ ends' \in Seq(Nat)
      /\ room' \in 0..BufferUnits /\ closed' \in BOOLEAN
      /\ IF cur' = None THEN sent' = 0 ELSE HeaderUnits + sent' < Units[cur']
  <2>1. Head(l) # None
      BY <1>4, PackagesAssumption DEF None
  <2> QED BY <1>1, <1>4, <2>1, SendPackageTypes DEF QueueInv
<1>8. /\ epoll' \in [Epolls -> EpollPcs] /\ breakMsg' \in BOOLEAN
      /\ holder' \in Senders \cup Epolls \cup {None}
      /\ epoll'[e] \in {"pick", "wait"}
      /\ \A d \in Epolls : d # e =>
             epoll'[d] = epoll[d] /\ epoll[d] \notin {"sort", "flush", "pick"}
      /\ MutexHeld'
    BY <1>1, <1>2, AfterSendMoves DEF SendNext
<1>9. monitored' \in BOOLEAN /\ edge' \in BOOLEAN /\ polled' \in BOOLEAN
    BY MonitorTypes DEF QueueInv, SendNext
<1>10. TypeOK'
    BY <1>6, <1>7, <1>8, <1>9 DEF QueueInv, TypeOK, SendNext
<1>11. HalfSent'
    BY <1>7, <1>8 DEF HalfSent
<1>12. ListsByPriority'
  <2>1. \A k \in 1..Len(l) : Priority[l[k]] = m
      BY <1>3 DEF QueueInv, ListsByPriority
  <2>2. \A k \in 1..Len(Tail(l)) : Priority[Tail(l)[k]] = m
      BY <1>4, <2>1
  <2> QED BY <1>6, <2>2 DEF QueueInv, ListsByPriority
<1>13. SeenIsSorted'
    BY <1>2, <1>8 DEF QueueInv, SeenIsSorted, SendNext
<1>14. QueuedOnce'
  <2>1. Listed' \subseteq Listed
    <3>1. \A i \in PriorityLevels : ToSet(lists'[i]) \subseteq ToSet(lists[i])
        BY <1>4, <1>6
    <3> QED BY <3>1 DEF Listed
  <2>2. ToSet(prep)' \cup Listed' \cup seen' \subseteq ToSet(queued)
      BY <2>1 DEF QueueInv, QueuedOnce, SendNext
  <2> QED BY <2>2 DEF QueueInv, QueuedOnce, HasPackage, SendNext
<1> QED BY <1>8, <1>10, <1>11, <1>12, <1>13, <1>14 DEF QueueInv

LEMMA AllSentStep ==
    ASSUME QueueInv, NEW e \in Epolls, AllSent(e)
    PROVE  QueueInv'
<1>1. epoll[e] = "pick" /\ holder = e /\ holder' = None
      /\ epoll' = [epoll EXCEPT ![e] = "disarm"]
    BY DEF QueueInv, MutexHeld, AllSent
<1>2. epoll' \in [Epolls -> EpollPcs] /\ epoll'[e] = "disarm"
      /\ \A d \in Epolls : d # e => epoll'[d] = epoll[d]
    BY <1>1 DEF QueueInv, TypeOK, EpollPcs
<1>3. TypeOK'
    BY <1>1, <1>2 DEF QueueInv, TypeOK, AllSent, connVars, pollVars, hubVars
<1>4. /\ \A t \in Senders : sender[t].pc # "write" /\ t # None
      /\ \A d \in Epolls : d # None /\ (d # e => epoll[d] \notin {"sort", "flush", "pick"})
    BY <1>1, ThreadsAssumption DEF QueueInv, MutexHeld, None
<1>5. MutexHeld'
    BY <1>1, <1>2, <1>4 DEF MutexHeld, AllSent
<1>6. HalfSent' /\ ListsByPriority' /\ SeenIsSorted'
    BY <1>2 DEF QueueInv, HalfSent, ListsByPriority, SeenIsSorted, AllSent, connVars
<1>7. QueuedOnce'
    BY QueuedOnceKept DEF QueueInv, QueuedOnce, HasPackage, AllSent
<1> QED BY <1>3, <1>5, <1>6, <1>7 DEF QueueInv

LEMMA DisarmStep ==
    ASSUME QueueInv, NEW e \in Epolls, Disarm(e)
    PROVE  QueueInv'
<1>1. epoll[e] = "disarm" /\ epoll' = [epoll EXCEPT ![e] = "wait"]
    BY DEF Disarm
<1>2. epoll' \in [Epolls -> EpollPcs] /\ epoll'[e] = "wait"
      /\ \A d \in Epolls : d # e => epoll'[d] = epoll[d]
    BY <1>1 DEF QueueInv, TypeOK, EpollPcs
<1>3. TypeOK'
    BY <1>2 DEF QueueInv, TypeOK, Disarm, NotReported, queueVars, connVars, hubVars
<1>4. MutexHeld'
    BY <1>1, <1>2 DEF QueueInv, MutexHeld, Disarm
<1>5. HalfSent' /\ ListsByPriority' /\ SeenIsSorted'
    BY <1>2 DEF QueueInv, HalfSent, ListsByPriority, SeenIsSorted, Disarm, queueVars, connVars
<1>6. QueuedOnce'
    BY QueuedOnceKept DEF QueueInv, QueuedOnce, HasPackage, Disarm, queueVars
<1> QED BY <1>3, <1>4, <1>5, <1>6 DEF QueueInv

-----------------------------------------------------------------------------
(* The reading side, the control hub and the peer. *)

LEMMA DisturbStep ==
    ASSUME QueueInv, ReadCloses \/ PostBreak \/ Unregiste
    PROVE  QueueInv'
<1>1. UNCHANGED <<sender, epoll, prep, lists, listEmpty, cur, sent, holder, wire, ends, room,
                  monitorMsgs, session, offered, queued, seen>>
    BY DEF ReadCloses, PostBreak, Unregiste, queueVars, connVars, hubVars
<1>2. /\ monitored' \in BOOLEAN /\ edge' \in BOOLEAN /\ polled' \in BOOLEAN
      /\ breakMsg' \in BOOLEAN /\ closed' \in BOOLEAN
    BY DEF QueueInv, TypeOK, ReadCloses, PostBreak, Unregiste, NotReported, connVars, pollVars,
           hubVars
<1>3. TypeOK'
    BY <1>1, <1>2 DEF QueueInv, TypeOK
<1>4. MutexHeld' /\ HalfSent' /\ ListsByPriority' /\ SeenIsSorted'
    BY <1>1 DEF QueueInv, MutexHeld, HalfSent, ListsByPriority, SeenIsSorted
<1>5. QueuedOnce'
    BY <1>1, QueuedOnceKept DEF QueueInv, QueuedOnce, HasPackage
<1> QED BY <1>3, <1>4, <1>5 DEF QueueInv

LEMMA HubMonitorStep ==
    ASSUME QueueInv, HubMonitor
    PROVE  QueueInv'
<1>1. monitored' \in BOOLEAN /\ edge' \in BOOLEAN /\ polled' \in BOOLEAN
    BY MonitorTypes DEF QueueInv, HubMonitor
<1>2. monitorMsgs' \in Nat
    BY DEF QueueInv, TypeOK, HubMonitor
<1>3. breakMsg' \in BOOLEAN
    BY DEF QueueInv, TypeOK, HubMonitor
<1>4. TypeOK'
    BY <1>1, <1>2, <1>3 DEF QueueInv, TypeOK, HubMonitor, queueVars, connVars
<1>5. MutexHeld' /\ HalfSent' /\ ListsByPriority' /\ SeenIsSorted'
    BY DEF QueueInv, MutexHeld, HalfSent, ListsByPriority, SeenIsSorted, HubMonitor,
           queueVars, connVars
<1>6. QueuedOnce'
    BY QueuedOnceKept DEF QueueInv, QueuedOnce, HasPackage, HubMonitor, queueVars
<1> QED BY <1>4, <1>5, <1>6 DEF QueueInv

LEMMA HubBreakStep ==
    ASSUME QueueInv, HubBreak
    PROVE  QueueInv'
<1>1. /\ prep' = <<>> /\ lists' = [i \in PriorityLevels |-> <<>>]
      /\ cur' = None /\ sent' = 0
      /\ \A s \in Senders : sender[s].pc = "idle"
      /\ \A e \in Epolls : epoll[e] = "wait"
    BY DEF HubBreak
<1>2. prep' \in Seq(Packages) /\ lists' \in [PriorityLevels -> Seq(Packages)]
      /\ \A i \in PriorityLevels : lists'[i] = <<>>
    BY <1>1
<1>3. TypeOK'
  <2>1. /\ closed' \in BOOLEAN /\ session' \in BOOLEAN
        /\ monitored' \in BOOLEAN /\ edge' \in BOOLEAN /\ polled' \in BOOLEAN
      BY DEF HubBreak, NotReported
  <2>2. cur' \in Packages \cup {None} /\ sent' \in Nat
      BY <1>1
  <2>3. UNCHANGED <<sender, epoll, listEmpty, queued, wire, ends, room, holder, offered, seen>>
        /\ monitorMsgs' = monitorMsgs /\ breakMsg' = breakMsg
      BY DEF HubBreak, hubVars
  <2> QED BY <1>2, <2>1, <2>2, <2>3 DEF QueueInv, TypeOK
<1>4. MutexHeld' /\ HalfSent' /\ ListsByPriority' /\ SeenIsSorted'
    BY <1>1, <1>2 DEF QueueInv, MutexHeld, HalfSent, ListsByPriority, SeenIsSorted, HubBreak
<1>5. ToSet(prep)' = {} /\ Listed' = {}
    BY <1>1, <1>2, EmptySet DEF Listed
<1>6. QueuedOnce'
    BY <1>5 DEF QueueInv, QueuedOnce, HasPackage, HubBreak
<1> QED BY <1>3, <1>4, <1>6 DEF QueueInv

LEMMA DrainStep ==
    ASSUME QueueInv, Drain
    PROVE  QueueInv'
<1>1. room' \in 0..BufferUnits
  <2>1. PICK r \in (room + 1)..BufferUnits : room' = r
      BY DEF Drain
  <2> QED BY <2>1, SizesAssumption DEF QueueInv, TypeOK
<1>2. edge' \in BOOLEAN
    BY DEF QueueInv, TypeOK, Drain
<1>3. TypeOK'
    BY <1>1, <1>2 DEF QueueInv, TypeOK, Drain, queueVars, hubVars
<1>4. MutexHeld' /\ HalfSent' /\ ListsByPriority' /\ SeenIsSorted'
    BY DEF QueueInv, MutexHeld, HalfSent, ListsByPriority, SeenIsSorted, Drain, queueVars
<1>5. QueuedOnce'
    BY QueuedOnceKept DEF QueueInv, QueuedOnce, HasPackage, Drain, queueVars
<1> QED BY <1>3, <1>4, <1>5 DEF QueueInv

-----------------------------------------------------------------------------
\* QueueInv is inductive.
LEMMA NextQueueInv == QueueInv /\ [Next]_vars => QueueInv'
<1> SUFFICES ASSUME QueueInv, [Next]_vars PROVE QueueInv'
    OBVIOUS
<1>1. CASE \E s \in Senders : SenderStep(s)
  <2>1. PICK s \in Senders : SenderStep(s)
      BY <1>1
  <2> QED BY <2>1, SendStep, TestListsStep, TryLockStep, SendNowStep, PushStep, MarkStep,
             ArmStep DEF SenderStep
<1>2. CASE \E e \in Epolls : EpollStep(e)
  <2>1. PICK e \in Epolls : EpollStep(e)
      BY <1>2
  <2> QED BY <2>1, TakeEventStep, TrySendLockStep, SortOneStep, FlushStep, SendNextStep,
             AllSentStep, DisarmStep DEF EpollStep
<1>3. CASE ReadCloses \/ PostBreak \/ Unregiste \/ HubMonitor \/ HubBreak \/ Drain
    BY <1>3, DisturbStep, HubMonitorStep, HubBreakStep, DrainStep
<1>4. CASE UNCHANGED vars
  <2>1. Listed' = Listed /\ \A s \in Senders : HasPackage(s)' <=> HasPackage(s)
      BY <1>4 DEF vars, Listed, HasPackage
  <2>2. QueuedOnce'
      BY <1>4, <2>1 DEF vars, QueueInv, QueuedOnce
  <2>3. TypeOK' /\ MutexHeld' /\ HalfSent' /\ ListsByPriority' /\ SeenIsSorted'
      BY <1>4 DEF vars, QueueInv, TypeOK, MutexHeld, HalfSent, ListsByPriority, SeenIsSorted
  <2> QED BY <2>2, <2>3 DEF QueueInv
<1> QED BY <1>1, <1>2, <1>3, <1>4 DEF Next

\* The mutex of a connection has the owner its readers believe in, what is half
\* sent is not all sent, and no package is queued twice (ConnectSession.cpp).
THEOREM SendPathInvariant == Spec => []QueueInv
<1>1. Init => QueueInv
    BY InitQueueInv
<1>2. QueueInv /\ [Next]_vars => QueueInv'
    BY NextQueueInv
<1> QED BY <1>1, <1>2, PTL DEF Spec

\* The socket buffer, the queues and the half sent package keep their types
\* whatever the lengths of the frames and the reads of the peer.
THEOREM SendPathTypes == Spec => []TypeOK
<1>1. QueueInv => TypeOK
    BY DEF QueueInv
<1> QED BY <1>1, SendPathInvariant, PTL

\* A queued package never overtakes a more urgent one that waited when the epoll
\* thread got the mutex (ProcessPrepareSendList before GetSendPackage).
THEOREM UrgentPackagesFirst == Spec => UrgentFirst
<1> DEFINE First == \A e \in Epolls : SendNext(e) =>
               \A q \in seen : Priority[q] < MostUrgent => q \notin ToSet(prep) \cup Listed
<1>1. QueueInv => First
  <2> SUFFICES ASSUME QueueInv, NEW e \in Epolls, SendNext(e), NEW q \in seen,
                      Priority[q] < MostUrgent
               PROVE  q \notin ToSet(prep) \cup Listed
      OBVIOUS
  <2>1. epoll[e] = "pick" /\ Listed # {}
      BY DEF SendNext
  <2>2. q \notin ToSet(prep)
      BY <2>1 DEF QueueInv, SeenIsSorted
  <2>3. ASSUME q \in Listed PROVE FALSE
    <3>1. PICK i \in PriorityLevels : q \in ToSet(lists[i])
        BY <2>3 DEF Listed
    <3>2. lists[i] \in Seq(Packages)
        BY DEF QueueInv, TypeOK
    <3>3. PICK k \in 1..Len(lists[i]) : lists[i][k] = q
        BY <3>1, <3>2 DEF ToSet
    <3>4. Priority[q] = i /\ lists[i] # <<>>
        BY <3>1, <3>3, EmptySet DEF QueueInv, ListsByPriority
    <3>5. MostUrgent <= i /\ MostUrgent \in Nat /\ i \in Nat
        BY <2>1, <3>4, MostUrgentList, SizesAssumption DEF QueueInv, PriorityLevels
    <3> QED BY <3>4, <3>5
  <2> QED BY <2>2, <2>3
<1>2. []QueueInv => [][First]_vars
    BY <1>1, PTL
<1> QED BY <1>2, SendPathInvariant DEF UrgentFirst

-----------------------------------------------------------------------------
(* What a write leaves in the stream. *)

\* Units m+1 to n of the frame of q were written.
Wrote(q, m, n) ==
    /\ Len(wire') = Len(wire) + (n - m)
    /\ \A i \in 1..Len(wire) : wire'[i] = wire[i]
    /\ \A i \in 1..(n - m) : wire'[Len(wire) + i] = <<q, m + i>>
    /\ m = n => wire' = wire

\* What is half sent after units m+1 to n of the frame of q were written.
After(q, n, result) ==
    \/ /\ n < Units[q] /\ result = "Error"
       /\ cur' = q /\ closed' = TRUE /\ ends' = ends
    \/ /\ n >= HeaderUnits /\ n < Units[q] /\ result = "Retry"
       /\ cur' = q /\ sent' = n - HeaderUnits /\ closed' = closed /\ ends' = ends
    \/ /\ n = Units[q] /\ result = "Succeed"
       /\ cur' = None /\ sent' = 0 /\ closed' = closed /\ ends' = Append(ends, Len(wire'))

\* q was not begun, or it is half sent and goes on where it stopped.
Writes(q, m, n, result) ==
    /\ ~closed /\ m <= n /\ n <= Units[q] /\ m < Units[q]
    /\ \/ cur = None /\ m = 0
       \/ cur = q /\ m = HeaderUnits + sent
    /\ Wrote(q, m, n) /\ After(q, n, result)

\* Where the writing of a package begins or goes on.
LEMMA PositionFound ==
    ASSUME TypeOK, HalfSent, LengthNotAlone, NEW p \in Packages \cup {None},
           p = None => cur # None, ~Refused(p), NEW q, q = IF p = None THEN cur ELSE p
    PROVE  /\ q \in Packages /\ None \notin Packages /\ ~closed /\ (p # None => cur = None)
           /\ Units[q] \in Nat /\ Units[q] > HeaderUnits /\ HeaderUnits \in Nat /\ HeaderUnits > 0
           /\ \/ cur = None /\ Position = 0
              \/ cur = q /\ Position = HeaderUnits + sent
           /\ Position \in Nat /\ Position < Units[q]
<1>1. /\ q \in Packages /\ None \notin Packages /\ ~closed /\ (p # None => cur = None)
      /\ (p = None => cur = q /\ cur # None)
    BY PackagesAssumption DEF Refused, TypeOK, None
<1>2. Units[q] \in Nat /\ Units[q] > HeaderUnits /\ HeaderUnits \in Nat /\ HeaderUnits > 0
    BY <1>1, PackagesAssumption, SizesAssumption
<1>3. sent \in Nat
    BY DEF TypeOK
<1>4. \/ cur = None /\ Position = 0
      \/ cur = q /\ Position = HeaderUnits + sent
    BY <1>1, <1>2, <1>3 DEF Position, HalfSent, LengthNotAlone
<1>5. Position \in Nat /\ Position < Units[q]
    BY <1>1, <1>2, <1>3, <1>4 DEF HalfSent
<1> QED BY <1>1, <1>2, <1>4, <1>5

LEMMA SendPackageWrites ==
    ASSUME TypeOK, HalfSent, LengthNotAlone, NEW p \in Packages \cup {None},
           NEW result \in Results, p = None => cur # None, SendPackage(p, result)
    PROVE  \/ UNCHANGED connVars /\ result = "Error" /\ (closed \/ (p # None /\ cur # None))
           \/ \E q \in Packages, m, n \in Nat :
                  Writes(q, m, n, result) /\ q = (IF p = None THEN cur ELSE p)
                  /\ (p # None => cur = None)
<1>1. CASE Refused(p)
  <2>1. UNCHANGED connVars /\ result = "Error"
      BY <1>1 DEF SendPackage
  <2> QED BY <1>1, <2>1 DEF Refused
<1>2. CASE ~Refused(p) /\ WriteSome(IF p = None THEN cur ELSE p, result)
  <2> DEFINE q == IF p = None THEN cur ELSE p
             m == Position
             n == Position + Written(q)
  <2>1. q \in Packages /\ None \notin Packages /\ ~closed /\ (p # None => cur = None)
      BY <1>2, PositionFound
  <2>2. Units[q] \in Nat /\ Units[q] > HeaderUnits /\ HeaderUnits \in Nat /\ HeaderUnits > 0
      BY <1>2, PositionFound
  <2>3. room \in Nat
      BY SizesAssumption DEF TypeOK
  <2>4. \/ cur = None /\ m = 0
        \/ cur = q /\ m = HeaderUnits + sent
      BY <1>2, PositionFound
  <2>5. m \in Nat /\ m < Units[q]
      BY <1>2, PositionFound
  <2>6. Written(q) \in Nat /\ Written(q) <= Units[q] - m
    <3>1. {room, Units[q] - m} \in SUBSET Nat /\ {room, Units[q] - m} # {}
        BY <2>2, <2>3, <2>5
    <3> QED BY <3>1, LeastNumber DEF Written
  <2>7. n \in Nat /\ m <= n /\ n <= Units[q]
      BY <2>2, <2>5, <2>6
  <2>8. /\ wire' = wire \o Part(q, m, n)
        /\ \/ /\ n < HeaderUnits /\ result = "Error"
              /\ cur' = q /\ closed' = TRUE /\ ends' = ends
           \/ /\ n \in HeaderUnits..(Units[q] - 1) /\ result = "Retry"
              /\ cur' = q /\ sent' = n - HeaderUnits /\ closed' = closed /\ ends' = ends
           \/ /\ n = Units[q] /\ result = "Succeed"
              /\ cur' = None /\ sent' = 0 /\ closed' = closed /\ ends' = Append(ends, Len(wire'))
      BY <1>2 DEF WriteSome
  <2> HIDE DEF q, m, n
  <2>9. After(q, n, result)
      BY <2>2, <2>7, <2>8 DEF After
  <2>10. Wrote(q, m, n)
    <3> DEFINE k == n - m
    <3>1. k \in Nat
        BY <2>5, <2>7
    <3>2. Part(q, m, n) = [i \in 1..k |-> <<q, m + i>>]
        BY DEF Part
    <3>3. \A i \in 1..k : <<q, m + i>> \in Packages \X Nat
        BY <2>1, <2>5, <3>1
    <3> HIDE DEF k
    <3>4. /\ Part(q, m, n) \in Seq(Packages \X Nat) /\ Len(Part(q, m, n)) = k
          /\ \A i \in 1..k : Part(q, m, n)[i] = <<q, m + i>>
        BY <3>1, <3>2, <3>3
    <3>5. wire \in Seq(Packages \X Nat) /\ Len(wire) \in Nat
        BY DEF TypeOK
    <3> HIDE DEF Part
    <3>6. /\ Len(wire') = Len(wire) + k
          /\ \A i \in 1..Len(wire) : wire'[i] = wire[i]
          /\ \A i \in 1..k : wire'[Len(wire) + i] = <<q, m + i>>
      <4>1. ASSUME NEW S, NEW u \in Seq(S), NEW v \in Seq(S)
            PROVE  /\ Len(u \o v) = Len(u) + Len(v) /\ Len(u) \in Nat /\ Len(v) \in Nat
                   /\ \A i \in 1..Len(u) : (u \o v)[i] = u[i]
                   /\ \A i \in 1..Len(v) : (u \o v)[Len(u) + i] = v[i]
          OBVIOUS
      <4>2. /\ Len(wire') = Len(wire) + k
            /\ \A i \in 1..Len(wire) : wire'[i] = wire[i]
            /\ \A i \in 1..k : wire'[Len(wire) + i] = Part(q, m, n)[i]
          BY <2>8, <3>4, <3>5, <4>1
      <4> QED BY <3>4, <4>2
    <3>7. k = 0 => wire' = wire
        BY <2>8, <3>4, <3>5
    <3>8. m = n => k = 0
        BY <2>5, <2>7 DEF k
    <3> QED BY <3>6, <3>7, <3>8 DEF Wrote, k
  <2>11. Writes(q, m, n, result)
      BY <2>1, <2>4, <2>5, <2>7, <2>9, <2>10 DEF Writes
  <2> QED BY <2>1, <2>5, <2>7, <2>11 DEF q
<1>3. CASE ~Refused(p) /\ WriteFails(IF p = None THEN cur ELSE p, result)
  <2> DEFINE q == IF p = None THEN cur ELSE p
             m == Position
  <2>1. /\ q \in Packages /\ ~closed /\ (p # None => cur = None) /\ m \in Nat /\ m < Units[q]
        /\ Units[q] \in Nat
        /\ \/ cur = None /\ m = 0
           \/ cur = q /\ m = HeaderUnits + sent
      BY <1>3, PositionFound
  <2>2. After(q, m, result) /\ wire' = wire
      BY <1>3, <2>1 DEF WriteFails, After
  <2> HIDE DEF m
  <2>3. Wrote(q, m, m)
    <3>1. Len(wire) \in Nat /\ m - m = 0
        BY <2>1 DEF TypeOK
    <3> QED BY <2>2, <3>1 DEF Wrote
  <2>4. Writes(q, m, m, result)
      BY <2>1, <2>2, <2>3 DEF Writes
  <2> QED BY <2>1, <2>4
<1> QED BY <1>1, <1>2, <1>3 DEF SendPackage

Framing == WireWellFramed /\ OpenIsHalfSent /\ StartedIsSent /\ SentOnce

LEMMA WireTypes ==
    ASSUME TypeOK
    PROVE  /\ Len(wire) \in Nat /\ DOMAIN wire = 1..Len(wire)
           /\ Len(ends) \in Nat /\ DOMAIN ends = 1..Len(ends)
           /\ \A i \in 1..Len(wire) :
                  /\ wire[i] = <<wire[i][1], wire[i][2]>>
                  /\ wire[i][1] \in Packages /\ wire[i][2] \in Nat /\ wire[i][2] > 0
           /\ wire = <<>> <=> Len(wire) = 0
           /\ DOMAIN Done = 1..Len(ends)
           /\ \A k \in 1..Len(ends) : ends[k] \in Nat /\ Done[k] = wire[ends[k]][1]
<1>1. /\ Len(wire) \in Nat /\ DOMAIN wire = 1..Len(wire)
      /\ wire = <<>> <=> Len(wire) = 0
      /\ \A i \in 1..Len(wire) : wire[i] \in Packages \X (Nat \ {0})
    BY DEF TypeOK
<1>2. /\ Len(ends) \in Nat /\ DOMAIN ends = 1..Len(ends)
      /\ \A k \in 1..Len(ends) : ends[k] \in Nat
    BY DEF TypeOK
<1>3. \A u \in Packages \X (Nat \ {0}) :
          u = <<u[1], u[2]>> /\ u[1] \in Packages /\ u[2] \in Nat /\ u[2] > 0
    OBVIOUS
<1>4. DOMAIN Done = 1..Len(ends) /\ \A k \in 1..Len(ends) : Done[k] = wire[ends[k]][1]
    BY <1>2 DEF Done
<1> QED BY <1>1, <1>2, <1>3, <1>4

\* Frames end at units of the stream, each at the last of its package.
LEMMA EndsFound ==
    ASSUME TypeOK, WireWellFramed
    PROVE  /\ \A k \in 1..Len(ends) : /\ ends[k] \in 1..Len(wire)
                                      /\ wire[ends[k]] = <<Done[k], Units[Done[k]]>>
                                      /\ Done[k] \in Started /\ Done[k] \in Packages
                                      /\ wire[ends[k]][2] = Units[wire[ends[k]][1]]
           /\ \A i \in 1..Len(wire) :
                  wire[i][2] = Units[wire[i][1]] => \E k \in 1..Len(ends) : ends[k] = i
<1>1. {i \in 1..Len(wire) : wire[i][2] = Units[wire[i][1]]} = {ends[k] : k \in 1..Len(ends)}
    BY WireTypes DEF WireWellFramed, ToSet, IsEnd
<1>2. ASSUME NEW k \in 1..Len(ends)
      PROVE  ends[k] \in 1..Len(wire) /\ wire[ends[k]][2] = Units[wire[ends[k]][1]]
    BY <1>1
<1>3. ASSUME NEW k \in 1..Len(ends)
      PROVE  /\ wire[ends[k]] = <<Done[k], Units[Done[k]]>>
             /\ Done[k] \in Started /\ Done[k] \in Packages
    BY <1>2, WireTypes DEF Started
<1>4. \A i \in 1..Len(wire) :
          wire[i][2] = Units[wire[i][1]] => \E k \in 1..Len(ends) : ends[k] = i
    BY <1>1
<1> QED BY <1>2, <1>3, <1>4

\* A step that writes nothing.
LEMMA FrameKept ==
    ASSUME Framing, UNCHANGED <<wire, ends>>,
           \/ UNCHANGED <<cur, sent>> /\ (closed => closed')
           \/ closed' /\ cur' = None,
           TypeOK, TypeOK'
    PROVE  Framing' /\ Started' = Started /\ Done' = Done
<1>1. /\ Started' = Started /\ Done' = Done /\ HasOpen' = HasOpen /\ Open' = Open
      /\ Last(wire)' = Last(wire)
    BY DEF Started, Done, HasOpen, Open, Last, IsEnd
<1>2. WireWellFramed' /\ StartedIsSent'
    BY <1>1 DEF Framing, WireWellFramed, StartedIsSent, IsEnd
<1>3. OpenIsHalfSent'
    BY <1>1 DEF Framing, OpenIsHalfSent
<1>4. \A k \in DOMAIN ends : Done[k] # None
    BY EndsFound, WireTypes, PackagesAssumption DEF Framing, None
<1>5. SentOnce'
    BY <1>1, <1>4 DEF Framing, SentOnce
<1> QED BY <1>1, <1>2, <1>3, <1>5 DEF Framing

\* A write leaves a stream of frames; only its package can be new there.
LEMMA FrameWritten ==
    ASSUME Framing, TypeOK, TypeOK', NEW q \in Packages, NEW m \in Nat, NEW n \in Nat, NEW result,
           Writes(q, m, n, result), HalfSent, cur = None => NotBegun(q)
    PROVE  /\ Framing'
           /\ Started \subseteq Started' /\ Started' \subseteq Started \cup {q}
           /\ \A k \in DOMAIN ends : k \in DOMAIN ends' /\ Done'[k] = Done[k]
           /\ cur' = q \/ \E k \in DOMAIN ends' : Done'[k] = q
<1> DEFINE N == Len(wire)
           N1 == Len(wire')
           K == Len(ends)
<1>0. /\ Units[q] \in Nat /\ Units[q] > HeaderUnits /\ HeaderUnits \in Nat /\ HeaderUnits > 0
      /\ None \notin Packages /\ sent \in Nat
    BY PackagesAssumption, SizesAssumption DEF None, TypeOK
<1>1. /\ N \in Nat /\ N1 = N + (n - m) /\ m <= n /\ n <= Units[q] /\ m < Units[q]
      /\ \A i \in 1..N : wire'[i] = wire[i]
      /\ \A i \in (N + 1)..N1 : wire'[i] = <<q, m + (i - N)>>
      /\ m = n => wire' = wire
  <2>1. /\ N \in Nat /\ N1 = N + (n - m) /\ m <= n /\ n <= Units[q] /\ m < Units[q]
        /\ \A i \in 1..N : wire'[i] = wire[i]
        /\ \A i \in 1..(n - m) : wire'[N + i] = <<q, m + i>>
        /\ m = n => wire' = wire
      BY WireTypes DEF Writes, Wrote
  <2>2. ASSUME NEW i \in (N + 1)..N1 PROVE wire'[i] = <<q, m + (i - N)>>
    <3>1. i - N \in 1..(n - m) /\ N + (i - N) = i
        BY <2>1
    <3> QED BY <2>1, <3>1
  <2> QED BY <2>1, <2>2
<1>2. /\ K \in Nat /\ DOMAIN ends = 1..K /\ DOMAIN wire = 1..N /\ DOMAIN wire' = 1..N1
      /\ wire = <<>> <=> N = 0
      /\ wire' = <<>> <=> N1 = 0
      /\ DOMAIN Done = 1..K
    BY WireTypes DEF TypeOK
<1>3. /\ \A k \in 1..K : /\ ends[k] \in 1..N /\ Done[k] \in Started /\ Done[k] \in Packages
                         /\ wire[ends[k]] = <<Done[k], Units[Done[k]]>>
                         /\ wire[ends[k]][2] = Units[wire[ends[k]][1]]
      /\ \A i \in 1..N : wire[i][2] = Units[wire[i][1]] => \E k \in 1..K : ends[k] = i
    BY EndsFound DEF Framing
\* Where the stream stood.
<1>4. /\ ~closed /\ Last(wire) = wire[N]
      /\ cur = None => m = 0 /\ (N > 0 => wire[N][2] = Units[wire[N][1]]) /\ q \notin Started
      /\ cur # None => /\ cur = q /\ N > 0 /\ wire[N] = <<q, m>> /\ m > 0
                       /\ \A k \in 1..K : Done[k] # q
  <2>1. ~closed /\ Last(wire) = wire[N]
      BY DEF Writes, Last
  <2>2. ASSUME cur = None
        PROVE  m = 0 /\ (N > 0 => wire[N][2] = Units[wire[N][1]]) /\ q \notin Started
      BY <1>0, <1>2, <2>1, <2>2 DEF Writes, Framing, OpenIsHalfSent, HasOpen, IsEnd, NotBegun
  <2>3. ASSUME cur # None
        PROVE  /\ cur = q /\ N > 0 /\ wire[N] = <<q, m>> /\ m > 0
               /\ \A k \in 1..K : Done[k] # q
    <3>1. cur = q /\ m = HeaderUnits + sent
        BY <2>3 DEF Writes
    <3>2. wire # <<>> /\ wire[N] = <<q, m>>
        BY <2>1, <2>3, <3>1 DEF Framing, OpenIsHalfSent
    <3>3. \A k \in 1..K : Done[k] # cur
        BY <1>2 DEF Framing, SentOnce
    <3>4. N > 0 /\ m > 0
        BY <1>0, <1>2, <3>1, <3>2
    <3> QED BY <3>1, <3>2, <3>3, <3>4
  <2> QED BY <2>1, <2>2, <2>3
\* Where it stands now.
<1>5. n > m => N1 > 0 /\ wire'[N1] = <<q, n>> /\ Last(wire)' = <<q, n>>
    BY <1>1 DEF Last
<1>50. HasOpen = (cur # None) /\ (HasOpen => Open = q)
  <2>1. CASE cur = None
      BY <1>4, <1>2, <2>1 DEF HasOpen, IsEnd
  <2>2. CASE cur # None
      BY <1>1, <1>2, <1>4, <2>2 DEF HasOpen, Open, IsEnd
  <2> QED BY <2>1, <2>2
<1>6. /\ n # Units[q] => ends' = ends /\ cur' = q
      /\ n = Units[q] => ends' = Append(ends, N1) /\ cur' = None
    BY <1>0, <1>1 DEF Writes, After
<1>7. /\ DOMAIN ends' = 1..Len(ends')
      /\ \A k \in 1..K : k \in 1..Len(ends') /\ ends'[k] = ends[k]
      /\ n # Units[q] => Len(ends') = K
      /\ n = Units[q] => Len(ends') = K + 1 /\ ends'[K + 1] = N1
      /\ \A k \in 1..Len(ends') : k \in 1..K \/ (k = K + 1 /\ n = Units[q])
  <2>1. CASE n # Units[q]
    <3>1. ends' = ends
        BY <1>6, <2>1
    <3>2. DOMAIN ends' = 1..K /\ Len(ends') = K
        BY <1>2, <3>1
    <3> QED BY <2>1, <3>1, <3>2
  <2>2. CASE n = Units[q]
    <3>1. ends \in Seq(Nat) /\ N1 \in Nat
        BY <1>1 DEF TypeOK
    <3>2. /\ Len(Append(ends, N1)) = K + 1 /\ Append(ends, N1)[K + 1] = N1
          /\ \A k \in 1..K : Append(ends, N1)[k] = ends[k]
          /\ DOMAIN Append(ends, N1) = 1..(K + 1)
        BY <3>1
    <3> QED BY <1>2, <1>6, <2>2, <3>2
  <2> QED BY <2>1, <2>2
<1>9. /\ DOMAIN Done' = 1..Len(ends') /\ \A k \in 1..K : Done'[k] = Done[k]
      /\ n = Units[q] => Done'[K + 1] = q /\ K + 1 \in 1..Len(ends')
  <2>1. DOMAIN Done' = 1..Len(ends') /\ \A k \in 1..Len(ends') : Done'[k] = wire'[ends'[k]][1]
      BY <1>7 DEF Done
  <2>2. ASSUME NEW k \in 1..K PROVE Done'[k] = Done[k]
    <3>1. ends'[k] = ends[k] /\ k \in 1..Len(ends') /\ ends[k] \in 1..N
        BY <1>3, <1>7
    <3>2. wire'[ends[k]] = wire[ends[k]]
        BY <1>1, <3>1
    <3>3. Done[k] = wire[ends[k]][1]
        BY <1>2 DEF Done
    <3> QED BY <2>1, <3>1, <3>2, <3>3
  <2>3. ASSUME n = Units[q] PROVE Done'[K + 1] = q /\ K + 1 \in 1..Len(ends')
      BY <1>1, <1>2, <1>5, <1>7, <2>1, <2>3
  <2> QED BY <2>1, <2>2, <2>3
<1>10. Started \subseteq Started' /\ Started' \subseteq Started \cup {q}
  <2>1. Started = {wire[i][1] : i \in 1..N} /\ Started' = {wire'[i][1] : i \in 1..N1}
      BY <1>2 DEF Started
  <2>2. \A i \in 1..N : i \in 1..N1 /\ wire'[i][1] = wire[i][1]
      BY <1>1
  <2>3. \A i \in 1..N1 : i \in 1..N \/ wire'[i][1] = q
      BY <1>1
  <2> QED BY <2>1, <2>2, <2>3
<1> HIDE DEF N, N1, K
<1>11. WireWellFramed'
  <2>1. ASSUME NEW i \in 1..N1
        PROVE  \/ wire'[i][2] = 1 /\ (i > 1 => wire'[i - 1][2] = Units[wire'[i - 1][1]])
               \/ /\ i > 1 /\ wire'[i - 1][2] # Units[wire'[i - 1][1]]
                  /\ wire'[i] = <<wire'[i - 1][1], wire'[i - 1][2] + 1>>
    <3>1. CASE i \in 1..N
      <4>1. \/ wire[i][2] = 1 /\ (i > 1 => wire[i - 1][2] = Units[wire[i - 1][1]])
            \/ /\ i > 1 /\ wire[i - 1][2] # Units[wire[i - 1][1]]
               /\ wire[i] = <<wire[i - 1][1], wire[i - 1][2] + 1>>
          BY <1>2, <3>1 DEF Framing, WireWellFramed, IsEnd
      <4>2. i > 1 => i - 1 \in 1..N
          BY <1>1, <3>1
      <4> QED BY <1>1, <3>1, <4>1, <4>2
    <3>2. CASE i = N + 1
      <4>1. wire'[i] = <<q, m + 1>>
          BY <1>1, <3>2
      <4>2. i > 1 => N > 0 /\ N \in 1..N /\ i - 1 = N /\ wire'[i - 1] = wire[N]
          BY <1>1, <3>2
      <4>3. CASE cur = None
          BY <1>4, <4>1, <4>2, <4>3
      <4>4. CASE cur # None
          BY <1>1, <1>4, <3>2, <4>1, <4>2, <4>4
      <4> QED BY <4>3, <4>4
    <3>3. CASE i > N + 1
      <4>1. i - 1 \in (N + 1)..N1 /\ i \in (N + 1)..N1
          BY <1>1, <3>3
      <4>2. wire'[i] = <<q, m + (i - N)>> /\ wire'[i - 1] = <<q, m + (i - 1 - N)>>
          BY <1>1, <4>1
      <4> QED BY <1>0, <1>1, <3>3, <4>2
    <3> QED BY <1>1, <3>1, <3>2, <3>3
  <2>2. {i \in 1..N1 : wire'[i][2] = Units[wire'[i][1]]} = {ends'[k] : k \in 1..Len(ends')}
    <3>1. ASSUME NEW i \in 1..N1, wire'[i][2] = Units[wire'[i][1]]
          PROVE  \E k \in 1..Len(ends') : ends'[k] = i
      <4>1. CASE i \in 1..N
          BY <1>1, <1>3, <1>7, <3>1, <4>1
      <4>2. CASE i \notin 1..N
        <5>1. i \in (N + 1)..N1
            BY <1>1, <4>2
        <5>2. m + (i - N) = Units[q]
            BY <1>1, <3>1, <5>1
        <5>3. i = N1 /\ n = Units[q]
            BY <1>0, <1>1, <5>1, <5>2
        <5> QED BY <1>2, <1>7, <1>9, <5>3
      <4> QED BY <4>1, <4>2
    <3>2. ASSUME NEW k \in 1..Len(ends')
          PROVE  ends'[k] \in 1..N1 /\ wire'[ends'[k]][2] = Units[wire'[ends'[k]][1]]
      <4>1. CASE k \in 1..K
        <5>1. ends'[k] = ends[k] /\ ends[k] \in 1..N /\ wire'[ends[k]] = wire[ends[k]]
            BY <1>1, <1>3, <1>7, <4>1
        <5>2. ends[k] \in 1..N1
            BY <1>1, <5>1
        <5>3. wire[ends[k]][2] = Units[wire[ends[k]][1]]
            BY <1>3, <4>1
        <5> QED BY <5>1, <5>2, <5>3
      <4>2. CASE k \notin 1..K
        <5>1. n = Units[q] /\ ends'[k] = N1
            BY <1>7, <4>2
        <5> QED BY <1>1, <1>5, <5>1
      <4> QED BY <4>1, <4>2
    <3> QED BY <3>1, <3>2
  <2>3. ASSUME NEW k \in 1..Len(ends'), NEW l \in 1..Len(ends'), k < l
        PROVE  ends'[k] < ends'[l]
    <3>0. k \in 1..K
      <4>1. CASE n = Units[q]
          BY <1>2, <1>7, <2>3, <4>1
      <4>2. CASE n # Units[q]
          BY <1>2, <1>7, <2>3, <4>2
      <4> QED BY <4>1, <4>2
    <3>1. ends'[k] = ends[k] /\ ends[k] \in 1..N
        BY <1>3, <1>7, <3>0
    <3>2. CASE l \in 1..K
      <4>1. ends[k] < ends[l]
          BY <1>2, <2>3, <3>0, <3>2 DEF Framing, WireWellFramed
      <4> QED BY <1>7, <3>1, <3>2, <4>1
    <3>3. CASE l \notin 1..K
      <4>1. ends'[l] = N1 /\ n = Units[q]
          BY <1>7, <3>3
      <4> QED BY <1>1, <3>1, <4>1
    <3> QED BY <3>2, <3>3
  <2> QED BY <1>2, <1>7, <2>1, <2>2, <2>3 DEF WireWellFramed, IsEnd, ToSet
<1>12. /\ n > m => HasOpen' = (n # Units[q]) /\ (HasOpen' => Open' = q)
       /\ n = m => HasOpen' = HasOpen /\ Open' = Open
  <2>1. ASSUME n > m PROVE HasOpen' = (n # Units[q]) /\ (HasOpen' => Open' = q)
      BY <1>2, <1>5, <2>1 DEF HasOpen, Open, IsEnd
  <2>2. ASSUME n = m PROVE HasOpen' = HasOpen /\ Open' = Open
      BY <1>1, <2>2 DEF HasOpen, Open, IsEnd, Last
  <2> QED BY <2>1, <2>2
<1>13. OpenIsHalfSent'
  <2> SUFFICES ASSUME ~closed'
               PROVE  IF cur' = None THEN ~HasOpen'
                      ELSE wire' # <<>> /\ Last(wire)' = <<cur', HeaderUnits + sent'>>
      BY DEF OpenIsHalfSent
  <2>1. CASE n = Units[q]
      BY <1>0, <1>1, <1>6, <1>12, <2>1
  <2>2. CASE n # Units[q]
    <3>1. cur' = q /\ sent' = n - HeaderUnits
        BY <1>0, <2>2 DEF Writes, After
    <3>2. Last(wire)' = <<q, n>> /\ wire' # <<>>
      <4>1. CASE n > m BY <1>2, <1>5, <4>1
      <4>2. CASE n = m
        <5>1. cur # None
            BY <1>0, <1>4, <2>2, <4>2 DEF Writes, After
        <5> QED BY <1>1, <1>2, <1>4, <4>2, <5>1 DEF Last
      <4> QED BY <1>1, <4>1, <4>2
    <3> QED BY <1>0, <3>1, <3>2
  <2> QED BY <2>1, <2>2
<1>14. StartedIsSent'
  <2>1. \A i \in 1..N1 : wire'[i][2] <= Units[wire'[i][1]]
    <3>1. \A i \in 1..N : wire[i][2] <= Units[wire[i][1]]
        BY <1>2 DEF Framing, StartedIsSent
    <3>2. \A i \in (N + 1)..N1 : m + (i - N) <= Units[q]
        BY <1>0, <1>1
    <3> QED BY <1>1, <3>1, <3>2
  <2>2. ASSUME NEW i \in 1..N1, ~(HasOpen' /\ wire'[i][1] = Open')
        PROVE  \E k \in 1..Len(ends') : Done'[k] = wire'[i][1]
    <3>1. CASE wire'[i][1] = q
      <4>1. CASE n = m
        <5>1. i \in 1..N /\ wire[i][1] = q
            BY <1>1, <3>1, <4>1
        <5>2. q \in Started
            BY <1>2, <5>1 DEF Started
        <5> QED BY <1>4, <1>12, <1>50, <2>2, <3>1, <4>1, <5>2
      <4>2. CASE n > m
        <5>1. n = Units[q]
            BY <1>12, <2>2, <3>1, <4>2
        <5> QED BY <1>9, <3>1, <5>1
      <4> QED BY <1>1, <4>1, <4>2
    <3>2. CASE wire'[i][1] # q
      <4>1. i \in 1..N /\ wire'[i] = wire[i]
          BY <1>1, <3>2
      <4>3. \E k \in 1..K : Done[k] = wire[i][1]
          BY <1>2, <1>50, <3>2, <4>1 DEF Framing, StartedIsSent
      <4> QED BY <1>7, <1>9, <4>1, <4>3
    <3> QED BY <3>1, <3>2
  <2> QED BY <1>2, <1>7, <2>1, <2>2 DEF StartedIsSent
<1>15. \A k \in 1..K : Done[k] # q
    BY <1>3, <1>4
<1>16. SentOnce'
  <2>1. ASSUME NEW k \in 1..Len(ends'), NEW l \in 1..Len(ends'), Done'[k] = Done'[l]
        PROVE  k = l
    <3>1. \A j \in 1..Len(ends') : j \in 1..K \/ (j = K + 1 /\ n = Units[q])
        BY <1>2, <1>7
    <3> QED BY <1>2, <1>9, <1>15, <2>1, <3>1 DEF Framing, SentOnce
  <2>2. ASSUME NEW k \in 1..Len(ends')
        PROVE  Done'[k] # cur' /\ (HasOpen' => Done'[k] # Open')
    <3>1. CASE n = Units[q]
      <4>1. cur' = None /\ ~HasOpen'
          BY <1>1, <1>6, <1>12, <3>1
      <4>2. Done'[k] \in Packages
          BY <1>2, <1>3, <1>7, <1>9
      <4> QED BY <1>0, <4>1, <4>2
    <3>2. CASE n # Units[q]
      <4>1. cur' = q /\ (HasOpen' => Open' = q)
          BY <1>1, <1>6, <1>12, <1>50, <3>2
      <4> QED BY <1>7, <1>9, <1>15, <3>2, <4>1
    <3> QED BY <3>1, <3>2
  <2> QED BY <1>7, <2>1, <2>2 DEF SentOnce
<1>17. cur' = q \/ \E k \in DOMAIN ends' : Done'[k] = q
    BY <1>6, <1>7, <1>9
<1> QED BY <1>2, <1>7, <1>9, <1>10, <1>11, <1>13, <1>14, <1>16, <1>17 DEF Framing

-----------------------------------------------------------------------------
(* The steps that neither write nor queue. *)

LEMMA QueueTypes ==
    ASSUME TypeOK
    PROVE  /\ Len(queued) \in Nat /\ DOMAIN queued = 1..Len(queued)
           /\ Len(prep) \in Nat /\ DOMAIN prep = 1..Len(prep)
           /\ \A i \in 1..Len(queued) : queued[i] \in Packages
           /\ \A k \in 1..Len(prep) : prep[k] \in Packages
           /\ \A l \in PriorityLevels :
                  /\ lists[l] \in Seq(Packages)
                  /\ Len(lists[l]) \in Nat /\ DOMAIN lists[l] = 1..Len(lists[l])
                  /\ \A k \in 1..Len(lists[l]) : lists[l][k] \in Packages
<1>1. ASSUME NEW q \in Seq(Packages)
      PROVE  Len(q) \in Nat /\ DOMAIN q = 1..Len(q) /\ \A i \in 1..Len(q) : q[i] \in Packages
    OBVIOUS
<1> QED BY <1>1 DEF TypeOK

\* No thread begins to have a package or changes it.
SameHands ==
    \A t \in Senders : /\ HasPackage(t)' <=> HasPackage(t)
                       /\ HasPackage(t) => sender'[t].pkg = sender[t].pkg

LEMMA QuietStep ==
    ASSUME QueueInv, QueueInv', StreamInv, InTurn', SameHands,
           UNCHANGED <<prep, lists, queued, cur, sent, wire, ends, offered>>,
           closed => closed', breakMsg => breakMsg'
    PROVE  StreamInv'
<1>1. /\ Framing /\ TypeOK /\ TypeOK' /\ WaitsUnsent /\ QueuedInOrder /\ InOrder /\ NothingLost
    BY DEF StreamInv, Framing, QueueInv
<1>2. Framing' /\ Started' = Started /\ Done' = Done
    BY <1>1, FrameKept
<1>3. Listed' = Listed
    BY DEF Listed
<1>4. WaitsUnsent'
    BY <1>1, <1>2 DEF WaitsUnsent, NotBegun, SameHands
<1>5. QueuedInOrder'
    BY <1>1, <1>2 DEF QueuedInOrder
<1>6. InOrder'
    BY <1>1, <1>3 DEF InOrder
<1>7. NothingLost'
    BY <1>1, <1>2, <1>3 DEF NothingLost, SameHands
<1> QED BY <1>2, <1>4, <1>5, <1>6, <1>7 DEF StreamInv, Framing

\* Where a thread is in the connection there is a session.
LEMMA InTurnKept ==
    ASSUME InTurn, session, UNCHANGED <<session, cur>>,
           \A e \in Epolls : epoll'[e] = "pick" => epoll[e] = "pick" \/ cur = None
    PROVE  InTurn'
BY DEF InTurn

LEMMA SenderMoves ==
    ASSUME QueueInv, QueueInv', StreamInv, NEW s \in Senders,
           TestLists(s) \/ TryLock(s) \/ Mark(s) \/ Arm(s)
    PROVE  StreamInv'
<1>1. /\ sender[s].pc # "idle" /\ UNCHANGED <<session, cur, epoll>>
      /\ UNCHANGED <<prep, lists, queued, cur, sent, wire, ends, closed, offered, breakMsg>>
    BY DEF TestLists, TryLock, Mark, Arm, queueVars, connVars, hubVars
<1>2. InTurn'
    BY <1>1, InTurnKept DEF StreamInv, InTurn
<1>3. SameHands
  <2>1. ASSUME NEW pc \in SenderPcs, SenderAt(s, pc),
                     HasPackage(s) <=> pc \in {"lists", "lock", "write", "push"}
        PROVE  SameHands
      BY <2>1, SenderAtMoves DEF SameHands, HasPackage, QueueInv
  <2>2. CASE TestLists(s)
    <3>1. PICK pc \in {"lock", "push"} : SenderAt(s, pc)
        BY <2>2 DEF TestLists
    <3> QED BY <2>1, <2>2, <3>1 DEF TestLists, HasPackage, SenderPcs
  <2>3. CASE TryLock(s)
    <3>1. PICK pc \in {"write", "push"} : SenderAt(s, pc)
        BY <2>3 DEF TryLock
    <3> QED BY <2>1, <2>3, <3>1 DEF TryLock, HasPackage, SenderPcs
  <2>4. CASE Mark(s)
      BY <2>1, <2>4 DEF Mark, HasPackage, SenderPcs
  <2>5. CASE Arm(s)
      BY <2>5, SenderDoneMoves DEF Arm, HasPackage, SameHands, QueueInv
  <2> QED BY <2>2, <2>3, <2>4, <2>5
<1> QED BY <1>1, <1>2, <1>3, QuietStep

LEMMA EpollMoves ==
    ASSUME QueueInv, QueueInv', StreamInv, NEW e \in Epolls,
           \/ TakeEvent(e) \/ TrySendLock(e) \/ AllSent(e) \/ Disarm(e)
           \/ SortOne(e) /\ prep = <<>>
    PROVE  StreamInv'
<1>1. /\ UNCHANGED <<session, sender>>
      /\ UNCHANGED <<prep, lists, queued, cur, sent, wire, ends, closed, offered, breakMsg>>
    BY DEF TakeEvent, TrySendLock, AllSent, Disarm, SortOne, queueVars, connVars, hubVars
<1>2. session
    BY DEF StreamInv, InTurn, TakeEvent, TrySendLock, AllSent, Disarm, SortOne
<1>3. \E pc : epoll' = [epoll EXCEPT ![e] = pc] /\ (pc = "pick" => cur = None)
    BY DEF TakeEvent, TrySendLock, AllSent, Disarm, SortOne
<1>4. \A d \in Epolls : epoll'[d] = "pick" => epoll[d] = "pick" \/ cur = None
    BY <1>3 DEF QueueInv, TypeOK
<1>5. InTurn'
    BY <1>1, <1>2, <1>4, InTurnKept DEF StreamInv
<1>6. SameHands
    BY <1>1 DEF SameHands, HasPackage
<1> QED BY <1>1, <1>5, <1>6, QuietStep

LEMMA OutsideMoves ==
    ASSUME QueueInv, QueueInv', StreamInv, HubMonitor \/ Drain \/ UNCHANGED vars
    PROVE  StreamInv'
<1>1. /\ UNCHANGED <<session, sender, epoll>>
      /\ UNCHANGED <<prep, lists, queued, cur, sent, wire, ends, closed, offered, breakMsg>>
    BY DEF HubMonitor, Drain, vars, queueVars, connVars, hubVars
<1>2. ~session => edge' = edge
    BY DEF HubMonitor, Drain, Monitor, vars, pollVars, StreamInv, InTurn
<1>3. InTurn'
    BY <1>1, <1>2 DEF StreamInv, InTurn
<1>4. SameHands
    BY <1>1 DEF SameHands, HasPackage
<1> QED BY <1>1, <1>3, <1>4, QuietStep

\* A connection that others close or report broken.
LEMMA DisturbMoves ==
    ASSUME QueueInv, QueueInv', StreamInv, ReadCloses \/ PostBreak \/ Unregiste
    PROVE  StreamInv'
<1>1. /\ session /\ UNCHANGED <<session, sender, epoll>>
      /\ UNCHANGED <<prep, lists, queued, cur, sent, wire, ends, offered>>
      /\ (closed => closed') /\ (breakMsg => breakMsg')
    BY DEF ReadCloses, PostBreak, Unregiste, queueVars, connVars, hubVars
<1>2. InTurn'
    BY <1>1, InTurnKept DEF StreamInv
<1>3. SameHands
    BY <1>1 DEF SameHands, HasPackage
<1> QED BY <1>1, <1>2, <1>3, QuietStep

-----------------------------------------------------------------------------
(* The steps that hand over or queue a package. *)

LEMMA SendKept ==
    ASSUME QueueInv, QueueInv', StreamInv, NEW s \in Senders, NEW p \in Packages, Send(s, p)
    PROVE  StreamInv'
<1>1. /\ Framing /\ TypeOK /\ TypeOK' /\ WaitsUnsent /\ QueuedInOrder /\ InOrder /\ NothingLost
    BY DEF StreamInv, Framing, QueueInv
<1>2. /\ session /\ sender[s].pc = "idle" /\ p \notin offered /\ offered' = offered \cup {p}
      /\ UNCHANGED <<prep, lists, queued, cur, sent, wire, ends, closed, breakMsg, session, epoll>>
    BY DEF Send, queueVars, connVars, hubVars
<1>3. /\ HasPackage(s)' /\ sender'[s].pkg = p
      /\ \A t \in Senders : t # s => sender'[t] = sender[t]
    BY DEF QueueInv, TypeOK, Send, HasPackage
<1>4. \A t \in Senders : t # s => (HasPackage(t)' <=> HasPackage(t))
    BY <1>3 DEF HasPackage
<1>5. ~HasPackage(s)
    BY <1>2 DEF HasPackage
<1>6. Framing' /\ Started' = Started /\ Done' = Done
    BY <1>1, <1>2, FrameKept
<1>7. Listed' = Listed
    BY <1>2 DEF Listed
<1>8. p \notin Started /\ p # cur
  <2>1. p # None
      BY PackagesAssumption DEF None
  <2> QED BY <1>1, <1>2, <2>1 DEF WaitsUnsent
<1>9. WaitsUnsent'
    BY <1>1, <1>2, <1>3, <1>4, <1>6, <1>8 DEF WaitsUnsent, NotBegun
<1>10. QueuedInOrder'
    BY <1>1, <1>2, <1>6 DEF QueuedInOrder
<1>11. InOrder'
    BY <1>1, <1>2, <1>7 DEF InOrder
<1>12. NothingLost'
    BY <1>1, <1>2, <1>3, <1>4, <1>5, <1>6, <1>7 DEF NothingLost
<1>13. InTurn'
    BY <1>2, InTurnKept DEF StreamInv
<1> QED BY <1>6, <1>9, <1>10, <1>11, <1>12, <1>13 DEF StreamInv, Framing

LEMMA AppendAt ==
    ASSUME NEW S, NEW q \in Seq(S), NEW x \in S
    PROVE  /\ Len(q) \in Nat /\ Len(Append(q, x)) = Len(q) + 1
           /\ DOMAIN Append(q, x) = 1..(Len(q) + 1) /\ DOMAIN q = 1..Len(q)
           /\ \A i \in 1..Len(q) : Append(q, x)[i] = q[i]
           /\ Append(q, x)[Len(q) + 1] = x
OBVIOUS

LEMMA TailAt ==
    ASSUME NEW S, NEW q \in Seq(S), q # <<>>
    PROVE  /\ Len(q) \in Nat /\ Len(q) > 0 /\ Len(Tail(q)) = Len(q) - 1
           /\ DOMAIN Tail(q) = 1..(Len(q) - 1) /\ DOMAIN q = 1..Len(q)
           /\ \A i \in 1..(Len(q) - 1) : Tail(q)[i] = q[i + 1]
           /\ Head(q) = q[1] /\ Head(q) \in S
OBVIOUS

\* Everything that waits in a queue was queued; a list holds its priority.
LEMMA QueuedPlaces ==
    ASSUME QueueInv, InOrder
    PROVE  /\ \A x : x \in ToSet(queued) <=> \E i \in 1..Len(queued) : queued[i] = x
           /\ \A x : x \in ToSet(prep) <=> \E k \in 1..Len(prep) : prep[k] = x
           /\ \A x : x \in Listed <=>
                  \E l \in PriorityLevels : \E k \in 1..Len(lists[l]) : lists[l][k] = x
           /\ \A l \in PriorityLevels : \A k \in 1..Len(lists[l]) : Priority[lists[l][k]] = l
<1>1. /\ ToSet(queued) = {queued[i] : i \in 1..Len(queued)}
      /\ ToSet(prep) = {prep[k] : k \in 1..Len(prep)}
      /\ \A l \in PriorityLevels : ToSet(lists[l]) = {lists[l][k] : k \in 1..Len(lists[l])}
    BY QueueTypes DEF QueueInv, ToSet
<1>2. \A l \in PriorityLevels : \A k \in 1..Len(lists[l]) : Priority[lists[l][k]] = l
    BY DEF QueueInv, ListsByPriority
<1>3. \A x : x \in Listed <=>
          \E l \in PriorityLevels : \E k \in 1..Len(lists[l]) : lists[l][k] = x
  <2>1. \A x : x \in Listed <=> \E l \in PriorityLevels : x \in ToSet(lists[l])
      BY DEF Listed
  <2>2. \A l \in PriorityLevels : \A x :
            x \in ToSet(lists[l]) <=> \E k \in 1..Len(lists[l]) : lists[l][k] = x
      BY <1>1
  <2> QED BY <2>1, <2>2
<1> QED BY <1>1, <1>2, <1>3

LEMMA PushKept ==
    ASSUME QueueInv, QueueInv', StreamInv, NEW s \in Senders, Push(s)
    PROVE  StreamInv'
<1> DEFINE p == sender[s].pkg
           n == Len(queued)
<1>1. /\ Framing /\ TypeOK /\ TypeOK' /\ WaitsUnsent /\ QueuedInOrder /\ InOrder /\ NothingLost
    BY DEF StreamInv, Framing, QueueInv
<1>2. /\ sender[s].pc = "push" /\ HasPackage(s)
      /\ prep' = Append(prep, p) /\ queued' = Append(queued, p)
      /\ UNCHANGED <<lists, cur, sent, wire, ends, closed, breakMsg, session, epoll, offered>>
    BY DEF Push, HasPackage, connVars, hubVars
<1>3. /\ sender'[s].pc = "mark" /\ \A t \in Senders : t # s => sender'[t] = sender[t]
    BY <1>1 DEF Push, TypeOK
<1>4. /\ ~HasPackage(s)' /\ \A t \in Senders : t # s => (HasPackage(t)' <=> HasPackage(t))
    BY <1>3 DEF HasPackage
<1>5. p \in Packages /\ p \notin ToSet(queued) /\ NotBegun(p)
    BY <1>1, <1>2 DEF QueueInv, QueuedOnce, TypeOK, WaitsUnsent
<1>6. /\ n \in Nat /\ Len(queued') = n + 1 /\ DOMAIN queued' = 1..(n + 1) /\ DOMAIN queued = 1..n
      /\ \A i \in 1..n : queued'[i] = queued[i]
      /\ queued'[n + 1] = p
    BY <1>1, <1>2, <1>5, AppendAt DEF TypeOK
<1>7. /\ Len(prep) \in Nat /\ Len(prep') = Len(prep) + 1
      /\ DOMAIN prep' = 1..(Len(prep) + 1) /\ DOMAIN prep = 1..Len(prep)
      /\ \A k \in 1..Len(prep) : prep'[k] = prep[k]
      /\ prep'[Len(prep) + 1] = p
    BY <1>1, <1>2, <1>5, AppendAt DEF TypeOK
<1> HIDE DEF p
<1>8. Framing' /\ Started' = Started /\ Done' = Done
    BY <1>1, <1>2, FrameKept
<1>9. Listed' = Listed /\ \A x : x \in ToSet(prep)' <=> x \in ToSet(prep) \/ x = p
  <2>1. Listed' = Listed
      BY <1>2 DEF Listed
  <2>2. ToSet(prep)' = ToSet(prep) \cup {p}
      BY <1>1, <1>2, <1>5, AppendSet DEF TypeOK
  <2> QED BY <2>1, <2>2
<1>10. \A i \in 1..n : queued[i] # p /\ queued[i] \in ToSet(queued)
    BY <1>1, <1>5, <1>6, QueuedPlaces
<1>11. WaitsUnsent'
    BY <1>1, <1>2, <1>3, <1>4, <1>5, <1>7, <1>8 DEF WaitsUnsent, NotBegun
<1>12. QueuedInOrder'
  <2> SUFFICES ASSUME NEW i \in 1..(n + 1), NEW j \in 1..(n + 1), i < j,
                      Priority[queued'[i]] = Priority[queued'[j]], queued'[j] \in Started
               PROVE  \E k \in DOMAIN wire :
                          /\ wire[k] = <<queued'[i], Units[queued'[i]]>>
                          /\ \A l \in DOMAIN wire : wire[l][1] = queued'[j] => k < l
      BY <1>2, <1>6, <1>8 DEF QueuedInOrder
  <2>1. j # n + 1
      BY <1>5, <1>6 DEF NotBegun
  <2>2. i \in 1..n /\ j \in 1..n
      BY <1>6, <2>1
  <2>3. queued'[i] = queued[i] /\ queued'[j] = queued[j]
      BY <1>6, <2>2
  <2> QED BY <1>1, <1>6, <2>2, <2>3 DEF QueuedInOrder
<1>13. InOrder'
  <2>1. ASSUME NEW i \in DOMAIN queued', NEW j \in DOMAIN queued', queued'[i] = queued'[j]
        PROVE  i = j
    <3>1. CASE i \in 1..n /\ j \in 1..n
        BY <1>1, <1>6, <2>1, <3>1 DEF InOrder
    <3>2. CASE i = n + 1 \/ j = n + 1
        BY <1>6, <1>10, <2>1, <3>2
    <3> QED BY <1>6, <3>1, <3>2
  <2>2. Len(prep) <= n /\ Len(prep') <= Len(queued') /\ Len(queued') - Len(prep') = n - Len(prep)
    <3>1. Len(prep) <= n
        BY <1>1 DEF InOrder
    <3> QED BY <1>6, <1>7, <3>1
  <2>3. ASSUME NEW k \in DOMAIN prep'
        PROVE  prep'[k] = queued'[Len(queued') - Len(prep') + k]
    <3>1. CASE k \in 1..Len(prep)
      <4>1. prep[k] = queued[n - Len(prep) + k] /\ n - Len(prep) + k \in 1..n
          BY <1>1, <1>6, <1>7, <2>2, <3>1 DEF InOrder
      <4> QED BY <1>6, <1>7, <2>2, <3>1, <4>1
    <3>2. CASE k = Len(prep) + 1
        BY <1>6, <1>7, <3>2
    <3> QED BY <1>7, <3>1, <3>2
  <2>4. \A l \in PriorityLevels : \A k \in DOMAIN lists[l] :
            \E i \in 1..(Len(queued') - Len(prep')) : queued'[i] = lists[l][k]
    <3>1. \A i \in 1..(n - Len(prep)) : i \in 1..n
        BY <1>6, <1>7, <2>2
    <3> QED BY <1>1, <1>6, <2>2, <3>1 DEF InOrder
  <2>5. ASSUME NEW l \in PriorityLevels, NEW k \in DOMAIN lists[l], NEW m \in DOMAIN lists[l],
               NEW i \in DOMAIN queued', NEW j \in DOMAIN queued',
               k < m, queued'[i] = lists[l][k], queued'[j] = lists[l][m]
        PROVE  i < j
    <3>1. lists[l][k] # p /\ lists[l][m] # p
      <4>1. lists[l][k] \in Listed /\ lists[l][m] \in Listed
          BY <1>1, QueuedPlaces, QueueTypes
      <4> QED BY <1>5, <4>1 DEF QueueInv, QueuedOnce
    <3>2. i \in 1..n /\ j \in 1..n
        BY <1>6, <2>5, <3>1
    <3>3. queued[i] = lists[l][k] /\ queued[j] = lists[l][m]
        BY <1>6, <2>5, <3>2
    <3> QED BY <1>1, <1>6, <2>5, <3>2, <3>3 DEF InOrder
  <2>6. ASSUME NEW i \in 1..(Len(queued') - Len(prep')),
               NEW j \in 1..(Len(queued') - Len(prep')), i < j,
               Priority[queued'[i]] = Priority[queued'[j]], queued'[i] \in Listed
        PROVE  queued'[j] \in Listed
    <3>1. i \in 1..n /\ j \in 1..n
        BY <1>6, <1>7, <2>2
    <3> QED BY <1>1, <1>6, <2>2, <2>6, <3>1 DEF InOrder
  <2>7. lists' = lists /\ Listed' = Listed
      BY <1>2, <1>9
  <2>8. \A i, j \in 1..(Len(queued') - Len(prep')) :
           i < j /\ Priority[queued'[i]] = Priority[queued'[j]] /\ queued'[i] \in Listed'
           => queued'[j] \in Listed'
      BY <2>6, <2>7
  <2>9. \A l \in PriorityLevels : \A k, m \in DOMAIN lists'[l] :
           \A i, j \in DOMAIN queued' :
               k < m /\ queued'[i] = lists'[l][k] /\ queued'[j] = lists'[l][m] => i < j
      BY <2>5, <2>7
  <2>10. \A l \in PriorityLevels : \A k \in DOMAIN lists'[l] :
           \E i \in 1..(Len(queued') - Len(prep')) : queued'[i] = lists'[l][k]
      BY <2>4, <2>7
  <2>11. Len(prep') <= Len(queued')
      BY <2>2
  <2> QED BY <2>1, <2>3, <2>8, <2>9, <2>10, <2>11, Zenon DEF InOrder
<1>14. NothingLost'
  <2>1. ASSUME ~closed, NEW i \in 1..(n + 1)
        PROVE  \/ queued'[i] \in ToSet(prep)' \cup Listed \cup {cur}
               \/ \E k \in DOMAIN ends : Done[k] = queued'[i]
    <3>1. CASE i \in 1..n
        BY <1>1, <1>6, <1>9, <2>1, <3>1 DEF NothingLost
    <3>2. CASE i = n + 1
        BY <1>6, <1>9, <3>2
    <3> QED BY <1>6, <3>1, <3>2
  <2>2. ASSUME ~breakMsg, NEW x \in offered
        PROVE  \/ x \in ToSet(prep)' \cup Listed \cup {cur}
               \/ \E t \in Senders : HasPackage(t)' /\ sender'[t].pkg = x
               \/ \E k \in DOMAIN ends : Done[k] = x
    <3>1. CASE x = p
        BY <1>9, <3>1
    <3>2. ASSUME NEW t \in Senders, HasPackage(t), sender[t].pkg = x, x # p
          PROVE  HasPackage(t)' /\ sender'[t].pkg = x
        BY <1>3, <1>4, <3>2 DEF p
    <3> QED BY <1>1, <1>9, <2>2, <3>1, <3>2 DEF NothingLost
  <2> QED BY <1>2, <1>6, <1>8, <1>9, <2>1, <2>2 DEF NothingLost
<1>15. InTurn'
  <2>1. session
      BY <1>2 DEF StreamInv, InTurn
  <2> QED BY <1>2, <2>1, InTurnKept DEF StreamInv
<1> QED BY <1>8, <1>11, <1>12, <1>13, <1>14, <1>15 DEF StreamInv, Framing

LEMMA SortOneKept ==
    ASSUME QueueInv, QueueInv', StreamInv, NEW e \in Epolls, SortOne(e), prep # <<>>
    PROVE  StreamInv'
<1> DEFINE p == Head(prep)
           y == Priority[p]
           n == Len(queued)
           c == Len(queued) - Len(prep)
<1>1. /\ Framing /\ TypeOK /\ TypeOK' /\ WaitsUnsent /\ QueuedInOrder /\ InOrder /\ NothingLost
    BY DEF StreamInv, Framing, QueueInv
<1>2. /\ prep' = Tail(prep) /\ lists' = [lists EXCEPT ![y] = Append(@, p)]
      /\ UNCHANGED <<queued, cur, sent, wire, ends, closed, breakMsg, session, epoll, offered, sender>>
    BY DEF SortOne, connVars, hubVars
<1>3. /\ Len(prep) \in Nat /\ Len(prep) > 0 /\ Len(prep') = Len(prep) - 1
      /\ DOMAIN prep' = 1..(Len(prep) - 1) /\ DOMAIN prep = 1..Len(prep)
      /\ \A k \in 1..(Len(prep) - 1) : prep'[k] = prep[k + 1]
      /\ p = prep[1] /\ p \in Packages
    BY <1>1, <1>2, TailAt DEF TypeOK
<1>4. y \in PriorityLevels
    BY <1>3, PackagesAssumption DEF PriorityLevels
<1>5. /\ lists'[y] = Append(lists[y], p)
      /\ \A l \in PriorityLevels : l # y => lists'[l] = lists[l]
    BY <1>1, <1>2, <1>4 DEF TypeOK
<1>6. /\ n \in Nat /\ DOMAIN queued = 1..n
      /\ \A l \in PriorityLevels : Len(lists[l]) \in Nat /\ DOMAIN lists[l] = 1..Len(lists[l])
      /\ Len(lists'[y]) = Len(lists[y]) + 1 /\ DOMAIN lists'[y] = 1..(Len(lists[y]) + 1)
      /\ \A k \in 1..Len(lists[y]) : lists'[y][k] = lists[y][k]
      /\ lists'[y][Len(lists[y]) + 1] = p
  <2>1. lists[y] \in Seq(Packages)
      BY <1>1, <1>4, QueueTypes
  <2> QED BY <1>1, <1>3, <1>5, <2>1, QueueTypes, AppendAt
<1>7. /\ c \in Nat /\ c + 1 \in 1..n /\ queued[c + 1] = p /\ Len(queued') - Len(prep') = c + 1
      /\ \A i \in 1..(c + 1) : i \in 1..n
  <2>1. Len(prep) <= n /\ prep[1] = queued[c + 1]
      BY <1>1, <1>3 DEF InOrder
  <2> QED BY <1>2, <1>3, <1>6, <2>1
<1>8. \A i, j \in 1..n : queued[i] = queued[j] => i = j
    BY <1>1, <1>6 DEF InOrder
<1> HIDE DEF p, y, c
<1>9. Framing' /\ Started' = Started /\ Done' = Done
    BY <1>1, <1>2, FrameKept
<1>10. /\ \A x : x \in Listed' <=> x \in Listed \/ x = p
       /\ ToSet(prep) \subseteq ToSet(prep)' \cup {p}
  <2>1. \A l \in PriorityLevels : l # y => ToSet(lists'[l]) = ToSet(lists[l])
      BY <1>5
  <2>2. ToSet(lists'[y]) = ToSet(lists[y]) \cup {p}
    <3>1. lists[y] \in Seq(Packages)
        BY <1>1, <1>4, QueueTypes
    <3>2. ToSet(Append(lists[y], p)) = ToSet(lists[y]) \cup {p}
        BY <1>3, <3>1, AppendSet
    <3> QED BY <1>5, <3>2
  <2>3. \A x : x \in Listed <=> \E l \in PriorityLevels : x \in ToSet(lists[l])
      BY DEF Listed
  <2>4. \A x : x \in Listed' <=> \E l \in PriorityLevels : x \in ToSet(lists'[l])
      BY DEF Listed
  <2>5. ASSUME NEW k \in 1..Len(prep) PROVE prep[k] \in ToSet(prep)' \cup {p}
    <3>1. CASE k = 1 BY <1>3, <3>1
    <3>2. CASE k # 1
      <4>1. k - 1 \in 1..(Len(prep) - 1) /\ (k - 1) + 1 = k
          BY <1>3, <3>2
      <4>2. prep'[k - 1] = prep[k]
          BY <1>3, <4>1
      <4> QED BY <1>3, <4>1, <4>2 DEF ToSet
    <3> QED BY <3>1, <3>2
  <2>6. \A x : x \in Listed' <=> x \in Listed \/ x = p
      BY <1>4, <2>1, <2>2, <2>3, <2>4
  <2>7. ToSet(prep) \subseteq ToSet(prep)' \cup {p}
      BY <1>3, <2>5 DEF ToSet
  <2> QED BY <2>6, <2>7
<1>11. WaitsUnsent'
  <2>1. NotBegun(p)
      BY <1>1, <1>3 DEF WaitsUnsent
  <2>2. \A k \in 1..(Len(prep) - 1) : k + 1 \in 1..Len(prep)
      BY <1>3
  <2>3. \A k \in DOMAIN prep' : NotBegun(prep'[k])
      BY <1>1, <1>3, <2>2 DEF WaitsUnsent
  <2>4. ASSUME NEW l \in PriorityLevels, NEW k \in DOMAIN lists'[l] PROVE NotBegun(lists'[l][k])
    <3>1. CASE l # y
        BY <1>1, <1>5, <2>4, <3>1 DEF WaitsUnsent
    <3>2. CASE l = y
        BY <1>1, <1>6, <2>1, <2>4, <3>2 DEF WaitsUnsent
    <3> QED BY <3>1, <3>2
  <2>5. \A s \in Senders : HasPackage(s)' <=> HasPackage(s)
      BY <1>2 DEF HasPackage
  <2> QED BY <1>1, <1>2, <1>9, <2>3, <2>4, <2>5 DEF WaitsUnsent, NotBegun
<1>12. QueuedInOrder'
    BY <1>1, <1>2, <1>9 DEF QueuedInOrder
<1>13. InOrder'
  <2>1. Len(prep') <= Len(queued')
      BY <1>2, <1>3, <1>6, <1>7
  <2>2. ASSUME NEW k \in DOMAIN prep'
        PROVE  prep'[k] = queued'[Len(queued') - Len(prep') + k]
    <3>1. k + 1 \in 1..Len(prep) /\ c + (k + 1) = (c + 1) + k
      <4>1. k \in Nat /\ k >= 1 /\ k <= Len(prep) - 1
          BY <1>3
      <4>2. c \in Nat /\ Len(prep) \in Nat
          BY <1>3, <1>7
      <4> QED BY <4>1, <4>2
    <3>2. prep[k + 1] = queued[c + (k + 1)]
        BY <1>1, <1>3, <3>1 DEF InOrder, c
    <3> QED BY <1>2, <1>3, <1>7, <3>1, <3>2
  <2>3. ASSUME NEW l \in PriorityLevels, NEW k \in DOMAIN lists'[l]
        PROVE  \E i \in 1..(Len(queued') - Len(prep')) : queued'[i] = lists'[l][k]
    <3>1. c + 1 \in 1..(Len(queued') - Len(prep')) /\ 1..c \subseteq 1..(Len(queued') - Len(prep'))
        BY <1>7
    <3>2. CASE l = y /\ k = Len(lists[y]) + 1
        BY <1>2, <1>6, <1>7, <3>1, <3>2
    <3>3. CASE ~(l = y /\ k = Len(lists[y]) + 1)
      <4>1. k \in DOMAIN lists[l] /\ lists'[l][k] = lists[l][k]
          BY <1>5, <1>6, <3>3
      <4>2. \E i \in 1..c : queued[i] = lists[l][k]
          BY <1>1, <4>1 DEF InOrder, c
      <4> QED BY <1>2, <3>1, <4>1, <4>2
    <3> QED BY <3>2, <3>3
  <2>4. ASSUME NEW l \in PriorityLevels, NEW k \in DOMAIN lists'[l], NEW m \in DOMAIN lists'[l],
               NEW i \in DOMAIN queued', NEW j \in DOMAIN queued',
               k < m, queued'[i] = lists'[l][k], queued'[j] = lists'[l][m]
        PROVE  i < j
    <3>1. k \in DOMAIN lists[l] /\ lists'[l][k] = lists[l][k]
        BY <1>5, <1>6, <2>4
    <3>2. CASE l = y /\ m = Len(lists[y]) + 1
      <4>1. j = c + 1
          BY <1>2, <1>6, <1>7, <1>8, <2>4, <3>2
      <4>2. PICK a \in 1..c : queued[a] = lists[l][k]
          BY <1>1, <3>1 DEF InOrder, c
      <4>3. a \in 1..n
          BY <1>7, <4>2
      <4>4. i = a
          BY <1>2, <1>6, <1>8, <2>4, <3>1, <4>2, <4>3
      <4> QED BY <1>7, <4>1, <4>4
    <3>3. CASE ~(l = y /\ m = Len(lists[y]) + 1)
      <4>1. m \in DOMAIN lists[l] /\ lists'[l][m] = lists[l][m]
          BY <1>5, <1>6, <3>3
      <4> QED BY <1>1, <1>2, <2>4, <3>1, <4>1 DEF InOrder
    <3> QED BY <3>2, <3>3
  <2>5. ASSUME NEW i \in 1..(Len(queued') - Len(prep')),
               NEW j \in 1..(Len(queued') - Len(prep')), i < j,
               Priority[queued'[i]] = Priority[queued'[j]], queued'[i] \in Listed'
        PROVE  queued'[j] \in Listed'
    <3>1. i \in 1..n /\ j \in 1..n /\ i \in 1..c /\ (j = c + 1 \/ j \in 1..c)
        BY <1>7, <2>5
    <3>2. CASE j = c + 1
        BY <1>2, <1>7, <1>10, <3>2
    <3>3. CASE j \in 1..c
      <4>1. queued[i] # p
          BY <1>7, <1>8, <3>1
      <4>2. queued[i] \in Listed
          BY <1>2, <1>10, <2>5, <4>1
      <4>3. queued[j] \in Listed
          BY <1>1, <1>2, <2>5, <3>1, <3>3, <4>2 DEF InOrder, c
      <4> QED BY <1>2, <1>10, <4>3
    <3> QED BY <3>1, <3>2, <3>3
  <2>6. \A i, j \in DOMAIN queued' : queued'[i] = queued'[j] => i = j
      BY <1>2, <1>6, <1>8
  <2> QED BY <2>1, <2>2, <2>3, <2>4, <2>5, <2>6 DEF InOrder
<1>14. NothingLost'
  <2>1. ToSet(prep) \cup Listed \subseteq ToSet(prep)' \cup Listed'
      BY <1>10
  <2>2. \A s \in Senders : HasPackage(s)' <=> HasPackage(s)
      BY <1>2 DEF HasPackage
  <2> QED BY <1>1, <1>2, <1>9, <2>1, <2>2 DEF NothingLost
<1>15. InTurn'
  <2>1. session /\ epoll[e] = "sort"
      BY DEF StreamInv, InTurn, SortOne
  <2> QED BY <1>2, <2>1, InTurnKept DEF StreamInv
<1> QED BY <1>9, <1>11, <1>12, <1>13, <1>14, <1>15 DEF StreamInv, Framing

LEMMA HubBreakKept ==
    ASSUME QueueInv, QueueInv', StreamInv, HubBreak
    PROVE  StreamInv'
<1>1. /\ Framing /\ TypeOK /\ TypeOK' /\ WaitsUnsent /\ QueuedInOrder /\ InOrder /\ NothingLost
    BY DEF StreamInv, Framing, QueueInv
<1>2. /\ prep' = <<>> /\ lists' = [i \in PriorityLevels |-> <<>>] /\ cur' = None /\ sent' = 0
      /\ closed' = TRUE /\ breakMsg /\ breakMsg' = breakMsg /\ edge' = FALSE
      /\ UNCHANGED <<queued, wire, ends, sender, epoll, offered>>
      /\ \A s \in Senders : sender[s].pc = "idle"
      /\ \A e \in Epolls : epoll[e] = "wait"
    BY DEF HubBreak, NotReported, hubVars
<1>3. Framing' /\ Started' = Started /\ Done' = Done
    BY <1>1, <1>2, FrameKept
<1>4. /\ DOMAIN prep' = {} /\ Len(prep') = 0 /\ \A l \in PriorityLevels : DOMAIN lists'[l] = {}
      /\ Listed' = {}
    BY <1>2, EmptySet DEF Listed
<1>5. \A s \in Senders : ~HasPackage(s)'
    BY <1>2 DEF HasPackage
<1>6. WaitsUnsent'
    BY <1>1, <1>2, <1>3, <1>4, <1>5 DEF WaitsUnsent
<1>7. QueuedInOrder'
    BY <1>1, <1>2, <1>3 DEF QueuedInOrder
<1>8. InOrder'
  <2>1. Len(queued) \in Nat
      BY <1>1, QueueTypes
  <2> QED BY <1>1, <1>2, <1>4, <2>1 DEF InOrder
<1>9. NothingLost'
    BY <1>2 DEF NothingLost
<1>10. InTurn'
    BY <1>2 DEF InTurn
<1> QED BY <1>3, <1>6, <1>7, <1>8, <1>9, <1>10 DEF StreamInv, Framing

-----------------------------------------------------------------------------
(* The steps that write. *)

\* No queue and no thread gets a package.
OnlyTakes ==
    /\ UNCHANGED <<queued, prep, offered>>
    /\ \A t \in Senders : HasPackage(t)' => HasPackage(t) /\ sender'[t].pkg = sender[t].pkg
    /\ \A l \in PriorityLevels : \A k \in DOMAIN lists'[l] :
           \E j \in DOMAIN lists[l] : lists'[l][k] = lists[l][j]

\* A package that was refused is lost, which is an error.
LEMMA RefusedKept ==
    ASSUME QueueInv, QueueInv', StreamInv, UNCHANGED connVars, OnlyTakes,
           breakMsg' = TRUE, closed \/ lists' = lists
    PROVE  Framing' /\ WaitsUnsent' /\ QueuedInOrder' /\ NothingLost'
<1>1. /\ Framing /\ TypeOK /\ TypeOK' /\ WaitsUnsent /\ QueuedInOrder /\ InOrder /\ NothingLost
      /\ UNCHANGED <<cur, sent, wire, ends, closed>>
    BY DEF StreamInv, Framing, QueueInv, connVars
<1>2. Framing' /\ Started' = Started /\ Done' = Done
    BY <1>1, FrameKept
<1>3. WaitsUnsent'
    BY <1>1, <1>2 DEF WaitsUnsent, NotBegun, OnlyTakes
<1>4. QueuedInOrder'
    BY <1>1, <1>2 DEF QueuedInOrder, OnlyTakes
<1>5. NothingLost'
  <2>1. lists' = lists => Listed' = Listed
      BY DEF Listed
  <2> QED BY <1>1, <1>2, <2>1 DEF NothingLost, OnlyTakes
<1> QED BY <1>2, <1>3, <1>4, <1>5

LEMMA WriteKept ==
    ASSUME QueueInv, QueueInv', StreamInv, OnlyTakes,
           NEW q \in Packages, NEW m \in Nat, NEW n \in Nat, NEW result,
           Writes(q, m, n, result), q \in offered, cur = None => NotBegun(q),
           \A t \in Senders : HasPackage(t)' => sender'[t].pkg # q,
           \A k \in DOMAIN prep : prep[k] # q,
           \A l \in PriorityLevels : \A k \in DOMAIN lists'[l] : lists'[l][k] # q,
           \* What the step takes it writes.
           \A t \in Senders : HasPackage(t) => HasPackage(t)' \/ sender[t].pkg = q,
           Listed \subseteq Listed' \cup {q}, breakMsg => breakMsg',
           \* What was queued before it, at its priority, has been sent.
           cur = None => \A i, j \in DOMAIN queued :
               i < j /\ Priority[queued[i]] = Priority[queued[j]] /\ queued[j] = q
               => \E k \in DOMAIN ends : Done[k] = queued[i]
    PROVE  Framing' /\ WaitsUnsent' /\ QueuedInOrder' /\ NothingLost'
<1>1. /\ Framing /\ TypeOK /\ TypeOK' /\ WaitsUnsent /\ QueuedInOrder /\ InOrder /\ NothingLost
      /\ HalfSent
    BY DEF StreamInv, Framing, QueueInv
<1>2. /\ Framing'
      /\ Started \subseteq Started' /\ Started' \subseteq Started \cup {q}
      /\ \A k \in DOMAIN ends : k \in DOMAIN ends' /\ Done'[k] = Done[k]
      /\ cur' = q \/ \E k \in DOMAIN ends' : Done'[k] = q
    BY <1>1, FrameWritten
<1>3. /\ ~closed /\ cur \in {None, q} /\ cur' \in {None, q} /\ q # None
    BY PackagesAssumption DEF Writes, After, None
<1>4. WaitsUnsent'
  <2>1. ASSUME NEW x, NotBegun(x), x # q, x # None PROVE x \notin Started' /\ x # cur'
      BY <1>2, <1>3, <2>1 DEF NotBegun
  <2>2. ASSUME NEW t \in Senders, HasPackage(t)'
        PROVE  sender'[t].pkg \notin Started' /\ sender'[t].pkg # cur'
    <3>1. NotBegun(sender[t].pkg) /\ sender[t].pkg # q /\ sender'[t].pkg = sender[t].pkg
        BY <1>1, <2>2 DEF WaitsUnsent, OnlyTakes
    <3>2. sender[t].pkg # None
      <4>1. sender[t].pkg \in Packages
          BY <1>1, <2>2 DEF OnlyTakes, QueueInv, QueuedOnce, TypeOK
      <4> QED BY <4>1, PackagesAssumption DEF None
    <3> QED BY <2>1, <3>1, <3>2
  <2>3. ASSUME NEW k \in DOMAIN prep PROVE prep[k] \notin Started' /\ prep[k] # cur'
    <3>1. prep[k] # None
      <4>1. prep[k] \in Packages
          BY <1>1, QueueTypes
      <4> QED BY <4>1, PackagesAssumption DEF None
    <3> QED BY <1>1, <2>1, <3>1 DEF WaitsUnsent
  <2>4. ASSUME NEW l \in PriorityLevels, NEW k \in DOMAIN lists'[l]
        PROVE  lists'[l][k] \notin Started' /\ lists'[l][k] # cur'
    <3>1. PICK j \in DOMAIN lists[l] : lists'[l][k] = lists[l][j]
        BY DEF OnlyTakes
    <3>2. lists[l][j] # None
      <4>1. lists[l][j] \in Packages
          BY <1>1, QueueTypes
      <4> QED BY <4>1, PackagesAssumption DEF None
    <3> QED BY <1>1, <2>1, <3>1, <3>2 DEF WaitsUnsent
  <2>5. Started' \cup ({cur'} \ {None}) \subseteq offered'
      BY <1>1, <1>2, <1>3 DEF WaitsUnsent, OnlyTakes
  <2> QED BY <2>2, <2>3, <2>4, <2>5 DEF WaitsUnsent, NotBegun, OnlyTakes
<1>5. QueuedInOrder'
  <2> DEFINE N == Len(wire)
             N1 == Len(wire')
  <2>1. /\ N \in Nat /\ N1 \in Nat /\ N <= N1 /\ DOMAIN wire = 1..N /\ DOMAIN wire' = 1..N1
        /\ \A i \in 1..N : wire'[i] = wire[i]
      BY <1>1, WireTypes DEF Writes, Wrote
  <2>2. \A x : x \in Started <=> \E i \in 1..N : wire[i][1] = x
      BY <2>1 DEF Started
  <2>same. ASSUME \A i, j \in DOMAIN queued :
                   i < j /\ Priority[queued[i]] = Priority[queued[j]] /\ queued[j] \in Started'
                   => \E k \in DOMAIN wire' :
                          /\ wire'[k] = <<queued[i], Units[queued[i]]>>
                          /\ \A l \in DOMAIN wire' : wire'[l][1] = queued[j] => k < l
        PROVE  QueuedInOrder'
    <3>1. queued' = queued
        BY DEF OnlyTakes
    <3> QED BY <2>same, <3>1 DEF QueuedInOrder
  <2> SUFFICES ASSUME NEW i \in DOMAIN queued, NEW j \in DOMAIN queued, i < j,
                      Priority[queued[i]] = Priority[queued[j]], queued[j] \in Started'
               PROVE  \E k \in DOMAIN wire' :
                          /\ wire'[k] = <<queued[i], Units[queued[i]]>>
                          /\ \A l \in DOMAIN wire' : wire'[l][1] = queued[j] => k < l
      BY <2>same
  <2> HIDE DEF N, N1
  <2>3. CASE queued[j] \in Started
    <3>1. PICK k \in DOMAIN wire : /\ wire[k] = <<queued[i], Units[queued[i]]>>
                                   /\ \A l \in DOMAIN wire : wire[l][1] = queued[j] => k < l
      <4>1. \A x, y \in DOMAIN queued :
                x < y /\ Priority[queued[x]] = Priority[queued[y]] /\ queued[y] \in Started
                => \E k \in DOMAIN wire :
                       /\ wire[k] = <<queued[x], Units[queued[x]]>>
                       /\ \A l \in DOMAIN wire : wire[l][1] = queued[y] => k < l
          BY <1>1 DEF QueuedInOrder
      <4> QED BY <2>3, <4>1
    <3>2. k \in DOMAIN wire' /\ wire'[k] = <<queued[i], Units[queued[i]]>>
        BY <2>1, <3>1
    <3>3. ASSUME NEW l \in DOMAIN wire', wire'[l][1] = queued[j] PROVE k < l
      <4>1. CASE l \in 1..N BY <2>1, <3>1, <3>3, <4>1
      <4>2. CASE l \notin 1..N BY <2>1, <3>1, <4>2
      <4> QED BY <4>1, <4>2
    <3> QED BY <3>2, <3>3
  <2>4. CASE queued[j] \notin Started
    <3>1. queued[j] = q
        BY <1>2, <2>4
    <3>2. cur = None
      <4>1. ASSUME cur = q PROVE q \in Started
        <5>1. wire # <<>> /\ Last(wire) = <<q, HeaderUnits + sent>>
            BY <1>1, <1>3, <4>1 DEF Framing, OpenIsHalfSent
        <5>2. N \in 1..N /\ wire[N] = <<q, HeaderUnits + sent>>
            BY <1>1, <5>1, WireTypes DEF Last, N
        <5> QED BY <2>2, <5>2
      <4> QED BY <1>3, <2>4, <3>1, <4>1
    <3>3. PICK k \in DOMAIN ends : Done[k] = queued[i]
        BY <3>1, <3>2
    <3>4. /\ ends[k] \in 1..N /\ wire[ends[k]] = <<queued[i], Units[queued[i]]>>
      <4>1. k \in 1..Len(ends)
          BY <1>1, WireTypes
      <4> QED BY <1>1, <3>3, <4>1, EndsFound DEF Framing, N
    <3>5. ends[k] \in DOMAIN wire' /\ wire'[ends[k]] = <<queued[i], Units[queued[i]]>>
        BY <2>1, <3>4
    <3>6. ASSUME NEW l \in DOMAIN wire', wire'[l][1] = queued[j] PROVE ends[k] < l
      <4>1. l \notin 1..N
          BY <2>1, <2>2, <2>4, <3>6
      <4> QED BY <2>1, <3>4, <4>1
    <3> QED BY <3>5, <3>6
  <2> QED BY <2>3, <2>4
<1>6. NothingLost'
  <2>1. ASSUME NEW x, x \in ToSet(prep) \cup Listed \cup {cur}, x # None
        PROVE  \/ x \in ToSet(prep) \cup Listed' \cup {cur'}
               \/ \E k \in DOMAIN ends' : Done'[k] = x
      BY <1>2, <1>3, <2>1
  <2>2. ASSUME NEW x, \E k \in DOMAIN ends : Done[k] = x
        PROVE  \E k \in DOMAIN ends' : Done'[k] = x
      BY <1>2, <2>2
  <2>3. ASSUME NEW i \in DOMAIN queued
        PROVE  \/ queued[i] \in ToSet(prep) \cup Listed' \cup {cur'}
               \/ \E k \in DOMAIN ends' : Done'[k] = queued[i]
    <3>1. queued[i] # None
      <4>1. queued[i] \in Packages
          BY <1>1, QueueTypes
      <4> QED BY <4>1, PackagesAssumption DEF None
    <3> QED BY <1>1, <1>3, <2>1, <2>2, <3>1 DEF NothingLost
  <2>4. ASSUME ~breakMsg', NEW x \in offered
        PROVE  \/ x \in ToSet(prep) \cup Listed' \cup {cur'}
               \/ \E s \in Senders : HasPackage(s)' /\ sender'[s].pkg = x
               \/ \E k \in DOMAIN ends' : Done'[k] = x
    <3>1. x # None
      <4>1. x \in Packages
          BY <1>1 DEF TypeOK
      <4> QED BY <4>1, PackagesAssumption DEF None
    <3>2. ASSUME NEW s \in Senders, HasPackage(s), sender[s].pkg = x
          PROVE  x = q \/ (HasPackage(s)' /\ sender'[s].pkg = x)
        BY <3>2 DEF OnlyTakes
    <3>3. x = q => x \in {cur'} \/ \E k \in DOMAIN ends' : Done'[k] = x
        BY <1>2
    <3> QED BY <1>1, <2>1, <2>2, <2>4, <3>1, <3>2, <3>3 DEF NothingLost
  <2> QED BY <2>3, <2>4 DEF NothingLost, OnlyTakes
<1> QED BY <1>2, <1>4, <1>5, <1>6

LEMMA SendNowKept ==
    ASSUME QueueInv, QueueInv', StreamInv, LengthNotAlone, NEW s \in Senders, SendNow(s)
    PROVE  StreamInv'
<1> DEFINE p == sender[s].pkg
<1>1. PICK result \in Results :
          /\ SendPackage(p, result)
          /\ IF result = "Retry" THEN SenderAt(s, "arm") ELSE SenderDone(s)
          /\ breakMsg' = (breakMsg \/ result = "Error")
    BY DEF SendNow
<1>2. /\ sender[s].pc = "write" /\ HasPackage(s) /\ holder = s
      /\ UNCHANGED <<epoll, queued, prep, lists, session, offered>>
    BY DEF SendNow, QueueInv, MutexHeld, HasPackage, queueVars
<1>3. /\ TypeOK /\ HalfSent /\ QueuedOnce /\ WaitsUnsent /\ InOrder /\ InTurn
    BY DEF QueueInv, StreamInv
<1>4. /\ p \in Packages /\ p # None /\ p \in offered /\ p \notin ToSet(queued) /\ NotBegun(p)
  <2>1. p \in offered /\ p \notin ToSet(queued) /\ NotBegun(p)
      BY <1>2, <1>3 DEF QueuedOnce, WaitsUnsent
  <2> QED BY <1>3, <2>1, PackagesAssumption DEF TypeOK, None
<1>5. /\ sender'[s].pc \in {"arm", "idle"}
      /\ \A t \in Senders : t # s => sender'[t] = sender[t]
    BY <1>1, <1>3, SenderAtMoves, SenderDoneMoves DEF SenderPcs
<1>6. /\ ~HasPackage(s)'
      /\ \A t \in Senders : t # s =>
             (HasPackage(t)' <=> HasPackage(t)) /\ sender'[t].pkg = sender[t].pkg
    BY <1>5 DEF HasPackage
<1>7. \A t \in Senders : HasPackage(t) /\ t # s => sender[t].pkg # p
    BY <1>2, <1>3 DEF QueuedOnce
<1> HIDE DEF p
<1>8. OnlyTakes /\ Listed' = Listed
  <2>1. Listed' = Listed
      BY <1>2 DEF Listed
  <2> QED BY <1>2, <1>6, <2>1 DEF OnlyTakes
<1>9. InOrder'
    BY <1>2, <1>3, <1>8 DEF InOrder
<1>10. InTurn'
  <2>1. \A e \in Epolls : epoll[e] # "pick"
      BY <1>2, ThreadsAssumption DEF QueueInv, MutexHeld
  <2>2. session
      BY <1>2, <1>3 DEF InTurn
  <2> QED BY <1>2, <2>1, <2>2 DEF InTurn
<1>11. Framing' /\ WaitsUnsent' /\ QueuedInOrder' /\ NothingLost'
  <2>1. CASE UNCHANGED connVars /\ result = "Error"
      BY <1>1, <1>2, <1>8, <2>1, RefusedKept
  <2>2. ASSUME NEW m \in Nat, NEW n \in Nat, Writes(p, m, n, result)
        PROVE  Framing' /\ WaitsUnsent' /\ QueuedInOrder' /\ NothingLost'
    <3>1. \A t \in Senders : HasPackage(t)' => sender'[t].pkg # p
        BY <1>6, <1>7
    <3>2. \A t \in Senders : HasPackage(t) => HasPackage(t)' \/ sender[t].pkg = p
        BY <1>6 DEF p
    <3>3. \A k \in DOMAIN prep : prep[k] # p
      <4>1. \A k \in DOMAIN prep : prep[k] \in ToSet(prep)
          BY <1>3, QueueTypes, QueuedPlaces
      <4> QED BY <1>3, <1>4, <4>1 DEF QueuedOnce
    <3>4. \A l \in PriorityLevels : \A k \in DOMAIN lists'[l] : lists'[l][k] # p
      <4>1. \A l \in PriorityLevels : \A k \in DOMAIN lists[l] : lists[l][k] \in Listed
          BY <1>3, QueueTypes, QueuedPlaces
      <4> QED BY <1>2, <1>3, <1>4, <4>1 DEF QueuedOnce
    <3>5. \A j \in DOMAIN queued : queued[j] # p
        BY <1>3, <1>4, QueueTypes, QueuedPlaces
    <3>6. breakMsg => breakMsg'
        BY <1>1
    <3>7. Listed \subseteq Listed' \cup {p}
        BY <1>8
    <3> QED BY <1>4, <1>8, <2>2, <3>1, <3>2, <3>3, <3>4, <3>5, <3>6, <3>7, WriteKept
  <2> QED BY <1>1, <1>3, <1>4, <2>1, <2>2, SendPackageWrites
<1> QED BY <1>9, <1>10, <1>11 DEF StreamInv, Framing

\* After a write the epoll thread picks only if nothing is half sent.
LEMMA AfterSendInTurn ==
    ASSUME QueueInv, InTurn, NEW e \in Epolls, epoll[e] \in {"flush", "pick"},
           UNCHANGED <<sender, session>>, NEW result \in Results, AfterSend(e, result),
           result = "Succeed" => cur' = None
    PROVE  InTurn'
<1>1. holder = e /\ session
    BY DEF QueueInv, MutexHeld, InTurn
<1>2. \A d \in Epolls : d # e => epoll'[d] = epoll[d] /\ epoll[d] \notin {"sort", "flush", "pick"}
    BY <1>1, AfterSendMoves
<1>3. epoll'[e] = "pick" => result = "Succeed"
    BY DEF QueueInv, TypeOK, AfterSend
<1> QED BY <1>1, <1>2, <1>3 DEF InTurn

LEMMA FlushKept ==
    ASSUME QueueInv, QueueInv', StreamInv, LengthNotAlone, NEW e \in Epolls, Flush(e)
    PROVE  StreamInv'
<1>1. PICK result \in Results : SendPackage(None, result) /\ AfterSend(e, result)
    BY DEF Flush
<1>2. /\ epoll[e] = "flush" /\ cur # None
      /\ UNCHANGED <<sender, queued, prep, lists, session, offered>>
    BY DEF Flush, QueueInv, HalfSent, queueVars
<1>3. /\ TypeOK /\ HalfSent /\ QueuedOnce /\ WaitsUnsent /\ InOrder /\ InTurn
    BY DEF QueueInv, StreamInv
<1>4. OnlyTakes /\ Listed' = Listed /\ \A t \in Senders : HasPackage(t)' <=> HasPackage(t)
    BY <1>2 DEF OnlyTakes, Listed, HasPackage
<1>5. InOrder'
    BY <1>2, <1>3, <1>4 DEF InOrder
<1>6. breakMsg' = (breakMsg \/ result = "Error")
    BY <1>1 DEF AfterSend
<1>7. CASE UNCHANGED connVars /\ result = "Error"
  <2>1. InTurn'
      BY <1>1, <1>2, <1>3, <1>7, AfterSendInTurn
  <2>2. Framing' /\ WaitsUnsent' /\ QueuedInOrder' /\ NothingLost'
      BY <1>2, <1>4, <1>6, <1>7, RefusedKept
  <2> QED BY <1>5, <2>1, <2>2 DEF StreamInv, Framing
<1>8. ASSUME NEW q \in Packages, NEW m \in Nat, NEW n \in Nat, Writes(q, m, n, result), q = cur
      PROVE  StreamInv'
  <2>1. result = "Succeed" => cur' = None
      BY <1>8 DEF Writes, After
  <2>2. InTurn'
      BY <1>1, <1>2, <1>3, <2>1, AfterSendInTurn
  <2>3. q \in offered
      BY <1>2, <1>3, <1>8 DEF WaitsUnsent
  <2>4. /\ \A t \in Senders : HasPackage(t)' => sender'[t].pkg # q
        /\ \A k \in DOMAIN prep : prep[k] # q
        /\ \A l \in PriorityLevels : \A k \in DOMAIN lists'[l] : lists'[l][k] # q
      BY <1>2, <1>3, <1>4, <1>8 DEF WaitsUnsent, NotBegun
  <2>5. Framing' /\ WaitsUnsent' /\ QueuedInOrder' /\ NothingLost'
      BY <1>2, <1>4, <1>6, <1>8, <2>3, <2>4, WriteKept
  <2> QED BY <1>5, <2>2, <2>5 DEF StreamInv, Framing
<1> QED BY <1>1, <1>2, <1>3, <1>7, <1>8, SendPackageWrites

\* What the first package of the most urgent list leaves behind.
LEMMA TakeNext ==
    ASSUME QueueInv, StreamInv, Listed # {}, UNCHANGED <<queued, prep>>,
           lists' = [lists EXCEPT ![MostUrgent] = Tail(@)],
           NEW q, q = Head(lists[MostUrgent]), cur = None
    PROVE  /\ \A k \in DOMAIN prep : prep[k] # q
           /\ \A l \in PriorityLevels : \A k \in DOMAIN lists'[l] :
                  lists'[l][k] # q /\ \E j \in DOMAIN lists[l] : lists'[l][k] = lists[l][j]
           /\ Listed \subseteq Listed' \cup {q} /\ q \in Listed
           /\ ~closed => \A i, j \in DOMAIN queued :
                  i < j /\ Priority[queued[i]] = Priority[queued[j]] /\ queued[j] = q
                  => \E k \in DOMAIN ends : Done[k] = queued[i]
           /\ InOrder'
<1> DEFINE m == MostUrgent
           L == lists[m]
           N == Len(queued)
           c == Len(queued) - Len(prep)
<1>1. TypeOK /\ InOrder /\ NothingLost
    BY DEF QueueInv, StreamInv
<1>2. m \in PriorityLevels /\ L # <<>> /\ L \in Seq(Packages)
    BY <1>1, MostUrgentList DEF TypeOK
<1> HIDE DEF m
<1>3. /\ Len(L) \in Nat /\ Len(L) > 0 /\ DOMAIN Tail(L) = 1..(Len(L) - 1) /\ DOMAIN L = 1..Len(L)
      /\ \A i \in 1..(Len(L) - 1) : Tail(L)[i] = L[i + 1]
      /\ q = L[1] /\ q \in Packages
    BY <1>2, TailAt DEF m
<1>4. /\ DOMAIN lists'[m] = 1..(Len(L) - 1)
      /\ \A k \in 1..(Len(L) - 1) : lists'[m][k] = L[k + 1] /\ k + 1 \in 1..Len(L)
      /\ \A l \in PriorityLevels : l # m => lists'[l] = lists[l]
  <2>1. /\ lists'[m] = Tail(L)
        /\ \A l \in PriorityLevels : l # m => lists'[l] = lists[l]
      BY <1>1, <1>2 DEF TypeOK, m
  <2>2. \A k \in 1..(Len(L) - 1) : k + 1 \in 1..Len(L)
      BY <1>3
  <2> HIDE DEF L
  <2> QED BY <1>3, <2>1, <2>2
<1>5. /\ N \in Nat /\ Len(prep) \in Nat /\ Len(prep) <= N /\ c \in Nat /\ c <= N
      /\ DOMAIN queued = 1..N /\ DOMAIN prep = 1..Len(prep)
      /\ \A k \in 1..Len(prep) : prep[k] = queued[c + k] /\ c + k \in 1..N /\ c + k > c
  <2>1. /\ N \in Nat /\ Len(prep) \in Nat /\ Len(prep) <= N
        /\ DOMAIN queued = 1..N /\ DOMAIN prep = 1..Len(prep)
      BY <1>1, QueueTypes DEF InOrder
  <2>2. \A k \in 1..Len(prep) : prep[k] = queued[c + k]
      BY <1>1, <2>1 DEF InOrder
  <2> QED BY <2>1, <2>2
<1>6. \A i, j \in 1..N : queued[i] = queued[j] => i = j
    BY <1>1, <1>5 DEF InOrder
<1>7. \A l \in PriorityLevels : DOMAIN lists[l] = 1..Len(lists[l])
    BY <1>1, QueueTypes
<1>8. \A l \in PriorityLevels : \A k \in 1..Len(lists[l]) : \E i \in 1..c : queued[i] = lists[l][k]
    BY <1>1, <1>7 DEF InOrder
<1>9. \A l \in PriorityLevels : \A k, h \in 1..Len(lists[l]) : \A i, j \in 1..N :
          k < h /\ queued[i] = lists[l][k] /\ queued[j] = lists[l][h] => i < j
  <2>1. \A l \in PriorityLevels : \A k, h \in DOMAIN lists[l] : \A i, j \in DOMAIN queued :
            k < h /\ queued[i] = lists[l][k] /\ queued[j] = lists[l][h] => i < j
      BY <1>1 DEF InOrder
  <2>2. DOMAIN queued = 1..N
      BY <1>5
  <2> HIDE DEF N, L, c
  <2> QED BY <2>1, <2>2, <1>7
<1>10. \A i, j \in 1..c :
           i < j /\ Priority[queued[i]] = Priority[queued[j]] /\ queued[i] \in Listed
           => queued[j] \in Listed
    BY <1>1 DEF InOrder
<1>11. /\ \A x : x \in Listed <=>
              \E l \in PriorityLevels : \E k \in 1..Len(lists[l]) : lists[l][k] = x
       /\ \A l \in PriorityLevels : \A k \in 1..Len(lists[l]) : Priority[lists[l][k]] = l
    BY <1>1, QueuedPlaces
<1>12. Priority[q] = m /\ q \in Listed
    BY <1>2, <1>3, <1>11
<1>13. PICK a \in 1..c : queued[a] = q
    BY <1>2, <1>3, <1>8
<1>14. a \in 1..N /\ \A i \in 1..c : i \in 1..N
    BY <1>5
<1> HIDE DEF N, c, L
\* What is behind the first package of the list was queued after it.
<1>15. ASSUME NEW k \in 1..(Len(L) - 1), NEW i \in 1..N, queued[i] = L[k + 1]
       PROVE  a < i
    <2>1. 1 \in 1..Len(L) /\ k + 1 \in 1..Len(L) /\ 1 < k + 1
        BY <1>3
    <2> QED BY <1>2, <1>3, <1>9, <1>13, <1>14, <1>15, <2>1 DEF L
<1>16. \A k \in 1..(Len(L) - 1) : L[k + 1] # q
  <2> SUFFICES ASSUME NEW k \in 1..(Len(L) - 1), L[k + 1] = q PROVE FALSE
      OBVIOUS
  <2>1. a < a
      BY <1>13, <1>14, <1>15
  <2> QED BY <1>5, <1>14, <2>1
<1>17. \A k \in DOMAIN prep : prep[k] # q
  <2> SUFFICES ASSUME NEW k \in 1..Len(prep), prep[k] = q PROVE FALSE
      BY <1>5
  <2>1. c + k = a
      BY <1>5, <1>6, <1>13, <1>14
  <2> QED BY <1>5, <2>1
<1>18. ASSUME NEW l \in PriorityLevels, NEW k \in DOMAIN lists'[l]
       PROVE  lists'[l][k] # q /\ \E j \in DOMAIN lists[l] : lists'[l][k] = lists[l][j]
  <2>1. CASE l = m
      BY <1>3, <1>4, <1>16, <2>1 DEF L
  <2>2. CASE l # m
    <3>1. lists'[l] = lists[l] /\ k \in 1..Len(lists[l])
        BY <1>4, <1>7, <2>2
    <3>2. Priority[lists[l][k]] = l
        BY <1>11, <3>1
    <3> QED BY <1>7, <1>12, <2>2, <3>1, <3>2
  <2> QED BY <2>1, <2>2
\* What is listed still.
<1>19. ASSUME NEW l \in PriorityLevels, NEW k \in DOMAIN lists'[l]
       PROVE  lists'[l][k] \in Listed'
  <2>1. \A s \in Seq(Packages) : \A x \in DOMAIN s : s[x] \in ToSet(s)
      BY DEF ToSet
  <2>2. lists'[l] \in Seq(Packages)
    <3>1. CASE l = m
        BY <1>1, <1>2, <3>1, TailSet DEF TypeOK, m, L
    <3>2. CASE l # m
        BY <1>1, <1>4, <3>2 DEF TypeOK
    <3> QED BY <3>1, <3>2
  <2> QED BY <2>1, <2>2 DEF Listed
<1>20. ASSUME NEW x \in Listed, x # q
       PROVE  x \in Listed'
  <2>0. PICK l \in PriorityLevels : \E k \in 1..Len(lists[l]) : lists[l][k] = x
      BY <1>11
  <2>1. PICK k \in 1..Len(lists[l]) : lists[l][k] = x
      BY <2>0
  <2>2. CASE l = m
    <3>1. k # 1 /\ k - 1 \in 1..(Len(L) - 1) /\ (k - 1) + 1 = k
        BY <1>3, <1>20, <2>1, <2>2 DEF L
    <3>2. lists'[m][k - 1] = x
        BY <1>4, <2>1, <2>2, <3>1 DEF L
    <3> QED BY <1>2, <1>4, <1>19, <3>1, <3>2
  <2>3. CASE l # m
      BY <1>4, <1>7, <1>19, <2>1, <2>3
  <2> QED BY <2>2, <2>3
<1>21. Listed' \subseteq Listed
  <2>1. ASSUME NEW s, s \in Seq(Packages) PROVE ToSet(s) = {s[x] : x \in DOMAIN s}
      BY DEF ToSet
  <2>2. \A l \in PriorityLevels : ToSet(lists'[l]) \subseteq ToSet(lists[l])
    <3> SUFFICES ASSUME NEW l \in PriorityLevels PROVE ToSet(lists'[l]) \subseteq ToSet(lists[l])
        OBVIOUS
    <3>1. CASE l = m
        BY <1>1, <1>2, <3>1, TailSet DEF TypeOK, m, L
    <3>2. CASE l # m
        BY <1>4, <3>2
    <3> QED BY <3>1, <3>2
  <2> QED BY <2>2 DEF Listed
\* What was queued before the first package of the list is not listed any more.
<1>22. ASSUME NEW i \in 1..N, i < a, Priority[queued[i]] = m
       PROVE  queued[i] \notin Listed
  <2> SUFFICES ASSUME queued[i] \in Listed PROVE FALSE
      OBVIOUS
  <2>0. PICK l \in PriorityLevels : \E k \in 1..Len(lists[l]) : lists[l][k] = queued[i]
      BY <1>11
  <2>1. PICK k \in 1..Len(lists[l]) : lists[l][k] = queued[i]
      BY <2>0
  <2>2. l = m
      BY <1>11, <1>22, <2>1
  <2>3. CASE k = 1
    <3>1. i = a
        BY <1>3, <1>6, <1>13, <1>14, <2>1, <2>2, <2>3 DEF L
    <3> QED BY <1>5, <1>14, <1>22, <3>1
  <2>4. CASE k # 1
    <3>1. k - 1 \in 1..(Len(L) - 1) /\ (k - 1) + 1 = k
        BY <1>3, <2>1, <2>2, <2>4 DEF L
    <3>2. a < i
        BY <1>15, <2>1, <2>2, <3>1 DEF L
    <3> QED BY <1>5, <1>14, <1>22, <3>2
  <2> QED BY <2>3, <2>4
<1>23. ASSUME ~closed, NEW i \in DOMAIN queued, NEW j \in DOMAIN queued, i < j,
              Priority[queued[i]] = Priority[queued[j]], queued[j] = q
       PROVE  \E k \in DOMAIN ends : Done[k] = queued[i]
  <2>1. j = a /\ i \in 1..N
      BY <1>5, <1>6, <1>13, <1>14, <1>23
  <2>2. queued[i] \notin Listed
      BY <1>12, <1>22, <1>23, <2>1
  <2>3. queued[i] \notin ToSet(prep)
    <3> SUFFICES ASSUME NEW k \in 1..Len(prep), prep[k] = queued[i] PROVE FALSE
        BY <1>1, QueuedPlaces
    <3>1. c + k = i
        BY <1>5, <1>6, <2>1
    <3> QED BY <1>5, <1>13, <1>23, <2>1, <3>1
  <2>4. queued[i] # None
    <3>1. queued[i] \in Packages
        BY <1>1, QueueTypes
    <3> QED BY <3>1, PackagesAssumption DEF None
  <2> QED BY <1>1, <1>23, <2>2, <2>3, <2>4 DEF NothingLost
<1>24. InOrder'
  <2>1. \A l \in PriorityLevels : \A k \in DOMAIN lists'[l] : \E i \in 1..c : queued[i] = lists'[l][k]
    <3> SUFFICES ASSUME NEW l \in PriorityLevels, NEW k \in DOMAIN lists'[l]
                 PROVE  \E i \in 1..c : queued[i] = lists'[l][k]
        OBVIOUS
    <3>1. PICK j \in DOMAIN lists[l] : lists'[l][k] = lists[l][j]
        BY <1>18
    <3> QED BY <1>7, <1>8, <3>1
  <2>2. ASSUME NEW l \in PriorityLevels, NEW k \in DOMAIN lists'[l], NEW h \in DOMAIN lists'[l],
               NEW i \in DOMAIN queued, NEW j \in DOMAIN queued,
               k < h, queued[i] = lists'[l][k], queued[j] = lists'[l][h]
        PROVE  i < j
    <3>1. CASE l = m
      <4>1. /\ k \in 1..(Len(L) - 1) /\ h \in 1..(Len(L) - 1)
            /\ lists'[m][k] = L[k + 1] /\ lists'[m][h] = L[h + 1]
            /\ k + 1 \in 1..Len(L) /\ h + 1 \in 1..Len(L)
          BY <1>4, <3>1
      <4>2. k + 1 < h + 1
          BY <1>3, <2>2, <4>1
      <4> QED BY <1>2, <1>5, <1>9, <2>2, <3>1, <4>1, <4>2 DEF L
    <3>2. CASE l # m
        BY <1>4, <1>5, <1>7, <1>9, <2>2, <3>2
    <3> QED BY <3>1, <3>2
  <2>3. ASSUME NEW i \in 1..c, NEW j \in 1..c, i < j,
               Priority[queued[i]] = Priority[queued[j]], queued[i] \in Listed'
        PROVE  queued[j] \in Listed'
    <3>1. queued[i] \in Listed /\ queued[j] \in Listed
        BY <1>10, <1>21, <2>3
    <3>2. queued[j] # q
      <4> SUFFICES ASSUME queued[j] = q PROVE FALSE
          OBVIOUS
      <4>1. j = a
          BY <1>6, <1>13, <1>14
      <4>2. Priority[queued[i]] = m
          BY <1>12, <2>3
      <4> QED BY <1>14, <1>22, <2>3, <3>1, <4>1, <4>2
    <3> QED BY <1>20, <3>1, <3>2
  <2>4. queued' = queued /\ prep' = prep
      OBVIOUS
  <2> QED BY <1>1, <2>1, <2>2, <2>3, <2>4 DEF InOrder, c
<1>25. Listed \subseteq Listed' \cup {q}
    BY <1>20
<1> QED BY <1>12, <1>17, <1>18, <1>23, <1>24, <1>25

LEMMA SendNextKept ==
    ASSUME QueueInv, QueueInv', StreamInv, LengthNotAlone, NEW e \in Epolls, SendNext(e)
    PROVE  StreamInv'
<1> DEFINE q == Head(lists[MostUrgent])
<1>1. PICK result \in Results : SendPackage(q, result) /\ AfterSend(e, result)
    BY DEF SendNext
<1>2. /\ epoll[e] = "pick" /\ cur = None /\ Listed # {}
      /\ lists' = [lists EXCEPT ![MostUrgent] = Tail(@)]
      /\ UNCHANGED <<sender, queued, prep, session, offered>>
    BY DEF SendNext, StreamInv, InTurn
<1>3. /\ TypeOK /\ HalfSent /\ QueuedOnce /\ WaitsUnsent /\ InOrder /\ InTurn
    BY DEF QueueInv, StreamInv
<1>4. lists[MostUrgent] \in Seq(Packages) /\ lists[MostUrgent] # <<>>
    BY <1>2, <1>3, MostUrgentList DEF TypeOK
<1>5. q \in Packages /\ q # None
    BY <1>4, TailSet, PackagesAssumption DEF None
<1>6. breakMsg' = (breakMsg \/ result = "Error")
    BY <1>1 DEF AfterSend
<1>7. \A t \in Senders : HasPackage(t)' <=> HasPackage(t)
    BY <1>2 DEF HasPackage
<1> HIDE DEF q
<1>8. CASE UNCHANGED connVars /\ result = "Error" /\ closed
  <2>1. InTurn'
      BY <1>1, <1>2, <1>3, <1>8, AfterSendInTurn
  <2>2. OnlyTakes /\ InOrder'
      BY <1>2, <1>7, TakeNext DEF OnlyTakes, q
  <2>3. Framing' /\ WaitsUnsent' /\ QueuedInOrder' /\ NothingLost'
      BY <1>2, <1>6, <1>8, <2>2, RefusedKept
  <2> QED BY <2>1, <2>2, <2>3 DEF StreamInv, Framing
<1>9. ASSUME NEW m \in Nat, NEW n \in Nat, Writes(q, m, n, result)
      PROVE  StreamInv'
  <2>1. result = "Succeed" => cur' = None
      BY <1>9 DEF Writes, After
  <2>2. InTurn'
      BY <1>1, <1>2, <1>3, <2>1, AfterSendInTurn
  <2>3. ~closed
      BY <1>9 DEF Writes
  <2>4. /\ \A k \in DOMAIN prep : prep[k] # q
        /\ \A l \in PriorityLevels : \A k \in DOMAIN lists'[l] :
               lists'[l][k] # q /\ \E j \in DOMAIN lists[l] : lists'[l][k] = lists[l][j]
        /\ Listed \subseteq Listed' \cup {q} /\ q \in Listed
        /\ \A i, j \in DOMAIN queued :
               i < j /\ Priority[queued[i]] = Priority[queued[j]] /\ queued[j] = q
               => \E k \in DOMAIN ends : Done[k] = queued[i]
        /\ InOrder'
      BY <1>2, <2>3, TakeNext DEF q
  <2>5. OnlyTakes
      BY <1>2, <1>7, <2>4 DEF OnlyTakes
  <2>6. q \in ToSet(queued) /\ q \in offered
      BY <1>3, <2>4 DEF QueuedOnce
  <2>7. NotBegun(q)
    <3>1. PICK l \in PriorityLevels : \E k \in 1..Len(lists[l]) : lists[l][k] = q
        BY <1>3, <2>4, QueuedPlaces
    <3> QED BY <1>3, <3>1, QueueTypes DEF WaitsUnsent
  <2>8. \A t \in Senders : HasPackage(t)' => sender'[t].pkg # q
      BY <1>2, <1>3, <1>7, <2>6 DEF QueuedOnce
  <2>9. /\ \A l \in PriorityLevels : \A k \in DOMAIN lists'[l] : lists'[l][k] # q
        /\ \A k \in DOMAIN prep : prep[k] # q
        /\ Listed \subseteq Listed' \cup {q}
      BY <2>4
  <2>10. \A i, j \in DOMAIN queued :
               i < j /\ Priority[queued[i]] = Priority[queued[j]] /\ queued[j] = q
               => \E k \in DOMAIN ends : Done[k] = queued[i]
      BY <2>4
  <2>11. /\ \A t \in Senders : HasPackage(t) => HasPackage(t)' \/ sender[t].pkg = q
         /\ breakMsg => breakMsg'
      BY <1>6, <1>7
  <2>12. Framing' /\ WaitsUnsent' /\ QueuedInOrder' /\ NothingLost'
      BY <1>5, <1>9, <2>5, <2>6, <2>7, <2>8, <2>9, <2>10, <2>11, WriteKept
  <2> QED BY <2>2, <2>4, <2>12 DEF StreamInv, Framing
<1> QED BY <1>1, <1>2, <1>3, <1>5, <1>8, <1>9, SendPackageWrites

-----------------------------------------------------------------------------
(* The stream, the order and the packages of every behaviour. *)

LEMMA InitStreamInv == Init => StreamInv
<1> SUFFICES ASSUME Init PROVE StreamInv
    OBVIOUS
<1>1. /\ wire = <<>> /\ ends = <<>> /\ queued = <<>> /\ prep = <<>> /\ Len(prep) = 0 /\ Len(queued) = 0
      /\ DOMAIN wire = {} /\ DOMAIN ends = {} /\ DOMAIN queued = {} /\ DOMAIN prep = {}
      /\ \A l \in PriorityLevels : lists[l] = <<>> /\ DOMAIN lists[l] = {}
      /\ cur = None /\ offered = {} /\ session = TRUE
      /\ \A s \in Senders : sender[s].pc = "idle"
      /\ \A e \in Epolls : epoll[e] = "wait"
    BY DEF Init
<1>2. /\ ToSet(ends) = {} /\ Started = {} /\ ~HasOpen
      /\ \A s \in Senders : ~HasPackage(s)
    BY <1>1 DEF ToSet, Started, HasOpen, HasPackage
<1>3. WireWellFramed
    BY <1>1, <1>2 DEF WireWellFramed
<1>4. OpenIsHalfSent /\ StartedIsSent /\ SentOnce
    BY <1>1, <1>2 DEF OpenIsHalfSent, StartedIsSent, SentOnce
<1>5. WaitsUnsent /\ QueuedInOrder /\ NothingLost
    BY <1>1, <1>2 DEF WaitsUnsent, QueuedInOrder, NothingLost
<1>6. InOrder
    BY <1>1 DEF InOrder
<1>7. InTurn
    BY <1>1 DEF InTurn
<1> QED BY <1>3, <1>4, <1>5, <1>6, <1>7 DEF StreamInv

LEMMA NextStreamInv ==
    ASSUME QueueInv, QueueInv', StreamInv, LengthNotAlone, [Next]_vars
    PROVE  StreamInv'
<1>1. ASSUME NEW s \in Senders, SenderStep(s) PROVE StreamInv'
    BY <1>1, SendKept, SenderMoves, SendNowKept, PushKept DEF SenderStep
<1>2. ASSUME NEW e \in Epolls, EpollStep(e) PROVE StreamInv'
    BY <1>2, EpollMoves, SortOneKept, FlushKept, SendNextKept DEF EpollStep
<1>3. CASE HubMonitor \/ HubBreak \/ Drain \/ UNCHANGED vars
    BY <1>3, OutsideMoves, HubBreakKept
<1>4. CASE ReadCloses \/ PostBreak \/ Unregiste
    BY <1>4, DisturbMoves
<1> QED BY <1>1, <1>2, <1>3, <1>4 DEF Next

\* Where no write stops right behind the length data (EasyConnect.cpp:225 begins
\* such a frame again), what was half sent goes on where it stopped, what waits
\* has not been begun and the queues keep their order.
THEOREM StreamInvariant == Spec /\ []LengthNotAlone => []StreamInv
<1>1. Init => StreamInv
    BY InitStreamInv
<1>2. QueueInv /\ QueueInv' /\ StreamInv /\ LengthNotAlone /\ [Next]_vars => StreamInv'
    BY NextStreamInv
<1> QED BY <1>1, <1>2, SendPathInvariant, PTL DEF Spec

\* Then the stream is a sequence of whole frames, whichever threads write it
\* (SendPackage of EasyConnect.cpp under m_oSockSendMutex).
THEOREM StreamWellFramed == Spec /\ []LengthNotAlone => []WireWellFramed
<1>1. StreamInv => WireWellFramed
    BY DEF StreamInv
<1> QED BY <1>1, StreamInvariant, PTL

\* Then queued packages of one priority go out in the order AddToSendList got
\* them (ProcessPrepareSendList, GetSendPackage).
THEOREM PackagesInOrder == Spec /\ []LengthNotAlone => []QueuedInOrder
<1>1. StreamInv => QueuedInOrder
    BY DEF StreamInv
<1> QED BY <1>1, StreamInvariant, PTL

-----------------------------------------------------------------------------
(* Each package is in one place. *)

Single(S) == \A x, y \in S : x = y

LEMMA SizeOfSingle ==
    ASSUME NEW S, Single(S)
    PROVE  Cardinality(S) = IF S = {} THEN 0 ELSE 1
<1>1. CASE S = {}
    BY <1>1, FS_EmptySet
<1>2. CASE S # {}
  <2>1. PICK x : S = {x}
      BY <1>2 DEF Single
  <2> QED BY <2>1, FS_Singleton
<1> QED BY <1>1, <1>2

LEMMA InOnePlace ==
    ASSUME QueueInv, StreamInv, NEW p \in Packages
    PROVE  /\ Single(Holders(p)) /\ Single(InPrep(p)) /\ Single(InList(p)) /\ Single(InDone(p))
           /\ Holders(p) # {} => InPrep(p) = {} /\ InList(p) = {} /\ InDone(p) = {} /\ cur # p
           /\ InPrep(p) # {} => InList(p) = {} /\ InDone(p) = {} /\ cur # p
           /\ InList(p) # {} => InDone(p) = {} /\ cur # p
           /\ InDone(p) # {} => cur # p
<1> DEFINE y == Priority[p]
           N == Len(queued)
           c == Len(queued) - Len(prep)
<1>1. /\ TypeOK /\ QueuedOnce /\ WireWellFramed /\ SentOnce /\ WaitsUnsent /\ InOrder
    BY DEF QueueInv, StreamInv
<1>2. y \in PriorityLevels
    BY PackagesAssumption DEF PriorityLevels
<1>3. /\ N \in Nat /\ Len(prep) \in Nat /\ c \in Nat /\ c <= N
      /\ DOMAIN queued = 1..N /\ DOMAIN prep = 1..Len(prep)
      /\ \A k \in 1..Len(prep) : prep[k] = queued[c + k] /\ c + k \in 1..N /\ c + k > c
      /\ \A i \in 1..c : i \in 1..N
  <2>1. /\ N \in Nat /\ Len(prep) \in Nat /\ Len(prep) <= N
        /\ DOMAIN queued = 1..N /\ DOMAIN prep = 1..Len(prep)
      BY <1>1, QueueTypes DEF InOrder
  <2>2. \A k \in 1..Len(prep) : prep[k] = queued[c + k]
      BY <1>1, <2>1 DEF InOrder
  <2> QED BY <2>1, <2>2
<1>4. \A i, j \in 1..N : queued[i] = queued[j] => i = j
    BY <1>1, <1>3 DEF InOrder
<1>5. DOMAIN lists[y] = 1..Len(lists[y]) /\ Len(lists[y]) \in Nat
    BY <1>1, <1>2, QueueTypes
<1>6. \A k \in 1..Len(lists[y]) : \E i \in 1..c : queued[i] = lists[y][k]
    BY <1>1, <1>2, <1>5 DEF InOrder
<1>7. \A k, h \in 1..Len(lists[y]) : \A i, j \in 1..N :
          k < h /\ queued[i] = lists[y][k] /\ queued[j] = lists[y][h] => i < j
    BY <1>1, <1>2, <1>3, <1>5 DEF InOrder
<1>8. /\ InPrep(p) = {k \in 1..Len(prep) : prep[k] = p}
      /\ InList(p) = {k \in 1..Len(lists[y]) : lists[y][k] = p}
    BY <1>3, <1>5 DEF InPrep, InList
<1>9. /\ InDone(p) = {k \in 1..Len(ends) : Done[k] = p}
      /\ InDone(p) # {} => p \in Started /\ cur # p
      /\ Single(InDone(p))
  <2>1. DOMAIN ends = 1..Len(ends) /\ DOMAIN Done = 1..Len(ends)
      BY <1>1, WireTypes
  <2>2. \A k \in 1..Len(ends) : Done[k] \in Started
      BY <1>1, EndsFound
  <2> QED BY <1>1, <2>1, <2>2 DEF InDone, Single, SentOnce
<1>10. Holders(p) # {} => p \notin ToSet(queued) /\ p \notin Started /\ p # cur
    BY <1>1 DEF Holders, QueuedOnce, WaitsUnsent, NotBegun
<1>11. InPrep(p) # {} => p \notin Started /\ p # cur
    BY <1>1, <1>3, <1>8 DEF WaitsUnsent, NotBegun
<1>12. InList(p) # {} => p \notin Started /\ p # cur
    BY <1>1, <1>2, <1>5, <1>8 DEF WaitsUnsent, NotBegun
<1>13. Single(Holders(p))
    BY <1>1 DEF Holders, QueuedOnce, Single
<1>14. \A x \in ToSet(prep) \cup Listed : x \in ToSet(queued)
    BY <1>1 DEF QueuedOnce
<1> HIDE DEF N, c, y
<1>15. Single(InPrep(p))
  <2> SUFFICES ASSUME NEW k \in 1..Len(prep), NEW h \in 1..Len(prep), prep[k] = p, prep[h] = p
               PROVE  k = h
      BY <1>8 DEF Single
  <2>1. c + k = c + h
      BY <1>3, <1>4
  <2> QED BY <1>3, <2>1
<1>16. Single(InList(p))
  <2> SUFFICES ASSUME NEW k \in 1..Len(lists[y]), NEW h \in 1..Len(lists[y]),
                      lists[y][k] = p, lists[y][h] = p
               PROVE  ~(k < h)
      BY <1>5, <1>8 DEF Single
  <2>1. PICK i \in 1..c : queued[i] = p
      BY <1>6
  <2>2. k < h => i < i
      BY <1>3, <1>7, <2>1
  <2> QED BY <1>3, <2>1, <2>2
<1>17. InPrep(p) # {} => InList(p) = {}
  <2> SUFFICES ASSUME NEW k \in 1..Len(prep), NEW h \in 1..Len(lists[y]), prep[k] = p, lists[y][h] = p
               PROVE  FALSE
      BY <1>8
  <2>1. PICK i \in 1..c : queued[i] = p
      BY <1>6
  <2>2. i = c + k
      BY <1>3, <1>4, <2>1
  <2> QED BY <1>3, <2>1, <2>2
<1>18. Holders(p) # {} => InPrep(p) = {} /\ InList(p) = {}
  <2>1. /\ \A k \in 1..Len(prep) : prep[k] \in ToSet(queued)
        /\ \A k \in 1..Len(lists[y]) : lists[y][k] \in ToSet(queued)
      BY <1>1, <1>2, <1>14, QueuedPlaces
  <2> QED BY <1>8, <1>10, <2>1
<1> QED BY <1>9, <1>10, <1>11, <1>12, <1>13, <1>15, <1>16, <1>17, <1>18

LEMMA InAPlace ==
    ASSUME QueueInv, StreamInv, NEW p \in Packages
    PROVE  /\ p \notin offered => Holders(p) = {} /\ InPrep(p) = {} /\ InList(p) = {}
                                  /\ InDone(p) = {} /\ cur # p
           /\ p \in offered /\ ~breakMsg => \/ Holders(p) # {} \/ InPrep(p) # {} \/ InList(p) # {}
                                            \/ InDone(p) # {} \/ cur = p
<1>1. /\ TypeOK /\ QueuedOnce /\ WireWellFramed /\ WaitsUnsent /\ InOrder /\ NothingLost
    BY DEF QueueInv, StreamInv
<1>2. p # None
    BY PackagesAssumption DEF None
<1>3. DOMAIN ends = 1..Len(ends) /\ DOMAIN Done = 1..Len(ends)
    BY <1>1, WireTypes
<1>4. \A k \in 1..Len(ends) : Done[k] \in Started
    BY <1>1, EndsFound
<1>5. /\ InPrep(p) # {} <=> p \in ToSet(prep)
      /\ InList(p) # {} <=> p \in Listed
  <2>1. Priority[p] \in PriorityLevels
      BY PackagesAssumption DEF PriorityLevels
  <2>2. InPrep(p) = {k \in 1..Len(prep) : prep[k] = p}
      BY <1>1, QueueTypes DEF InPrep
  <2>3. InList(p) = {k \in 1..Len(lists[Priority[p]]) : lists[Priority[p]][k] = p}
      BY <1>1, <2>1, QueueTypes DEF InList
  <2>4. InPrep(p) # {} <=> p \in ToSet(prep)
      BY <1>1, <2>2, QueuedPlaces
  <2>5. p \in Listed => InList(p) # {}
    <3> SUFFICES ASSUME p \in Listed PROVE InList(p) # {}
        OBVIOUS
    <3>1. PICK l \in PriorityLevels : \E k \in 1..Len(lists[l]) : lists[l][k] = p
        BY <1>1, QueuedPlaces
    <3>2. l = Priority[p]
        BY <1>1, <3>1, QueuedPlaces
    <3> QED BY <2>3, <3>1, <3>2
  <2>6. InList(p) # {} => p \in Listed
      BY <1>1, <2>1, <2>3, QueuedPlaces
  <2> QED BY <2>4, <2>5, <2>6
<1>6. ToSet(prep) \cup Listed \subseteq offered
    BY <1>1 DEF QueuedOnce
<1>7. ASSUME p \notin offered
      PROVE  Holders(p) = {} /\ InPrep(p) = {} /\ InList(p) = {} /\ InDone(p) = {} /\ cur # p
  <2>1. Holders(p) = {}
      BY <1>1, <1>7 DEF Holders, QueuedOnce
  <2>2. p \notin Started /\ cur # p
      BY <1>1, <1>2, <1>7 DEF WaitsUnsent
  <2>3. InDone(p) = {}
      BY <1>3, <1>4, <2>2 DEF InDone
  <2> QED BY <1>5, <1>6, <1>7, <2>1, <2>2, <2>3
<1>8. ASSUME p \in offered, ~breakMsg
      PROVE  \/ Holders(p) # {} \/ InPrep(p) # {} \/ InList(p) # {} \/ InDone(p) # {} \/ cur = p
    BY <1>1, <1>3, <1>5, <1>8 DEF NothingLost, Holders, InDone
<1> QED BY <1>7, <1>8

LEMMA StreamIsAccounted ==
    ASSUME QueueInv, StreamInv
    PROVE  PackagesAccounted
<1> SUFFICES ASSUME NEW p \in Packages
             PROVE  /\ Places(p) <= IF p \in offered THEN 1 ELSE 0
                    /\ p \in offered /\ ~breakMsg => Places(p) = 1
    BY DEF PackagesAccounted
<1> DEFINE A == Holders(p)
           B == InPrep(p)
           C == InList(p)
           D == InDone(p)
<1>1. /\ Single(A) /\ Single(B) /\ Single(C) /\ Single(D)
      /\ A # {} => B = {} /\ C = {} /\ D = {} /\ cur # p
      /\ B # {} => C = {} /\ D = {} /\ cur # p
      /\ C # {} => D = {} /\ cur # p
      /\ D # {} => cur # p
    BY InOnePlace
<1>2. /\ p \notin offered => A = {} /\ B = {} /\ C = {} /\ D = {} /\ cur # p
      /\ p \in offered /\ ~breakMsg => A # {} \/ B # {} \/ C # {} \/ D # {} \/ cur = p
    BY InAPlace
<1>3. Places(p) = Cardinality(A) + Cardinality(B) + Cardinality(C) + Cardinality(D)
                    + (IF cur = p THEN 1 ELSE 0)
    BY DEF Places
<1> HIDE DEF A, B, C, D
<1>4. /\ Cardinality(A) = IF A = {} THEN 0 ELSE 1
      /\ Cardinality(B) = IF B = {} THEN 0 ELSE 1
      /\ Cardinality(C) = IF C = {} THEN 0 ELSE 1
      /\ Cardinality(D) = IF D = {} THEN 0 ELSE 1
    BY <1>1, SizeOfSingle
<1>5. /\ Places(p) <= 1
      /\ p \notin offered => Places(p) = 0
      /\ p \in offered /\ ~breakMsg => Places(p) = 1
    BY <1>1, <1>2, <1>3, <1>4
<1> QED BY <1>5

\* Then no package is lost before an error or sent twice: it is in one place, a
\* sender's hands, a queue, half sent or on the wire (SendDataPackage,
\* AddToSendList, ProcessSendList of ConnectSession.cpp).
THEOREM PackagesKept == Spec /\ []LengthNotAlone => []PackagesAccounted
<1>1. QueueInv /\ StreamInv => PackagesAccounted
    BY StreamIsAccounted
<1> QED BY <1>1, SendPathInvariant, StreamInvariant, PTL

-----------------------------------------------------------------------------
(* Buffers that are freed in units the length data does not fill. *)

LEMMA Products ==
    ASSUME NEW j \in Nat, NEW k \in Nat
    PROVE  /\ j * Grain \in Nat /\ (j + k) * Grain = j * Grain + k * Grain
           /\ j <= j * Grain
           /\ k <= j => (j - k) \in Nat /\ (j - k) * Grain = j * Grain - k * Grain
           /\ j < k => j * Grain < k * Grain
<1>1. Grain \in Nat /\ Grain > 0
    BY SizesAssumption
<1>2. ASSUME NEW a \in Nat, NEW b \in Nat
      PROVE  /\ a * Grain \in Nat /\ (a + b) * Grain = a * Grain + b * Grain
             /\ a <= a * Grain /\ (a > 0 => a * Grain > 0)
    BY <1>1
<1>3. CASE k <= j
  <2>1. j - k \in Nat /\ (j - k) + k = j
      BY <1>3
  <2>2. (j - k) * Grain + k * Grain = j * Grain /\ (j - k) * Grain \in Nat
      BY <1>2, <2>1
  <2> QED BY <1>2, <1>3, <2>1, <2>2
<1>4. CASE j < k
  <2>1. k - j \in Nat /\ k - j > 0 /\ (k - j) + j = k
      BY <1>4
  <2>2. (k - j) * Grain + j * Grain = k * Grain /\ (k - j) * Grain \in Nat /\ (k - j) * Grain > 0
      BY <1>2, <2>1
  <2> QED BY <1>2, <1>4, <2>1, <2>2
<1> QED BY <1>3, <1>4

LEMMA Multiples ==
    /\ Multiple(0)
    /\ \A a, b \in Nat : Multiple(a) /\ Multiple(b) => Multiple(a + b)
    /\ \A a, b \in Nat : Multiple(a) /\ Multiple(b) /\ b <= a => Multiple(a - b)
<1>1. \A n \in Nat : \A k \in Nat : n = k * Grain => Multiple(n)
    BY Products DEF Multiple
<1>2. Multiple(0)
  <2>1. 0 \in Nat /\ 0 = 0 * Grain
      BY SizesAssumption
  <2> QED BY <1>1, <2>1
<1>3. ASSUME NEW a \in Nat, NEW b \in Nat, Multiple(a), Multiple(b)
      PROVE  Multiple(a + b) /\ (b <= a => Multiple(a - b))
  <2>1. PICK j \in 0..a : a = j * Grain
      BY <1>3 DEF Multiple
  <2>2. PICK k \in 0..b : b = k * Grain
      BY <1>3 DEF Multiple
  <2>3. j \in Nat /\ k \in Nat
      OBVIOUS
  <2>4. Multiple(a + b)
    <3>1. a + b \in Nat /\ j + k \in Nat /\ a + b = (j + k) * Grain
        BY <2>1, <2>2, <2>3, Products
    <3> QED BY <1>1, <3>1
  <2>5. ASSUME b <= a PROVE Multiple(a - b)
    <3>1. k <= j
      <4>1. j < k => a < b
          BY <2>1, <2>2, <2>3, Products
      <4> QED BY <2>3, <2>5, <4>1
    <3>2. a - b \in Nat /\ j - k \in Nat /\ a - b = (j - k) * Grain
        BY <2>1, <2>2, <2>3, <2>5, <3>1, Products
    <3> QED BY <1>1, <3>2
  <2> QED BY <2>4, <2>5
<1> QED BY <1>2, <1>3

LEMMA SendPackageAligned ==
    ASSUME Aligned, RoomAligned, TypeOK, HalfSent, NEW p \in Packages \cup {None},
           NEW result \in Results, p = None => cur # None, SendPackage(p, result)
    PROVE  RoomAligned'
<1>1. CASE Refused(p)
    BY <1>1 DEF SendPackage, RoomAligned, connVars
<1>2. CASE ~Refused(p) /\ WriteSome(IF p = None THEN cur ELSE p, result)
  <2> DEFINE q == IF p = None THEN cur ELSE p
             w == Written(q)
  <2>1. /\ q \in Packages /\ None \notin Packages /\ ~closed
        /\ (cur = q \/ cur = None) /\ (cur = None => sent = 0)
      BY <1>2, PackagesAssumption DEF Refused, TypeOK, HalfSent, None
  <2>2. Units[q] \in Nat /\ Units[q] > HeaderUnits /\ HeaderUnits \in Nat /\ HeaderUnits > 0
      BY <2>1, PackagesAssumption, SizesAssumption
  <2>3. sent \in Nat /\ room \in Nat
      BY SizesAssumption DEF TypeOK
  <2>4. Position \in Nat /\ Position < Units[q] /\ Multiple(Position)
    <3>1. CASE sent = 0
      <4>1. Position = 0
          BY <3>1 DEF Position
      <4> QED BY <2>2, <4>1, Multiples
    <3>2. CASE sent # 0
      <4>1. Position = HeaderUnits + sent /\ cur = q
          BY <2>1, <3>2 DEF Position
      <4>2. Multiple(HeaderUnits + sent)
          BY <2>1, <4>1 DEF RoomAligned
      <4>3. HeaderUnits + sent < Units[q]
          BY <2>1, <2>2, <2>3, <4>1 DEF HalfSent
      <4> QED BY <2>2, <2>3, <4>1, <4>2, <4>3
    <3> QED BY <3>1, <3>2
  <2>5. Multiple(Units[q]) /\ Multiple(room)
      BY <2>1 DEF Aligned, RoomAligned
  <2>6. Units[q] - Position \in Nat /\ Multiple(Units[q] - Position)
      BY <2>2, <2>4, <2>5, Multiples
  <2>7. w \in {room, Units[q] - Position} /\ w <= room
    <3>1. {room, Units[q] - Position} \in SUBSET Nat /\ {room, Units[q] - Position} # {}
        BY <2>3, <2>6
    <3> QED BY <3>1, LeastNumber DEF Written
  <2>8. w \in Nat /\ Multiple(w)
      BY <2>3, <2>5, <2>6, <2>7
  <2>9. Multiple(room - w) /\ Multiple(Position + w)
      BY <2>3, <2>4, <2>5, <2>7, <2>8, Multiples
  <2>10. /\ room' = room - w
         /\ \/ closed' = TRUE
            \/ Position + w \in HeaderUnits..(Units[q] - 1) /\ sent' = (Position + w) - HeaderUnits
            \/ cur' = None
      BY <1>2 DEF WriteSome
  <2>11. Position + w \in HeaderUnits..(Units[q] - 1) /\ sent' = (Position + w) - HeaderUnits
         => HeaderUnits + sent' = Position + w
      BY <2>2, <2>4, <2>8
  <2> HIDE DEF w
  <2> QED BY <2>9, <2>10, <2>11 DEF RoomAligned
<1>3. CASE ~Refused(p) /\ WriteFails(IF p = None THEN cur ELSE p, result)
    BY <1>3 DEF WriteFails, RoomAligned
<1> QED BY <1>1, <1>2, <1>3 DEF SendPackage

LEMMA NextRoomAligned ==
    ASSUME Aligned, QueueInv, RoomAligned, [Next]_vars
    PROVE  RoomAligned'
<1>1. TypeOK /\ HalfSent
    BY DEF QueueInv
<1>2. ASSUME UNCHANGED connVars PROVE RoomAligned'
    BY <1>2 DEF RoomAligned, connVars
<1>3. ASSUME NEW s \in Senders, SenderStep(s) PROVE RoomAligned'
  <2>1. CASE SendNow(s)
    <3>1. sender[s].pkg \in Packages /\ sender[s].pkg # None
      <4>1. sender[s].pkg \in offered
          BY <2>1 DEF SendNow, QueueInv, QueuedOnce, HasPackage
      <4> QED BY <1>1, <4>1, PackagesAssumption DEF TypeOK, None
    <3> QED BY <1>1, <2>1, <3>1, SendPackageAligned DEF SendNow
  <2> QED BY <1>2, <1>3, <2>1 DEF SenderStep, Send, TestLists, TryLock, Push, Mark, Arm
<1>4. ASSUME NEW e \in Epolls, EpollStep(e) PROVE RoomAligned'
  <2>1. CASE Flush(e)
    <3>1. cur # None
        BY <2>1 DEF Flush, QueueInv, HalfSent
    <3> QED BY <1>1, <2>1, <3>1, SendPackageAligned DEF Flush
  <2>2. CASE SendNext(e)
    <3>1. lists[MostUrgent] \in Seq(Packages) /\ lists[MostUrgent] # <<>>
        BY <1>1, <2>2, MostUrgentList DEF TypeOK, SendNext
    <3>2. Head(lists[MostUrgent]) \in Packages /\ Head(lists[MostUrgent]) # None
        BY <3>1, TailSet, PackagesAssumption DEF None
    <3> QED BY <1>1, <2>2, <3>2, SendPackageAligned DEF SendNext
  <2> QED BY <1>2, <1>4, <2>1, <2>2
          DEF EpollStep, TakeEvent, TrySendLock, SortOne, AllSent, Disarm
<1>5. CASE HubMonitor \/ UNCHANGED vars
    BY <1>2, <1>5 DEF HubMonitor, vars, connVars
<1>6. CASE HubBreak \/ Drain \/ ReadCloses \/ PostBreak \/ Unregiste
    BY <1>6 DEF HubBreak, Drain, ReadCloses, PostBreak, Unregiste, connVars, RoomAligned
<1> QED BY <1>3, <1>4, <1>5, <1>6 DEF Next

LEMMA AlignedWrites ==
    ASSUME Aligned, QueueInv, RoomAligned
    PROVE  LengthNotAlone
<1> SUFFICES ASSUME cur # None, ~closed, ~(sent > 0) PROVE FALSE
    BY DEF LengthNotAlone
<1>1. sent = 0 /\ HeaderUnits \in Nat
    BY SizesAssumption DEF QueueInv, TypeOK
<1>2. HeaderUnits + sent = HeaderUnits
    BY <1>1
<1> QED BY <1>2 DEF RoomAligned, Aligned

\* A buffer that is freed in units which divide every frame and do not divide
\* the length data never takes the length data alone: there the whole invariant
\* of the connection holds without a condition.
THEOREM AlignedConnection == Aligned => (Spec => []IInv)
<1> SUFFICES ASSUME Aligned PROVE Spec => []IInv
    OBVIOUS
<1>1. Init => RoomAligned
    BY DEF Init, RoomAligned, Aligned
<1>2. QueueInv /\ RoomAligned /\ [Next]_vars => RoomAligned'
    BY NextRoomAligned
<1>3. QueueInv /\ RoomAligned => LengthNotAlone
    BY AlignedWrites
<1>4. QueueInv /\ RoomAligned /\ LengthNotAlone /\ StreamInv => IInv
    BY DEF IInv
<1> QED BY <1>1, <1>2, <1>3, <1>4, SendPathInvariant, StreamInvariant, PTL DEF Spec

-----------------------------------------------------------------------------
(* The connection implements the channel. *)

LEMMA AppendIs ==
    ASSUME NEW S, NEW u \in Seq(S), NEW v \in Seq(S), NEW x \in S,
           Len(v) = Len(u) + 1, \A i \in 1..Len(u) : v[i] = u[i], v[Len(u) + 1] = x
    PROVE  v = Append(u, x)
<1>1. /\ Append(u, x) \in Seq(S) /\ Len(Append(u, x)) = Len(v)
      /\ \A i \in 1..Len(v) : Append(u, x)[i] = v[i]
    BY AppendAt, AppendSet
<1>2. ASSUME NEW a \in Seq(S), NEW b \in Seq(S), Len(a) = Len(b), \A i \in 1..Len(a) : a[i] = b[i]
      PROVE  a = b
    BY <1>2
<1> QED BY <1>1, <1>2

LEMMA DoneTypes ==
    ASSUME TypeOK, WireWellFramed
    PROVE  Done \in Seq(Packages) /\ Len(Done) = Len(ends)
<1>1. /\ Len(ends) \in Nat /\ DOMAIN ends = 1..Len(ends)
      /\ \A k \in 1..Len(ends) : Done[k] \in Packages
    BY WireTypes, EndsFound
<1>2. Done = [k \in 1..Len(ends) |-> wire[ends[k]][1]]
    BY <1>1 DEF Done
<1>3. \A k \in 1..Len(ends) : wire[ends[k]][1] \in Packages
    BY <1>1, <1>2
<1> HIDE DEF Done
<1> QED BY <1>1, <1>2, <1>3

LEMMA DoneAlways == TypeOK /\ WireWellFramed => Done \in Seq(Packages) /\ Len(Done) = Len(ends)
BY DoneTypes

\* What the peer sees of the frame the connection is sending.
LEMMA OpenBefore ==
    ASSUME QueueInv, StreamInv, ~closed
    PROVE  /\ cur = None => Open = None /\ At = 0
           /\ cur # None => Open = cur /\ At = HeaderUnits + sent
<1>1. CASE cur = None
    BY <1>1 DEF StreamInv, OpenIsHalfSent, Open, At
<1>2. CASE cur # None
  <2>1. wire # <<>> /\ Last(wire) = <<cur, HeaderUnits + sent>>
      BY <1>2 DEF StreamInv, OpenIsHalfSent
  <2>2. HeaderUnits + sent < Units[cur]
      BY <1>2 DEF QueueInv, HalfSent
  <2>3. sent \in Nat /\ HeaderUnits \in Nat /\ Units[cur] \in Nat
      BY <1>2, SizesAssumption, PackagesAssumption DEF QueueInv, TypeOK
  <2>4. /\ Last(wire)[1] = cur /\ Last(wire)[2] = HeaderUnits + sent
        /\ HeaderUnits + sent # Units[cur]
      BY <2>1, <2>2, <2>3
  <2>5. HasOpen
      BY <2>1, <2>4 DEF HasOpen, IsEnd
  <2> QED BY <1>2, <2>4, <2>5 DEF Open, At
<1> QED BY <1>1, <1>2

LEMMA WriteIsChannelStep ==
    ASSUME QueueInv, QueueInv', StreamInv, StreamInv', session, UNCHANGED <<session, offered>>,
           NEW q \in Packages, NEW m \in Nat, NEW n \in Nat, NEW result,
           Writes(q, m, n, result), q \in offered, cur = None => NotBegun(q)
    PROVE  [Channel!Next]_(Channel!vars)
<1> DEFINE N == Len(wire)
           N1 == Len(wire')
           K == Len(ends)
<1>1. /\ TypeOK /\ TypeOK' /\ WireWellFramed /\ WireWellFramed' /\ HalfSent /\ SentOnce
    BY DEF QueueInv, StreamInv
<1>2. /\ ~closed /\ m <= n /\ n <= Units[q] /\ m < Units[q]
      /\ \/ cur = None /\ m = 0
         \/ cur = q /\ m = HeaderUnits + sent
      /\ Wrote(q, m, n) /\ After(q, n, result)
    BY DEF Writes
<1>3. /\ q # None /\ Units[q] \in Nat /\ HeaderUnits \in Nat /\ HeaderUnits < Units[q]
    BY PackagesAssumption, SizesAssumption DEF None
<1>4. /\ cur = None => Open = None /\ At = 0
      /\ cur = q => Open = q /\ At = m
    BY <1>2, <1>3, OpenBefore
<1>5. /\ N \in Nat /\ N1 \in Nat /\ DOMAIN wire = 1..N /\ DOMAIN wire' = 1..N1
      /\ K \in Nat /\ DOMAIN ends = 1..K
      /\ N1 = N + (n - m) /\ \A i \in 1..N : wire'[i] = wire[i]
      /\ \A i \in 1..(n - m) : wire'[N + i] = <<q, m + i>>
      /\ m = n => wire' = wire
  <2>1. N \in Nat /\ DOMAIN wire = 1..N /\ K \in Nat /\ DOMAIN ends = 1..K
      BY <1>1, WireTypes
  <2>2. N1 \in Nat /\ DOMAIN wire' = 1..N1
      BY <1>1 DEF TypeOK
  <2> QED BY <1>2, <2>1, <2>2 DEF Wrote
<1>6. /\ \A k \in 1..K : ends[k] \in 1..N
      /\ Done \in Seq(Packages) /\ Len(Done) = K /\ Done' \in Seq(Packages) /\ Len(Done') = Len(ends')
  <2>1. \A k \in 1..K : ends[k] \in 1..N
      BY <1>1, EndsFound
  <2>2. Done \in Seq(Packages) /\ Len(Done) = K
      BY <1>1, DoneTypes
  <2>3. (Done \in Seq(Packages) /\ Len(Done) = Len(ends))'
      BY <1>1, DoneAlways, PTL
  <2> QED BY <2>1, <2>2, <2>3
<1>7. q \notin ToSet(Done)
  <2>1. \A k \in 1..K : Done[k] # q
    <3>1. \A k \in 1..K : Done[k] \in Started /\ Done[k] # cur
        BY <1>1, <1>5, EndsFound DEF SentOnce
    <3> QED BY <1>2, <3>1 DEF NotBegun
  <2>2. \A u \in Seq(Packages) : \A x \in ToSet(u) : \E k \in 1..Len(u) : u[k] = x
      BY DEF ToSet
  <2> QED BY <1>6, <2>1, <2>2
<1>fresh. Channel!Fresh(q)
    BY <1>7 DEF Channel!Fresh, Channel!ToSet, ToSet
<1>8. ends' = ends => Done' = Done
  <2> SUFFICES ASSUME ends' = ends PROVE Done' = Done
      OBVIOUS
  <2>1. Done' = [k \in DOMAIN ends |-> wire'[ends[k]][1]]
      BY DEF Done
  <2>2. Done = [k \in DOMAIN ends |-> wire[ends[k]][1]]
      BY DEF Done
  <2>3. \A k \in DOMAIN ends : wire'[ends[k]][1] = wire[ends[k]][1]
      BY <1>5, <1>6
  <2> QED BY <2>1, <2>2, <2>3
<1>9. CASE m = n
  <2>1. wire' = wire /\ ends' = ends
      BY <1>2, <1>5, <1>9 DEF After
  <2>2. UNCHANGED <<Done, Open, At>>
      BY <1>8, <2>1 DEF HasOpen, IsEnd, Open, At, Last
  <2> QED BY <2>2 DEF Channel!vars
<1>10. CASE m < n
  <2>1. N1 \in 1..N1 /\ wire' # <<>> /\ wire'[N1] = <<q, n>>
    <3>1. n - m \in 1..(n - m) /\ N + (n - m) = N1 /\ m + (n - m) = n
      <4>1. N \in Nat /\ N1 = N + (n - m)
          BY <1>5
      <4>2. n - m \in 1..(n - m) /\ m + (n - m) = n
          BY <1>10
      <4> QED BY <4>1, <4>2
    <3>2. wire'[N + (n - m)] = <<q, m + (n - m)>>
        BY <1>5, <3>1
    <3>3. N1 > 0
        BY <1>5, <1>10
    <3> QED BY <1>1, <1>5, <3>1, <3>2, <3>3, WireTypes
  <2>2. Last(wire')[1] = q /\ Last(wire')[2] = n
      BY <2>1 DEF Last
  <2>3. CASE n < Units[q]
    <3>1. ends' = ends
        BY <1>2, <1>3, <2>3 DEF After
    <3>2. n # Units[q]
        BY <1>3, <2>3
    <3>3. HasOpen'
        BY <2>1, <2>2, <3>2 DEF HasOpen, IsEnd
    <3>4. Open' = q /\ At' = n
        BY <2>2, <3>3 DEF Open, At
    <3>5. CASE cur = None
      <4>1. n \in 1..(Units[q] - 1) /\ n \in 1..Units[q]
          BY <1>3, <1>10, <2>3
      <4>2. Channel!Begin(q, n)
        <5>1. Done' = Done /\ UNCHANGED <<offered, session>>
            BY <1>8, <3>1
        <5>2. Open = Channel!None
            BY <1>4, <3>5 DEF Channel!None, None
        <5> QED BY <1>fresh, <3>4, <4>1, <5>1, <5>2 DEF Channel!Begin
      <4> QED BY <4>1, <4>2 DEF Channel!Next
    <3>6. CASE cur = q
      <4>1. n \in (At + 1)..(Units[Open] - 1) /\ n \in 1..Units[Open]
          BY <1>3, <1>4, <1>10, <2>3, <3>6
      <4>2. Open # Channel!None
          BY <1>3, <1>4, <3>6 DEF Channel!None, None
      <4>3. Channel!Continue(n)
          BY <1>4, <1>8, <3>1, <3>4, <3>6, <4>1, <4>2 DEF Channel!Continue
      <4> QED BY <4>1, <4>2, <4>3 DEF Channel!Next
    <3> QED BY <1>2, <3>5, <3>6
  <2>4. CASE n = Units[q]
    <3>1. ends' = Append(ends, N1)
        BY <1>2, <1>3, <2>4 DEF After
    <3>2. /\ Len(ends') = K + 1 /\ \A k \in 1..K : ends'[k] = ends[k]
          /\ ends'[K + 1] = N1 /\ DOMAIN ends' = 1..(K + 1)
        BY <1>1, <1>5, <3>1, AppendAt DEF TypeOK
    <3>3. ~HasOpen'
        BY <2>1, <2>2, <2>4 DEF HasOpen, IsEnd
    <3>4. Open' = None /\ At' = 0
        BY <3>3 DEF Open, At
    <3>5. Done' = Append(Done, q)
      <4>1. /\ \A k \in 1..(K + 1) : Done'[k] = wire'[ends'[k]][1]
            /\ \A k \in 1..K : Done[k] = wire[ends[k]][1]
          BY <1>5, <3>2 DEF Done
      <4>2. K + 1 \in 1..(K + 1) /\ \A k \in 1..K : k \in 1..(K + 1)
          BY <1>5
      <4>3. Done'[K + 1] = q
          BY <2>1, <3>2, <4>1, <4>2
      <4>4. \A k \in 1..K : Done'[k] = Done[k]
        <5> SUFFICES ASSUME NEW k \in 1..K PROVE Done'[k] = Done[k]
            OBVIOUS
        <5>1. Done'[k] = wire'[ends[k]][1]
            BY <3>2, <4>1, <4>2
        <5>2. wire'[ends[k]] = wire[ends[k]]
            BY <1>5, <1>6
        <5> QED BY <4>1, <5>1, <5>2
      <4> HIDE DEF K
      <4> QED BY <1>6, <3>2, <4>3, <4>4, AppendIs
    <3>6. Open \in {q, None}
        BY <1>2, <1>4
    <3>7. Channel!Finish(q)
      <4>1. Open \in {q, Channel!None} /\ Open' = Channel!None
          BY <3>4, <3>6 DEF Channel!None, None
      <4>2. UNCHANGED <<offered, session>>
          OBVIOUS
      <4> QED BY <1>fresh, <3>4, <3>5, <4>1, <4>2 DEF Channel!Finish
    <3> QED BY <3>7 DEF Channel!Next
  <2> QED BY <1>2, <1>3, <2>3, <2>4
<1> QED BY <1>2, <1>9, <1>10

\* A write the connection refuses is no step of the channel.
LEMMA WriteOrNone ==
    ASSUME QueueInv, QueueInv', StreamInv, StreamInv', LengthNotAlone, session,
           UNCHANGED <<session, offered>>, NEW p \in Packages \cup {None},
           NEW result \in Results, p = None => cur # None, SendPackage(p, result),
           p # None => p \in offered /\ NotBegun(p)
    PROVE  [Channel!Next]_(Channel!vars)
<1>1. TypeOK /\ HalfSent /\ WaitsUnsent
    BY DEF QueueInv, StreamInv
<1>2. CASE UNCHANGED connVars
    BY <1>2 DEF connVars, Channel!vars, Done, Open, At, HasOpen, IsEnd, Last
<1>3. ASSUME NEW q \in Packages, NEW m \in Nat, NEW n \in Nat, Writes(q, m, n, result),
             q = (IF p = None THEN cur ELSE p)
      PROVE  [Channel!Next]_(Channel!vars)
  <2>1. q \in offered
      BY <1>1, <1>3 DEF WaitsUnsent
  <2>2. cur = None => NotBegun(q)
      BY <1>3
  <2> QED BY <1>3, <2>1, <2>2, WriteIsChannelStep
<1> QED BY <1>1, <1>2, <1>3, SendPackageWrites

LEMMA ChannelStep ==
    ASSUME QueueInv, QueueInv', StreamInv, StreamInv', LengthNotAlone, [Next]_vars
    PROVE  [Channel!Next]_(Channel!vars)
<1>1. TypeOK /\ InTurn /\ QueuedOnce /\ WaitsUnsent /\ HalfSent /\ InOrder
    BY DEF QueueInv, StreamInv
<1>2. ASSUME UNCHANGED <<wire, ends, offered, session>>
      PROVE  [Channel!Next]_(Channel!vars)
    BY <1>2 DEF Channel!vars, Done, Open, At, HasOpen, IsEnd, Last
<1>3. ASSUME NEW s \in Senders, SenderStep(s)
      PROVE  [Channel!Next]_(Channel!vars)
  <2>1. ASSUME NEW p \in Packages, Send(s, p)
        PROVE  [Channel!Next]_(Channel!vars)
    <3>1. UNCHANGED <<Done, Open, At, session>>
        BY <2>1 DEF Send, connVars, Done, Open, At, HasOpen, IsEnd, Last
    <3>2. Channel!Offer(p)
        BY <2>1, <3>1 DEF Channel!Offer, Send
    <3> QED BY <3>2 DEF Channel!Next
  <2>2. CASE SendNow(s)
    <3>1. /\ sender[s].pkg \in offered /\ NotBegun(sender[s].pkg) /\ session
        BY <1>1, <2>2 DEF SendNow, QueuedOnce, WaitsUnsent, InTurn, HasPackage
    <3>2. sender[s].pkg \in Packages /\ sender[s].pkg # None
        BY <1>1, <3>1, PackagesAssumption DEF TypeOK, None
    <3>3. PICK result \in Results : SendPackage(sender[s].pkg, result)
        BY <2>2 DEF SendNow
    <3>4. UNCHANGED <<session, offered>>
        BY <2>2 DEF SendNow
    <3> QED BY <3>1, <3>2, <3>3, <3>4, WriteOrNone
  <2> QED BY <1>2, <1>3, <2>1, <2>2
          DEF SenderStep, TestLists, TryLock, Push, Mark, Arm, connVars
<1>4. ASSUME NEW e \in Epolls, EpollStep(e)
      PROVE  [Channel!Next]_(Channel!vars)
  <2>1. CASE Flush(e)
    <3>1. cur # None /\ session /\ UNCHANGED <<session, offered>>
        BY <1>1, <2>1 DEF Flush, HalfSent, InTurn
    <3>2. PICK result \in Results : SendPackage(None, result)
        BY <2>1 DEF Flush
    <3> QED BY <3>1, <3>2, WriteOrNone
  <2>2. CASE SendNext(e)
    <3> DEFINE p == Head(lists[MostUrgent])
    <3>1. /\ session /\ UNCHANGED <<session, offered>> /\ Listed # {}
        BY <1>1, <2>2 DEF SendNext, InTurn
    <3>2. /\ MostUrgent \in PriorityLevels
          /\ lists[MostUrgent] \in Seq(Packages) /\ lists[MostUrgent] # <<>>
        BY <1>1, <3>1, MostUrgentList DEF TypeOK
    <3>3. /\ 1 \in DOMAIN lists[MostUrgent] /\ p = lists[MostUrgent][1] /\ p \in Packages
        BY <3>2, TailAt
    <3>4. p \in Listed
        BY <1>1, <3>2, <3>3, QueuedPlaces, QueueTypes
    <3>5. p \in offered /\ NotBegun(p)
        BY <1>1, <3>2, <3>3, <3>4 DEF QueuedOnce, WaitsUnsent
    <3>6. p # None
        BY <3>3, PackagesAssumption DEF None
    <3>7. PICK result \in Results : SendPackage(p, result)
        BY <2>2 DEF SendNext
    <3> HIDE DEF p
    <3> QED BY <3>1, <3>3, <3>5, <3>6, <3>7, WriteOrNone
  <2> QED BY <1>2, <1>4, <2>1, <2>2
          DEF EpollStep, TakeEvent, TrySendLock, SortOne, AllSent, Disarm, connVars
<1>5. CASE HubBreak
  <2>1. UNCHANGED <<Done, Open, At, offered>>
      BY <1>5 DEF HubBreak, Done, Open, At, HasOpen, IsEnd, Last
  <2>2. Channel!Break
      BY <1>5, <2>1 DEF HubBreak, Channel!Break
  <2> QED BY <2>2 DEF Channel!Next
<1>6. CASE HubMonitor \/ Drain \/ ReadCloses \/ PostBreak \/ Unregiste \/ UNCHANGED vars
    BY <1>2, <1>6 DEF HubMonitor, Drain, ReadCloses, PostBreak, Unregiste, connVars, vars
<1> QED BY <1>3, <1>4, <1>5, <1>6 DEF Next

\* Then the connection implements the channel: the packages reach the peer one
\* at a time, each whole and at most once, until the hub removes the session
\* (ConnectSession.cpp, EasyConnect.cpp, NetworkHub.cpp).
THEOREM ConnectionImplementsChannel == Spec /\ []LengthNotAlone => ChannelSpec
<1>1. Init => Channel!Init
    BY DEF Init, Channel!Init, Channel!None, None, Done, Open, At, HasOpen
<1>2. QueueInv /\ QueueInv' /\ StreamInv /\ StreamInv' /\ LengthNotAlone /\ [Next]_vars
      => [Channel!Next]_(Channel!vars)
    BY ChannelStep
<1> QED BY <1>1, <1>2, SendPathInvariant, StreamInvariant, PTL DEF Spec, ChannelSpec, Channel!Spec

\* Where the length data does not fill a unit of the buffer, it always does.
THEOREM AlignedChannel == Aligned => (Spec => ChannelSpec)
<1> SUFFICES ASSUME Aligned PROVE Spec => ChannelSpec
    OBVIOUS
<1>1. Spec => []IInv
    BY AlignedConnection
<1>2. IInv => LengthNotAlone
    BY DEF IInv
<1> QED BY <1>1, <1>2, ConnectionImplementsChannel, PTL
=============================================================================
