---------------------------- MODULE ReceivePath ----------------------------
(* The receiving side of one accepted connection (EpollEx, NetworkHub,      *)
(* ConnectSession, EasyConnect): edge triggered events, frames read in      *)
(* parts by several epoll threads, the packages refused, the queues by      *)
(* priority and the process threads that empty them.                        *)
(*                                                                          *)
(* The peer writes the frames 1 .. Count one after the other, so that a     *)
(* position in the stream says which frame is being received and how much   *)
(* of it: `read` stands for m_RecvPackageSize, m_ReceivedSize and           *)
(* m_strReceiving. A frame begins with HeaderUnits units of length data.    *)
EXTENDS Integers, FiniteSets, Sequences

CONSTANTS
    Epolls,         \* epoll threads
    Processes,      \* process threads of the network hub
    Count,          \* frames the peer sends
    EndOf,          \* [0 .. Count -> Nat], the position behind a frame
    HeaderUnits,
    Levels,         \* s_PriorityLevel
    Priority,       \* [1 .. Count -> 0 .. Levels - 1]
    Cuts,           \* bound: positions in the stream where arriving data may end
    NoThread, NoPackage

Frames == 1 .. Count

ASSUME ReceivePathAssumption ==
    /\ Count \in Nat /\ HeaderUnits \in Nat \ {0} /\ Levels \in Nat \ {0}
    /\ Cuts \subseteq Nat
    /\ EndOf \in [0 .. Count -> Nat] /\ EndOf[0] = 0
    /\ \A i \in Frames : EndOf[i] > EndOf[i - 1] + HeaderUnits
    \* a priority of s_PriorityLevel or more would be pushed past the queues
    /\ Priority \in [Frames -> 0 .. Levels - 1]
    /\ NoThread \notin Epolls /\ NoPackage \notin Frames

VARIABLES
    arrived,    \* units the peer sent that came to the socket
    fin,        \* the peer has closed its side
    stage,      \* of registering: "accepted", "monitored", "mapped", "removed"
    edge,       \* epoll has an event for the socket that no thread has taken
    read,       \* units read
    torn,       \* a part of length data was taken for a length
    closed,     \* our socket
    session,    \* is in m_mapConnectIDToSession
    breaking,   \* a ConnectionBreaked event is under way to the hub
    reader,     \* holder of m_oSockReadMutex
    pc,         \* of an epoll thread
    loop,       \* bLoop
    batch,      \* readList
    waiting,    \* m_pWaitProcessList
    scan,       \* the queue a process thread looks at, Levels: it sleeps
    found,      \* it has seen that this queue is not empty
    work,       \* the package it processes
    refused,    \* packages answered with an error by the session
    done, lost, \* history: packages processed, and thrown away
    missed,     \* history: why data may wait without an event
    late,       \* history: packages another batch overtook
    before      \* history: packages that waited when a scan began

peerVars == <<arrived, fin>>
socketVars == <<stage, edge, read, torn, closed, missed>>
hubVars == <<session, breaking>>
epollVars == <<reader, pc, loop, batch, refused, lost>>
queueVars == <<waiting, late>>
processVars == <<scan, found, work, done, before>>
vars == <<peerVars, socketVars, hubVars, epollVars, queueVars, processVars>>

LevelSet == 0 .. Levels - 1
Stages == {"accepted", "monitored", "mapped", "removed"}
Steps == {"wait", "event", "receive", "leave", "push", "unregister"}
Causes == {"unmapped", "overwritten", "busy", "overflow", "fin"}

TypeOK ==
    /\ arrived \in 0 .. EndOf[Count] /\ read \in 0 .. arrived
    /\ fin \in BOOLEAN /\ edge \in BOOLEAN /\ torn \in BOOLEAN /\ closed \in BOOLEAN
    /\ session \in BOOLEAN /\ breaking \in BOOLEAN
    /\ stage \in Stages
    /\ reader \in Epolls \cup {NoThread}
    /\ pc \in [Epolls -> Steps]
    /\ loop \in [Epolls -> BOOLEAN]
    /\ batch \in [Epolls -> Seq(Frames)]
    /\ waiting \in [LevelSet -> Seq(Frames)]
    /\ scan \in [Processes -> 0 .. Levels]
    /\ found \in [Processes -> BOOLEAN]
    /\ work \in [Processes -> Frames \cup {NoPackage}]
    /\ before \in [Processes -> SUBSET Frames]
    /\ refused \subseteq Frames /\ done \subseteq Frames
    /\ lost \subseteq Frames /\ late \subseteq Frames
    /\ missed \subseteq Causes

Init ==
    /\ arrived = 0 /\ read = 0
    /\ fin = FALSE /\ edge = FALSE /\ torn = FALSE /\ closed = FALSE
    /\ session = TRUE /\ breaking = FALSE
    /\ stage = "accepted"
    /\ reader = NoThread
    /\ pc = [e \in Epolls |-> "wait"]
    /\ loop = [e \in Epolls |-> FALSE]
    /\ batch = [e \in Epolls |-> <<>>]
    /\ waiting = [l \in LevelSet |-> <<>>]
    /\ scan = [t \in Processes |-> 0]
    /\ found = [t \in Processes |-> FALSE]
    /\ work = [t \in Processes |-> NoPackage]
    /\ before = [t \in Processes |-> {}]
    /\ refused = {} /\ done = {} /\ lost = {} /\ missed = {} /\ late = {}

Elements(s) == {s[i] : i \in DOMAIN s}
Waiting == UNION {Elements(waiting[l]) : l \in LevelSet}
Monitored == stage \in {"monitored", "mapped"} /\ ~closed

---------------------------------------------------------------------------
(* The peer, and the registration of the connection. Data that come to a    *)
(* monitored socket raise an event, and so does monitoring a socket that    *)
(* has some.                                                                *)

Arrive ==
    /\ ~fin /\ ~closed
    /\ \E k \in Cuts :
         /\ arrived < k /\ k <= EndOf[Count]
         /\ arrived' = k
    /\ edge' = Monitored
    /\ UNCHANGED <<fin, stage, read, torn, closed, missed, hubVars, epollVars, queueVars,
                   processVars>>

PeerCloses ==
    /\ ~fin
    /\ fin' = TRUE
    /\ edge' = Monitored
    /\ UNCHANGED <<arrived, stage, read, torn, closed, missed, hubVars, epollVars, queueVars,
                   processVars>>

(* RegisteConnection monitors the socket before the map has it. *)
AddMonitorSocket ==
    /\ stage = "accepted"
    /\ stage' = "monitored"
    /\ edge' = (~closed /\ (arrived > 0 \/ fin))
    /\ UNCHANGED <<peerVars, read, torn, closed, missed, hubVars, epollVars, queueVars,
                   processVars>>

MapSocket ==
    /\ stage = "monitored"
    /\ stage' = "mapped"
    /\ UNCHANGED <<peerVars, edge, read, torn, closed, missed, hubVars, epollVars, queueVars,
                   processVars>>

---------------------------------------------------------------------------
(* An epoll thread. *)

Goto(e, next) == pc' = [pc EXCEPT ![e] = next]

(* The event of a socket that is not in the map is dropped. All threads     *)
(* wait into the one array m_Events, so that with several of them an entry  *)
(* may be that of another socket by the time it is read. (An entry two      *)
(* threads read is left out: the second finds nothing to do.)               *)
TakeEvent(e) ==
    /\ pc[e] = "wait" /\ edge
    /\ edge' = FALSE
    /\ \/ /\ stage = "mapped"
          /\ Goto(e, "event")
          /\ UNCHANGED missed
       \/ /\ stage # "mapped"
          /\ missed' = missed \cup {"unmapped"}
          /\ UNCHANGED pc
       \/ /\ Epolls # {e}
          /\ missed' = missed \cup {"overwritten"}
          /\ UNCHANGED pc
    /\ UNCHANGED <<peerVars, stage, read, torn, closed, hubVars, reader, loop, batch, refused,
                   lost, queueVars, processVars>>

(* OnDataCanReceive of the hub: a thread that does not get the mutex        *)
(* forgets the event, and so does one that finds no session (which then     *)
(* has the connection removed).                                             *)
TryReceiveLock(e) ==
    /\ pc[e] = "event"
    /\ \/ /\ session /\ reader = NoThread
          /\ reader' = e
          /\ loop' = [loop EXCEPT ![e] = FALSE]
          /\ Goto(e, "receive")
          /\ UNCHANGED missed
       \/ /\ session /\ reader # NoThread
          /\ missed' = missed \cup {"busy"}
          /\ Goto(e, "wait")
          /\ UNCHANGED <<reader, loop>>
       \/ /\ ~session
          /\ Goto(e, "unregister")
          /\ UNCHANGED <<reader, loop, missed>>
    /\ UNCHANGED <<peerVars, stage, edge, read, torn, closed, hubVars, batch, refused, lost,
                   queueVars, processVars>>

(* The frame being received, what of it was read, and what there is. *)
AtEnd == read = EndOf[Count]
Receiving == CHOOSE i \in Frames : EndOf[i - 1] <= read /\ read < EndOf[i]
AtHead == read \in {EndOf[i] : i \in 0 .. Count}
Available == arrived - read
HasFrame == ~AtEnd /\ arrived >= EndOf[Receiving]
Reading(e) == pc[e] = "receive" /\ ~closed /\ ~torn

(* Mutant: the loop goes on only after a package that was refused. *)
ReceiveFrame_NoLoop(e) ==
    /\ Reading(e) /\ HasFrame
    /\ read' = EndOf[Receiving]
    /\ batch' = [batch EXCEPT ![e] = Append(@, Receiving)]
    /\ Goto(e, "leave")
    /\ UNCHANGED <<peerVars, stage, edge, torn, closed, missed, session, breaking, reader,
                   loop, refused, lost, queueVars, processVars>>

(* RecvPackage gets a whole frame: OnDataCanReceive of the session keeps    *)
(* the package, or refuses it for its hash or for its size. A package that  *)
(* is too big leaves bLoop as it was.                                       *)
ReceiveFrame(e) ==
    /\ Reading(e) /\ HasFrame
    /\ read' = EndOf[Receiving]
    /\ \/ /\ batch' = [batch EXCEPT ![e] = Append(@, Receiving)]
          /\ loop' = [loop EXCEPT ![e] = TRUE]
          /\ UNCHANGED <<pc, refused, missed>>
       \/ /\ refused' = refused \cup {Receiving}
          /\ loop' = [loop EXCEPT ![e] = TRUE]
          /\ UNCHANGED <<pc, batch, missed>>
       \/ /\ refused' = refused \cup {Receiving}
          /\ IF loop[e]
               THEN UNCHANGED <<pc, missed>>
               ELSE Goto(e, "leave") /\ missed' = missed \cup {"overflow"}
          /\ UNCHANGED <<batch, loop>>
    /\ UNCHANGED <<peerVars, stage, edge, torn, closed, session, breaking, reader, lost,
                   queueVars, processVars>>

(* The units before the body that this call has to read. *)
Length == IF AtHead THEN HeaderUnits ELSE 0

(* Ignore and Retry: all there is was read. A read that the peer's close    *)
(* cut short returns what it got, and nothing tells of the close again.     *)
ReceivePart(e) ==
    /\ Reading(e) /\ ~HasFrame
    /\ \/ AtHead /\ Available = 0 /\ ~fin
       \/ Available >= Length /\ ~AtEnd /\ (fin => Available > Length)
    /\ read' = arrived
    /\ missed' = IF fin THEN {"fin"} ELSE {}
    /\ Goto(e, "leave")
    /\ UNCHANGED <<peerVars, stage, edge, torn, closed, hubVars, reader, loop, batch, refused,
                   lost, queueVars, processVars>>

(* RecvLengthData converts what it got of the length data: what follows is  *)
(* not modelled.                                                            *)
TearLength(e) ==
    /\ Reading(e) /\ ~AtEnd /\ AtHead
    /\ Available \in 1 .. HeaderUnits - 1
    /\ torn' = TRUE
    /\ Goto(e, "leave")
    /\ UNCHANGED <<peerVars, stage, edge, read, closed, missed, hubVars, reader, loop, batch,
                   refused, lost, queueVars, processVars>>

(* Warning and Error: the packages read so far are dropped with the list,   *)
(* and the hub is told to break the connection.                             *)
Fail(e) ==
    /\ Reading(e)
    /\ \/ /\ AtHead /\ Available = 0 /\ fin
          /\ lost' = lost \cup Elements(batch[e])
          /\ UNCHANGED <<read, closed>>
       \/ /\ ~HasFrame /\ ~AtEnd /\ fin /\ Available >= Length /\ (AtHead => Available > 0)
          /\ lost' = lost \cup Elements(batch[e])
          /\ read' = arrived
          /\ closed' = TRUE
       \/ /\ HasFrame                  \* it cannot be parsed
          /\ lost' = lost \cup Elements(batch[e]) \cup {Receiving}
          /\ read' = EndOf[Receiving]
          /\ closed' = TRUE
    /\ edge' = (edge /\ ~closed')
    /\ batch' = [batch EXCEPT ![e] = <<>>]
    /\ breaking' = TRUE
    /\ reader' = NoThread
    /\ Goto(e, "unregister")
    /\ UNCHANGED <<peerVars, stage, torn, missed, session, loop, refused, queueVars,
                   processVars>>

Leave(e) ==
    /\ pc[e] = "leave"
    /\ reader' = NoThread
    /\ Goto(e, "push")
    /\ UNCHANGED <<peerVars, socketVars, hubVars, loop, batch, refused, lost, queueVars,
                   processVars>>

(* Earlier packages of the queue of p that other threads have yet to push.  *)
Overtaken(e, p) ==
    {q \in UNION {Elements(batch[u]) : u \in Epolls \ {e}} : q < p /\ Priority[q] = Priority[p]}

(* Mutant: the last package of the list is pushed first. *)
PushOne_LastFirst(e) ==
    /\ pc[e] = "push" /\ batch[e] # <<>>
    /\ LET n == Len(batch[e])
           p == batch[e][n] IN
         /\ waiting' = [waiting EXCEPT ![Priority[p]] = Append(@, p)]
         /\ late' = late \cup Overtaken(e, p)
         /\ batch' = [batch EXCEPT ![e] = SubSeq(@, 1, n - 1)]
    /\ UNCHANGED <<peerVars, socketVars, hubVars, reader, pc, loop, refused, lost, processVars>>

(* The packages go to their queues after the mutex is released. *)
PushOne(e) ==
    /\ pc[e] = "push" /\ batch[e] # <<>>
    /\ LET p == Head(batch[e]) IN
         /\ waiting' = [waiting EXCEPT ![Priority[p]] = Append(@, p)]
         /\ late' = late \cup Overtaken(e, p)
    /\ batch' = [batch EXCEPT ![e] = Tail(@)]
    /\ UNCHANGED <<peerVars, socketVars, hubVars, reader, pc, loop, refused, lost, processVars>>

PushDone(e) ==
    /\ pc[e] = "push" /\ batch[e] = <<>>
    /\ Goto(e, "wait")
    /\ UNCHANGED <<peerVars, socketVars, hubVars, reader, loop, batch, refused, lost,
                   queueVars, processVars>>

UnregisteConnection(e) ==
    /\ pc[e] = "unregister"
    /\ stage' = "removed"
    /\ edge' = FALSE
    /\ Goto(e, "wait")
    /\ UNCHANGED <<peerVars, read, torn, closed, missed, hubVars, reader, loop, batch, refused,
                   lost, queueVars, processVars>>

---------------------------------------------------------------------------
(* A process thread: it looks for a queue with packages from the most       *)
(* urgent one on, and after a package it starts over.                       *)

StartOver(t) ==
    /\ scan' = [scan EXCEPT ![t] = 0]
    /\ found' = [found EXCEPT ![t] = FALSE]
    /\ before' = [before EXCEPT ![t] = Waiting]

Look(t) ==
    /\ scan[t] < Levels /\ ~found[t] /\ work[t] = NoPackage
    /\ IF waiting[scan[t]] = <<>>
         THEN scan' = [scan EXCEPT ![t] = @ + 1] /\ UNCHANGED found
         ELSE found' = [found EXCEPT ![t] = TRUE] /\ UNCHANGED scan
    /\ UNCHANGED <<peerVars, socketVars, hubVars, epollVars, queueVars, work, done, before>>

(* Mutant: the front is read before the queue is locked to remove it. *)
TryMovePop_NotRemoved(t) ==
    /\ found[t]
    /\ waiting[scan[t]] # <<>>
    /\ work' = [work EXCEPT ![t] = Head(waiting[scan[t]])]
    /\ found' = [found EXCEPT ![t] = FALSE]
    /\ UNCHANGED <<peerVars, socketVars, hubVars, epollVars, queueVars, scan, done, before>>

(* TryMovePop: another thread may have taken the package in between. *)
TryMovePop(t) ==
    /\ found[t]
    /\ LET queue == waiting[scan[t]] IN
         IF queue = <<>>
           THEN StartOver(t) /\ UNCHANGED <<waiting, work>>
           ELSE /\ waiting' = [waiting EXCEPT ![scan[t]] = Tail(@)]
                /\ work' = [work EXCEPT ![t] = Head(queue)]
                /\ found' = [found EXCEPT ![t] = FALSE]
                /\ before' = [before EXCEPT ![t] = {}]
                /\ UNCHANGED scan
    /\ UNCHANGED <<peerVars, socketVars, hubVars, epollVars, late, done>>

(* Mutant: the scan goes on where it was. *)
Finish_GoesOn(t) ==
    /\ work[t] # NoPackage
    /\ done' = done \cup {work[t]}
    /\ work' = [work EXCEPT ![t] = NoPackage]
    /\ before' = [before EXCEPT ![t] = Waiting]
    /\ UNCHANGED <<peerVars, socketVars, hubVars, epollVars, queueVars, scan, found>>

(* The package was processed: it is answered when its session is still      *)
(* there, and not when the module says so or throws.                        *)
Finish(t) ==
    /\ work[t] # NoPackage
    /\ done' = done \cup {work[t]}
    /\ work' = [work EXCEPT ![t] = NoPackage]
    /\ StartOver(t)
    /\ UNCHANGED <<peerVars, socketVars, hubVars, epollVars, queueVars>>

(* wait_for(1000): the thread was notified, or the time is over. *)
Wake(t) ==
    /\ scan[t] = Levels
    /\ StartOver(t)
    /\ UNCHANGED <<peerVars, socketVars, hubVars, epollVars, queueVars, work, done>>

---------------------------------------------------------------------------
(* The timeout thread and the hub. Time is not modelled: the thread may     *)
(* find any session idle. It posts the event again and again until the hub  *)
(* has handled it; those after the first find no session.                   *)

CheckTimeout ==
    /\ session /\ ~breaking
    /\ breaking' = TRUE
    /\ UNCHANGED <<peerVars, socketVars, session, epollVars, queueVars, processVars>>

(* The session goes, and its socket with it. A session that is destroyed    *)
(* while a thread is in it has no outcome to model.                         *)
HandleBreak ==
    /\ breaking
    /\ \A e \in Epolls : pc[e] \notin {"receive", "leave"}
    /\ breaking' = FALSE
    /\ session' = FALSE /\ closed' = TRUE
    /\ stage' = "removed" /\ edge' = FALSE
    /\ UNCHANGED <<peerVars, read, torn, missed, epollVars, queueVars, processVars>>

EpollStep(e) ==
    \/ TakeEvent(e) \/ TryReceiveLock(e) \/ ReceiveFrame(e) \/ ReceivePart(e)
    \/ TearLength(e) \/ Fail(e) \/ Leave(e) \/ PushOne(e) \/ PushDone(e)
    \/ UnregisteConnection(e)

ProcessStep(t) == Look(t) \/ TryMovePop(t) \/ Finish(t) \/ Wake(t)

Next ==
    \/ Arrive \/ PeerCloses \/ AddMonitorSocket \/ MapSocket
    \/ \E e \in Epolls : EpollStep(e)
    \/ \E t \in Processes : ProcessStep(t)
    \/ CheckTimeout \/ HandleBreak

Spec == Init /\ [][Next]_vars

---------------------------------------------------------------------------
(* When no thread is going to read, nothing lies unread in the socket of a  *)
(* registered connection unless an event was given away: for a socket that  *)
(* was not mapped yet, in the array the threads share, to a thread that     *)
(* found another one leaving, after a package too big, or with the peer's   *)
(* close behind half a frame.                                               *)
NothingLeftBehind ==
    (/\ stage = "mapped" /\ session /\ ~closed /\ ~torn /\ ~edge
     /\ \A e \in Epolls : pc[e] \notin {"event", "receive", "unregister"})
    => missed # {} \/ (Available = 0 /\ ~fin)

ReadBy(p) == {e \in Epolls : p \in Elements(batch[e])}
QueuesOf(p) == {l \in LevelSet : p \in Elements(waiting[l])}
WorkedBy(p) == {t \in Processes : work[t] = p}
Outcomes(p) ==
    {k \in {"refused", "done", "lost"} :
       \/ k = "refused" /\ p \in refused
       \/ k = "done" /\ p \in done
       \/ k = "lost" /\ p \in lost}
Places(p) ==
    ({"batch"} \X ReadBy(p)) \cup ({"queue"} \X QueuesOf(p))
      \cup ({"process"} \X WorkedBy(p)) \cup ({"end"} \X Outcomes(p))

LostWhenBroken == lost # {} => breaking \/ ~session

(* Every frame that was read is in one place: with a thread that read it,   *)
(* in a queue, being processed, or at its end, and packages are thrown away *)
(* only when the connection failed.                                         *)
PackagesAccounted ==
    /\ \A p \in Frames : Cardinality(Places(p)) = IF EndOf[p] <= read THEN 1 ELSE 0
    /\ LostWhenBroken

(* The packages of one priority are processed in the order they were sent,  *)
(* except those that another thread read first and had not pushed yet.      *)
QueuedInOrder ==
    \A l \in LevelSet : \A i, j \in DOMAIN waiting[l] :
        i < j /\ waiting[l][j] \notin late => waiting[l][i] < waiting[l][j]

(* A process thread never takes a package while a more urgent one waits     *)
(* that was there when it began to look.                                    *)
UrgentTakenFirst ==
    [][\A t \in Processes :
         work[t] = NoPackage /\ work'[t] # NoPackage =>
           \A q \in before[t] \cap Waiting' : Priority[q] >= Priority[work'[t]]]_vars

---------------------------------------------------------------------------
(* What makes the properties inductive. *)

(* Unread data have an event, or a thread that will come to them, from the  *)
(* moment the socket is monitored.                                          *)
UnreadHasEvent ==
    (/\ stage \in {"monitored", "mapped"} /\ session /\ ~closed /\ ~torn /\ ~edge
     /\ \A e \in Epolls : pc[e] \notin {"event", "receive", "unregister"})
    => missed # {} \/ (Available = 0 /\ ~fin)

InOnePlace ==
    \A p \in Frames :
        IF EndOf[p] <= read THEN \E x \in Places(p) : Places(p) = {x} ELSE Places(p) = {}

(* A thread reads the frames in order; a queue holds those of its priority, *)
(* each once.                                                               *)
BatchesInOrder ==
    \A e \in Epolls : \A i, j \in DOMAIN batch[e] : i < j => batch[e][i] < batch[e][j]
QueuesByPriority ==
    \A l \in LevelSet :
        /\ \A p \in Elements(waiting[l]) : Priority[p] = l
        /\ \A i, j \in DOMAIN waiting[l] : waiting[l][i] = waiting[l][j] => i = j

(* Who is still in a batch when a later package of its priority waits will  *)
(* be late.                                                                 *)
OvertakenIsLate ==
    \A e \in Epolls : \A p \in Elements(batch[e]) :
        \A q \in Elements(waiting[Priority[p]]) : p < q => p \in late

(* A process thread that looks has no package, and the queues it has passed *)
(* hold nothing that was there when it began.                               *)
Looking(t) ==
    /\ found[t] => scan[t] < Levels /\ work[t] = NoPackage
    /\ \A q \in before[t] : EndOf[q] <= read /\ ReadBy(q) = {}
    /\ \A q \in before[t] \cap Waiting : scan[t] <= Priority[q]
LooksInTurn == \A t \in Processes : Looking(t)

IInv ==
    /\ TypeOK /\ UnreadHasEvent /\ InOnePlace /\ LostWhenBroken
    /\ BatchesInOrder /\ QueuesByPriority /\ OvertakenIsLate /\ QueuedInOrder
    /\ LooksInTurn
=============================================================================
