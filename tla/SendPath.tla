------------------------------ MODULE SendPath ------------------------------
(***************************************************************************)
(* The sending side of one accepted connection: SendDataPackage and        *)
(* OnDataCanSend of ConnectSession.cpp, SendPackage of EasyConnect.cpp,    *)
(* and the EPOLLOUT interest that EpollEx.cpp and NetworkHub.cpp keep.     *)
(*                                                                         *)
(* Any thread may send.  It writes to the socket itself if nothing waits   *)
(* and the send mutex is free; otherwise it queues the package and asks    *)
(* for EPOLLOUT.  An epoll thread that gets the (edge triggered) event     *)
(* sorts the queue by priority and sends until the socket is full or       *)
(* nothing is left, and then gives the interest up.                        *)
(*                                                                         *)
(* The socket buffer is counted in units; `wire' is what was written to it.*)
(* The connection does not reconnect (InitializeAsServer).                 *)
(***************************************************************************)
EXTENDS Naturals, Sequences, SequencesExt, FiniteSetsExt

CONSTANTS
    Senders, Epolls,    \* sending threads, epoll threads
    Packages,
    Priority,           \* per package, 0 is the most urgent
    Units,              \* per package: its frame, the length data included
    Big,                \* the packages IsBigPackage holds for
    Levels,             \* s_PriorityLevel
    HeaderUnits,        \* of the length data
    BufferUnits,        \* of the socket's send buffer
    Grain,              \* the peer frees the buffer in multiples of this
    Incoming            \* may EPOLLIN be reported together with EPOLLOUT?

ASSUME SizesAssumption ==
    /\ Levels \in Nat \ {0} /\ HeaderUnits \in Nat \ {0}
    /\ BufferUnits \in Nat \ {0} /\ Grain \in Nat \ {0}
ASSUME PackagesAssumption ==
    \A p \in Packages :
        /\ p # "none"
        /\ Priority[p] \in 0..(Levels - 1) /\ Units[p] \in Nat /\ Units[p] > HeaderUnits
ASSUME ThreadsAssumption == Senders \cap Epolls = {} /\ "none" \notin Senders \cup Epolls

VARIABLES
    sender,       \* per sending thread: where SendDataPackage is, its package
    epoll,        \* per epoll thread: where it is
    prep,         \* m_oPrepareSendList
    lists,        \* m_pSendList, a queue per priority
    listEmpty,    \* m_bIsSendListEmpty
    cur, sent,    \* m_strSending and m_SentSize of the connection
    holder,       \* of m_oSockSendMutex
    wire,         \* units written to the socket
    ends,         \* history: where in `wire' frames were sent to their end
    room,         \* free units of the socket's send buffer
    monitored,    \* is EPOLLOUT asked for?
    edge,         \* an EPOLLOUT event nobody has taken
    polled,       \* is the connection in the maps of CEpollEx?
    monitorMsgs,  \* MonitorSendStatus events in the control hub
    breakMsg,     \* was a ConnectionBreaked event sent?
    closed,       \* EasyConnect::Close was called
    session,      \* is the session still in m_mapConnectIDToSession?
    offered,      \* history: packages handed to SendDataPackage
    queued,       \* history: packages in the order AddToSendList got them
    seen          \* history: what waited when the epoll thread got the mutex

queueVars == <<prep, lists, listEmpty, queued>>
connVars == <<cur, sent, wire, ends, room, closed>>
pollVars == <<monitored, edge, polled>>
hubVars == <<monitorMsgs, breakMsg>>
vars == <<sender, epoll, prep, lists, listEmpty, cur, sent, holder, wire, ends, room,
          monitored, edge, polled, monitorMsgs, breakMsg, closed, session, offered, queued, seen>>

None == "none"
PriorityLevels == 0..(Levels - 1)
SenderPcs == {"idle", "lists", "lock", "write", "push", "mark", "arm"}
EpollPcs == {"wait", "try", "sort", "flush", "pick", "disarm"}
Results == {"Succeed", "Retry", "Error"}

\* The type invariant; the socket buffer never overflows (CUniversal::SendEx).
TypeOK ==
    /\ sender \in [Senders -> [pc : SenderPcs, pkg : Packages \cup {None}]]
    /\ epoll \in [Epolls -> EpollPcs]
    /\ prep \in Seq(Packages) /\ lists \in [PriorityLevels -> Seq(Packages)]
    /\ cur \in Packages \cup {None} /\ sent \in Nat
    /\ holder \in Senders \cup Epolls \cup {None}
    /\ wire \in Seq(Packages \X (Nat \ {0})) /\ ends \in Seq(Nat)
    /\ room \in 0..BufferUnits /\ monitorMsgs \in Nat
    /\ listEmpty \in BOOLEAN /\ monitored \in BOOLEAN /\ edge \in BOOLEAN
    /\ polled \in BOOLEAN
    /\ breakMsg \in BOOLEAN /\ closed \in BOOLEAN /\ session \in BOOLEAN
    /\ offered \subseteq Packages /\ seen \subseteq Packages /\ queued \in Seq(Packages)

Init ==
    /\ sender = [s \in Senders |-> [pc |-> "idle", pkg |-> None]]
    /\ epoll = [e \in Epolls |-> "wait"]
    /\ prep = <<>> /\ lists = [i \in PriorityLevels |-> <<>>] /\ listEmpty = TRUE
    /\ cur = None /\ sent = 0 /\ holder = None
    /\ wire = <<>> /\ ends = <<>> /\ room = BufferUnits
    /\ monitored = FALSE /\ edge = FALSE /\ polled = TRUE
    /\ monitorMsgs = 0 /\ breakMsg = FALSE /\ closed = FALSE /\ session = TRUE
    /\ offered = {} /\ queued = <<>> /\ seen = {}

Listed == UNION {ToSet(lists[i]) : i \in PriorityLevels}
SenderAt(s, pc) == sender' = [sender EXCEPT ![s].pc = pc]
SenderDone(s) == sender' = [sender EXCEPT ![s] = [pc |-> "idle", pkg |-> None]]

-----------------------------------------------------------------------------
\* Units m+1 to n of the frame of p.
Part(p, m, n) == [i \in 1..(n - m) |-> <<p, m + i>>]

\* Mutant: a new package is accepted while another one is half sent.
Refused_Closed(p) == closed

\* The connection is down and does not reconnect, or the previous package is
\* not sent yet.
Refused(p) == closed \/ (p # None /\ cur # None)

\* Mutant: the length data is not counted when a frame is continued.
Position_Body == sent

\* m_SentSize counts the package without the length data; a frame of which
\* nothing but the length data was written is begun again.
Position == IF sent = 0 THEN 0 ELSE HeaderUnits + sent

\* CUniversal::SendEx writes what the socket buffer has room for.
Written(p) == Min({room, Units[p] - Position})

\* The socket takes what it has room for.  The first write carries the length
\* data, and one that does not hold all of it closes the connection.
WriteSome(q, result) ==
    LET end == Position + Written(q)
    IN  /\ wire' = wire \o Part(q, Position, end)
        /\ room' = room - Written(q)
        /\ \/ end < HeaderUnits /\ result = "Error"
              /\ cur' = q /\ closed' = TRUE /\ UNCHANGED <<sent, ends>>
           \/ end \in HeaderUnits..(Units[q] - 1) /\ result = "Retry"
              /\ cur' = q /\ sent' = end - HeaderUnits /\ UNCHANGED <<closed, ends>>
           \/ end = Units[q] /\ result = "Succeed"
              /\ cur' = None /\ sent' = 0 /\ UNCHANGED closed
              /\ ends' = Append(ends, Len(wire'))

\* The write fails: the peer reset the connection, or the reading side has just
\* closed it.
WriteFails(q, result) ==
    /\ result = "Error" /\ cur' = q /\ closed' = TRUE
    /\ UNCHANGED <<sent, wire, ends, room>>

\* EasyConnect::SendPackage(p), or the rest of the half sent package if p is
\* None.
SendPackage(p, result) ==
    \/ Refused(p) /\ result = "Error" /\ UNCHANGED connVars
    \/ /\ ~Refused(p)
       /\ LET q == IF p = None THEN cur ELSE p
          IN  WriteSome(q, result) \/ WriteFails(q, result)

\* The interest and a pending event go with the socket.
NotReported == monitored' = FALSE /\ edge' = FALSE
SocketPoll == IF closed' THEN NotReported /\ UNCHANGED polled ELSE UNCHANGED pollVars

\* ModifySendMonitorStatus(id, true): EPOLL_CTL_MOD reports a writable socket
\* at once.  A closed socket, one CEpollEx does not know or an unknown session is
\* not modified.
Monitor ==
    IF closed \/ ~polled \/ ~session THEN UNCHANGED pollVars
    ELSE monitored' = TRUE /\ edge' = (edge \/ room > 0) /\ UNCHANGED polled

-----------------------------------------------------------------------------
\* AddMessageToSendList, and SendDataPackage up to the first test: a big
\* package, or one that follows a half sent one, is queued.
Send(s, p) ==
    /\ session /\ sender[s].pc = "idle" /\ p \notin offered
    /\ offered' = offered \cup {p}
    /\ sender' = [sender EXCEPT ![s] =
                     [pc |-> IF p \in Big \/ cur # None THEN "push" ELSE "lists", pkg |-> p]]
    /\ UNCHANGED <<epoll, queueVars, connVars, holder, pollVars, hubVars, session, seen>>

\* Is something queued already?
TestLists(s) ==
    /\ sender[s].pc = "lists"
    /\ SenderAt(s, IF ~listEmpty /\ prep # <<>> THEN "push" ELSE "lock")
    /\ UNCHANGED <<epoll, queueVars, connVars, holder, pollVars, hubVars, session, offered, seen>>

\* Mutant: the mutex is taken without looking whether somebody holds it.
TryLock_Always(s) ==
    /\ sender[s].pc = "lock"
    /\ SenderAt(s, "write") /\ holder' = s
    /\ UNCHANGED <<epoll, queueVars, connVars, pollVars, hubVars, session, offered, seen>>

\* m_oSockSendMutex.try_lock().
TryLock(s) ==
    /\ sender[s].pc = "lock"
    /\ IF holder = None THEN SenderAt(s, "write") /\ holder' = s
                        ELSE SenderAt(s, "push") /\ UNCHANGED holder
    /\ UNCHANGED <<epoll, queueVars, connVars, pollVars, hubVars, session, offered, seen>>

\* Mutant: a package that did not go out at once is queued as well.
SendNow_QueuedAgain(s) ==
    /\ sender[s].pc = "write"
    /\ \E result \in Results :
           /\ SendPackage(sender[s].pkg, result)
           /\ IF result = "Retry" THEN SenderAt(s, "push") ELSE SenderDone(s)
           /\ breakMsg' = (breakMsg \/ result = "Error")
    /\ holder' = None /\ SocketPoll
    /\ UNCHANGED <<epoll, queueVars, monitorMsgs, session, offered, seen>>

\* The write of SendDataPackage and the release of the mutex.
SendNow(s) ==
    /\ sender[s].pc = "write"
    /\ \E result \in Results :
           /\ SendPackage(sender[s].pkg, result)
           /\ IF result = "Retry" THEN SenderAt(s, "arm") ELSE SenderDone(s)
           /\ breakMsg' = (breakMsg \/ result = "Error")
    /\ holder' = None /\ SocketPoll
    /\ UNCHANGED <<epoll, queueVars, monitorMsgs, session, offered, seen>>

\* AddToSendList: the package first, then the flag and the event.
Push(s) ==
    /\ sender[s].pc = "push"
    /\ prep' = Append(prep, sender[s].pkg) /\ queued' = Append(queued, sender[s].pkg)
    /\ sender' = [sender EXCEPT ![s] = [pc |-> "mark", pkg |-> None]]
    /\ UNCHANGED <<epoll, lists, listEmpty, connVars, holder, pollVars, hubVars,
                   session, offered, seen>>

Mark(s) ==
    /\ sender[s].pc = "mark"
    /\ listEmpty' = FALSE /\ monitorMsgs' = monitorMsgs + 1 /\ SenderAt(s, "arm")
    /\ UNCHANGED <<epoll, prep, lists, queued, connVars, holder, pollVars, breakMsg,
                   session, offered, seen>>

\* AddMessageToSendList, Retry: the sending thread asks for EPOLLOUT itself.
Arm(s) ==
    /\ sender[s].pc = "arm"
    /\ SenderDone(s) /\ Monitor
    /\ UNCHANGED <<epoll, queueVars, connVars, holder, hubVars, session, offered, seen>>

-----------------------------------------------------------------------------
\* epoll_wait.  An event that says EPOLLIN too is taken for the input only.
TakeEvent(e) ==
    /\ epoll[e] = "wait" /\ edge /\ edge' = FALSE
    /\ \E in \in Incoming : epoll' = [epoll EXCEPT ![e] = IF in THEN "wait" ELSE "try"]
    /\ UNCHANGED <<sender, queueVars, connVars, holder, monitored, polled, hubVars, session,
                   offered, seen>>

\* OnCanWriteData: the event is dropped if the mutex is held or the session is gone.
TrySendLock(e) ==
    /\ epoll[e] = "try"
    /\ IF session /\ holder = None
       THEN /\ holder' = e /\ epoll' = [epoll EXCEPT ![e] = "sort"]
            /\ seen' = ToSet(prep) \cup Listed
       ELSE epoll' = [epoll EXCEPT ![e] = "wait"] /\ UNCHANGED <<holder, seen>>
    /\ UNCHANGED <<sender, queueVars, connVars, pollVars, hubVars, session, offered>>

\* Mutant: one package is taken from the queue and no more.
SortOne_Once(e) ==
    /\ epoll[e] = "sort"
    /\ epoll' = [epoll EXCEPT ![e] = IF cur # None THEN "flush" ELSE "pick"]
    /\ IF prep # <<>>
       THEN LET p == Head(prep)
            IN  prep' = Tail(prep) /\ lists' = [lists EXCEPT ![Priority[p]] = Append(@, p)]
       ELSE UNCHANGED <<prep, lists>>
    /\ UNCHANGED <<sender, listEmpty, queued, connVars, holder, pollVars, hubVars,
                   session, offered, seen>>

\* Mutant: a package is put before those of its priority.
SortOne_Front(e) ==
    /\ epoll[e] = "sort"
    /\ IF prep # <<>>
       THEN LET p == Head(prep)
            IN  /\ prep' = Tail(prep) /\ UNCHANGED epoll
                /\ lists' = [lists EXCEPT ![Priority[p]] = <<p>> \o @]
       ELSE /\ epoll' = [epoll EXCEPT ![e] = IF cur # None THEN "flush" ELSE "pick"]
            /\ UNCHANGED <<prep, lists>>
    /\ UNCHANGED <<sender, listEmpty, queued, connVars, holder, pollVars, hubVars,
                   session, offered, seen>>

\* ProcessPrepareSendList, a package at a time.
SortOne(e) ==
    /\ epoll[e] = "sort"
    /\ IF prep # <<>>
       THEN LET p == Head(prep)
            IN  /\ prep' = Tail(prep) /\ UNCHANGED epoll
                /\ lists' = [lists EXCEPT ![Priority[p]] = Append(@, p)]
       ELSE /\ epoll' = [epoll EXCEPT ![e] = IF cur # None THEN "flush" ELSE "pick"]
            /\ UNCHANGED <<prep, lists>>
    /\ UNCHANGED <<sender, listEmpty, queued, connVars, holder, pollVars, hubVars,
                   session, offered, seen>>

\* What ProcessSendList does with a result: it goes on, or it returns, which
\* releases the mutex.
AfterSend(e, result) ==
    /\ epoll' = [epoll EXCEPT ![e] = IF result = "Succeed" THEN "pick" ELSE "wait"]
    /\ holder' = IF result = "Succeed" THEN e ELSE None
    /\ breakMsg' = (breakMsg \/ result = "Error")

\* ProcessSendList: the half sent package first.
Flush(e) ==
    /\ epoll[e] = "flush"
    /\ \E result \in Results : SendPackage(None, result) /\ AfterSend(e, result)
    /\ SocketPoll
    /\ UNCHANGED <<sender, queueVars, monitorMsgs, session, offered, seen>>

\* GetSendPackage: the most urgent list that is not empty.
MostUrgent == Min({i \in PriorityLevels : lists[i] # <<>>})

\* ProcessSendList: one package of the loop.
SendNext(e) ==
    /\ epoll[e] = "pick" /\ Listed # {}
    /\ lists' = [lists EXCEPT ![MostUrgent] = Tail(@)]
    /\ \E result \in Results :
           SendPackage(Head(lists[MostUrgent]), result) /\ AfterSend(e, result)
    /\ SocketPoll
    /\ UNCHANGED <<sender, prep, listEmpty, queued, monitorMsgs, session, offered, seen>>

\* Nothing is listed: Succeed.
AllSent(e) ==
    /\ epoll[e] = "pick" /\ Listed = {}
    /\ listEmpty' = TRUE /\ holder' = None
    /\ epoll' = [epoll EXCEPT ![e] = "disarm"]
    /\ UNCHANGED <<sender, prep, lists, queued, connVars, pollVars, hubVars, session,
                   offered, seen>>

\* MainWorkLoop after Succeed: ModifySendMonitorStatus(id, false), which takes
\* back an event nobody has seen.
Disarm(e) ==
    /\ epoll[e] = "disarm"
    /\ epoll' = [epoll EXCEPT ![e] = "wait"]
    /\ NotReported
    /\ UNCHANGED <<sender, queueVars, connVars, holder, polled, hubVars, session, offered, seen>>

-----------------------------------------------------------------------------
(* The reading side, the timeout check and EPOLLHUP, which take no notice of *)
(* the send mutex.                                                           *)

\* RecvPackage closes the socket on a read error or a package it cannot parse.
ReadCloses ==
    /\ session /\ ~closed
    /\ closed' = TRUE /\ NotReported
    /\ UNCHANGED <<sender, epoll, queueVars, cur, sent, wire, ends, room, holder, polled,
                   hubVars, session, offered, seen>>

\* OnDataCanReceive after an error or the end of the stream, CheckTimeoutWorkLoop
\* after too long a silence, and OnOtherEventHappened post a break.
PostBreak ==
    /\ session /\ ~breakMsg /\ breakMsg' = TRUE
    /\ UNCHANGED <<sender, epoll, queueVars, connVars, pollVars, monitorMsgs, holder, session,
                   offered, seen>>

\* MainWorkLoop after a failed read: UnregisteConnection.
Unregiste ==
    /\ session /\ breakMsg /\ polled
    /\ polled' = FALSE /\ NotReported
    /\ UNCHANGED <<sender, epoll, queueVars, connVars, hubVars, holder, session, offered, seen>>

-----------------------------------------------------------------------------
\* MonitorSendStatusEventHandler.
HubMonitor ==
    /\ monitorMsgs > 0 /\ monitorMsgs' = monitorMsgs - 1
    /\ Monitor
    /\ UNCHANGED <<sender, epoll, queueVars, connVars, holder, breakMsg, session, offered, seen>>

\* OnConnectionBreakedEventHandler destroys the session, whose destructor closes
\* the connection.  A thread that is inside it then would run on freed memory:
\* the model lets the handler run only while there is none.
HubBreak ==
    /\ breakMsg /\ session /\ holder = None
    /\ \A s \in Senders : sender[s].pc = "idle"
    /\ \A e \in Epolls : epoll[e] = "wait"
    /\ session' = FALSE /\ closed' = TRUE
    /\ prep' = <<>> /\ lists' = [i \in PriorityLevels |-> <<>>] /\ cur' = None /\ sent' = 0
    /\ NotReported /\ polled' = FALSE
    /\ UNCHANGED <<sender, epoll, listEmpty, queued, wire, ends, room, holder, hubVars, offered,
                   seen>>

Multiple(n) == \E k \in 0..n : n = k * Grain

\* The peer reads: a socket that was full and is monitored becomes writable.
Drain ==
    /\ ~closed /\ room < BufferUnits
    /\ \E r \in (room + 1)..BufferUnits :
           Multiple(r) /\ room' = r /\ edge' = (edge \/ (monitored /\ room = 0))
    /\ UNCHANGED <<sender, epoll, queueVars, cur, sent, wire, ends, closed, holder, monitored,
                   polled, hubVars, session, offered, seen>>

SenderStep(s) ==
    \/ \E p \in Packages : Send(s, p)
    \/ TestLists(s) \/ TryLock(s) \/ SendNow(s) \/ Push(s) \/ Mark(s) \/ Arm(s)
EpollStep(e) ==
    \/ TakeEvent(e) \/ TrySendLock(e) \/ SortOne(e) \/ Flush(e)
    \/ SendNext(e) \/ AllSent(e) \/ Disarm(e)
Next ==
    \/ \E s \in Senders : SenderStep(s)
    \/ \E e \in Epolls : EpollStep(e)
    \/ ReadCloses \/ PostBreak \/ Unregiste
    \/ HubMonitor \/ HubBreak \/ Drain

Spec == Init /\ [][Next]_vars

-----------------------------------------------------------------------------
\* What the peer finds in the stream: the frames that ended, and the last one
\* if it has not.
IsEnd(u) == u[2] = Units[u[1]]
Done == [k \in DOMAIN ends |-> wire[ends[k]][1]]
HasOpen == wire # <<>> /\ ~IsEnd(Last(wire))
Open == IF HasOpen THEN Last(wire)[1] ELSE None
At == IF HasOpen THEN Last(wire)[2] ELSE 0

\* The stream is a sequence of whole frames and at most one that has begun,
\* whoever wrote them, the senders or the epoll threads: a frame begins where
\* the one before it ended, and every other unit follows the one before it.
\* The ends are where the code took a frame for sent, all of them and in order.
WireWellFramed ==
    /\ \A i \in DOMAIN wire :
           \/ wire[i][2] = 1 /\ (i > 1 => IsEnd(wire[i - 1]))
           \/ i > 1 /\ ~IsEnd(wire[i - 1]) /\ wire[i] = <<wire[i - 1][1], wire[i - 1][2] + 1>>
    /\ {i \in DOMAIN wire : IsEnd(wire[i])} = ToSet(ends)
    /\ \A k, l \in DOMAIN ends : k < l => ends[k] < ends[l]

HasPackage(s) == sender[s].pc \in {"lists", "lock", "write", "push"}

\* The places of a package: senders, the two queues, half sent, and sent.
Holders(p) == {s \in Senders : HasPackage(s) /\ sender[s].pkg = p}
InPrep(p) == {k \in DOMAIN prep : prep[k] = p}
InList(p) == {k \in DOMAIN lists[Priority[p]] : lists[Priority[p]][k] = p}
InDone(p) == {k \in DOMAIN Done : Done[k] = p}
Places(p) ==
    Cardinality(Holders(p)) + Cardinality(InPrep(p)) + Cardinality(InList(p))
      + Cardinality(InDone(p)) + (IF cur = p THEN 1 ELSE 0)

\* While the connection has no error, every package handed to it is in exactly
\* one place: a sender's hands, a queue, half sent, or on the wire.  It is
\* never in two.
PackagesAccounted ==
    \A p \in Packages :
        /\ Places(p) <= IF p \in offered THEN 1 ELSE 0
        /\ p \in offered /\ ~breakMsg => Places(p) = 1

Started == {wire[i][1] : i \in DOMAIN wire}

\* Queued packages of one priority go out in the order they were queued,
\* through both queues and across partial writes.
QueuedInOrder ==
    \A i, j \in DOMAIN queued :
        i < j /\ Priority[queued[i]] = Priority[queued[j]] /\ queued[j] \in Started
        => \E k \in DOMAIN wire :
               /\ wire[k] = <<queued[i], Units[queued[i]]>>
               /\ \A l \in DOMAIN wire : wire[l][1] = queued[j] => k < l

\* A package is taken from the lists only when everything more urgent that
\* waited when the epoll thread got the mutex has been taken before it.
UrgentFirst ==
    [][\A e \in Epolls : SendNext(e) =>
           \A q \in seen : Priority[q] < MostUrgent => q \notin ToSet(prep) \cup Listed]_vars

\* The inductive invariant under TypeOK and UrgentFirst, QueueInv.  The mutex has the
\* owner its readers believe in,
MutexHeld ==
    /\ \A t \in Senders : sender[t].pc = "write" <=> holder = t
    /\ \A e \in Epolls : epoll[e] \in {"sort", "flush", "pick"} <=> holder = e

\* what is half sent is not all sent,
HalfSent ==
    /\ IF cur = None THEN sent = 0 ELSE HeaderUnits + sent < Units[cur]
    /\ \A e \in Epolls : epoll[e] = "flush" => cur # None

\* every list holds packages of its priority,
ListsByPriority ==
    \A i \in PriorityLevels : \A k \in 1..Len(lists[i]) : Priority[lists[i][k]] = i

\* no package is queued twice,
QueuedOnce ==
    /\ \A s \in Senders : HasPackage(s) =>
           sender[s].pkg \in offered /\ sender[s].pkg \notin ToSet(queued)
    /\ \A s, t \in Senders :
           HasPackage(s) /\ HasPackage(t) /\ sender[s].pkg = sender[t].pkg => s = t
    /\ ToSet(prep) \cup Listed \cup seen \subseteq ToSet(queued)
    /\ ToSet(queued) \subseteq offered

\* and what waited when the mutex was taken has been sorted before anything is sent.
SeenIsSorted ==
    \A e \in Epolls : epoll[e] \in {"flush", "pick"} => seen \cap ToSet(prep) = {}

QueueInv == TypeOK /\ MutexHeld /\ HalfSent /\ ListsByPriority /\ QueuedOnce /\ SeenIsSorted

-----------------------------------------------------------------------------
\* The inductive invariant under WireWellFramed, PackagesAccounted,
\* QueuedInOrder and ChannelSpec, StreamInv.  While the connection is open the
\* stream ends with what is half sent,
OpenIsHalfSent ==
    ~closed => IF cur = None THEN ~HasOpen
               ELSE wire # <<>> /\ Last(wire) = <<cur, HeaderUnits + sent>>

\* and what it holds besides has been sent.
StartedIsSent ==
    /\ \A i \in DOMAIN wire : wire[i][2] <= Units[wire[i][1]]
    /\ \A i \in DOMAIN wire :
           ~(HasOpen /\ wire[i][1] = Open) => \E k \in DOMAIN ends : Done[k] = wire[i][1]

\* Nothing is sent twice,
SentOnce ==
    /\ \A k, l \in DOMAIN ends : Done[k] = Done[l] => k = l
    /\ \A k \in DOMAIN ends : Done[k] # cur /\ (HasOpen => Done[k] # Open)

\* and a package that waits to be sent has not been sent in part.
NotBegun(p) == p \notin Started /\ p # cur
WaitsUnsent ==
    /\ \A s \in Senders : HasPackage(s) => NotBegun(sender[s].pkg)
    /\ \A k \in DOMAIN prep : NotBegun(prep[k])
    /\ \A l \in PriorityLevels : \A k \in DOMAIN lists[l] : NotBegun(lists[l][k])
    /\ Started \cup ({cur} \ {None}) \subseteq offered

\* What was queued last waits to be sorted; what was queued before is listed in
\* that order, or was taken in that order.
InOrder ==
    /\ \A i, j \in DOMAIN queued : queued[i] = queued[j] => i = j
    /\ Len(prep) <= Len(queued)
    /\ \A k \in DOMAIN prep : prep[k] = queued[Len(queued) - Len(prep) + k]
    /\ \A l \in PriorityLevels : \A k \in DOMAIN lists[l] :
           \E i \in 1..(Len(queued) - Len(prep)) : queued[i] = lists[l][k]
    /\ \A l \in PriorityLevels : \A k, m \in DOMAIN lists[l] :
           \A i, j \in DOMAIN queued :
               k < m /\ queued[i] = lists[l][k] /\ queued[j] = lists[l][m] => i < j
    /\ \A i, j \in 1..(Len(queued) - Len(prep)) :
           i < j /\ Priority[queued[i]] = Priority[queued[j]] /\ queued[i] \in Listed
           => queued[j] \in Listed

\* Nothing is lost before an error: what is in no queue has been begun.
NothingLost ==
    /\ ~closed => \A i \in DOMAIN queued :
           \/ queued[i] \in ToSet(prep) \cup Listed \cup {cur}
           \/ \E k \in DOMAIN ends : Done[k] = queued[i]
    /\ ~breakMsg => \A p \in offered :
           \/ p \in ToSet(prep) \cup Listed \cup {cur}
           \/ \E s \in Senders : HasPackage(s) /\ sender[s].pkg = p
           \/ \E k \in DOMAIN ends : Done[k] = p

\* A thread that takes packages from the lists has sent what was half sent, and
\* without a session no thread is in the connection.
InTurn ==
    /\ \A e \in Epolls : epoll[e] = "pick" => cur = None
    /\ ~session =>
           /\ closed /\ ~edge
           /\ \A s \in Senders : sender[s].pc = "idle"
           /\ \A e \in Epolls : epoll[e] = "wait"

StreamInv ==
    /\ WireWellFramed /\ OpenIsHalfSent /\ StartedIsSent /\ SentOnce /\ WaitsUnsent
    /\ QueuedInOrder /\ InOrder /\ NothingLost /\ InTurn

\* No write stops behind the length data; where the buffer is freed in units
\* the length data does not fill, there is no such write.
LengthNotAlone == cur # None /\ ~closed => sent > 0
Aligned ==
    /\ Multiple(BufferUnits) /\ ~Multiple(HeaderUnits)
    /\ \A p \in Packages : Multiple(Units[p])
RoomAligned == Multiple(room) /\ (cur # None /\ ~closed => Multiple(HeaderUnits + sent))

IInv == QueueInv /\ StreamInv /\ LengthNotAlone /\ (Aligned => RoomAligned)

\* The connection implements the channel the senders may rely on.
Channel == INSTANCE FramedChannel WITH
    done <- Done, open <- Open, at <- At, up <- session
ChannelSpec == Channel!Spec
=============================================================================
