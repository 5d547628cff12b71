--------------------------- MODULE GatewayProofs ---------------------------
(* Proofs about Gateway, for every set of nodes, templates, addresses,      *)
(* functions, requests and process threads: its types, that nodes it can    *)
(* choose are connected, and that clients see a RequestBroker.              *)
EXTENDS Gateway, FiniteSetTheorems, TLAPS

---------------------------------------------------------------------------
(* Types. *)

LEMMA Hands ==
  ASSUME NEW h \in Hand
  PROVE  \/ h = Rest /\ h.do = "rest"
         \/ h.do = "event" /\ h.event \in Event
         \/ h.do = "transmit" /\ h.request \in Requests /\ h.to \in Addresses
         \/ h.do = "answer" /\ h.request \in Requests /\ h.by \in Nodes
  BY DEF Hand, Rest

LEMMA InitTypes == Init => TypeOK
<1> SUFFICES ASSUME Init PROVE TypeOK
  OBVIOUS
<1>1. alive \subseteq Nodes
  BY GatewayAssumption DEF Init
<1>2. hand \in [ProcessThreads -> Hand] /\ events \in Seq(Event)
  BY DEF Init, Hand
<1> QED
  BY <1>1, <1>2 DEF Init, TypeOK

(* Steps of the Manager, of the nodes and of clients. *)
LEMMA OutsideTypes ==
  ASSUME TypeOK,
         \/ Manager \/ OnStart
         \/ \E r \in Requests : Ask(r) \/ \E n \in Nodes : NodeAnswers(r, n)
  PROVE  TypeOK'
<1> USE DEF managerVars, directoryVars, sessionVars, requestVars
<1>1. ASSUME NEW n \in Nodes, Register(n) PROVE TypeOK'
  BY <1>1 DEF TypeOK, Register
<1>2. ASSUME NEW n \in Nodes, NEW kind \in {"Online", "Offline"},
             events' = Append(events, [kind |-> kind, node |-> n])
      PROVE  events' \in Seq(Event)
  <2>1. [kind |-> kind, node |-> n] \in Event
    BY DEF Event
  <2> QED
    BY <1>2, <2>1 DEF TypeOK
<1>3. ASSUME NEW n \in Nodes, Announce(n) PROVE TypeOK'
  BY <1>2, <1>3 DEF TypeOK, Announce
<1>4. ASSUME NEW n \in Nodes, AnnounceDeparture(n) PROVE TypeOK'
  <2>1. events' \in Seq(Event)
    BY <1>2, <1>4 DEF AnnounceDeparture
  <2> QED
    BY <1>4, <2>1 DEF TypeOK, AnnounceDeparture
<1>5. ASSUME NEW n \in Nodes, Die(n) PROVE TypeOK'
  <2>1. stranded' \subseteq Requests /\ atNode' \subseteq Requests \X Nodes
    BY <1>5 DEF TypeOK, Die, Strand, RequestsOf
  <2> QED
    BY <1>5, <2>1 DEF TypeOK, Die
<1>6. ASSUME AnswerQuery \/ OnStart PROVE TypeOK'
  <2>1. answer' \in [stage : {"none", "asked", "sent", "done"}, nodes : SUBSET Nodes]
    <3>1. answer \in [stage : {"none", "asked", "sent", "done"}, nodes : SUBSET Nodes]
      BY DEF TypeOK
    <3>2. online \cup leaving \subseteq Nodes
      BY DEF TypeOK
    <3>3. CASE AnswerQuery
      BY <3>2, <3>3 DEF AnswerQuery
    <3>4. CASE OnStart
      BY <3>1, <3>4 DEF OnStart
    <3> QED
      BY <1>6, <3>3, <3>4
  <2> QED
    BY <1>6, <2>1 DEF TypeOK, AnswerQuery, OnStart
<1>7. ASSUME NEW r \in Requests, Ask(r) PROVE TypeOK'
  BY <1>7 DEF TypeOK, Ask
<1>8. ASSUME NEW r \in Requests, NEW n \in Nodes, NodeAnswers(r, n) PROVE TypeOK'
  <2>1. atNode' \subseteq Requests \X Nodes /\ back' \subseteq Requests \X Nodes
    BY <1>8 DEF TypeOK, NodeAnswers
  <2> QED
    BY <1>8, <2>1 DEF TypeOK, NodeAnswers
<1>9. ASSUME NEW n \in Nodes, EraseNode(n) PROVE TypeOK'
  BY <1>9 DEF TypeOK, EraseNode
<1> QED
  BY <1>1, <1>3, <1>4, <1>5, <1>6, <1>7, <1>8, <1>9 DEF Manager

(* Steps of the directory. *)
LEMMA DirectoryTypes ==
  ASSUME TypeOK, Directory
  PROVE  TypeOK'
<1> USE DEF managerVars, directoryVars, sessionVars, requestVars
<1>1. CASE OnStart
  BY <1>1, OutsideTypes
<1>2. CASE QueryReferenceInfoResponseHandler
  <2>1. listed' \in [Nodes -> Nat] /\ joining' \in [Nodes -> Nat]
    BY <1>2 DEF TypeOK, QueryReferenceInfoResponseHandler, AddNodes
  <2>2. /\ raced' \subseteq Nodes
        /\ answer' \in [stage : {"none", "asked", "sent", "done"}, nodes : SUBSET Nodes]
    BY <1>2 DEF TypeOK, QueryReferenceInfoResponseHandler, AddNodes
  <2> QED
    BY <1>2, <2>1, <2>2 DEF TypeOK, QueryReferenceInfoResponseHandler
<1>3. ASSUME NEW t \in ProcessThreads, TakeEvent(t) PROVE TypeOK'
  <2>1. Head(events) \in Event /\ events' \in Seq(Event)
    BY <1>3 DEF TypeOK, TakeEvent
  <2>2. [do |-> "event", event |-> Head(events)] \in Hand
    BY <2>1 DEF Hand
  <2>3. hand' \in [ProcessThreads -> Hand]
    BY <1>3, <2>2 DEF TypeOK, TakeEvent
  <2> QED
    BY <1>3, <2>1, <2>3 DEF TypeOK, TakeEvent
<1>4. ASSUME NEW t \in ProcessThreads, hand[t].do = "event" PROVE hand[t].event.node \in Nodes
  <2>1. hand[t] \in Hand
    BY DEF TypeOK
  <2> QED
    BY <1>4, <2>1, Hands DEF Event
<1>5. ASSUME NEW t \in ProcessThreads, hand' = [hand EXCEPT ![t] = Rest]
      PROVE  hand' \in [ProcessThreads -> Hand]
  BY <1>5 DEF TypeOK, Hand
<1>6. ASSUME NEW t \in ProcessThreads, OnReferenceModuleOnlineEvent(t) PROVE TypeOK'
  <2>1. raced' \subseteq Nodes
    BY <1>4, <1>6 DEF TypeOK, OnReferenceModuleOnlineEvent, AddNodes
  <2>2. listed' \in [Nodes -> Nat] /\ joining' \in [Nodes -> Nat]
    BY <1>6 DEF TypeOK, OnReferenceModuleOnlineEvent, AddNodes
  <2> QED
    BY <1>5, <1>6, <2>1, <2>2 DEF TypeOK, OnReferenceModuleOnlineEvent
<1>7. ASSUME NEW t \in ProcessThreads, OnReferenceModuleOfflineEvent(t) PROVE TypeOK'
  <2>1. listed' \in [Nodes -> Nat]
    BY <1>4, <1>7 DEF TypeOK, OnReferenceModuleOfflineEvent, RemoveNode
  <2>2. connOf' \in [Nodes -> BOOLEAN] /\ gone' \subseteq Nodes
    BY <1>4, <1>7 DEF TypeOK, OnReferenceModuleOfflineEvent, RemoveNode
  <2> QED
    BY <1>5, <1>7, <2>1, <2>2 DEF TypeOK, OnReferenceModuleOfflineEvent
<1> QED
  BY <1>1, <1>2, <1>3, <1>6, <1>7 DEF Directory

(* Steps of the hub's sessions. *)
LEMMA SessionTypes ==
  ASSUME TypeOK, Sessions
  PROVE  TypeOK'
<1> USE DEF managerVars, directoryVars, sessionVars, requestVars
<1>1. ASSUME NEW S, Strand(S) 
      PROVE  atNode' \subseteq Requests \X Nodes /\ (S \subseteq atNode => stranded' \subseteq Requests)
  BY <1>1 DEF TypeOK, Strand, RequestsOf
<1>2. \A a \in Addresses : SentTo(a) \subseteq atNode
  BY DEF SentTo
<1>3. ASSUME NEW n \in Nodes, RegisteConnectionEventHandler(n) PROVE TypeOK'
  <2>1. Addr[n] \in Addresses
    BY GatewayAssumption
  <2>2. atNode' \subseteq Requests \X Nodes /\ stranded' \subseteq Requests
    BY <1>1, <1>2, <1>3, <2>1 DEF RegisteConnectionEventHandler
  <2>3. link' \in [Addresses -> Nodes \cup {Closed, Unconnected}]
    BY <1>3, <2>1 DEF TypeOK, RegisteConnectionEventHandler, Listening
  <2>4. breaks' \in [Addresses -> Nat]
    <3>1. breaks \in [Addresses -> Nat]
      BY DEF TypeOK
    <3> QED
      BY <1>3, <2>1, <3>1 DEF RegisteConnectionEventHandler
  <2>5. joining' \in [Nodes -> Nat]
    BY <1>3 DEF TypeOK, RegisteConnectionEventHandler
  <2>6. connOf' \in [Nodes -> BOOLEAN]
    BY <1>3 DEF TypeOK, RegisteConnectionEventHandler
  <2> QED
    BY <1>3, <2>1, <2>2, <2>3, <2>4, <2>5, <2>6 DEF TypeOK, RegisteConnectionEventHandler
<1>4. ASSUME NEW a \in Addresses, LinkBreaks(a) PROVE TypeOK'
  <2>1. link' \in [Addresses -> Nodes \cup {Closed, Unconnected}]
    BY <1>4 DEF TypeOK, LinkBreaks
  <2>2. breaks' \in [Addresses -> Nat]
    BY <1>4 DEF TypeOK, LinkBreaks
  <2> QED
    BY <1>1, <1>2, <1>4, <2>1, <2>2 DEF TypeOK, LinkBreaks
<1>5. ASSUME NEW a \in Addresses, OnConnectionBreakedEventHandler(a) PROVE TypeOK'
  <2>1. link' \in [Addresses -> Nodes \cup {Closed, Unconnected}] /\ session' \subseteq Addresses
    BY <1>5 DEF TypeOK, OnConnectionBreakedEventHandler
  <2>2. breaks' \in [Addresses -> Nat]
    BY <1>5 DEF TypeOK, OnConnectionBreakedEventHandler
  <2> QED
    BY <1>1, <1>2, <1>5, <2>1, <2>2 DEF TypeOK, OnConnectionBreakedEventHandler
<1> QED
  BY <1>3, <1>4, <1>5 DEF Sessions

(* Steps of a process thread with requests and responses. *)
LEMMA ProcessTypes ==
  ASSUME TypeOK, NEW t \in ProcessThreads, Process(t)
  PROVE  TypeOK'
<1> USE DEF managerVars, directoryVars, sessionVars, requestVars
<1>1. ASSUME NEW h \in Hand, hand' = [hand EXCEPT ![t] = h]
      PROVE  hand' \in [ProcessThreads -> Hand]
  BY <1>1 DEF TypeOK
<1>2. Rest \in Hand /\ hand[t] \in Hand
  BY DEF TypeOK, Hand
<1>3. ASSUME NEW r \in Requests, MessageToProcesser(t, r) PROVE TypeOK'
  <2>1. CASE \E n \in Candidates(FunctionOf[r]) : ForwardTo(t, r, n)
    <3>1. PICK n \in Nodes : ForwardTo(t, r, n)
      BY <2>1 DEF Candidates, NodesFor
    <3>2. [do |-> "transmit", request |-> r, to |-> Addr[n]] \in Hand
      BY GatewayAssumption DEF Hand
    <3>3. hand' \in [ProcessThreads -> Hand]
      BY <1>1, <3>1, <3>2 DEF ForwardTo
    <3> QED
      BY <1>3, <3>1, <3>3 DEF TypeOK, MessageToProcesser, ForwardTo
  <2>2. CASE Refuse(r)
    BY <1>3, <2>2 DEF TypeOK, MessageToProcesser, Refuse
  <2> QED
    BY <1>3, <2>1, <2>2 DEF MessageToProcesser
<1>4. CASE AddMessageToSendList(t)
  <2>1. hand[t].to \in Addresses /\ hand[t].request \in Requests
    BY <1>2, <1>4, Hands DEF AddMessageToSendList
  <2>2. hand' \in [ProcessThreads -> Hand]
    BY <1>1, <1>2, <1>4 DEF AddMessageToSendList
  <2>3. link' \in [Addresses -> Nodes \cup {Closed, Unconnected}]
    BY <1>4, <2>1 DEF TypeOK, AddMessageToSendList, Listening
  <2>4. breaks' \in [Addresses -> Nat]
    <3>1. breaks \in [Addresses -> Nat]
      BY DEF TypeOK
    <3> QED
      BY <1>4, <2>1, <3>1 DEF AddMessageToSendList, SendFails
  <2>5. stranded' \subseteq Requests
    BY <1>4, <2>1 DEF TypeOK, AddMessageToSendList, Delivered, Dropped, SendFails
  <2>6. atNode' \subseteq Requests \X Nodes
    BY <1>4, <2>1 DEF TypeOK, AddMessageToSendList, Delivered, Dropped, SendFails, Listening
  <2> QED
    BY <1>4, <2>2, <2>3, <2>4, <2>5, <2>6 DEF TypeOK, AddMessageToSendList
<1>5. ASSUME NEW r \in Requests, NEW n \in Nodes, ResponsePackageProcesser(t, r, n)
      PROVE  TypeOK'
  <2>1. [do |-> "answer", request |-> r, by |-> n] \in Hand
    BY DEF Hand
  <2>2. hand' \in [ProcessThreads -> Hand]
    BY <1>1, <1>5, <2>1 DEF TypeOK, ResponsePackageProcesser
  <2>3. back' \subseteq Requests \X Nodes /\ saved' \subseteq Requests
    BY <1>5 DEF TypeOK, ResponsePackageProcesser
  <2> QED
    BY <1>5, <2>2, <2>3 DEF TypeOK, ResponsePackageProcesser
<1>6. CASE MessageToClient(t)
  <2>1. hand[t].by \in Nodes /\ hand[t].request \in Requests
    BY <1>2, <1>6, Hands DEF MessageToClient
  <2>2. hand' \in [ProcessThreads -> Hand]
    BY <1>1, <1>2, <1>6 DEF MessageToClient
  <2>3. client' \in [Requests -> {"idle", "waiting", "refused"} \cup Nodes]
    BY <1>6, <2>1 DEF TypeOK, MessageToClient
  <2> QED
    BY <1>6, <2>2, <2>3 DEF TypeOK, MessageToClient
<1> QED
  BY <1>3, <1>4, <1>5, <1>6 DEF Process

LEMMA StepTypes == TypeOK /\ [Next]_vars => TypeOK'
<1> SUFFICES ASSUME TypeOK, [Next]_vars PROVE TypeOK'
  OBVIOUS
<1>1. CASE Next
  BY <1>1, OutsideTypes, DirectoryTypes, SessionTypes, ProcessTypes DEF Next
<1>2. CASE UNCHANGED vars
  BY <1>2 DEF TypeOK, vars, managerVars, directoryVars, sessionVars, requestVars
<1> QED
  BY <1>1, <1>2

(* Every variable of the gateway keeps its type: what a process thread has  *)
(* in hand is of a known kind, and the lists and events are well formed.    *)
THEOREM GatewayTypes == Spec => []TypeOK
  BY InitTypes, StepTypes, PTL DEF Spec

---------------------------------------------------------------------------
(* Nodes that can be chosen are connected. *)

(* A node that was never added out of order is listed once at most.         *)
ListedOnce == \A n \in Nodes \ raced : listed[n] <= 1

LEMMA ConnectedStep ==
  ASSUME TypeOK, ListedOnce, ListedIsConnected, [Next]_vars
  PROVE  ListedOnce' /\ ListedIsConnected'
<1> USE DEF ListedOnce, ListedIsConnected
<1>1. ASSUME UNCHANGED <<listed, connOf, joining, raced>> PROVE ListedOnce' /\ ListedIsConnected'
  BY <1>1
<1>2. ASSUME NEW S, AddNodes(S), UNCHANGED connOf PROVE ListedOnce' /\ ListedIsConnected'
  BY <1>2 DEF TypeOK, AddNodes
<1>3. ASSUME NEW t \in ProcessThreads, OnReferenceModuleOfflineEvent(t)
      PROVE  ListedOnce' /\ ListedIsConnected'
  BY <1>3 DEF TypeOK, OnReferenceModuleOfflineEvent, RemoveNode
<1>4. ASSUME NEW n \in Nodes, RegisteConnectionEventHandler(n)
      PROVE  ListedOnce' /\ ListedIsConnected'
  BY <1>4 DEF TypeOK, RegisteConnectionEventHandler
<1>5. CASE Manager
  BY <1>1, <1>5 DEF Manager, Register, Announce, Die, AnnounceDeparture, EraseNode, AnswerQuery,
                    directoryVars
<1>6. CASE Directory
  BY <1>1, <1>2, <1>3, <1>6 DEF Directory, OnStart, QueryReferenceInfoResponseHandler,
                    TakeEvent, OnReferenceModuleOnlineEvent, directoryVars
<1>7. CASE Sessions
  BY <1>1, <1>4, <1>7 DEF Sessions, LinkBreaks, OnConnectionBreakedEventHandler, directoryVars
<1>8. ASSUME NEW t \in ProcessThreads, Process(t) PROVE ListedOnce' /\ ListedIsConnected'
  BY <1>1, <1>8 DEF Process, MessageToProcesser, AddMessageToSendList,
                    ResponsePackageProcesser, MessageToClient, directoryVars
<1>9. ASSUME NEW r \in Requests, Ask(r) \/ \E n \in Nodes : NodeAnswers(r, n)
      PROVE  ListedOnce' /\ ListedIsConnected'
  BY <1>1, <1>9 DEF Ask, NodeAnswers, directoryVars
<1>10. CASE UNCHANGED vars
  BY <1>1, <1>10 DEF vars, directoryVars
<1> QED
  BY <1>5, <1>6, <1>7, <1>8, <1>9, <1>10 DEF Next

(* A node that can be chosen has a connection or the hub is still to        *)
(* register it, in every interleaving of the query, the events and the      *)
(* registrations (gateway.cpp:203-279, NetworkHub.cpp:218-245).             *)
THEOREM ListedNodesConnected == Spec => []ListedIsConnected
<1>1. Init => ListedOnce /\ ListedIsConnected
  BY DEF Init, ListedOnce, ListedIsConnected
<1>2. TypeOK /\ ListedOnce /\ ListedIsConnected /\ [Next]_vars
        => ListedOnce' /\ ListedIsConnected'
  BY ConnectedStep
<1> QED
  BY <1>1, <1>2, GatewayTypes, PTL DEF Spec

---------------------------------------------------------------------------
(* The directory follows the Manager. *)

(* What was announced or answered has started; what was announced as gone   *)
(* is not online, and an Offline is on its way or was handled.              *)
Heard ==
    /\ online \subseteq started /\ leaving \subseteq started /\ untold \subseteq started
    /\ answer.nodes \subseteq started /\ gone \subseteq started
    /\ \A n \in Nodes : OnItsWay("Online", n) \/ OnItsWay("Offline", n) => n \in started
    /\ \A n \in Nodes : OnItsWay("Offline", n) \/ n \in gone => n \notin online
    /\ \A n \in Nodes : n \in started =>
         n \in online \/ OnItsWay("Offline", n) \/ n \in gone

DirectoryInv == TypeOK /\ ListedOnce /\ Heard /\ DirectoryFollowsManager

OnTheirWay(kind) == {n \in Nodes : OnItsWay(kind, n)}

(* Announcing puts a node on its way, taking an event leaves it there, and  *)
(* only the thread that handled the event takes it away.                    *)
LEMMA Announced ==
  ASSUME TypeOK, NEW kind \in {"Online", "Offline"}, NEW n \in Nodes, UNCHANGED hand,
         events' = Append(events, [kind |-> kind, node |-> n])
  PROVE  \A k \in {"Online", "Offline"}, m \in Nodes :
           OnItsWay(k, m)' <=> OnItsWay(k, m) \/ (k = kind /\ m = n)
<1> DEFINE e == [kind |-> kind, node |-> n]
<1>1. /\ DOMAIN events' = 1 .. Len(events) + 1 /\ DOMAIN events = 1 .. Len(events)
      /\ Len(events) \in Nat /\ events'[Len(events) + 1] = e
      /\ \A i \in DOMAIN events : events'[i] = events[i]
  <2>1. e \in Event
    BY DEF Event
  <2>2. events \in Seq(Event) /\ events' = Append(events, e)
    BY DEF TypeOK
  <2> HIDE DEF e
  <2> QED
    BY <2>1, <2>2
<1>2. \A k \in {"Online", "Offline"}, m \in Nodes :
        [kind |-> k, node |-> m] = e <=> k = kind /\ m = n
  OBVIOUS
<1> QED
  BY <1>1, <1>2 DEF OnItsWay

LEMMA Taken ==
  ASSUME TypeOK, NEW t \in ProcessThreads, TakeEvent(t)
  PROVE  \A k \in {"Online", "Offline"}, m \in Nodes : OnItsWay(k, m)' <=> OnItsWay(k, m)
<1>1. /\ hand[t].do = "rest" /\ events # <<>> /\ events' = Tail(events)
      /\ hand' = [hand EXCEPT ![t] = [do |-> "event", event |-> Head(events)]]
  BY DEF TakeEvent, Rest
<1>2. /\ Len(events) \in Nat /\ DOMAIN events = 1 .. Len(events)
      /\ 1 \in DOMAIN events /\ Head(events) = events[1]
      /\ DOMAIN events' = 1 .. Len(events) - 1
      /\ \A i \in DOMAIN events' : events'[i] = events[i + 1]
  BY <1>1 DEF TypeOK
<1>3. /\ hand'[t] = [do |-> "event", event |-> events[1]]
      /\ \A u \in ProcessThreads : u # t => hand'[u] = hand[u]
  BY <1>1, <1>2 DEF TypeOK
<1> TAKE k \in {"Online", "Offline"}, m \in Nodes
<1> DEFINE e == [kind |-> k, node |-> m]
<1>4. hand[t] # [do |-> "event", event |-> e]
  BY <1>1
<1>5. (\E u \in ProcessThreads : hand'[u] = [do |-> "event", event |-> e])
        <=> \/ events[1] = e
            \/ \E u \in ProcessThreads : hand[u] = [do |-> "event", event |-> e]
  <2>1. [do |-> "event", event |-> events[1]] = [do |-> "event", event |-> e] <=> events[1] = e
    OBVIOUS
  <2> HIDE DEF e
  <2> QED
    BY <1>3, <1>4, <2>1
<1>6. (\E i \in DOMAIN events : events[i] = e)
        <=> events[1] = e \/ \E i \in DOMAIN events' : events'[i] = e
  <2> HIDE DEF e
  <2>1. ASSUME NEW i \in DOMAIN events, i # 1 PROVE i - 1 \in DOMAIN events' /\ events'[i - 1] = events[i]
    BY <1>2, <2>1
  <2>2. ASSUME NEW i \in DOMAIN events' PROVE i + 1 \in DOMAIN events /\ events'[i] = events[i + 1]
    BY <1>2, <2>2
  <2> QED
    BY <1>2, <2>1, <2>2
<1> QED
  BY <1>5, <1>6 DEF OnItsWay

(* A thread that puts down what it has in hand, an event or anything else.  *)
LEMMA PutDown ==
  ASSUME TypeOK, NEW t \in ProcessThreads, NEW h, h.do # "event", UNCHANGED events,
         hand' = [hand EXCEPT ![t] = h]
  PROVE  /\ \A k \in {"Online", "Offline"}, m \in Nodes : OnItsWay(k, m)' => OnItsWay(k, m)
         /\ \A k \in {"Online", "Offline"}, m \in Nodes :
              OnItsWay(k, m) => \/ OnItsWay(k, m)'
                                \/ hand[t] = [do |-> "event", event |-> [kind |-> k, node |-> m]]
<1>1. hand'[t] = h /\ \A u \in ProcessThreads : u # t => hand'[u] = hand[u]
  BY DEF TypeOK
<1> QED
  BY <1>1 DEF OnItsWay

(* Steps after which the same announcements are on their way.               *)
LEMMA SameNews ==
  ASSUME DirectoryInv, UNCHANGED <<started, online, leaving, untold, answer, listed, raced, gone>>,
         \A k \in {"Online", "Offline"}, m \in Nodes : OnItsWay(k, m)' <=> OnItsWay(k, m)
  PROVE  Heard' /\ DirectoryFollowsManager'
<1>1. Heard'
  BY DEF DirectoryInv, Heard
<1>2. \A n \in Nodes : ToBeAdded(n)' <=> ToBeAdded(n)
  BY DEF ToBeAdded
<1> QED
  BY <1>1, <1>2 DEF DirectoryInv, DirectoryFollowsManager

(* Steps that leave the announcements alone altogether.                     *)
LEMMA NoNews ==
  ASSUME DirectoryInv,
         UNCHANGED <<events, hand, started, online, leaving, untold, answer, listed, raced, gone>>
  PROVE  Heard' /\ DirectoryFollowsManager'
  BY SameNews DEF OnItsWay

LEMMA ManagerNews ==
  ASSUME DirectoryInv, Manager, TypeOK'
  PROVE  Heard' /\ DirectoryFollowsManager'
<1> USE DEF directoryVars
<1>1. ASSUME NEW n \in Nodes, Register(n) PROVE Heard' /\ DirectoryFollowsManager'
  <2>1. /\ n \notin started /\ started' = started \cup {n} /\ online' = online \cup {n}
        /\ untold' = untold \cup {n}
        /\ UNCHANGED <<leaving, answer, listed, raced, gone, events, hand>>
    BY <1>1 DEF Register
  <2>2. \A k \in {"Online", "Offline"}, m \in Nodes : OnItsWay(k, m)' <=> OnItsWay(k, m)
    BY <2>1 DEF OnItsWay
  <2>3. Heard'
    BY <2>1, <2>2 DEF DirectoryInv, Heard
  <2>4. \A m \in Nodes : ToBeAdded(m)' <=> ToBeAdded(m) \/ m = n
    BY <2>1, <2>2 DEF ToBeAdded
  <2> QED
    BY <2>1, <2>2, <2>3, <2>4 DEF DirectoryInv, DirectoryFollowsManager
<1>2. ASSUME NEW n \in Nodes, Announce(n) PROVE Heard' /\ DirectoryFollowsManager'
  <2>1. /\ n \in untold /\ untold' = untold \ {n}
        /\ UNCHANGED <<started, online, leaving, answer, listed, raced, gone>>
    BY <1>2 DEF Announce
  <2>2. \A k \in {"Online", "Offline"}, m \in Nodes :
          OnItsWay(k, m)' <=> OnItsWay(k, m) \/ (k = "Online" /\ m = n)
    BY <1>2, Announced DEF Announce, DirectoryInv
  <2>3. Heard'
    BY <2>1, <2>2 DEF DirectoryInv, Heard
  <2>4. \A m \in Nodes : ToBeAdded(m)' <=> ToBeAdded(m)
    BY <2>1, <2>2 DEF ToBeAdded
  <2> QED
    BY <2>1, <2>2, <2>3, <2>4 DEF DirectoryInv, DirectoryFollowsManager
<1>3. ASSUME NEW n \in Nodes, AnnounceDeparture(n) PROVE Heard' /\ DirectoryFollowsManager'
  <2>1. /\ n \in online /\ online' = online \ {n} /\ leaving' = leaving \cup {n}
        /\ UNCHANGED <<started, untold, answer, listed, raced, gone>>
    BY <1>3 DEF AnnounceDeparture
  <2>2. \A k \in {"Online", "Offline"}, m \in Nodes :
          OnItsWay(k, m)' <=> OnItsWay(k, m) \/ (k = "Offline" /\ m = n)
    BY <1>3, Announced DEF AnnounceDeparture, DirectoryInv
  <2>3. Heard'
    BY <2>1, <2>2 DEF DirectoryInv, Heard
  <2>4. \A m \in Nodes : ToBeAdded(m)' <=> ToBeAdded(m)
    BY <2>1, <2>2 DEF ToBeAdded
  <2> QED
    BY <2>1, <2>2, <2>3, <2>4 DEF DirectoryInv, DirectoryFollowsManager
<1>4. CASE AnswerQuery
  <2>1. /\ answer.stage = "asked" /\ answer'.stage = "sent"
        /\ answer'.nodes = online \cup leaving
        /\ UNCHANGED <<started, online, leaving, untold, listed, raced, gone, events, hand>>
    BY <1>4 DEF AnswerQuery, managerVars
  <2>2. \A k \in {"Online", "Offline"}, m \in Nodes : OnItsWay(k, m)' <=> OnItsWay(k, m)
    BY <2>1 DEF OnItsWay
  <2>3. Heard'
    BY <2>1, <2>2 DEF DirectoryInv, Heard
  <2>4. \A m \in Nodes : m \in online => ToBeAdded(m)'
    BY <2>1 DEF ToBeAdded
  <2> QED
    BY <2>1, <2>2, <2>3, <2>4 DEF DirectoryInv, DirectoryFollowsManager
<1>5. ASSUME NEW n \in Nodes, Die(n) PROVE Heard' /\ DirectoryFollowsManager'
  BY <1>5, NoNews DEF Die
<1>6. ASSUME NEW n \in Nodes, EraseNode(n) PROVE Heard' /\ DirectoryFollowsManager'
  <2>1. /\ leaving' = leaving \ {n}
        /\ UNCHANGED <<events, hand, started, online, untold, answer, listed, raced, gone>>
    BY <1>6 DEF EraseNode
  <2>2. \A m \in Nodes : /\ ToBeAdded(m)' <=> ToBeAdded(m)
                         /\ OnItsWay("Online", m)' <=> OnItsWay("Online", m)
                         /\ OnItsWay("Offline", m)' <=> OnItsWay("Offline", m)
    BY <2>1 DEF ToBeAdded, OnItsWay
  <2> QED
    BY <2>1, <2>2 DEF DirectoryInv, Heard, DirectoryFollowsManager
<1> QED
  BY <1>1, <1>2, <1>3, <1>4, <1>5, <1>6 DEF Manager

LEMMA DirectoryNews ==
  ASSUME DirectoryInv, Directory, ListedOnce'
  PROVE  Heard' /\ DirectoryFollowsManager'
<1> USE DEF managerVars, directoryVars
<1>1. CASE OnStart
  <2>1. /\ answer.stage = "none" /\ answer'.stage = "asked" /\ answer'.nodes = answer.nodes
        /\ UNCHANGED <<started, online, leaving, untold, listed, raced, gone, events, hand>>
    BY <1>1 DEF OnStart, DirectoryInv, TypeOK
  <2>2. \A k \in {"Online", "Offline"}, m \in Nodes : OnItsWay(k, m)' <=> OnItsWay(k, m)
    BY <2>1 DEF OnItsWay
  <2>3. Heard'
    BY <2>1, <2>2 DEF DirectoryInv, Heard
  <2>4. \A m \in Nodes : ToBeAdded(m)'
    BY <2>1 DEF ToBeAdded
  <2> QED
    BY <2>1, <2>2, <2>3, <2>4 DEF DirectoryInv, DirectoryFollowsManager
<1>2. CASE QueryReferenceInfoResponseHandler
  <2>1. /\ answer.stage = "sent" /\ answer'.stage = "done" /\ answer'.nodes = answer.nodes
        /\ AddNodes(answer.nodes)
        /\ UNCHANGED <<started, online, leaving, untold, gone, events, hand>>
    BY <1>2 DEF QueryReferenceInfoResponseHandler, DirectoryInv, TypeOK
  <2>2. \A k \in {"Online", "Offline"}, m \in Nodes : OnItsWay(k, m)' <=> OnItsWay(k, m)
    BY <2>1 DEF OnItsWay
  <2>3. Heard'
    BY <2>1, <2>2 DEF DirectoryInv, Heard
  <2>4. \A m \in Nodes : ToBeAdded(m) => ToBeAdded(m)' \/ m \in answer.nodes
    BY <2>1, <2>2 DEF ToBeAdded
  <2>5. \A m \in Nodes : /\ m \in answer.nodes => listed'[m] = listed[m] + 1
                         /\ m \notin answer.nodes => listed'[m] = listed[m]
                         /\ listed[m] \in Nat
    BY <2>1 DEF AddNodes, DirectoryInv, TypeOK
  <2>6. raced \subseteq raced' /\ \A m \in Nodes \ raced' : m \in answer.nodes => m \notin gone
    BY <2>1 DEF AddNodes
  <2>7. ASSUME NEW m \in Nodes \ raced'
        PROVE  /\ listed'[m] <= 1
               /\ listed'[m] > 0 => m \in online \/ OnItsWay("Offline", m)
               /\ m \in online /\ ~ToBeAdded(m)' => listed'[m] > 0
    <3>1. listed'[m] <= 1
      BY DEF ListedOnce
    <3>2. m \in Nodes \ raced
      BY <2>6
    <3>3. CASE m \in answer.nodes
      BY <2>5, <2>6, <3>1, <3>3 DEF DirectoryInv, Heard
    <3>4. CASE m \notin answer.nodes
      BY <2>4, <2>5, <3>1, <3>2, <3>4 DEF DirectoryInv, DirectoryFollowsManager
    <3> QED
      BY <3>3, <3>4
  <2> QED
    BY <2>1, <2>2, <2>3, <2>7 DEF DirectoryFollowsManager
<1>3. ASSUME NEW t \in ProcessThreads, TakeEvent(t) PROVE Heard' /\ DirectoryFollowsManager'
  <2>1. UNCHANGED <<started, online, leaving, untold, answer, listed, raced, gone>>
    BY <1>3 DEF TakeEvent
  <2> QED
    BY <1>3, <2>1, Taken, SameNews DEF DirectoryInv
<1>4. Rest.do # "event"
  BY DEF Rest
<1>5. ASSUME NEW t \in ProcessThreads, OnReferenceModuleOnlineEvent(t)
      PROVE  Heard' /\ DirectoryFollowsManager'
  <2> DEFINE n == hand[t].event.node
  <2>1. /\ hand[t].do = "event" /\ hand[t].event.kind = "Online"
        /\ AddNodes({n}) /\ hand' = [hand EXCEPT ![t] = Rest]
        /\ UNCHANGED <<started, online, leaving, untold, answer, gone, events>>
    BY <1>5 DEF OnReferenceModuleOnlineEvent
  <2>2. hand[t] = [do |-> "event", event |-> [kind |-> "Online", node |-> n]] /\ n \in Nodes
    <3>1. hand[t] \in [do : {"event"}, event : Event]
      BY <2>1 DEF DirectoryInv, TypeOK, Hand, Rest
    <3> QED
      BY <2>1, <3>1 DEF Event
  <2> HIDE DEF n
  <2>3. OnItsWay("Online", n)
    BY <2>2 DEF OnItsWay
  <2>4. /\ \A j \in {"Online", "Offline"}, m \in Nodes : OnItsWay(j, m)' => OnItsWay(j, m)
        /\ \A m \in Nodes : OnItsWay("Offline", m) => OnItsWay("Offline", m)'
        /\ \A m \in Nodes : m # n => (OnItsWay("Online", m) => OnItsWay("Online", m)')
    <3>1. /\ \A j \in {"Online", "Offline"}, m \in Nodes : OnItsWay(j, m)' => OnItsWay(j, m)
          /\ \A j \in {"Online", "Offline"}, m \in Nodes :
               OnItsWay(j, m) =>
                 \/ OnItsWay(j, m)'
                 \/ hand[t] = [do |-> "event", event |-> [kind |-> j, node |-> m]]
      BY <1>4, <2>1, PutDown DEF DirectoryInv
    <3>2. ASSUME NEW j \in {"Online", "Offline"}, NEW m \in Nodes,
                 hand[t] = [do |-> "event", event |-> [kind |-> j, node |-> m]]
          PROVE  j = "Online" /\ m = n
      BY <2>2, <3>2
    <3> QED
      BY <3>1, <3>2
  <2>5. Heard'
    BY <2>1, <2>4 DEF DirectoryInv, Heard
  <2>6. \A m \in Nodes : m # n => (ToBeAdded(m) => ToBeAdded(m)')
    BY <2>1, <2>4 DEF ToBeAdded
  <2>7. \A m \in Nodes : /\ listed'[m] = IF m = n THEN listed[m] + 1 ELSE listed[m]
                         /\ listed[m] \in Nat
    BY <2>1 DEF AddNodes, DirectoryInv, TypeOK
  <2>8. raced \subseteq raced' /\ (n \notin raced' => n \notin gone)
    BY <2>1 DEF AddNodes
  <2>9. ASSUME NEW m \in Nodes \ raced'
        PROVE  /\ listed'[m] <= 1
               /\ listed'[m] > 0 => m \in online \/ OnItsWay("Offline", m)'
               /\ m \in online /\ ~ToBeAdded(m)' => listed'[m] > 0
    <3>1. listed'[m] <= 1
      BY DEF ListedOnce
    <3>2. m \in Nodes \ raced
      BY <2>8
    <3>3. CASE m = n
      <4>1. m \in started /\ m \notin gone
        BY <2>3, <2>8, <3>3 DEF DirectoryInv, Heard
      <4>2. m \in online \/ OnItsWay("Offline", m)
        BY <4>1 DEF DirectoryInv, Heard
      <4> QED
        BY <2>4, <2>7, <3>1, <3>3, <4>2
    <3>4. CASE m # n
      BY <2>4, <2>6, <2>7, <3>1, <3>2, <3>4 DEF DirectoryInv, DirectoryFollowsManager
    <3> QED
      BY <3>3, <3>4
  <2> QED
    BY <2>1, <2>5, <2>9 DEF DirectoryFollowsManager
<1>6. ASSUME NEW t \in ProcessThreads, OnReferenceModuleOfflineEvent(t)
      PROVE  Heard' /\ DirectoryFollowsManager'
  <2> DEFINE n == hand[t].event.node
  <2>1. /\ hand[t].do = "event" /\ hand[t].event.kind = "Offline"
        /\ RemoveNode(n) /\ hand' = [hand EXCEPT ![t] = Rest]
        /\ UNCHANGED <<started, online, leaving, untold, answer, raced, events>>
    BY <1>6 DEF OnReferenceModuleOfflineEvent
  <2>2. hand[t] = [do |-> "event", event |-> [kind |-> "Offline", node |-> n]] /\ n \in Nodes
    <3>1. hand[t] \in [do : {"event"}, event : Event]
      BY <2>1 DEF DirectoryInv, TypeOK, Hand, Rest
    <3> QED
      BY <2>1, <3>1 DEF Event
  <2> HIDE DEF n
  <2>3. OnItsWay("Offline", n)
    BY <2>2 DEF OnItsWay
  <2>4. /\ \A j \in {"Online", "Offline"}, m \in Nodes : OnItsWay(j, m)' => OnItsWay(j, m)
        /\ \A m \in Nodes : OnItsWay("Online", m) => OnItsWay("Online", m)'
        /\ \A m \in Nodes : m # n => (OnItsWay("Offline", m) => OnItsWay("Offline", m)')
    <3>1. /\ \A j \in {"Online", "Offline"}, m \in Nodes : OnItsWay(j, m)' => OnItsWay(j, m)
          /\ \A j \in {"Online", "Offline"}, m \in Nodes :
               OnItsWay(j, m) =>
                 \/ OnItsWay(j, m)'
                 \/ hand[t] = [do |-> "event", event |-> [kind |-> j, node |-> m]]
      BY <1>4, <2>1, PutDown DEF DirectoryInv
    <3>2. ASSUME NEW j \in {"Online", "Offline"}, NEW m \in Nodes,
                 hand[t] = [do |-> "event", event |-> [kind |-> j, node |-> m]]
          PROVE  j = "Offline" /\ m = n
      BY <2>2, <3>2
    <3> QED
      BY <3>1, <3>2
  <2>5. n \in started /\ n \notin online /\ gone' = gone \cup {n}
    BY <2>1, <2>3, <2>2 DEF RemoveNode, DirectoryInv, Heard
  <2>6. Heard'
    BY <2>1, <2>4, <2>5 DEF DirectoryInv, Heard
  <2>7. \A m \in Nodes : ToBeAdded(m) => ToBeAdded(m)'
    BY <2>1, <2>4 DEF ToBeAdded
  <2>8. /\ \A m \in Nodes : m # n => listed'[m] = listed[m]
        /\ listed'[n] = IF listed[n] > 0 THEN listed[n] - 1 ELSE 0
        /\ listed[n] \in Nat
    BY <2>1, <2>2 DEF RemoveNode, DirectoryInv, TypeOK
  <2>9. ASSUME NEW m \in Nodes \ raced
        PROVE  /\ listed'[m] <= 1
               /\ listed'[m] > 0 => m \in online \/ OnItsWay("Offline", m)'
               /\ m \in online /\ ~ToBeAdded(m)' => listed'[m] > 0
    <3>1. CASE m = n
      <4>1. listed[n] <= 1
        BY <3>1 DEF DirectoryInv, ListedOnce
      <4> QED
        BY <2>5, <2>8, <3>1, <4>1
    <3>2. CASE m # n
      BY <2>4, <2>7, <2>8, <3>2 DEF DirectoryInv, DirectoryFollowsManager
    <3> QED
      BY <3>1, <3>2
  <2> QED
    BY <2>1, <2>6, <2>9 DEF DirectoryFollowsManager
<1> QED
  BY <1>1, <1>2, <1>3, <1>5, <1>6 DEF Directory

LEMMA OtherNews ==
  ASSUME DirectoryInv,
         \/ Sessions
         \/ \E t \in ProcessThreads : Process(t)
         \/ \E r \in Requests : Ask(r) \/ \E n \in Nodes : NodeAnswers(r, n)
         \/ UNCHANGED vars
  PROVE  Heard' /\ DirectoryFollowsManager'
<1> USE DEF managerVars, directoryVars, sessionVars, requestVars, vars
<1>1. CASE Sessions
  BY <1>1, NoNews DEF Sessions, RegisteConnectionEventHandler, LinkBreaks,
                      OnConnectionBreakedEventHandler
<1>2. CASE \E r \in Requests : Ask(r) \/ \E n \in Nodes : NodeAnswers(r, n)
  BY <1>2, NoNews DEF Ask, NodeAnswers
<1>3. CASE UNCHANGED vars
  BY <1>3, NoNews
<1>4. ASSUME NEW t \in ProcessThreads, Process(t) PROVE Heard' /\ DirectoryFollowsManager'
  <2>1. UNCHANGED <<events, started, online, leaving, untold, answer, listed, raced, gone>>
    BY <1>4 DEF Process, MessageToProcesser, AddMessageToSendList, ResponsePackageProcesser,
                MessageToClient
  <2>2. \/ UNCHANGED hand
        \/ /\ hand[t].do # "event"
           /\ \E h : h.do # "event" /\ hand' = [hand EXCEPT ![t] = h]
    <3>1. CASE AddMessageToSendList(t) \/ MessageToClient(t)
      BY <3>1 DEF AddMessageToSendList, MessageToClient, Rest
    <3>2. ASSUME NEW r \in Requests, NEW n \in Nodes, ResponsePackageProcesser(t, r, n)
          PROVE  \/ UNCHANGED hand
                 \/ /\ hand[t].do # "event"
                    /\ \E h : h.do # "event" /\ hand' = [hand EXCEPT ![t] = h]
      <4>1. [do |-> "answer", request |-> r, by |-> n].do # "event" /\ hand[t].do # "event"
        BY <3>2 DEF ResponsePackageProcesser, Rest
      <4> QED
        BY <3>2, <4>1 DEF ResponsePackageProcesser
    <3>3. ASSUME NEW r \in Requests, NEW n, MessageToProcesser(t, r), ForwardTo(t, r, n)
          PROVE  /\ hand[t].do # "event"
                 /\ \E h : h.do # "event" /\ hand' = [hand EXCEPT ![t] = h]
      <4>1. [do |-> "transmit", request |-> r, to |-> Addr[n]].do # "event"
            /\ hand[t].do # "event"
        BY <3>3 DEF MessageToProcesser, Rest
      <4> QED
        BY <3>3, <4>1 DEF ForwardTo
    <3> QED
      BY <1>4, <3>1, <3>2, <3>3 DEF Process, MessageToProcesser, Refuse
  <2>3. CASE UNCHANGED hand
    BY <2>1, <2>3, NoNews
  <2>4. CASE hand[t].do # "event" /\ \E h : h.do # "event" /\ hand' = [hand EXCEPT ![t] = h]
    <3>1. PICK h : h.do # "event" /\ hand' = [hand EXCEPT ![t] = h]
      BY <2>4
    <3>2. \A e : hand[t] # [do |-> "event", event |-> e]
      BY <2>4
    <3>3. \A k \in {"Online", "Offline"}, m \in Nodes : OnItsWay(k, m)' <=> OnItsWay(k, m)
      <4>1. /\ \A k \in {"Online", "Offline"}, m \in Nodes : OnItsWay(k, m)' => OnItsWay(k, m)
            /\ \A k \in {"Online", "Offline"}, m \in Nodes :
                 OnItsWay(k, m) =>
                   \/ OnItsWay(k, m)'
                   \/ hand[t] = [do |-> "event", event |-> [kind |-> k, node |-> m]]
        BY <2>1, <3>1, PutDown DEF DirectoryInv
      <4> QED
        BY <3>2, <4>1
    <3> QED
      BY <2>1, <3>3, SameNews
  <2> QED
    BY <2>2, <2>3, <2>4
<1> QED
  BY <1>1, <1>2, <1>3, <1>4

(* But for nodes whose Online, query answer and Offline overtook each       *)
(* other, a listed node is online or its Offline is on its way, it is       *)
(* listed once, and an online node is listed as soon as the gateway was     *)
(* told (gateway.cpp:203-279, servermanage.cpp:246-273, 433-449, 645-675).  *)
THEOREM DirectoryFollows == Spec => []DirectoryFollowsManager
<1>1. Init => ListedOnce /\ Heard /\ DirectoryFollowsManager
  <2> SUFFICES ASSUME Init PROVE ListedOnce /\ Heard /\ DirectoryFollowsManager
    OBVIOUS
  <2>1. \A k \in {"Online", "Offline"}, n \in Nodes : ~OnItsWay(k, n)
    BY DEF Init, OnItsWay, Rest
  <2>2. ListedOnce /\ Heard
    BY <2>1 DEF Init, ListedOnce, Heard
  <2>3. \A n \in Nodes : ToBeAdded(n)
    BY DEF Init, ToBeAdded
  <2> QED
    BY <2>2, <2>3 DEF Init, DirectoryFollowsManager
<1>2. TypeOK /\ TypeOK' /\ ListedIsConnected /\ ListedOnce /\ Heard
        /\ DirectoryFollowsManager /\ [Next]_vars
      => ListedOnce' /\ Heard' /\ DirectoryFollowsManager'
  <2> SUFFICES ASSUME TypeOK, TypeOK', ListedIsConnected, ListedOnce, Heard,
                      DirectoryFollowsManager, [Next]_vars
               PROVE  ListedOnce' /\ Heard' /\ DirectoryFollowsManager'
    OBVIOUS
  <2>1. ListedOnce'
    BY ConnectedStep
  <2>2. DirectoryInv
    BY DEF DirectoryInv
  <2>3. Heard' /\ DirectoryFollowsManager'
    BY <2>1, <2>2, ManagerNews, DirectoryNews, OtherNews DEF Next
  <2> QED
    BY <2>1, <2>3
<1> QED
  BY <1>1, <1>2, GatewayTypes, ListedNodesConnected, PTL DEF Spec

---------------------------------------------------------------------------
(* The gateway implements RequestBroker. *)

(* A request that is queued, kept or handed back is in one of these places, *)
(* and its client waits.                                                    *)
InOnePlace ==
    /\ \A r \in arrived \cup saved : client[r] = "waiting"
    /\ arrived \cap saved = {}
    /\ \A t \in ProcessThreads : hand[t].do = "answer" =>
         client[hand[t].request] = "waiting" /\ hand[t].request \notin arrived \cup saved
    /\ \A t, u \in ProcessThreads :
         hand[t].do = "answer" /\ hand[u].do = "answer" /\ hand[t].request = hand[u].request
           => t = u

(* A request is sent to, at and answered by a process at the address of a   *)
(* node that provides its function: also one that took that address.        *)
AtProviders ==
    /\ \A a \in Addresses : link[a] \in Nodes => Addr[link[a]] = a
    /\ \A p \in atNode \cup back : p[2] \in Answerers[p[1]]
    /\ \A t \in ProcessThreads :
         /\ hand[t].do = "transmit" =>
              \A m \in Nodes : Addr[m] = hand[t].to => m \in Answerers[hand[t].request]
         /\ hand[t].do = "answer" => hand[t].by \in Answerers[hand[t].request]

BrokerInv == TypeOK /\ InOnePlace /\ AtProviders

(* A node that is chosen provides the function, so whoever is at its        *)
(* address may answer.                                                      *)
LEMMA CandidatesProvide ==
  ASSUME NEW r \in Requests, NEW n \in Candidates(FunctionOf[r]),
         NEW m \in Nodes, Addr[m] = Addr[n]
  PROVE  m \in Answerers[r]
<1>1. n \in ProviderNodes(r)
  BY DEF Candidates, NodesFor, ProviderNodes
<1> QED
  BY <1>1 DEF Answerers

(* Where nodes at one address are of one template, only nodes that provide  *)
(* the function may answer.                                                 *)
LEMMA OnlyProvidersAnswer ==
  ASSUME \A m, n \in Nodes : Addr[m] = Addr[n] => TemplateOf[m] = TemplateOf[n],
         NEW r \in Requests
  PROVE  Answerers[r] = ProviderNodes(r)
BY DEF Answerers, ProviderNodes

(* Steps that hand out nothing: packages may be lost, and links may go.     *)
LEMMA QuietStep ==
  ASSUME BrokerInv, UNCHANGED <<hand, client, arrived, saved, back>>, atNode' \subseteq atNode,
         \A a \in Addresses : link'[a] \in Nodes => link'[a] = link[a] \/ Addr[link'[a]] = a
  PROVE  InOnePlace' /\ AtProviders'
<1>1. InOnePlace'
  BY DEF BrokerInv, InOnePlace
<1>2. AtProviders'
  BY DEF BrokerInv, AtProviders
<1> QED
  BY <1>1, <1>2

(* A process thread that takes or handles an event.                         *)
LEMMA EventStep ==
  ASSUME BrokerInv, NEW t \in ProcessThreads, NEW h \in Hand, h.do \in {"rest", "event"},
         hand' = [hand EXCEPT ![t] = h],
         UNCHANGED <<client, arrived, saved, back, atNode, link>>
  PROVE  InOnePlace' /\ AtProviders'
<1>1. hand'[t] = h /\ \A u \in ProcessThreads : u # t => hand'[u] = hand[u]
  BY DEF BrokerInv, TypeOK
<1>2. InOnePlace'
  BY <1>1 DEF BrokerInv, InOnePlace
<1>3. AtProviders'
  BY <1>1 DEF BrokerInv, AtProviders
<1> QED
  BY <1>2, <1>3

LEMMA ManagerBroker ==
  ASSUME BrokerInv, Manager \/ Sessions
  PROVE  InOnePlace' /\ AtProviders' /\ UNCHANGED client
<1> USE DEF managerVars, directoryVars, sessionVars, requestVars
<1>1. UNCHANGED <<hand, client, arrived, saved, back>>
  BY DEF Manager, Register, Announce, Die, AnnounceDeparture, EraseNode, AnswerQuery, Sessions,
         RegisteConnectionEventHandler, LinkBreaks, OnConnectionBreakedEventHandler
<1>2. atNode' \subseteq atNode
  BY DEF Manager, Register, Announce, Die, AnnounceDeparture, EraseNode, AnswerQuery, Sessions,
         RegisteConnectionEventHandler, LinkBreaks, OnConnectionBreakedEventHandler, Strand
<1>3. ASSUME NEW a \in Addresses, link'[a] \in Nodes
      PROVE  link'[a] = link[a] \/ Addr[link'[a]] = a
  <2>1. CASE Manager
    BY <2>1 DEF Manager, Register, Announce, Die, AnnounceDeparture, EraseNode, AnswerQuery
  <2>2. ASSUME NEW n \in Nodes, RegisteConnectionEventHandler(n)
        PROVE  link'[a] = link[a] \/ Addr[link'[a]] = a
    BY <1>3, <2>2, GatewayAssumption
       DEF BrokerInv, TypeOK, RegisteConnectionEventHandler, Listening
  <2>3. ASSUME NEW b \in Addresses, LinkBreaks(b) \/ OnConnectionBreakedEventHandler(b)
        PROVE  link'[a] = link[a]
    BY <1>3, <2>3, GatewayAssumption
       DEF BrokerInv, TypeOK, LinkBreaks, OnConnectionBreakedEventHandler
  <2> QED
    BY <2>1, <2>2, <2>3 DEF Sessions
<1> QED
  BY <1>1, <1>2, <1>3, QuietStep

LEMMA DirectoryBroker ==
  ASSUME BrokerInv, Directory
  PROVE  InOnePlace' /\ AtProviders' /\ UNCHANGED client
<1> USE DEF managerVars, directoryVars, sessionVars, requestVars
<1>1. CASE OnStart \/ QueryReferenceInfoResponseHandler
  BY <1>1, QuietStep DEF OnStart, QueryReferenceInfoResponseHandler
<1>2. ASSUME NEW t \in ProcessThreads, TakeEvent(t)
      PROVE  InOnePlace' /\ AtProviders' /\ UNCHANGED client
  <2>1. hand' = [hand EXCEPT ![t] = [do |-> "event", event |-> Head(events)]]
    BY <1>2 DEF TakeEvent
  <2>2. Head(events) \in Event
    BY <1>2 DEF TakeEvent, BrokerInv, TypeOK
  <2>3. [do |-> "event", event |-> Head(events)] \in Hand
    BY <2>2 DEF Hand
  <2>4. UNCHANGED <<client, arrived, saved, back, atNode, link>>
    BY <1>2 DEF TakeEvent
  <2> QED
    BY <2>1, <2>3, <2>4, EventStep
<1>3. ASSUME NEW t \in ProcessThreads,
             OnReferenceModuleOnlineEvent(t) \/ OnReferenceModuleOfflineEvent(t)
      PROVE  InOnePlace' /\ AtProviders' /\ UNCHANGED client
  <2>1. Rest \in Hand /\ Rest.do = "rest"
    BY DEF Hand, Rest
  <2> QED
    BY <1>3, <2>1, EventStep DEF OnReferenceModuleOnlineEvent, OnReferenceModuleOfflineEvent
<1> QED
  BY <1>1, <1>2, <1>3 DEF Directory

(* A new request waits, and is nowhere else. *)
LEMMA AskBroker ==
  ASSUME BrokerInv, NEW r \in Requests, Ask(r)
  PROVE  InOnePlace' /\ AtProviders' /\ Broker!Ask(r)
<1>1. /\ client[r] = "idle" /\ client' = [client EXCEPT ![r] = "waiting"]
      /\ arrived' = arrived \cup {r}
      /\ UNCHANGED <<hand, saved, back, atNode, link>>
  BY DEF Ask, sessionVars
<1>2. client'[r] = "waiting" /\ \A q \in Requests : q # r => client'[q] = client[q]
  BY <1>1 DEF BrokerInv, TypeOK
<1>3. r \notin arrived \cup saved
  BY <1>1 DEF BrokerInv, InOnePlace
<1>4. ASSUME NEW t \in ProcessThreads, hand[t].do = "answer"
      PROVE  hand[t].request \in Requests /\ hand[t].request # r
  <2>1. hand[t] \in Hand
    BY DEF BrokerInv, TypeOK
  <2> QED
    BY <1>1, <1>4, <2>1, Hands DEF BrokerInv, InOnePlace
<1>5. InOnePlace'
  BY <1>1, <1>2, <1>3, <1>4 DEF BrokerInv, TypeOK, InOnePlace
<1>6. AtProviders'
  BY <1>1 DEF BrokerInv, AtProviders
<1> QED
  BY <1>1, <1>5, <1>6 DEF Broker!Ask

(* The request is kept and handed to its node, or refused. *)
LEMMA ToProcesserBroker ==
  ASSUME BrokerInv, NEW t \in ProcessThreads, NEW r \in Requests, MessageToProcesser(t, r)
  PROVE  InOnePlace' /\ AtProviders' /\ (Broker!Refuse(r) \/ UNCHANGED client)
<1>1. /\ hand[t] = Rest /\ r \in arrived /\ arrived' = arrived \ {r}
      /\ UNCHANGED <<link, atNode, back>>
  BY DEF MessageToProcesser, sessionVars
<1>2. client[r] = "waiting" /\ r \notin saved
  BY <1>1 DEF BrokerInv, InOnePlace
<1>3. \A u \in ProcessThreads : hand[u].do = "answer" => hand[u].request # r
  BY <1>1 DEF BrokerInv, InOnePlace
<1>4. CASE \E n \in Candidates(FunctionOf[r]) : ForwardTo(t, r, n)
  <2>1. PICK n \in Candidates(FunctionOf[r]) : ForwardTo(t, r, n)
    BY <1>4
  <2>2. /\ saved' = saved \cup {r} /\ UNCHANGED client
        /\ hand' = [hand EXCEPT ![t] = [do |-> "transmit", request |-> r, to |-> Addr[n]]]
    BY <2>1 DEF ForwardTo
  <2>3. /\ hand'[t] = [do |-> "transmit", request |-> r, to |-> Addr[n]]
        /\ hand'[t].do = "transmit" /\ hand'[t].request = r /\ hand'[t].to = Addr[n]
        /\ \A u \in ProcessThreads : u # t => hand'[u] = hand[u]
    BY <2>2 DEF BrokerInv, TypeOK
  <2>4. InOnePlace'
    BY <1>1, <1>2, <1>3, <2>2, <2>3 DEF BrokerInv, InOnePlace
  <2>5. \A m \in Nodes : Addr[m] = Addr[n] => m \in Answerers[r]
    BY CandidatesProvide
  <2>6. AtProviders'
    BY <1>1, <2>3, <2>5 DEF BrokerInv, AtProviders
  <2> QED
    BY <2>2, <2>4, <2>6
<1>5. CASE Refuse(r)
  <2>1. client' = [client EXCEPT ![r] = "refused"] /\ UNCHANGED <<saved, hand>>
    BY <1>5 DEF Refuse
  <2>2. \A q \in Requests : q # r => client'[q] = client[q]
    BY <2>1 DEF BrokerInv, TypeOK
  <2>3. \A u \in ProcessThreads : hand[u].do = "answer" => hand[u].request \in Requests
    <3>1. \A u \in ProcessThreads : hand[u] \in Hand
      BY DEF BrokerInv, TypeOK
    <3> QED
      BY <3>1, Hands
  <2>4. InOnePlace'
    BY <1>1, <1>2, <1>3, <2>1, <2>2, <2>3 DEF BrokerInv, TypeOK, InOnePlace
  <2>5. AtProviders'
    BY <1>1, <2>1 DEF BrokerInv, AtProviders
  <2> QED
    BY <1>2, <2>1, <2>4, <2>5 DEF Broker!Refuse
<1> QED
  BY <1>4, <1>5 DEF MessageToProcesser

(* The package goes to the process the link leads to, which is at the       *)
(* address the request was to go to.                                        *)
LEMMA SendListBroker ==
  ASSUME BrokerInv, NEW t \in ProcessThreads, AddMessageToSendList(t)
  PROVE  InOnePlace' /\ AtProviders' /\ UNCHANGED client
<1>1. /\ hand[t].do = "transmit" /\ hand' = [hand EXCEPT ![t] = Rest]
      /\ UNCHANGED <<client, arrived, saved, back>>
  BY DEF AddMessageToSendList
<1>2. hand'[t].do = "rest" /\ \A u \in ProcessThreads : u # t => hand'[u] = hand[u]
  BY <1>1 DEF BrokerInv, TypeOK, Rest
<1>3. hand[t].to \in Addresses
  <2>1. hand[t] \in Hand
    BY DEF BrokerInv, TypeOK
  <2> QED
    BY <1>1, <2>1, Hands
<1>4. InOnePlace'
  BY <1>1, <1>2 DEF BrokerInv, InOnePlace
<1>5. ASSUME NEW a \in Addresses, link'[a] \in Nodes PROVE Addr[link'[a]] = a
  BY <1>3, <1>5, GatewayAssumption
     DEF BrokerInv, TypeOK, AtProviders, AddMessageToSendList, Listening
<1>6. ASSUME NEW p \in atNode', p \notin atNode PROVE p[2] \in Answerers[p[1]]
  <2>1. PICK m \in Nodes : p = <<hand[t].request, m>> /\ Addr[m] = hand[t].to
    BY <1>3, <1>6
       DEF BrokerInv, TypeOK, AtProviders, AddMessageToSendList, Delivered, Dropped, SendFails,
           Listening
  <2> QED
    BY <1>1, <2>1 DEF BrokerInv, AtProviders
<1>7. AtProviders'
  BY <1>1, <1>2, <1>5, <1>6 DEF BrokerInv, AtProviders
<1> QED
  BY <1>1, <1>4, <1>7

(* The node that has a request answers it. *)
LEMMA NodeBroker ==
  ASSUME BrokerInv, NEW r \in Requests, NEW n \in Nodes, NodeAnswers(r, n)
  PROVE  InOnePlace' /\ AtProviders' /\ UNCHANGED client
<1>1. /\ <<r, n>> \in atNode /\ atNode' \subseteq atNode /\ back' = back \cup {<<r, n>>}
      /\ UNCHANGED <<client, arrived, saved, hand, link>>
  BY DEF NodeAnswers, sessionVars
<1>2. InOnePlace'
  BY <1>1 DEF BrokerInv, InOnePlace
<1>3. AtProviders'
  BY <1>1 DEF BrokerInv, AtProviders
<1> QED
  BY <1>1, <1>2, <1>3

(* The entry of a request is taken once, for one thread that answers.       *)
LEMMA ResponseBroker ==
  ASSUME BrokerInv, NEW t \in ProcessThreads, NEW r \in Requests, NEW n \in Nodes,
         ResponsePackageProcesser(t, r, n)
  PROVE  InOnePlace' /\ AtProviders' /\ UNCHANGED client
<1>1. /\ hand[t] = Rest /\ <<r, n>> \in back /\ back' \subseteq back /\ saved' = saved \ {r}
      /\ UNCHANGED <<client, arrived, atNode, link>>
  BY DEF ResponsePackageProcesser, sessionVars
<1>2. n \in Answerers[r]
  BY <1>1 DEF BrokerInv, AtProviders
<1>3. CASE r \in saved
  <2>1. hand' = [hand EXCEPT ![t] = [do |-> "answer", request |-> r, by |-> n]]
    BY <1>3 DEF ResponsePackageProcesser
  <2>2. /\ hand'[t] = [do |-> "answer", request |-> r, by |-> n]
        /\ hand'[t].do = "answer" /\ hand'[t].request = r /\ hand'[t].by = n
        /\ \A u \in ProcessThreads : u # t => hand'[u] = hand[u]
    BY <2>1 DEF BrokerInv, TypeOK
  <2>3. \A u \in ProcessThreads : hand[u].do = "answer" => hand[u].request # r
    BY <1>3 DEF BrokerInv, InOnePlace
  <2>4. client[r] = "waiting" /\ r \notin arrived
    BY <1>3 DEF BrokerInv, InOnePlace
  <2>5. InOnePlace'
    BY <1>1, <2>2, <2>3, <2>4 DEF BrokerInv, InOnePlace
  <2>6. AtProviders'
    BY <1>1, <1>2, <2>2 DEF BrokerInv, AtProviders
  <2> QED
    BY <1>1, <2>5, <2>6
<1>4. CASE r \notin saved
  <2>1. hand' = hand /\ saved' = saved
    BY <1>1, <1>4 DEF ResponsePackageProcesser
  <2>2. InOnePlace'
    BY <1>1, <2>1 DEF BrokerInv, InOnePlace
  <2>3. AtProviders'
    BY <1>1, <2>1 DEF BrokerInv, AtProviders
  <2> QED
    BY <1>1, <2>2, <2>3
<1> QED
  BY <1>3, <1>4

(* The client gets the answer it waits for, from a provider. *)
LEMMA ToClientBroker ==
  ASSUME BrokerInv, NEW t \in ProcessThreads, MessageToClient(t)
  PROVE  InOnePlace' /\ AtProviders' /\ Broker!Answer(hand[t].request)
                     /\ hand[t].request \in Requests
<1>1. /\ hand[t].do = "answer" /\ hand' = [hand EXCEPT ![t] = Rest]
      /\ client' = [client EXCEPT ![hand[t].request] = hand[t].by]
      /\ UNCHANGED <<arrived, saved, atNode, back, link>>
  BY DEF MessageToClient, sessionVars
<1>2. hand'[t].do = "rest" /\ \A u \in ProcessThreads : u # t => hand'[u] = hand[u]
  BY <1>1 DEF BrokerInv, TypeOK, Rest
<1>3. hand[t].request \in Requests /\ hand[t].by \in Nodes
  <2>1. hand[t] \in Hand
    BY DEF BrokerInv, TypeOK
  <2> QED
    BY <1>1, <2>1, Hands
<1>4. /\ client[hand[t].request] = "waiting" /\ hand[t].request \notin arrived \cup saved
      /\ hand[t].by \in Answerers[hand[t].request]
  BY <1>1 DEF BrokerInv, InOnePlace, AtProviders
<1>5. \A q \in Requests : q # hand[t].request => client'[q] = client[q]
  BY <1>1 DEF BrokerInv, TypeOK
<1>6. ASSUME NEW u \in ProcessThreads, u # t, hand[u].do = "answer"
      PROVE  hand[u].request \in Requests /\ hand[u].request # hand[t].request
  <2>1. hand[u] \in Hand
    BY DEF BrokerInv, TypeOK
  <2> QED
    BY <1>1, <1>6, <2>1, Hands DEF BrokerInv, InOnePlace
<1>7. InOnePlace'
  BY <1>1, <1>2, <1>4, <1>5, <1>6 DEF BrokerInv, TypeOK, InOnePlace
<1>8. AtProviders'
  BY <1>1, <1>2 DEF BrokerInv, AtProviders
<1> QED
  BY <1>1, <1>3, <1>4, <1>7, <1>8 DEF Broker!Answer

(* Every step of the gateway is a step of the broker, or none.              *)
LEMMA BrokerStep ==
  ASSUME BrokerInv, TypeOK', [Next]_vars
  PROVE  BrokerInv' /\ [Broker!Next]_client
<1> SUFFICES InOnePlace' /\ AtProviders' /\ [Broker!Next]_client
  BY DEF BrokerInv
<1>1. CASE Manager \/ Sessions
  BY <1>1, ManagerBroker
<1>2. CASE Directory
  BY <1>2, DirectoryBroker
<1>3. ASSUME NEW r \in Requests, Ask(r)
      PROVE  InOnePlace' /\ AtProviders' /\ [Broker!Next]_client
  BY <1>3, AskBroker DEF Broker!Next
<1>4. ASSUME NEW t \in ProcessThreads, Process(t)
      PROVE  InOnePlace' /\ AtProviders' /\ [Broker!Next]_client
  <2>1. ASSUME NEW r \in Requests, MessageToProcesser(t, r)
        PROVE  InOnePlace' /\ AtProviders' /\ [Broker!Next]_client
    BY <2>1, ToProcesserBroker DEF Broker!Next
  <2>2. CASE AddMessageToSendList(t)
    BY <2>2, SendListBroker
  <2>3. ASSUME NEW r \in Requests, NEW n \in Nodes, ResponsePackageProcesser(t, r, n)
        PROVE  InOnePlace' /\ AtProviders' /\ [Broker!Next]_client
    BY <2>3, ResponseBroker
  <2>4. CASE MessageToClient(t)
    BY <2>4, ToClientBroker DEF Broker!Next
  <2> QED
    BY <1>4, <2>1, <2>2, <2>3, <2>4 DEF Process
<1>5. ASSUME NEW r \in Requests, NEW n \in Nodes, NodeAnswers(r, n)
      PROVE  InOnePlace' /\ AtProviders' /\ [Broker!Next]_client
  BY <1>5, NodeBroker
<1>6. CASE UNCHANGED vars
  BY <1>6, QuietStep DEF vars, requestVars, sessionVars
<1> QED
  BY <1>1, <1>2, <1>3, <1>4, <1>5, <1>6 DEF Next

(* The invariant of the refinement. *)
LEMMA RequestsInPlace == Spec => [](InOnePlace /\ AtProviders)
<1>1. Init => InOnePlace /\ AtProviders
  <2> SUFFICES ASSUME Init PROVE InOnePlace /\ AtProviders
    OBVIOUS
  <2>1. \A t \in ProcessThreads : hand[t].do = "rest"
    BY DEF Init, Rest
  <2>2. InOnePlace
    BY <2>1 DEF Init, InOnePlace
  <2>3. AtProviders
    BY <2>1, GatewayAssumption DEF Init, AtProviders
  <2> QED
    BY <2>2, <2>3
<1>2. TypeOK /\ TypeOK' /\ InOnePlace /\ AtProviders /\ [Next]_vars => (InOnePlace /\ AtProviders)'
  BY BrokerStep DEF BrokerInv
<1> QED
  BY <1>1, <1>2, GatewayTypes, PTL DEF Spec

(* What clients see of the gateway is a RequestBroker: whatever nodes,      *)
(* connections and threads do, a request gets one outcome at most, and an   *)
(* answer comes from a process at the address of a node that provides its   *)
(* function, which need not be that node (gateway.cpp:85-102, 311-342;      *)
(* transpond.cpp:34-75; EasyConnect.cpp:95-105, 170-175).                   *)
THEOREM GatewayImplementsBroker == Spec => BrokerSpec
<1>1. Init => Broker!Init
  BY DEF Init, Broker!Init
<1>2. TypeOK /\ TypeOK' /\ InOnePlace /\ AtProviders /\ [Next]_vars => [Broker!Next]_client
  BY BrokerStep DEF BrokerInv
<1> QED
  BY <1>1, <1>2, GatewayTypes, RequestsInPlace, PTL DEF Spec, BrokerSpec, Broker!Spec
---------------------------------------------------------------------------
(* Each request is in one place. *)

Single(S) == \A x, y \in S : x = y

(* The packages of each request: with the threads that are to send it, with *)
(* those that hand its answer to the client, at nodes, and on their way     *)
(* back.                                                                    *)
Sending == [r \in Requests |-> InHand("transmit", r)]
Answering == [r \in Requests |-> InHand("answer", r)]
Sent == [r \in Requests |-> PackagesOf(atNode, r)]
Answered == [r \in Requests |-> PackagesOf(back, r)]

(* What is kept has one package: with the thread that is to send it, at a   *)
(* node, on its way back, or dropped. Nothing else has one.                 *)
OneOf(kept, sending, sent, answered, dropped) ==
    /\ Single(sending) /\ Single(sent) /\ Single(answered)
    /\ kept <=> sending # {} \/ sent # {} \/ answered # {} \/ dropped
    /\ sending # {} => sent = {} /\ answered = {} /\ ~dropped
    /\ sent # {} => answered = {} /\ ~dropped
    /\ answered # {} => ~dropped

PackageOf(r) == OneOf(r \in saved, Sending[r], Sent[r],
                      Answered[r], r \in stranded)

OnePackage == \A r \in Requests : PackageOf(r)

(* A client that waits has its request in the gateway. *)
WaitingIsKept ==
    \A r \in Requests :
        client[r] = "waiting" => r \in arrived \cup saved \/ Answering[r] # {}

KeepingInv == BrokerInv /\ OnePackage /\ WaitingIsKept

LEMMA SizeOfSingle ==
  ASSUME NEW S, Single(S)
  PROVE  Cardinality(S) = IF S = {} THEN 0 ELSE 1
<1>1. CASE S = {}
  BY <1>1, FS_EmptySet
<1>2. CASE S # {}
  <2>1. PICK x : S = {x}
    BY <1>2 DEF Single
  <2> QED
    BY <2>1, FS_Singleton
<1> QED
  BY <1>1, <1>2

LEMMA SizeOfMember ==
  ASSUME NEW S, NEW r
  PROVE  Cardinality({r} \cap S) = IF r \in S THEN 1 ELSE 0
<1>1. Single({r} \cap S)
  BY DEF Single
<1>2. {r} \cap S = {} <=> r \notin S
  OBVIOUS
<1> QED
  BY <1>1, <1>2, SizeOfSingle

LEMMA KeptIsAccounted ==
  ASSUME KeepingInv
  PROVE  RequestsAccounted
<1> SUFFICES ASSUME NEW r \in Requests
             PROVE  /\ client[r] = "waiting" <=> r \in arrived \cup saved \/ InHand("answer", r) # {}
                    /\ Cardinality(InHand("answer", r)) + Cardinality({r} \cap arrived)
                         + Cardinality({r} \cap saved) <= 1
                    /\ Cardinality(InHand("transmit", r)) + Cardinality(PackagesOf(atNode, r))
                         + Cardinality(PackagesOf(back, r)) + Cardinality({r} \cap stranded)
                       = Cardinality({r} \cap saved)
  BY DEF RequestsAccounted
<1>1. client[r] = "waiting" <=> r \in arrived \cup saved \/ InHand("answer", r) # {}
  BY DEF KeepingInv, WaitingIsKept, BrokerInv, InOnePlace, Answering, InHand
<1>2. Cardinality(InHand("answer", r)) + Cardinality({r} \cap arrived)
        + Cardinality({r} \cap saved) <= 1
  <2>1. Single(InHand("answer", r))
    BY DEF KeepingInv, BrokerInv, InOnePlace, InHand, Single
  <2>2. /\ InHand("answer", r) # {} => r \notin arrived \cup saved
        /\ r \in arrived => r \notin saved
    BY DEF KeepingInv, BrokerInv, InOnePlace, InHand
  <2> QED
    BY <2>1, <2>2, SizeOfSingle, SizeOfMember
<1>3. Cardinality(InHand("transmit", r)) + Cardinality(PackagesOf(atNode, r))
        + Cardinality(PackagesOf(back, r)) + Cardinality({r} \cap stranded)
      = Cardinality({r} \cap saved)
  <2> DEFINE sending == InHand("transmit", r)
             sent == PackagesOf(atNode, r)
             answered == PackagesOf(back, r)
  <2>1. /\ Single(sending) /\ Single(sent) /\ Single(answered)
        /\ r \in saved <=> sending # {} \/ sent # {} \/ answered # {} \/ r \in stranded
        /\ sending # {} => sent = {} /\ answered = {} /\ r \notin stranded
        /\ sent # {} => answered = {} /\ r \notin stranded
        /\ answered # {} => r \notin stranded
    BY DEF KeepingInv, OnePackage, PackageOf, OneOf, Sending, Sent, Answered
  <2> HIDE DEF sending, sent, answered
  <2>2. /\ Cardinality(sending) = IF sending = {} THEN 0 ELSE 1
        /\ Cardinality(sent) = IF sent = {} THEN 0 ELSE 1
        /\ Cardinality(answered) = IF answered = {} THEN 0 ELSE 1
        /\ Cardinality({r} \cap stranded) = IF r \in stranded THEN 1 ELSE 0
        /\ Cardinality({r} \cap saved) = IF r \in saved THEN 1 ELSE 0
    BY <2>1, SizeOfSingle, SizeOfMember
  <2>3. Cardinality(sending) + Cardinality(sent) + Cardinality(answered)
          + Cardinality({r} \cap stranded) = Cardinality({r} \cap saved)
    BY <2>1, <2>2
  <2> QED
    BY <2>3 DEF sending, sent, answered
<1> QED
  BY <1>1, <1>2, <1>3

(* Steps that change nothing but what threads hold of other things.         *)
LEMMA KeptAlone ==
  ASSUME KeepingInv, UNCHANGED <<client, arrived, saved, atNode, back, stranded>>,
         \A t \in ProcessThreads :
           \/ hand'[t] = hand[t]
           \/ hand[t].do \notin {"transmit", "answer"} /\ hand'[t].do \notin {"transmit", "answer"}
  PROVE  OnePackage' /\ WaitingIsKept'
<1>1. \A r \in Requests : /\ Sending'[r] = Sending[r]
                          /\ Answering'[r] = Answering[r]
  BY DEF Sending, Answering, InHand
<1>2. OnePackage'
  BY <1>1 DEF KeepingInv, OnePackage, PackageOf, Sent, Answered, PackagesOf
<1>3. WaitingIsKept'
  BY <1>1 DEF KeepingInv, WaitingIsKept
<1> QED
  BY <1>2, <1>3

(* Packages that are lost with a connection or a node. *)
LEMMA KeptStrand ==
  ASSUME KeepingInv, NEW S \in SUBSET atNode, Strand(S),
         UNCHANGED <<hand, client, arrived, saved, back>>
  PROVE  OnePackage' /\ WaitingIsKept'
<1>1. atNode' = atNode \ S /\ stranded' = stranded \cup {p[1] : p \in S}
  BY DEF Strand, RequestsOf
<1>2. atNode \subseteq Requests \X Nodes
  BY DEF KeepingInv, BrokerInv, TypeOK
<1>3. ASSUME NEW r \in Requests
      PROVE  /\ Sending'[r] = Sending[r]
             /\ Answering'[r] = Answering[r]
             /\ Answered'[r] = Answered[r]
  BY DEF Sending, Answering, InHand, Sent, Answered, PackagesOf
<1>4. ASSUME NEW r \in Requests, Sent[r] \cap S = {}
      PROVE  /\ Sent'[r] = Sent[r]
             /\ r \in stranded' <=> r \in stranded
  BY <1>1, <1>2, <1>4 DEF Sent, Answered, PackagesOf
<1>5. ASSUME NEW r \in Requests, Sent[r] \cap S # {}
      PROVE  /\ Sent'[r] = {}
             /\ r \in stranded' /\ Sent[r] # {}
  <2>1. Single(Sent[r])
    BY DEF KeepingInv, OnePackage, PackageOf, OneOf
  <2> QED
    BY <1>1, <1>2, <1>5, <2>1 DEF Sent, Answered, PackagesOf, Single
<1>6. OnePackage'
  <2> SUFFICES ASSUME NEW r \in Requests PROVE PackageOf(r)'
    BY DEF OnePackage
  <2>1. PackageOf(r) /\ Single({}) /\ (r \in saved' <=> r \in saved)
    BY DEF KeepingInv, OnePackage, Single
  <2> QED
    BY <1>3, <1>4, <1>5, <2>1 DEF PackageOf, OneOf
<1>7. WaitingIsKept'
  BY <1>3 DEF KeepingInv, WaitingIsKept
<1> QED
  BY <1>6, <1>7

(* Steps that are about one request leave the others as they are.           *)
LEMMA KeptOfOthers ==
  ASSUME KeepingInv, NEW r \in Requests,
         \A q \in Requests : q # r =>
           /\ Sending'[q] = Sending[q]
           /\ Answering'[q] = Answering[q]
           /\ Sent'[q] = Sent[q]
           /\ Answered'[q] = Answered[q]
           /\ q \in saved' <=> q \in saved
           /\ q \in stranded' <=> q \in stranded
           /\ client'[q] = client[q]
           /\ q \in arrived' <=> q \in arrived,
         PackageOf(r)',
         client'[r] = "waiting" => r \in arrived' \cup saved' \/ Answering'[r] # {}
  PROVE  OnePackage' /\ WaitingIsKept'
<1>1. \A q \in Requests : q # r => PackageOf(q)'
  BY DEF KeepingInv, OnePackage, PackageOf
<1>2. OnePackage'
  BY <1>1 DEF OnePackage
<1>3. WaitingIsKept'
  BY DEF KeepingInv, WaitingIsKept
<1> QED
  BY <1>2, <1>3

(* The packages of a request after one thread took up something else.       *)
LEMMA HandMoves ==
  ASSUME NEW t \in ProcessThreads,
         \A u \in ProcessThreads : u # t => hand'[u] = hand[u]
  PROVE  \A q \in Requests :
           /\ Sending'[q] = {u \in Sending[q] : u # t}
                \cup {u \in {t} : hand'[t].do = "transmit" /\ hand'[t].request = q}
           /\ Answering'[q] = {u \in Answering[q] : u # t}
                \cup {u \in {t} : hand'[t].do = "answer" /\ hand'[t].request = q}
<1> TAKE q \in Requests
<1>1. Sending'[q] = {u \in Sending[q] : u # t}
        \cup {u \in {t} : hand'[t].do = "transmit" /\ hand'[t].request = q}
  BY DEF Sending, InHand
<1>2. Answering'[q] = {u \in Answering[q] : u # t}
        \cup {u \in {t} : hand'[t].do = "answer" /\ hand'[t].request = q}
  BY DEF Answering, InHand
<1> QED
  BY <1>1, <1>2

LEMMA AskKept ==
  ASSUME KeepingInv, NEW r \in Requests, Ask(r)
  PROVE  OnePackage' /\ WaitingIsKept'
<1>1. /\ client' = [client EXCEPT ![r] = "waiting"] /\ arrived' = arrived \cup {r}
      /\ UNCHANGED <<hand, saved, atNode, back, stranded>>
  BY DEF Ask
<1>2. \A q \in Requests : q # r => client'[q] = client[q]
  BY <1>1 DEF KeepingInv, BrokerInv, TypeOK
<1>3. /\ \A q \in Requests : /\ Sending'[q] = Sending[q]
                             /\ Answering'[q] = Answering[q]
                             /\ Sent'[q] = Sent[q]
                             /\ Answered'[q] = Answered[q]
  BY <1>1 DEF Sending, Answering, InHand, Sent, Answered, PackagesOf
<1>4. PackageOf(r)'
  BY <1>1, <1>3 DEF KeepingInv, OnePackage, PackageOf
<1> QED
  BY <1>1, <1>2, <1>3, <1>4, KeptOfOthers

LEMMA ToProcesserKept ==
  ASSUME KeepingInv, NEW t \in ProcessThreads, NEW r \in Requests, MessageToProcesser(t, r)
  PROVE  OnePackage' /\ WaitingIsKept'
<1>1. /\ hand[t] = Rest /\ r \in arrived /\ arrived' = arrived \ {r}
      /\ UNCHANGED <<atNode, back, stranded>>
  BY DEF MessageToProcesser
<1>2. hand[t].do = "rest" /\ r \notin saved
  BY <1>1 DEF KeepingInv, BrokerInv, InOnePlace, Rest
<1>3. \A q \in Requests : /\ Sent'[q] = Sent[q]
                          /\ Answered'[q] = Answered[q]
  BY <1>1 DEF Sent, Answered, PackagesOf
<1>4. ASSUME NEW n, ForwardTo(t, r, n) PROVE OnePackage' /\ WaitingIsKept'
  <2> DEFINE h == [do |-> "transmit", request |-> r, to |-> Addr[n]]
  <2>1. /\ saved' = saved \cup {r} /\ UNCHANGED client
        /\ hand' = [hand EXCEPT ![t] = h]
    BY <1>4 DEF ForwardTo
  <2>2. h.do = "transmit" /\ h.request = r
    OBVIOUS
  <2>21. /\ hand'[t].do = "transmit" /\ hand'[t].request = r
         /\ \A u \in ProcessThreads : u # t => hand'[u] = hand[u]
    BY <2>1, <2>2 DEF KeepingInv, BrokerInv, TypeOK
  <2> HIDE DEF h
  <2>3. \A q \in Requests : /\ Sending'[q] = {u \in Sending[q] : u # t}
                                             \cup {u \in {t} : q = r}
                            /\ Answering'[q] = {u \in Answering[q] : u # t}
    BY <2>21, HandMoves
  <2>4. \A q \in Requests : t \notin Sending[q] /\ t \notin Answering[q]
    BY <1>2 DEF Sending, Answering, InHand
  <2>5. \A q \in Requests : /\ q # r => Sending'[q] = Sending[q]
                            /\ Answering'[q] = Answering[q]
                            /\ Sending'[r] = Sending[r] \cup {t}
    <3> TAKE q \in Requests
    <3>1. {u \in Sending[q] : u # t} = Sending[q] /\ {u \in Answering[q] : u # t} = Answering[q]
      BY <2>4
    <3>2. {u \in Sending[r] : u # t} = Sending[r] /\ {u \in {t} : r = r} = {t}
      BY <2>4
    <3>3. q # r => Sending[q] \cup {u \in {t} : q = r} = Sending[q]
      OBVIOUS
    <3> QED
      BY <2>3, <3>1, <3>2, <3>3
  <2>6. PackageOf(r)'
    BY <1>1, <1>2, <1>3, <2>1, <2>5 DEF KeepingInv, OnePackage, PackageOf, OneOf, Single
  <2> QED
    BY <1>1, <1>3, <2>1, <2>5, <2>6, KeptOfOthers
<1>5. CASE Refuse(r)
  <2>1. client' = [client EXCEPT ![r] = "refused"] /\ UNCHANGED <<saved, hand>>
    BY <1>5 DEF Refuse
  <2>2. client'[r] = "refused" /\ \A q \in Requests : q # r => client'[q] = client[q]
    BY <2>1 DEF KeepingInv, BrokerInv, TypeOK
  <2>3. \A q \in Requests : /\ Sending'[q] = Sending[q]
                            /\ Answering'[q] = Answering[q]
    BY <2>1 DEF Sending, Answering, InHand
  <2>4. PackageOf(r)'
    BY <1>1, <1>3, <2>1, <2>3 DEF KeepingInv, OnePackage, PackageOf
  <2> QED
    BY <1>1, <1>3, <2>1, <2>2, <2>3, <2>4, KeptOfOthers
<1> QED
  BY <1>4, <1>5 DEF MessageToProcesser

(* What a thread sends is at a node afterwards, or dropped.                 *)
LEMMA SendListKept ==
  ASSUME KeepingInv, NEW t \in ProcessThreads, AddMessageToSendList(t)
  PROVE  OnePackage' /\ WaitingIsKept'
<1>0. TypeOK
  BY DEF KeepingInv, BrokerInv
<1>1. /\ hand[t].do = "transmit" /\ hand' = [hand EXCEPT ![t] = Rest]
      /\ UNCHANGED <<client, arrived, saved, back>>
  BY DEF AddMessageToSendList
<1>2. hand[t].request \in Requests /\ Rest.do = "rest"
  <2>1. hand[t] \in Hand
    BY DEF KeepingInv, BrokerInv, TypeOK
  <2> QED
    BY <1>1, <2>1, Hands DEF Rest
<1> PICK r \in Requests : r = hand[t].request
  BY <1>2
<1>3. Dropped(r) \/ \E m : Delivered(r, m)
  BY DEF AddMessageToSendList, SendFails
<1>4. t \in Sending[r]
  BY <1>1, <1>2 DEF Sending, Answering, InHand
<1>5. /\ \A q \in Requests : q # r => t \notin Sending[q]
      /\ \A q \in Requests : t \notin Answering[q]
  BY <1>1 DEF Sending, Answering, InHand
<1>6. \A q \in Requests : /\ Sending'[q] = {u \in Sending[q] : u # t}
                          /\ Answering'[q] = {u \in Answering[q] : u # t}
  <2>1. hand'[t].do = "rest" /\ \A u \in ProcessThreads : u # t => hand'[u] = hand[u]
    BY <1>0, <1>1, <1>2 DEF TypeOK
  <2> QED
    BY <2>1, HandMoves
<1>7. /\ \A q \in Requests : q # r => Sending'[q] = Sending[q]
      /\ \A q \in Requests : Answering'[q] = Answering[q]
  <2>1. ASSUME NEW q \in Requests, q # r PROVE {u \in Sending[q] : u # t} = Sending[q]
    BY <1>5, <2>1
  <2>2. ASSUME NEW q \in Requests PROVE {u \in Answering[q] : u # t} = Answering[q]
    BY <1>5, <2>2
  <2> QED
    BY <1>6, <2>1, <2>2
<1>8. /\ Sending'[r] = {} /\ r \in saved /\ r \notin stranded
      /\ Sent[r] = {} /\ Answered[r] = {}
  <2>1. PackageOf(r)
    BY <1>2 DEF KeepingInv, OnePackage
  <2>2. Sending'[r] = {u \in Sending[r] : u # t}
    BY <1>2, <1>6
  <2> QED
    BY <1>4, <2>1, <2>2 DEF PackageOf, OneOf, Single
<1>9. \A q \in Requests : Answered'[q] = Answered[q]
  BY <1>1 DEF Sent, Answered, PackagesOf
<1>10. CASE Dropped(r)
  <2>1. stranded' = stranded \cup {r} /\ \A q \in Requests : Sent'[q] = Sent[q]
    BY <1>10 DEF Dropped, Sent, Answered, PackagesOf
  <2>2. PackageOf(r)'
    BY <1>1, <1>8, <1>9, <2>1 DEF PackageOf, OneOf, Single
  <2> QED
    BY <1>1, <1>2, <1>7, <1>9, <2>1, <2>2, KeptOfOthers DEF KeepingInv, WaitingIsKept
<1>11. ASSUME NEW m, Delivered(r, m) PROVE OnePackage' /\ WaitingIsKept'
  <2>1. /\ atNode' = atNode \cup {<<r, m>>} /\ stranded' = stranded
        /\ \A q \in Requests : q # r => Sent'[q] = Sent[q]
        /\ Sent'[r] = Sent[r] \cup {<<r, m>>}
    BY <1>11 DEF Delivered, Sent, Answered, PackagesOf
  <2>2. PackageOf(r)'
    BY <1>1, <1>8, <1>9, <2>1 DEF PackageOf, OneOf, Single
  <2> QED
    BY <1>1, <1>2, <1>7, <1>9, <2>1, <2>2, KeptOfOthers DEF KeepingInv, WaitingIsKept
<1> QED
  BY <1>3, <1>10, <1>11

(* The answer is on its way back. *)
LEMMA NodeKept ==
  ASSUME KeepingInv, NEW r \in Requests, NEW n \in Nodes, NodeAnswers(r, n)
  PROVE  OnePackage' /\ WaitingIsKept'
<1>1. /\ <<r, n>> \in atNode /\ atNode' = atNode \ {<<r, n>>} /\ back' = back \cup {<<r, n>>}
      /\ UNCHANGED <<client, arrived, saved, stranded, hand>>
  BY DEF NodeAnswers
<1>2. \A q \in Requests : /\ Sending'[q] = Sending[q]
                          /\ Answering'[q] = Answering[q]
                          /\ q # r => /\ Sent'[q] = Sent[q]
                                      /\ Answered'[q] = Answered[q]
  BY <1>1 DEF Sending, Answering, InHand, Sent, Answered, PackagesOf
<1>3. PackageOf(r)
  BY DEF KeepingInv, OnePackage
<1>4. /\ <<r, n>> \in Sent[r] /\ Answered[r] = {}
      /\ Sent'[r] = {} /\ Answered'[r] = {<<r, n>>}
  BY <1>1, <1>3 DEF PackageOf, OneOf, Sent, Answered, PackagesOf, Single
<1>5. PackageOf(r)'
  BY <1>1, <1>2, <1>3, <1>4 DEF PackageOf, OneOf, Single
<1> QED
  BY <1>1, <1>2, <1>5, KeptOfOthers DEF KeepingInv, WaitingIsKept

(* The entry goes with the answer, which finds it. *)
LEMMA ResponseKept ==
  ASSUME KeepingInv, NEW t \in ProcessThreads, NEW r \in Requests, NEW n \in Nodes,
         ResponsePackageProcesser(t, r, n)
  PROVE  OnePackage' /\ WaitingIsKept'
<1> DEFINE h == [do |-> "answer", request |-> r, by |-> n]
<1>0. TypeOK
  BY DEF KeepingInv, BrokerInv
<1>1. /\ hand[t] = Rest /\ <<r, n>> \in back /\ back' = back \ {<<r, n>>}
      /\ saved' = saved \ {r}
      /\ UNCHANGED <<client, arrived, atNode, stranded>>
  BY DEF ResponsePackageProcesser
<1>2. PackageOf(r)
  BY DEF KeepingInv, OnePackage
<1>3. /\ <<r, n>> \in Answered[r] /\ r \in saved /\ r \notin stranded
      /\ Answered'[r] = {} /\ Sent[r] = {} /\ Sending[r] = {}
  BY <1>1, <1>2 DEF PackageOf, OneOf, Sent, Answered, PackagesOf, Single
<1>4. hand' = [hand EXCEPT ![t] = h] /\ h.do = "answer" /\ h.request = r
  BY <1>3 DEF ResponsePackageProcesser
<1> HIDE DEF h
<1>5. \A q \in Requests : t \notin Sending[q] /\ t \notin Answering[q]
  BY <1>1 DEF Sending, Answering, InHand, Rest
<1>6. \A q \in Requests : /\ Sending'[q] = {u \in Sending[q] : u # t}
                          /\ Answering'[q] = {u \in Answering[q] : u # t}
                                                      \cup {u \in {t} : q = r}
  <2>1. /\ hand'[t].do = "answer" /\ hand'[t].request = r
        /\ \A u \in ProcessThreads : u # t => hand'[u] = hand[u]
    BY <1>0, <1>4 DEF TypeOK
  <2> QED
    BY <2>1, HandMoves
<1>7. \A q \in Requests : /\ Sending'[q] = Sending[q]
                          /\ q # r => Answering'[q] = Answering[q]
                          /\ t \in Answering'[r]
  <2> TAKE q \in Requests
  <2>1. {u \in Sending[q] : u # t} = Sending[q] /\ {u \in Answering[q] : u # t} = Answering[q]
    BY <1>5
  <2>2. q # r => Answering[q] \cup {u \in {t} : q = r} = Answering[q]
    OBVIOUS
  <2>3. t \in Answering'[r]
    BY <1>6
  <2> QED
    BY <1>6, <2>1, <2>2, <2>3
<1>8. \A q \in Requests : /\ Sent'[q] = Sent[q]
                          /\ q # r => Answered'[q] = Answered[q]
  BY <1>1 DEF Sent, Answered, PackagesOf
<1>9. PackageOf(r)'
  BY <1>1, <1>3, <1>7, <1>8 DEF PackageOf, OneOf, Single
<1> QED
  BY <1>1, <1>7, <1>8, <1>9, KeptOfOthers

LEMMA ToClientKept ==
  ASSUME KeepingInv, NEW t \in ProcessThreads, MessageToClient(t)
  PROVE  OnePackage' /\ WaitingIsKept'
<1>0. TypeOK
  BY DEF KeepingInv, BrokerInv
<1>1. /\ hand[t].do = "answer" /\ hand' = [hand EXCEPT ![t] = Rest]
      /\ client' = [client EXCEPT ![hand[t].request] = hand[t].by]
      /\ UNCHANGED <<arrived, saved, atNode, back, stranded>>
  BY DEF MessageToClient
<1>2. hand[t].request \in Requests /\ hand[t].by \in Nodes /\ Rest.do = "rest"
  <2>1. hand[t] \in Hand
    BY DEF KeepingInv, BrokerInv, TypeOK
  <2> QED
    BY <1>1, <2>1, Hands DEF Rest
<1> PICK r \in Requests : r = hand[t].request
  BY <1>2
<1>3. /\ \A q \in Requests : q # r => t \notin Answering[q]
      /\ \A q \in Requests : t \notin Sending[q]
  BY <1>1 DEF Sending, Answering, InHand
<1>4. \A q \in Requests : /\ Sending'[q] = {u \in Sending[q] : u # t}
                          /\ Answering'[q] = {u \in Answering[q] : u # t}
  <2>1. hand'[t].do = "rest" /\ \A u \in ProcessThreads : u # t => hand'[u] = hand[u]
    BY <1>0, <1>1, <1>2 DEF TypeOK
  <2> QED
    BY <2>1, HandMoves
<1>5. /\ \A q \in Requests : Sending'[q] = Sending[q]
      /\ \A q \in Requests : q # r => Answering'[q] = Answering[q]
  <2>1. ASSUME NEW q \in Requests PROVE {u \in Sending[q] : u # t} = Sending[q]
    BY <1>3, <2>1
  <2>2. ASSUME NEW q \in Requests, q # r PROVE {u \in Answering[q] : u # t} = Answering[q]
    BY <1>3, <2>2
  <2> QED
    BY <1>4, <2>1, <2>2
<1>6. client'[r] # "waiting" /\ \A q \in Requests : q # r => client'[q] = client[q]
  BY <1>1, <1>2, GatewayAssumption DEF KeepingInv, BrokerInv, TypeOK
<1>7. \A q \in Requests : /\ Sent'[q] = Sent[q]
                          /\ Answered'[q] = Answered[q]
  BY <1>1 DEF Sent, Answered, PackagesOf
<1>8. PackageOf(r)'
  BY <1>1, <1>2, <1>5, <1>7 DEF KeepingInv, OnePackage, PackageOf
<1> QED
  BY <1>1, <1>2, <1>5, <1>6, <1>7, <1>8, KeptOfOthers

(* The Manager, the directory and the sessions touch no request but those   *)
(* that are lost with a connection.                                         *)
LEMMA OutsideKept ==
  ASSUME KeepingInv, Manager \/ Directory \/ Sessions \/ UNCHANGED vars
  PROVE  OnePackage' /\ WaitingIsKept'
<1> USE DEF managerVars, directoryVars, sessionVars, requestVars
<1>1. ASSUME NEW n \in Nodes, Die(n) PROVE OnePackage' /\ WaitingIsKept'
  BY <1>1, KeptStrand DEF Die
<1>2. ASSUME NEW n \in Nodes, Register(n) \/ Announce(n) \/ AnnounceDeparture(n) \/ EraseNode(n)
      PROVE  OnePackage' /\ WaitingIsKept'
  BY <1>2, KeptAlone DEF Register, Announce, AnnounceDeparture, EraseNode
<1>3. CASE AnswerQuery \/ OnStart \/ QueryReferenceInfoResponseHandler
  BY <1>3, KeptAlone DEF AnswerQuery, OnStart, QueryReferenceInfoResponseHandler
<1>4. ASSUME NEW t \in ProcessThreads,
             \/ TakeEvent(t)
             \/ OnReferenceModuleOnlineEvent(t) \/ OnReferenceModuleOfflineEvent(t)
      PROVE  OnePackage' /\ WaitingIsKept'
  <2>1. UNCHANGED <<client, arrived, saved, atNode, back, stranded>>
    BY <1>4 DEF TakeEvent, OnReferenceModuleOnlineEvent, OnReferenceModuleOfflineEvent
  <2>2. \A u \in ProcessThreads :
          \/ hand'[u] = hand[u]
          \/ hand[u].do \notin {"transmit", "answer"} /\ hand'[u].do \notin {"transmit", "answer"}
    BY <1>4 DEF KeepingInv, BrokerInv, TypeOK, Rest, TakeEvent, OnReferenceModuleOnlineEvent,
                OnReferenceModuleOfflineEvent
  <2> QED
    BY <2>1, <2>2, KeptAlone
<1>5. CASE Sessions
  BY <1>5, KeptStrand DEF Sessions, RegisteConnectionEventHandler, LinkBreaks,
                          OnConnectionBreakedEventHandler, SentTo
<1>6. CASE UNCHANGED vars
  BY <1>6, KeptAlone DEF vars
<1> QED
  BY <1>1, <1>2, <1>3, <1>4, <1>5, <1>6 DEF Manager, Directory

LEMMA KeepingStep ==
  ASSUME KeepingInv, [Next]_vars
  PROVE  OnePackage' /\ WaitingIsKept'
<1>1. ASSUME NEW t \in ProcessThreads, Process(t) PROVE OnePackage' /\ WaitingIsKept'
  BY <1>1, ToProcesserKept, SendListKept, ResponseKept, ToClientKept DEF Process
<1> QED
  BY <1>1, OutsideKept, AskKept, NodeKept DEF Next

(* Each request is in one place: a client that waits has its request        *)
(* queued, kept, or handed back to it, and what is kept has one package     *)
(* under way to a node, at it, on its way back or dropped                   *)
(* (transpond.cpp:34-75).                                                   *)
THEOREM RequestsKept == Spec => []RequestsAccounted
<1>1. Init => OnePackage /\ WaitingIsKept
  <2> SUFFICES ASSUME Init PROVE OnePackage /\ WaitingIsKept
    OBVIOUS
  <2>1. \A r \in Requests : Sending[r] = {} /\ Answering[r] = {}
    BY DEF Init, Sending, Answering, InHand, Rest
  <2>2. OnePackage
    BY <2>1 DEF Init, OnePackage, PackageOf, OneOf, Sent, Answered, PackagesOf, Single
  <2>3. WaitingIsKept
    BY DEF Init, WaitingIsKept
  <2> QED
    BY <2>2, <2>3
<1>2. TypeOK /\ InOnePlace /\ AtProviders /\ OnePackage /\ WaitingIsKept /\ [Next]_vars
        => OnePackage' /\ WaitingIsKept'
  BY KeepingStep DEF KeepingInv, BrokerInv
<1>3. TypeOK /\ InOnePlace /\ AtProviders /\ OnePackage /\ WaitingIsKept => RequestsAccounted
  BY KeptIsAccounted DEF KeepingInv, BrokerInv
<1> QED
  BY <1>1, <1>2, <1>3, GatewayTypes, RequestsInPlace, PTL DEF Spec
=============================================================================
