------------------------------ MODULE Gateway ------------------------------
(* The gateway module (modules/gateway): the directory of nodes it keeps    *)
(* from one query and from the events of the Manager, the connections it    *)
(* registers to them, and the requests it passes to nodes and their answers *)
(* back to clients.                                                         *)
(*                                                                          *)
(* The Manager's part is that of ServerManage: a node is stored, then       *)
(* announced, and its departure is announced by another thread. A node is   *)
(* one life of a process; its uuid is never used again, its address may be. *)
(* The order of a list of nodes is left out: any of its nodes is the first. *)
EXTENDS Integers, FiniteSets, Sequences

CONSTANTS
    Nodes, Templates, Addresses, Functions, Requests,
    ProcessThreads,     \* threads of the network hub that call the module
    TemplateOf,         \* [Nodes -> Templates]
    Addr,               \* [Nodes -> Addresses]
    Provides,           \* [Templates -> SUBSET (Functions \cup {Any})]
    FunctionOf,         \* [Requests -> Functions]
    Before,             \* bound: which nodes may have registered before the gateway
    Mortal,             \* bound: the nodes that may die
    Breakable,          \* bound: addresses whose connection the network may break
    Any,                \* "*" in the functions of a template, key -1 of the map
    Closed,             \* INVALID_SOCKET: the next send connects again
    Unconnected         \* a socket whose connect failed

ASSUME GatewayAssumption ==
    /\ TemplateOf \in [Nodes -> Templates]
    /\ Addr \in [Nodes -> Addresses]
    /\ Provides \in [Templates -> SUBSET (Functions \cup {Any})]
    /\ FunctionOf \in [Requests -> Functions]
    /\ Any \notin Functions
    /\ Before \subseteq SUBSET Nodes
    /\ {"idle", "waiting", "refused", Closed, Unconnected} \cap Nodes = {}
    /\ Closed # Unconnected

VARIABLES
    alive,      \* processes that run
    started,    \* nodes that have ever run
    online,     \* the nodes the Manager has stored and not told the end of
    leaving,    \* their end was told, they are not erased yet
    untold,     \* stored by the Manager, not announced yet
    answer,     \* the query for references: its stage and the nodes answered
    events,     \* event packages of the Manager that wait for a process thread
    listed,     \* m_mapTempteIDToUUIDs: how often a node is in its list
    connOf,     \* m_mapUUIDToConnectionID: is there an id other than 0
    joining,    \* RegisteConnection events under way to the hub
    session,    \* addresses with a session in the network hub
    link,       \* the process a session's socket is connected to
    breaks,     \* ConnectionBreaked events under way to the hub
    client,     \* what the client of a request has got
    arrived,    \* requests that wait for a process thread
    saved,      \* m_mapSerialToRequest
    hand,       \* what a process thread is doing
    atNode,     \* forwarded requests a node can still answer
    back,       \* answers that wait for a process thread
    gone,       \* history: nodes whose Offline was handled
    raced,      \* history: nodes added although listed or gone
    stranded    \* history: requests whose package or answer was dropped

managerVars == <<alive, started, online, leaving, untold>>
directoryVars == <<listed, connOf, joining, gone, raced>>
sessionVars == <<session, link, breaks>>
requestVars == <<client, arrived, saved, atNode, back, stranded>>
vars == <<managerVars, answer, events, directoryVars, sessionVars, requestVars, hand>>

Event == [kind : {"Online", "Offline"}, node : Nodes]
Rest == [do |-> "rest"]
Hand == {Rest}
    \cup [do : {"event"}, event : Event]
    \cup [do : {"transmit"}, request : Requests, to : Addresses]
    \cup [do : {"answer"}, request : Requests, by : Nodes]

TypeOK ==
    /\ alive \subseteq Nodes
    /\ started \subseteq Nodes
    /\ online \subseteq Nodes
    /\ leaving \subseteq Nodes
    /\ untold \subseteq Nodes
    /\ answer \in [stage : {"none", "asked", "sent", "done"}, nodes : SUBSET Nodes]
    /\ events \in Seq(Event)
    /\ listed \in [Nodes -> Nat]
    /\ connOf \in [Nodes -> BOOLEAN]
    /\ joining \in [Nodes -> Nat]
    /\ session \subseteq Addresses
    /\ link \in [Addresses -> Nodes \cup {Closed, Unconnected}]
    /\ breaks \in [Addresses -> Nat]
    /\ client \in [Requests -> {"idle", "waiting", "refused"} \cup Nodes]
    /\ arrived \subseteq Requests
    /\ saved \subseteq Requests
    /\ hand \in [ProcessThreads -> Hand]
    /\ atNode \subseteq Requests \X Nodes
    /\ back \subseteq Requests \X Nodes
    /\ gone \subseteq Nodes
    /\ raced \subseteq Nodes
    /\ stranded \subseteq Requests

OnePerAddress(S) == \A m, n \in S : Addr[m] = Addr[n] => m = n

(* Nodes that registered before the gateway did are not announced to it. *)
Init ==
    /\ alive \in {S \in Before : OnePerAddress(S)}
    /\ started = alive
    /\ online = alive
    /\ leaving = {}
    /\ untold = {}
    /\ answer = [stage |-> "none", nodes |-> {}]
    /\ events = <<>>
    /\ listed = [n \in Nodes |-> 0]
    /\ connOf = [n \in Nodes |-> FALSE]
    /\ joining = [n \in Nodes |-> 0]
    /\ session = {}
    /\ link = [a \in Addresses |-> Closed]
    /\ breaks = [a \in Addresses |-> 0]
    /\ client = [r \in Requests |-> "idle"]
    /\ arrived = {}
    /\ saved = {}
    /\ hand = [t \in ProcessThreads |-> Rest]
    /\ atNode = {}
    /\ back = {}
    /\ gone = {}
    /\ raced = {}
    /\ stranded = {}

(* Requests whose package went over the connection to an address. *)
SentTo(a) == {p \in atNode : Addr[p[2]] = a}
RequestsOf(S) == {p[1] : p \in S}

(* The connection to an address is gone: what was sent over it is not       *)
(* answered any more, and nothing tells the client or removes the entry.    *)
Strand(S) ==
    /\ atNode' = atNode \ S
    /\ stranded' = stranded \cup RequestsOf(S)

---------------------------------------------------------------------------
(* The Manager and the nodes. *)

Register(n) ==
    /\ n \notin started
    /\ OnePerAddress(alive \cup {n})
    /\ alive' = alive \cup {n}
    /\ started' = started \cup {n}
    /\ online' = online \cup {n}
    /\ untold' = untold \cup {n}
    /\ UNCHANGED <<leaving, answer, events, directoryVars, sessionVars, requestVars, hand>>

Announce(n) ==
    /\ n \in untold
    /\ untold' = untold \ {n}
    /\ events' = Append(events, [kind |-> "Online", node |-> n])
    /\ UNCHANGED <<alive, started, online, leaving, answer, directoryVars, sessionVars,
                   requestVars, hand>>

Die(n) ==
    /\ n \in alive \cap Mortal
    /\ alive' = alive \ {n}
    /\ Strand({p \in atNode : p[2] = n})
    /\ UNCHANGED <<started, online, leaving, untold, answer, events, directoryVars, sessionVars,
                   client, arrived, saved, back, hand>>

(* The Manager tells the end of a node and then erases it: a query that is  *)
(* answered in between still has it.                                        *)
AnnounceDeparture(n) ==
    /\ n \in online \ alive
    /\ online' = online \ {n}
    /\ leaving' = leaving \cup {n}
    /\ events' = Append(events, [kind |-> "Offline", node |-> n])
    /\ UNCHANGED <<alive, started, untold, answer, directoryVars, sessionVars, requestVars, hand>>

EraseNode(n) ==
    /\ n \in leaving
    /\ leaving' = leaving \ {n}
    /\ UNCHANGED <<alive, started, online, untold, answer, events, directoryVars, sessionVars,
                   requestVars, hand>>

AnswerQuery ==
    /\ answer.stage = "asked"
    /\ answer' = [stage |-> "sent", nodes |-> online \cup leaving]
    /\ UNCHANGED <<managerVars, events, directoryVars, sessionVars, requestVars, hand>>

---------------------------------------------------------------------------
(* The directory. *)

OnStart ==
    /\ answer.stage = "none"
    /\ answer' = [answer EXCEPT !.stage = "asked"]
    /\ UNCHANGED <<managerVars, events, directoryVars, sessionVars, requestVars, hand>>

\* Mutant: a connection is asked for only if none was registered before.
AddNodes_NoConnection(S) ==
    /\ listed' = [n \in Nodes |-> IF n \in S THEN listed[n] + 1 ELSE listed[n]]
    /\ joining' = [n \in Nodes |->
                    IF n \in S /\ Addr[n] \notin session THEN joining[n] + 1 ELSE joining[n]]
    /\ raced' = raced \cup {n \in S : listed[n] > 0 \/ n \in gone}

(* Each node is pushed to the list of its template, whether or not it is in *)
(* it, and a connection to it is asked for.                                 *)
AddNodes(S) ==
    /\ listed' = [n \in Nodes |-> IF n \in S THEN listed[n] + 1 ELSE listed[n]]
    /\ joining' = [n \in Nodes |-> IF n \in S THEN joining[n] + 1 ELSE joining[n]]
    /\ raced' = raced \cup {n \in S : listed[n] > 0 \/ n \in gone}

QueryReferenceInfoResponseHandler ==
    /\ answer.stage = "sent"
    /\ answer' = [answer EXCEPT !.stage = "done"]
    /\ AddNodes(answer.nodes)
    /\ UNCHANGED <<managerVars, events, connOf, gone, sessionVars, requestVars, hand>>

TakeEvent(t) ==
    /\ hand[t] = Rest
    /\ events # <<>>
    /\ hand' = [hand EXCEPT ![t] = [do |-> "event", event |-> Head(events)]]
    /\ events' = Tail(events)
    /\ UNCHANGED <<managerVars, answer, directoryVars, sessionVars, requestVars>>

OnReferenceModuleOnlineEvent(t) ==
    /\ hand[t].do = "event"
    /\ hand[t].event.kind = "Online"
    /\ AddNodes({hand[t].event.node})
    /\ hand' = [hand EXCEPT ![t] = Rest]
    /\ UNCHANGED <<managerVars, answer, events, connOf, gone, sessionVars, requestVars>>

\* Mutant: the list of the template keeps the node.
RemoveNode_StaysListed(n) ==
    /\ connOf' = [connOf EXCEPT ![n] = FALSE]
    /\ gone' = gone \cup {n}
    /\ UNCHANGED listed

(* One entry of the list is taken out. For a node that is not known the     *)
(* item is empty and nothing is found.                                      *)
RemoveNode(n) ==
    /\ listed' = [listed EXCEPT ![n] = IF @ > 0 THEN @ - 1 ELSE 0]
    /\ connOf' = [connOf EXCEPT ![n] = FALSE]
    /\ gone' = gone \cup {n}

OnReferenceModuleOfflineEvent(t) ==
    /\ hand[t].do = "event"
    /\ hand[t].event.kind = "Offline"
    /\ RemoveNode(hand[t].event.node)
    /\ hand' = [hand EXCEPT ![t] = Rest]
    /\ UNCHANGED <<managerVars, answer, events, joining, raced, sessionVars, requestVars>>

---------------------------------------------------------------------------
(* Sessions of the network hub. *)

(* The processes that accept a connection at an address: one or none.       *)
Listening(a) == {m \in alive : Addr[m] = a}

(* A new session replaces the one with the same address, which is closed.   *)
(* A connect that fails leaves a session with a useless socket; epoll       *)
(* reports the socket, unless it does so before the map of sockets has it.  *)
RegisteConnectionEventHandler(n) ==
    LET a == Addr[n] IN
    /\ joining[n] > 0
    /\ joining' = [joining EXCEPT ![n] = @ - 1]
    /\ session' = session \cup {a}
    /\ \/ /\ \E m \in Listening(a) : link' = [link EXCEPT ![a] = m]
          /\ UNCHANGED breaks
       \/ /\ Listening(a) = {}
          /\ link' = [link EXCEPT ![a] = Unconnected]
          /\ \E k \in {0, 1} : breaks' = [breaks EXCEPT ![a] = @ + k]
    /\ connOf' = [connOf EXCEPT ![n] = TRUE]
    /\ Strand(SentTo(a))
    /\ UNCHANGED <<managerVars, answer, events, listed, gone, raced,
                   client, arrived, saved, back, hand>>

(* A read fails: the peer is dead, or the network broke the connection.     *)
LinkBreaks(a) ==
    /\ a \in session
    /\ link[a] \in IF a \in Breakable THEN Nodes ELSE Nodes \ alive
    /\ link' = [link EXCEPT ![a] = Closed]
    /\ breaks' = [breaks EXCEPT ![a] = @ + 1]
    /\ Strand(SentTo(a))
    /\ UNCHANGED <<managerVars, answer, events, directoryVars, session,
                   client, arrived, saved, back, hand>>

(* The event names an address: it takes whatever session is there now.      *)
OnConnectionBreakedEventHandler(a) ==
    /\ breaks[a] > 0
    /\ breaks' = [breaks EXCEPT ![a] = @ - 1]
    /\ session' = session \ {a}
    /\ link' = [link EXCEPT ![a] = Closed]
    /\ Strand(SentTo(a))
    /\ UNCHANGED <<managerVars, answer, events, directoryVars,
                   client, arrived, saved, back, hand>>

---------------------------------------------------------------------------
(* Requests and responses. *)

Ask(r) ==
    /\ client[r] = "idle"
    /\ client' = [client EXCEPT ![r] = "waiting"]
    /\ arrived' = arrived \cup {r}
    /\ UNCHANGED <<managerVars, answer, events, directoryVars, sessionVars,
                   saved, atNode, back, stranded, hand>>

(* The templates come with the answer to the query and never change.        *)
NodesFor(f) == {n \in Nodes : answer.stage = "done" /\ listed[n] > 0 /\ f \in Provides[TemplateOf[n]]}

\* Mutant: for want of a node that names the function, any node is taken.
Candidates_AnyListed(f) ==
    IF NodesFor(f) # {} THEN NodesFor(f) ELSE {n \in Nodes : listed[n] > 0}

(* The first listed node of a template that names the function, else of one *)
(* that provides all.                                                       *)
Candidates(f) == IF NodesFor(f) # {} THEN NodesFor(f) ELSE NodesFor(Any)

\* Mutant: the request is sent and not saved.
ForwardTo_NotSaved(t, r, n) ==
    /\ connOf[n]
    /\ hand' = [hand EXCEPT ![t] = [do |-> "transmit", request |-> r, to |-> Addr[n]]]
    /\ UNCHANGED <<client, saved>>

(* The request is saved before it is sent, under a new id.                  *)
ForwardTo(t, r, n) ==
    /\ connOf[n]
    /\ saved' = saved \cup {r}
    /\ hand' = [hand EXCEPT ![t] = [do |-> "transmit", request |-> r, to |-> Addr[n]]]
    /\ UNCHANGED client

\* Mutant: the request is ignored instead of refused.
Refuse_Silently(r) == UNCHANGED <<client, saved, hand>>

(* The first node decides: while its connection is not registered the map   *)
(* yields 0, which means that no service was found.                         *)
Refuse(r) ==
    /\ client' = [client EXCEPT ![r] = "refused"]
    /\ UNCHANGED <<saved, hand>>

MessageToProcesser(t, r) ==
    /\ hand[t] = Rest
    /\ r \in arrived
    /\ arrived' = arrived \ {r}
    /\ \/ \E n \in Candidates(FunctionOf[r]) : ForwardTo(t, r, n)
       \/ /\ \/ Candidates(FunctionOf[r]) = {}
             \/ \E n \in Candidates(FunctionOf[r]) : ~connOf[n]
          /\ Refuse(r)
    /\ UNCHANGED <<managerVars, answer, events, directoryVars, sessionVars,
                   atNode, back, stranded>>

Delivered(r, n) ==
    /\ atNode' = atNode \cup {<<r, n>>}
    /\ UNCHANGED stranded

Dropped(r) ==
    /\ stranded' = stranded \cup {r}
    /\ UNCHANGED atNode

(* The write fails: the socket is closed and a break is posted.             *)
SendFails(a, r) ==
    /\ breaks' = [breaks EXCEPT ![a] = @ + 1]
    /\ Dropped(r)

AddMessageToSendList(t) ==
    LET a == hand[t].to  r == hand[t].request IN
    /\ hand[t].do = "transmit"
    /\ hand' = [hand EXCEPT ![t] = Rest]
    /\ \/ /\ a \notin session
          /\ Dropped(r)
          /\ UNCHANGED <<link, breaks>>
       \/ /\ a \in session
          /\ link[a] \in alive
          /\ Delivered(r, link[a])
          /\ UNCHANGED <<link, breaks>>
       \/ /\ a \in session
          /\ link[a] \in Nodes \ alive
          /\ Dropped(r)                        \* written before the reset is seen
          /\ UNCHANGED <<link, breaks>>
       \/ /\ a \in session
          /\ link[a] \in (Nodes \ alive) \cup {Unconnected}
          /\ link' = [link EXCEPT ![a] = Closed]
          /\ SendFails(a, r)
       \/ /\ a \in session
          /\ link[a] = Closed
          /\ \E m \in Listening(a) : link' = [link EXCEPT ![a] = m] /\ Delivered(r, m)
          /\ UNCHANGED breaks
       \/ /\ a \in session
          /\ link[a] = Closed
          /\ Listening(a) = {}
          /\ link' = [link EXCEPT ![a] = Unconnected]
          /\ SendFails(a, r)
    /\ UNCHANGED <<managerVars, answer, events, directoryVars, session,
                   client, arrived, saved, back>>

(* The node answers and the gateway receives it. *)
NodeAnswers(r, n) ==
    /\ <<r, n>> \in atNode
    /\ atNode' = atNode \ {<<r, n>>}
    /\ back' = back \cup {<<r, n>>}
    /\ UNCHANGED <<managerVars, answer, events, directoryVars, sessionVars,
                   client, arrived, saved, stranded, hand>>

(* An answer whose id is not in the table is ignored. *)
ResponsePackageProcesser(t, r, n) ==
    /\ hand[t] = Rest
    /\ <<r, n>> \in back
    /\ back' = back \ {<<r, n>>}
    /\ saved' = saved \ {r}
    /\ hand' = IF r \in saved
                 THEN [hand EXCEPT ![t] = [do |-> "answer", request |-> r, by |-> n]]
                 ELSE hand
    /\ UNCHANGED <<managerVars, answer, events, directoryVars, sessionVars,
                   client, arrived, atNode, stranded>>

MessageToClient(t) ==
    /\ hand[t].do = "answer"
    /\ client' = [client EXCEPT ![hand[t].request] = hand[t].by]
    /\ hand' = [hand EXCEPT ![t] = Rest]
    /\ UNCHANGED <<managerVars, answer, events, directoryVars, sessionVars,
                   arrived, saved, atNode, back, stranded>>

---------------------------------------------------------------------------

Manager ==
    \/ \E n \in Nodes :
         Register(n) \/ Announce(n) \/ Die(n) \/ AnnounceDeparture(n) \/ EraseNode(n)
    \/ AnswerQuery

Directory ==
    \/ OnStart
    \/ QueryReferenceInfoResponseHandler
    \/ \E t \in ProcessThreads :
         TakeEvent(t) \/ OnReferenceModuleOnlineEvent(t) \/ OnReferenceModuleOfflineEvent(t)

Sessions ==
    \/ \E n \in Nodes : RegisteConnectionEventHandler(n)
    \/ \E a \in Addresses : LinkBreaks(a) \/ OnConnectionBreakedEventHandler(a)

Process(t) ==
    \/ \E r \in Requests : MessageToProcesser(t, r)
    \/ AddMessageToSendList(t)
    \/ \E r \in Requests, n \in Nodes : ResponsePackageProcesser(t, r, n)
    \/ MessageToClient(t)

Next ==
    \/ Manager
    \/ Directory
    \/ Sessions
    \/ \E r \in Requests : Ask(r)
    \/ \E t \in ProcessThreads : Process(t)
    \/ \E r \in Requests, n \in Nodes : NodeAnswers(r, n)

Spec == Init /\ [][Next]_vars

(* Process threads run, and a node that lives answers what it was sent, if  *)
(* its connection lasts. Nothing makes a client ask, a node die or come, or *)
(* the directory be filled.                                                 *)
FairSpec ==
    /\ Spec
    /\ \A t \in ProcessThreads :
         /\ WF_vars(OnReferenceModuleOnlineEvent(t) \/ OnReferenceModuleOfflineEvent(t))
         /\ WF_vars(Process(t))
    /\ \A r \in Requests, n \in Nodes : WF_vars(NodeAnswers(r, n))

---------------------------------------------------------------------------
(* Properties. *)

OnItsWay(kind, n) ==
    \/ \E i \in DOMAIN events : events[i] = [kind |-> kind, node |-> n]
    \/ \E t \in ProcessThreads : hand[t] = [do |-> "event", event |-> [kind |-> kind, node |-> n]]

(* The gateway has still to be told of a node. *)
ToBeAdded(n) ==
    \/ n \in untold \/ OnItsWay("Online", n)
    \/ answer.stage \in {"none", "asked"}
    \/ answer.stage = "sent" /\ n \in answer.nodes

(* The directory follows the Manager: but for the nodes whose Online, query *)
(* answer and Offline overtook each other, a listed node is online or its   *)
(* Offline is on its way, it is listed once, and an online node is listed   *)
(* as soon as the gateway has been told (gateway.cpp:203-279).              *)
DirectoryFollowsManager ==
    \A n \in Nodes \ raced :
        /\ listed[n] <= 1
        /\ listed[n] > 0 => n \in online \/ OnItsWay("Offline", n)
        /\ n \in online /\ ~ToBeAdded(n) => listed[n] > 0

(* A node that can be chosen gets a connection: unless it was added out of  *)
(* order, a listed node has its connection id or the hub is still to        *)
(* register it, and this id is forgotten with the node, so that a request is *)
(* refused for want of an id only during a registration (gateway.cpp:233).  *)
ListedIsConnected ==
    \A n \in Nodes \ raced : listed[n] > 0 => connOf[n] \/ joining[n] > 0

InHand(do, r) == {t \in ProcessThreads : hand[t].do = do /\ hand[t].request = r}
PackagesOf(S, r) == {p \in S : p[1] = r}

(* Each request is in one place: a client that waits has its request        *)
(* queued, kept, or handed back, what is kept is under way to a node, at    *)
(* it, on its way back or was dropped, and no answer finds the entry gone.  *)
RequestsAccounted ==
    \A r \in Requests :
        /\ client[r] = "waiting" <=> r \in arrived \cup saved \/ InHand("answer", r) # {}
        /\ Cardinality(InHand("answer", r)) + Cardinality({r} \cap arrived)
             + Cardinality({r} \cap saved) <= 1
        /\ Cardinality(InHand("transmit", r)) + Cardinality(PackagesOf(atNode, r))
             + Cardinality(PackagesOf(back, r)) + Cardinality({r} \cap stranded)
           = Cardinality({r} \cap saved)

(* What clients see is what a broker promises: each request has at most one *)
(* outcome, and its answer comes from a process at the address of a node    *)
(* that provides the function. A session is kept by its address, and nobody *)
(* compares who listens there with the node the request was meant for: a    *)
(* process that took the address of a dead node answers whatever its        *)
(* template (NetworkHub.cpp:227-242, EasyConnect.cpp:95-105, 170-175).      *)
ProviderNodes(r) == {n \in Nodes : Provides[TemplateOf[n]] \cap {FunctionOf[r], Any} # {}}
Answerers ==
    [r \in Requests |-> {m \in Nodes : \E n \in ProviderNodes(r) : Addr[m] = Addr[n]}]

Broker == INSTANCE RequestBroker WITH
    NotAsked <- "idle", Open <- "waiting", Refused <- "refused",
    outcome <- client

BrokerSpec == Broker!Spec

(* A request ends for its client, unless its package or its answer was      *)
(* dropped with the connection to the node (transpond.cpp:63).              *)
RequestsEnd ==
    \A r \in Requests : client[r] = "waiting" ~> client[r] # "waiting" \/ r \in stranded
=============================================================================
