# Verification of sloongnet

sloongnet is a distributed application engine in C++: one executable that
starts empty, asks a *Manager* what to be, loads the module it is told to run
and then serves requests over TCP. This directory holds TLA+ models of its core,
the TLC configurations that check them and proofs of the main invariants.
All definitions are translated from the code under `src/src`; where a comment or a
protocol file says something else, the code is modelled and the difference is named in section 5.

Run in this directory:

    tlc -workers 2 -config MCServerManage.cfg MCServerManage    # one run
    tlapm ServerManageProofs.tla                                # one proof module

1. [Inventory](#1-inventory)
2. [Modules](#2-modules)
3. [Runs](#3-runs)
4. [Proofs](#4-proofs)
5. [Known differences](#5-known-differences)
6. [What is assumed, and what is left out](#6-what-is-assumed-and-what-is-left-out)
7. [Plan](#7-plan)

## 1. Inventory

| Component | State | Operations | What is hard | What makes it correct |
|---|---|---|---|---|
| Service (`main.cpp`, `base_service.cpp`) | `m_emStatus`, `m_oExitResult`, the loaded module | Initialize, Run, Stop, handlers of ProgramStop and ProgramRestart, the retry loop of `main` | the handlers run on hub threads while `main` may still initialize; stops come from signals, process threads, the listener, the network | a stop or a restart asked for is honoured once; a service that believes it runs has its hub and its network running |
| Control hub (`ControlHub.cpp`) | message queue, handler lists, temporary data | SendMessage, CallMessage, RegisterEventHandler, Add/GetTemp… | several work threads, notification without a predicate, handlers that throw | each message reaches each handler; nothing waits for ever |
| Network hub (`NetworkHub.cpp`) | map of sessions, queues of received packages by priority | accept, receive, send, break, timeout check, process threads | sessions are erased beside threads that use them; starvation of low priorities | every request of a live connection is processed once and answered |
| Connection (`ConnectSession.cpp`, `EasyConnect.cpp`) | two send queues, the half sent package, the half received package, two mutexes | SendDataPackage, OnDataCanSend, OnDataCanReceive, SendPackage, RecvPackage, Connect, Close | several threads write to one socket, partial writes, edge triggered events | the peer sees whole frames, each package once, in order of priority |
| Epoll (`EpollEx.cpp`) | interest per socket, maps of sockets and connections | register, change of interest, event loop | changes of interest by any thread race with the event loop | an event is never lost while something waits for it |
| Ids (`snowflake.h`) | last time stamp, sequence, lock | nextid | exhaustion within a millisecond | ids are unique and increase |
| Manager (`servermanage.cpp`, `configuation.cpp`) | nodes by uuid, connections to uuid, templates with their created nodes, the database | RegisteWorker, RegisteNode, Add/Delete/SetTemplate, queries, OnSocketClosed | requests on a process thread, breaks on a hub thread; workers die at any time; the Manager restarts | each template has the replicas it asks for, referring nodes are told of what comes and goes, memory equals the database |
| Gateway (`gateway.cpp`, `transpond.cpp`) | functions to templates, templates to nodes, nodes to connections, forwarded requests | query of references, online and offline events, forwarding of requests and responses | query and events overlap, backends die with requests in their hands | a request goes to a live node that provides its function; each is answered once |
| Lua middle layer (`middleLayer/lua`) | pool of Lua contexts per process thread, reload flags, view of data and file centers | MsgProcess, ReloadScript, calls to other centers | reload from another thread, failing scripts | a context is used by one request at a time, reloads are not forgotten, contexts come back |
| Data center (`dbhub.cpp`) | database names to sessions, sessions to per-thread connections | connect, query, insert, update, delete | check and insertion by several process threads | a session id means one database |
| File center (`filemanager.cpp`) | upload and download records, files | prepare, upload part, finish, download ranges, thumbnails | parts in any order, ranges at file ends | the file read is the file written |
| Request and response (`events/SendPackage.hpp`) | the event kept in the hub's temporary data | SyncCall, callbacks | an answer before the wait, after the timeout, twice | a caller gets the answer of its own request or a timeout |

They interact by three means. *Packages*: every arrow between processes
(worker to Manager, Gateway to worker, client to Gateway) is a package of one
connection. *Hub messages*: within a process any thread may queue an event, and the hub's
threads call the handlers registered for it. *Callbacks and raw pointers*: the
network hub calls the module on its process threads, and epoll calls the
network hub on its own threads. The hazards that follow from this, each with its
line, are the list `hazards` of `PROJECT.json`.

## 2. Modules

| Module | Models | Extended by |
|---|---|---|
| `ServerManage` | registry and templates of the Manager, its workers from their first request to their death, the database, restarts | `MCServerManage`, `ServerManageProofs` |
| `Gateway` | the directory of nodes beside the Manager, the connections to nodes, requests forwarded and answered | `MCGateway`, `GatewayProofs` |
| `RequestBroker` | abstract: what a gateway promises to its clients | instantiated by `Gateway` |
| `SendPath` | the sending side of one accepted connection, with the epoll interest | `MCSendPath`, `SendPathProofs` |
| `FramedChannel` | abstract: what a connection promises to the senders | instantiated by `SendPath` |
| `ReceivePath` | the receiving side of one accepted connection, the queues by priority, the process threads | `MCReceivePath`, `ReceivePathProofs` |
| `SyncCall` | requests saved under their id, responses, waits with a time limit | `MCSyncCall`, `SyncCallProofs` |
| `ServiceLifecycle` | start, run, restart and stop of a process; the message queue and threads of the control hub | `MCServiceLifecycle`, `ServiceLifecycleProofs` |
| `LuaContextPool` | the pool of Lua contexts of each process thread, and reloading | `MCLuaContextPool`, `LuaContextPoolProofs` |
| `DataCenter` | database sessions, and the session ids a process node remembers | `MCDataCenter`, `CenterProofs` |
| `FileCenter` | the upload of one file by several threads | `MCFileCenter`, `CenterProofs` |
| `Snowflake` | the generator of ids | `MCSnowflake`, `SyncCallProofs` |

Two proof modules are about two components each: `CenterProofs` about `DataCenter` and `FileCenter`, `SyncCallProofs`
about the calls and the ids they are saved under. For that reason the definitions of `FileCenter` and `Snowflake` have names of
their own (`UploadInit`, `GeneratorNext`, …) where the other modules say `Init` and `Next`.

### ServerManage

`node`, `connUuid` and `tpl` are `m_mapUUIDToNodeItem`,
`m_mapConnectionToUUID` and `m_mapIDToTemplateItem`; a uuid is the worker that
got it. `store` is the table of templates. `inbox` holds requests the process thread has
not taken, in any order, because they come on different connections; `breaks` the ConnectionBreaked events the
hub has not handled. A handler is one action, except where another thread can
come in between: RegisteNode stores the node, then its connection, and then announces it
(`RegisteNodeStore`, `RegisteNodeMap`, `RegisteNodeNotify`), and SetTemplate copies the item and
writes it back later (`SetTemplateCopy`, `SetTemplateStore`). The cleanup of a broken connection
runs on the hub thread beside them, without a lock, in three steps: it gathers whom to tell and tells them (`OnSocketClosed`), erases the node
(`EraseNode`) and removes it from its template (`RemoveReplica`); `closing` is what that thread has in hand. `map_ex::operator[]` inserts
what it does not find, and so do `TouchNodes` and `TouchTemplate`.
`crashed` is a dereference of a null configuration; nothing happens after it.
`late`, `revived` and `missed` are history. The first two are nodes counted by one of two races of the code
(a RegisteNode handled after the break of its own connection, and a SetTemplate
that writes back a replica removed meanwhile); the third are nodes stored, or made referrers by an edit, while a cleanup has gathered whom to
tell and not yet erased its node, who are never told of it. The properties hold for all others, and the sets say exactly for whom they do not.

### SendPath and FramedChannel

A sending thread goes through `Send`, `TestLists`, `TryLock`, and then
`SendNow`, or `Push`, `Mark` and `Arm`: the points where
`SendDataPackage` and `AddToSendList` read or write something other threads
see. An epoll thread takes an event, tries the mutex, moves the prepared packages to
the lists by priority, finishes the half sent package, and sends from the most
urgent list until the socket is full or nothing is left, when it gives up the
interest (`Disarm`) after having released the mutex. `SendPackage` is the one
of `EasyConnect`: it refuses a package while another is half sent, writes what
the buffer has room for, and closes the connection if the first write
does not hold the length data. Any write may fail (`WriteFails`), as after a reset by the peer in the middle of a frame. The reading side closes the socket without the
send mutex (`ReadCloses`); after a read error, a silence or EPOLLHUP a break is posted (`PostBreak`) and the connection may leave epoll's maps (`Unregiste`, `polled`) while senders go on. A frame is counted in units, the first `HeaderUnits` of which are the
length data; `wire` is what was written, as pairs of package and unit, and `ends` where in it a frame ended.

`FramedChannel` promises that packages reach the peer whole, one at a time and
at most once, until the connection breaks. The refinement mapping uses nothing but the
wire: frames that ended, and the last one if it has not. It is therefore a
statement about what the peer can observe and not about the queues.

### ServiceLifecycle

`main` is at a stage of `Initialize` other threads can see, in `Run`, or
ended. Hub threads pop a message and call its handlers one after the other; the
stop handler tests the status, marks it and finishes in three steps. Process threads create
their environment, and may fail to or receive a control event; the listener may
fail; SIGINT posts a stop and then reads and writes the status. `setting` chooses the number of hub
threads and what may ask for a stop before `Run` waits, so that one run covers both.

### LuaContextPool

Each thread has a queue of free ids, contexts with a reload flag, and the request it
processes. Scripts are abstracted to the version of the files they were loaded
from. `due` is history: the version a call of `ReloadScript` asked for, but for calls
whose flag arrives while the context is being replaced, which `Replace` clears
unseen.

### Gateway and RequestBroker

`listed` counts how often a uuid stands in the lists of `m_mapTempteIDToUUIDs`, `connOf` says whether
`m_mapUUIDToConnectionID` has an id other than 0, and `joining` holds the RegisteConnection events whose callback fills
it. The Manager's half is that of `ServerManage` reduced to what the gateway can see: a node is stored and
announced in two steps (`Register`, `Announce`), its departure is announced by the hub thread, and the query for
references is answered with what is stored at that moment, nodes included whose end was told and which are not erased yet (`leaving`, `EraseNode`). What a process thread does is in `hand[t]`: an event, a request it
is about to transmit, or an answer for a client. A session is identified by the address of a
node, since the code hashes address and port; `link` is the process its socket is connected to, so that a new node
at the address of a dead one is reached over the session of the old. `Strand` is the loss of packages with their connection.
`gone`, `raced` and `stranded` are history: nodes whose Offline was handled, nodes added although listed
or gone, and requests whose package was dropped.

`RequestBroker` promises that a request has at most one outcome, and that its answer comes from one of its `Answerers`: the processes at the address of a node that provides
the function. It cannot promise more: a process of another template that takes the address of a dead node gets the requests meant for that one, because neither the gateway, the hub nor the Manager compares the two. The refinement
maps the abstract `outcome` to what the client has got and nothing else.

### ReceivePath

The peer writes its frames one after the other, so that a position in the stream (`read`) stands for `m_RecvPackageSize`, `m_ReceivedSize` and the
partly received package. `edge` is an event of epoll no thread has taken; `TakeEvent`
may lose it. An epoll thread tries the mutex, reads frame after frame (`ReceiveFrame`, or a refused one), a part of one
(`ReceivePart`) or a part of the length data (`TearLength`), leaves the mutex and pushes what it
read (`PushOne`). A process thread looks at one queue after the other (`Look`),
pops the head of the one it saw filled (`TryMovePop`) and starts over after each package. `missed` names why data may wait without an event:
the socket was not mapped yet, the shared array of events was overwritten, another thread had the mutex, a package was too big, or the peer closed behind half a frame.
`late` marks packages that another batch overtook between the mutex and the queue.

### SyncCall

A caller takes an id, saves itself (`Register`), sends (`Send`), and only then waits. `OnResponse` takes the saved event from `temp` and posts a task; the task
assigns `*result` and `*response_str` one after the other and notifies. The condition variable has no predicate, so that a notification before the wait is lost
(the call ends with Timeout) and a wait may end for no reason (`WakeSpuriously`), which the history `spurious` records.
`Post` sends without a callback; its response finds no saved event.

### DataCenter

A script on a process node connects unless the node remembers an id, and stores the answer in a step of its own (`Store`). It may keep an id in a variable for as long as it likes, so that it
queries with any id the node was ever given for the database (`given`). A thread of the data center goes through `TakeConnect`, `Login`,
`TakeId` (the number of sessions plus one), `Insert` and `Publish`, with nothing locked from one step to the next. A call may end without its answer
(`CallFails`), as in `SyncCall`. `twice`, `stale` and `wrong` are history: ids computed by two threads at a time, ids
given before a restart or answered before it and stored after it, and ids with which a query reached another database.

### FileCenter

Files are inodes, because a thread that has the temporary file open writes to it even after another thread has moved it to the archive. The list of ranges of the token is shared and never emptied; `MergeFile` writes one entry per step, and the hash is read one range per step (`HashRange`).
`ArchiveFile` moves the file in one step where the rename succeeds. Where it fails (another file system), the code runs `mv`, which copies: `ArchiveCopy` makes a new inode in the archive, `CopyRange` copies a range,
`CopyEnds` removes what is then at the source path, `CopyFails` leaves what was written. `cut` is history: copies whose source a thread emptied or was writing, or that failed. `ArchiveFails` stands for the paths that return before
anything is moved. The list is a plain `std::list` that threads push to without a lock: `UploadingTogether` is two pushes at once, of which one is lost, and after which
the list may end at an entry an iteration never comes to (`detached`).

### Snowflake

A caller that finds the sequence of a millisecond exhausted waits with the
lock held; the others are kept out. The clock is steady and may skip milliseconds.
The worker and data center parts of an id are 0, because nothing calls `init`.

## 3. Runs

| Run | Configuration | Question |
|---|---|---|
| `manager_registry` | `MCServerManage.cfg` | three workers, two connections, two replicas: are replicas accounted for, departures announced, vacancies offered? |
| `manager_edits` | `MCServerManageEdits.cfg` | two edits of templates among registrations and deaths of two workers: does memory stay equal to the database? is the invariant of the proof right? |
| `manager_live` | `MCServerManageLive.cfg` | is a vacancy filled in the end and the replica of a dead worker released? |
| `gateway` | `MCGateway.cfg` | nodes that come, die and take over an address, with another template: does the directory follow the Manager, is each request in one place, does it end, and is the gateway a broker? |
| `send_path` | `MCSendPath.cfg` | two senders, two epoll threads, three packages, writes that fail and breaks from every side: frames, accounting, order, urgency, the inductive invariant, refinement of `FramedChannel` |
| `receive_path` | `MCReceivePath.cfg` | frames in parts, read by two threads: is anything left behind, lost, doubled or out of order? |
| `sync_call` | `MCSyncCall.cfg` | answers early, late and lost: does a call get its own answer or a timeout, and does it return? |
| `lifecycle` | `MCServiceLifecycle.cfg` | starts, stops and restarts from all sources at any time, one hub thread or two |
| `lua_pool` | `MCLuaContextPool.cfg` | two threads, two contexts, two edits, failing loads: no context used twice, and which reloads are remembered? |
| `data_center` | `MCDataCenter.cfg` | two databases, two threads, a restart, ids that scripts keep: does a session mean one database, and a query reach it? |
| `file_center` | `MCFileCenter.cfg` | ranges and ends of an upload sent again and at once, archived by a rename or a copy: is the archived file whole? |
| `snowflake` | `MCSnowflake.cfg` | two threads, two ids per millisecond, five milliseconds: unique and increasing ids, and an end to every wait |

**What the properties say.**

- *Manager*: `CreatedAreAccounted`, a counted replica is a known node of this template whose connection is up
  or whose break is queued; `DeparturesAreAnnounced`, whoever refers to the template of a node when it is erased has been told, but for those stored since it was gathered whom to tell; `MemoryMatchesStore`; `VacancyIsOffered`, a worker
  is told to wait only if no template it serves lacks a node; `VacancyIsFilled`, `DeadReplicaIsReleased`.
- *Gateway*: `DirectoryFollowsManager`, but for nodes whose Online, query answer and Offline overtook each other, a listed node is
  online or its Offline is on its way, it is listed once, and an online node is listed as soon as the gateway was told; `ListedIsConnected`, a listed node has a connection
  id or the hub is about to register it; `RequestsAccounted`, a request is queued, kept or handed back, and what is kept has one package somewhere or lost it;
  `RequestsEnd`, a request ends unless its package was dropped; `BrokerSpec`, the refinement: one outcome per request, from a process at the address of a node that provides the function.
- *Sending*: `WireWellFramed`; `PackagesAccounted`, while there is no error each package is in exactly one place;
  `QueuedInOrder`, first in first out within a priority, through both queues; `UrgentFirst`, what waited when the epoll thread got the mutex
  goes out by urgency; `ChannelSpec`, the refinement.
- *Receiving*: `NothingLeftBehind`, when nobody is going to read, the socket is empty or one of five named causes has happened; `PackagesAccounted`, a frame read is
  with its reader, queued, processed or at its end, once; `QueuedInOrder`, except for packages overtaken between mutex and queue; `UrgentTakenFirst`, about what waited when the scan of the queues began.
- *Calls*: `ResponsesFindTheirCall`; `OutcomeIsOwn`, a call returns its own whole answer or Timeout unless the wait ended for no reason; `CallsReturn`.
- *Lifecycle*: `ServingMeansUp`, `ModuleClosedOnce`, `StopEndsRun`, `CancelledStartEnds`. *Pool*: `ContextsAccounted`, `StaleIsFlagged`.
- *Data center*: `SessionMeansDatabase`, `QueriesHitTheirDatabase`. *File center*: `ArchivedIsWhole`, a file in the archive is whole, still being written, or a copy that was disturbed, and there is one once
  an upload was confirmed.

The runs check the inductive invariants `IInv` of `ServerManage`, `SendPath`, `SyncCall` and `LuaContextPool`, and `GeneratorInv` of `Snowflake`, too; those of
`ReceivePath`, `DataCenter` and `ServiceLifecycle` hold in the instances of their runs (`IInv` of the module, to be added to the configuration); those of `Gateway` and `FileCenter`
stand with their proofs. Each has the type invariant of its module as its first part, so that the types of all modules are proved.

**Bounds, and why they are enough.** *Manager*: the races need a worker, a
second one that refers to it, and one that competes for a replica; a connection that is reused by a later
worker needs fewer connections than workers. With edits two workers do, of which one refers to the other, and configurations that differ in what refers to what (`EditConfigs`); so do two for liveness, of which one's place must become free for the other. Two edits are the shortest history in which a template is deleted or
changed and made again. Edits are excluded (`MaxEdits = 0`) where `DeparturesAreAnnounced` is checked: when a template is deleted that has nodes and its
id is used again, its nodes keep the id but are counted nowhere, and are told of no departure (section 5). The theorem covers the edits that do not do so.

*Gateway*: four nodes: one dies (`Mortal`), one of another template takes its address afterwards, one provides every function (`"*"`) at an address of its own, and one of that other template listens elsewhere, where
no request may come. The network breaks the connection of the shared address at any time (`Breakable`);
`Before` lets the nodes be there before the gateway or not, so that the query races with events. One request and two process threads: two threads let
events and requests overlap; requests do not affect each other but through the directory, which other nodes disturb already.

*Sending*: two packages of one priority for the order, one more urgent. The senders and the epoll threads are symmetric, which the configuration uses (`SYMMETRY`; it has no liveness property). Frames have 2, 4 and 6 units
and the buffer 4, so that a frame fits, fits in part, or never fits as a whole. `Grain = 2`
keeps the buffer from having room for the length data alone, which the code handles by
sending the length again (see the hazard at `EasyConnect.cpp:225` and section 5; with `Grain = 1` TLC shows a broken stream). It is the condition `Aligned` of the proofs.

*Receiving*: frames that end at 3, 7 and 10 units with length data of 2; the second is urgent. `Cuts` leaves out only positions that repeat a
case: data end within length data (4), behind it (5), within the body (6) and at frame ends (3, 7, 10).

*Calls*: two callers, three calls, so that one thread is in its second call when the answer to its first comes.

*Lifecycle*: one process thread, since these only post messages, and three control events, since
a stop, a restart and one more message can be queued together. *Pool*: two contexts of two threads are the fewest for a pool to run dry in
one thread and not the other; two edits, for a reload to be asked for during a reload. *Data center*: two scripts, threads and databases, the fewest
for two sessions to be made at a time; three ids, since two connects make at most two, and one more after a collision; one restart. *File center*: a file of two ranges and six requests: both ranges, the end, and three
that repeat any of them. *Snowflake*: two ids per millisecond let the sequence wrap at the second call.

**Fairness.** `manager_live`: weak fairness of polling workers, which retry on a timer, of the second
half of a handler that has begun, of the rest of a cleanup, and strong fairness of the hub for each broken connection, because it serves one at a time and others break meanwhile; strong fairness of handling the registration requests of
each worker, because the queue of the process thread is first in first out in the code and a set
in the model, so that a request waiting in it is passed by finitely many others. Nothing makes a worker die or an administrator edit. `lifecycle`:
weak fairness of the main thread, of each hub thread and of the SIGINT handler once begun; all of them wait with
timeouts, so a lost notification only delays them. Nothing makes a
stop or a restart happen. `gateway`: weak fairness of the process threads and of a living node that was sent a request; nothing makes a client ask, a node come or die, or
the directory be filled. `sync_call`: weak fairness of a thread that is in a call, whose time limit passes; nothing of the peer, the thread pool
or the connection, so that the return does not depend on them. `snowflake`: the clock advances and the spinning thread is scheduled. Deadlock checking is off
where the system may really stop: a process that ended, a pool that is lost, a
connection without packages, a request that was stranded, a clock at its bound.

## 4. Proofs

| Theorem | Module | Says |
|---|---|---|
| `ManagerTypes`, `ManagerInvariant` | `ServerManageProofs` | type correctness and the inductive invariant of the registry, for all workers, connections, templates and configurations |
| `CreatedAccounting`, `StoreAgreement` | `ServerManageProofs` | the accounting of replicas; the agreement of memory and database |
| `DeparturesAnnounced` | `ServerManageProofs` | who refers to a node when it is erased was told or stored too late to be (`missed`), while no template is deleted that has nodes |
| `VacancyOffered` | `ServerManageProofs` | a worker waits only when no template it serves is short of nodes, while the id 0 stands for no template |
| `GatewayTypes`, `ListedNodesConnected`, `DirectoryFollows` | `GatewayProofs` | type correctness; a listed node is connected or being connected; the directory follows the Manager but for named races, for every set of nodes, templates, addresses and threads |
| `RequestsKept` | `GatewayProofs` | a request is in one place until its client has an outcome |
| `GatewayImplementsBroker` | `GatewayProofs` | the refinement: every step of gateway, Manager, nodes and hub is one of `RequestBroker` or none; nothing is assumed about the template of who takes an address |
| `SendPathInvariant`, `SendPathTypes`, `UrgentPackagesFirst` | `SendPathProofs` | one thread at a time is in the socket code, no package is queued twice, the buffer never overflows, and a queued package never overtakes a more urgent one that waited before it |
| `StreamInvariant`, `StreamWellFramed`, `PackagesInOrder`, `PackagesKept` | `SendPathProofs` | while no write stops behind the length data: the stream is one of whole frames, packages of a priority keep their order, and none is lost or sent twice |
| `ConnectionImplementsChannel` | `SendPathProofs` | under the same condition, the refinement of `FramedChannel` |
| `AlignedConnection`, `AlignedChannel` | `SendPathProofs` | where the buffer is freed in units the length data does not fill, the condition always holds, and with it the whole invariant and the refinement |
| `ReceivePathInvariant`, `ReceivePathTypes` | `ReceivePathProofs` | the inductive invariant of the receiving side, and its types, for every stream and set of threads |
| `UnreadDataHasACause`, `ReceivedPackagesKept`, `ReceivedPackagesInOrder`, `UrgentPackagesTaken` | `ReceivePathProofs` | the four properties of the run `receive_path` |
| `CallInvariant`, `ResponseFindsCall`, `CallReturnsItsOwn` | `SyncCallProofs` | a response finds the call saved for it, and a call returns its own whole answer or Timeout |
| `GeneratorInvariant`, `IdsIncrease`, `IdsBoundedByClock` | `SyncCallProofs` | ids strictly increase and never run ahead of the clock, for every number of threads and width of the sequence |
| `LifecycleInvariant`, `ServingServiceIsUp`, `ModuleIsClosedOnce` | `ServiceLifecycleProofs` | a service that serves has its hub and network running; one hub thread closes the module at most once, for every number of threads and every setting |
| `PoolInvariant`, `PoolAccounting`, `ReloadIsRemembered` | `LuaContextPoolProofs` | no context is handed out twice; a stale context stays flagged |
| `DataCenterInvariant`, `SessionsMeanDatabases`, `QueriesReachTheirDatabase` | `CenterProofs` | a session means one database and a query reaches its own, but for ids computed twice or from before a restart |
| `UploadInvariant`, `ArchivedFileIsWhole` | `CenterProofs` | an archived file is whole, still being written, or a disturbed copy, with the rename and with `mv`, for every number of threads, ranges and requests |

All are proved from the named assumptions on constants (`ServerManageAssumption`
and so on), which TLC evaluates in the runs.

*Snowflake.* Increase alone is not inductive: a caller that waits has already reset the sequence. `GeneratorInv` adds that
everything issued lies before `Id(last_timestamp + 1, 0)`, that it is at most the id remembered while nobody waits, and that the sequence is
0 while somebody does. `Id` is shown to be monotone first.

*Manager.* `ItemsAreWhole` (only an item with a configuration has nodes, and it has its own id) and
`RowsHaveItems` relate memory and database. `CopyIsOfARow` says that the copy SetTemplate holds is of a
template that still has a row, without which the write-back would break the agreement. For the accounting,
`RegistrationsAreUnique` (a worker sends one RegisteNode, on a connection of its own) and `CreatedAreSettled` (a counted worker has no RegisteNode under way)
exclude that a handler overwrites the connection of a node already counted; `MapIsOfItsNode` and `CleanupsAreOfNodes` say the same of a registration between its steps and of a cleanup between its own. The preservation proof has one lemma per action; frame lemmas
dispose of the parts an action does not touch.

`DeparturesAnnounced` needs more: the referrers are looked for in the lists of created nodes, and the property judges them by their node entry. `ConnectedAreCreated` says that
a worker whose node has its open connection is in the list of its template, and in the copy SetTemplate is about to write over it. `ClosingIsTold` carries this over the cleanup's window: whoever refers to the node that is about to be erased is among those told, or in `missed`. It is not
preserved when a template is deleted that has nodes, which nothing in `DeleteTemplateHandler` prevents; the theorem therefore assumes `DeletesOnlyUnused` of every step, and TLC shows that it is
false without it. That a new template has no nodes yet rests on the row id being free (`NextRowIsFree`, and `ManagerKeepsItsRow`: the table is never empty). `VacancyOffered` has two conditions, since
the search answers 0 for "nothing found", which is also a key `operator[]` may create: nobody asks for the id 0 (`AsksForRealTemplates`), and no SetTemplate has given
a nameless item a configuration (`NoItemIsNamedNone`).

*Gateway.* The directory alone is not inductive, since it depends on announcements under way. `Heard` says that whoever is announced, answered or gone has run, and that a node which has run is
online, has its Offline under way, or is gone, and never online together with one of the others; `ListedOnce` that a node is twice in a list only if it was added out of order. For the refinement, `InOnePlace` says that what is kept, at a node, on its way back or in a hand belongs to
a client that waits, and `AtProviders` that a request in a hand is for the address of a node that provides its function, and is otherwise only at processes that listen at such an address. `OnlyProvidersAnswer` turns that into the `Answerers` of the broker.
`RequestsKept` adds to it `OnePackage`, that what is kept has one package, in a hand, at a node or on its way back, or one named as stranded, and `WaitingIsKept`, that a client that waits has its request
queued, kept or about to be answered.

*Sending.* `UrgentFirst` needs three facts none of which is inductive alone. `SeenIsSorted`: what waited when an epoll thread
got the mutex is no longer in the prepared list when it sends. That no later package can put it back there is `QueuedOnce`: a package in a sender's
hands was never queued, so it is not one of those seen. `ListsByPriority`: a package that was sorted
stands in the list of its own priority, so the most urgent list that is not empty is not behind it. `MutexHeld` says that the
holder of the mutex is the one thread that writes or sorts; without it another epoll thread could start to send while the first still sorts.
`HalfSent` (what is half sent is not all sent) gives the types of the written frame and the bound of the buffer. One lemma per action,
`SendPackageTypes` and `AfterSendMoves` for what the writes share; the least non-empty list exists because `<` on the naturals is well-founded (`WFMin`).

*The stream.* `StreamInv` is kept apart, because it has a condition. `OpenIsHalfSent` ties the end of the stream to `m_strSending`: while the connection is open the last unit written is the
one the next write continues from. With `StartedIsSent`, `SentOnce` and `WaitsUnsent`, what is in the stream is half sent or ended, once, and what waits has not begun. `InOrder` is the order of the queues and of the
stream in one statement (sent before half sent before listed before prepared, within a priority); `NothingLost` and `InTurn` say where a package is at each stage of its sender, and what the session's end leaves.
The condition is `LengthNotAlone`, no write stops right behind the length data: `EasyConnect.cpp:225` takes a frame of which nothing but the length data was written for one not begun, and writes
the length data again. The code does nothing to prevent it; whether it happens is up to the socket's buffer. `Aligned` describes buffers where it does not: they are freed in units that divide every frame and
that the length data does not fill, so that the room left (`RoomAligned`) is never that of the length data. The refinement maps each write to one step of the channel, from the unit the last one reached.

*Receiving.* `InOnePlace` says of each frame that the set of its places (batch, queue, hand, end) is a singleton once it is read and empty before; the accounting by cardinalities follows. `UnreadHasEvent` weakens "data have an event" to the
moments where no thread is between taking the event and releasing the mutex. For the order, a frame that a batch still holds while a later one waits in its queue must be in `late` already
(`OvertakenIsLate`), and batches and queues keep order (`BatchesInOrder`, `QueuesByPriority`). `LooksInTurn` says what a scan knows: what waited when it began and still waits has a priority not yet passed.

*Data center.* An id *means* a database when it is known and, unless two threads computed it, all sessions under it lead there (`Means`). Names, remembered ids and the ids in the hands of threads and scripts mean their database
(`NamesMeanDatabases`, `ServersInStep`, `RememberedMeans`); `IdsInOrder` says that ids are the first so many, so that the number of sessions plus one is new, or being inserted by another thread, which is `twice`.
`MeaningsKept` is the frame of steps that only add sessions; `TakeId`, `Insert` and `Restart` are proved by themselves.

*Lifecycle.* Both properties relate what `main` has done to what hub threads have still to do. `StatusByStage` and `HandlersByStage` bound the status and the registered handlers by the stage of `main` (a second round of `Initialize` registers them again, for a service that will not run: `Over`);
`CallsByRound` says which handlers of a stop message a thread has left. `CalmStart`, `CalmRun` and `CalmSignal` say that nothing has stopped the hub or the network as long as no stop was asked for before `Run` waits. `ClosesOnce`:
after the only hub thread closed the module it does not come to the stop handler again, because the status stays `Exit` or because it finds the hub ended although `Run` set the status to running after it.

*Calls.* `IdsAreOwn`: an id belongs to one call, and none is in use before it is given. `SentMeansSaved`: a request or a response under way is of a call that is saved, or was sent without a
callback, and a caller is saved before it sends; this is what a change of that order would break. `NotifiedMeansAnswered`: a caller is notified only when both assignments to the shared result are done.

*Lua pool.* `LoadingOK` says that a context being loaded still carries its flag and that what was read is not older than
what is due; the accounting part needs that the queue has no duplicates, from which taking its head
and appending the id in use preserve the partition of the contexts.

*File center.* `FilesFromList`: files hold only ranges of the list. `ListIsWhole`: after a hash check succeeded the list has every range, so a merge that begins
afterwards writes the whole file again. A file is `Kept` by a thread that merges and has put into it every entry it has passed. `TempIsWhole`: what may be moved to the archive is whole or kept. `HashersGoOn` says this of the ranges a hash has
met so far: they are in the file, or it was emptied since and is kept. `CopiersGoOn`: the source of a copy that was not disturbed is whole, and the copy has what was read. From these follows `ArchiveIsWhole`: the archived inode
is whole, kept, being copied, or a disturbed copy (`cut`).

Model-checked only: liveness under fairness (`VacancyIsFilled`, `DeadReplicaIsReleased`, `RequestsEnd`, `CallsReturn`, `StopEndsRun`, `CancelledStartEnds`, `WaitEnds`),
which is out of the prover's reach. Every invariant and every action property of the runs is stated by a theorem.

## 5. Known differences

Where a comment, a protocol file or the evident intention differs from what the code does. The models do what the code does; where a property
would otherwise be false, it names the case.

1. *Default mode* (`servermanage.cpp:332`): `manager.proto:99` says a default worker sends an empty request; for an empty request nothing is searched. The exclude mode reads the include list (`servermanage.cpp:354`, `main.cpp:25`).
2. *Restart* (`base_service.cpp:496`): the handler sets the result and notifies, but `Run` waits for the status `Exit`.
3. *Start cancelled* (`base_service.cpp:448`): a stop between the test of the status and its assignment is overwritten; the hub has ended and the process hangs.
   The SIGINT handler locks the queue's mutex and allocates (`base_service.cpp:487`).
4. *Lost context* (`LuaProcessCenter.cpp:157`): a failed reload returns without putting the context back.
5. *Stranded package* (`EpollEx.cpp:309`): the interest in EPOLLOUT is taken away after a package was queued. "The all list is empty" (`ConnectSession.cpp:120`) is not ensured by the test before the mutex, which lets a healthy connection break (`ConnectSession.cpp:113`).
6. *"One message only have one handler"* (`ControlHub.cpp:166`): handlers are added to a list, and ProgramStop has two.
7. *Lost edges*: the five causes of `ReceivePath`. A priority equal to `s_PriorityLevel` indexes past the queues (`ConnectSession.cpp:201`), and on an error the packages read in the same batch are thrown away.
   A frame of which a write took the length data alone is begun again (`EasyConnect.cpp:225`).
8. *Session in use* (`NetworkHub.cpp:200`): the session is erased, and with it the connection that the next line still reads, while other threads may hold a pointer to it.
9. *Missed departures* (`servermanage.cpp:256`): nothing is locked between gathering whom to tell of a node and erasing it, so that a node registered in between is given it as a reference and never told that it is gone.
   *Reused addresses* (`NetworkHub.cpp:227`): a session is found by the hash of its address; a request for a node that died goes to whoever listens there now, whatever its template.
10. *Session ids* (`dbhub.cpp:71`, a TODO there): the id is the number of sessions plus one, without a lock. At the node, a failed call falls through (`globalfunction.cpp:432`), an empty answer is remembered as the id 0, and ids outlive a restart of the data center.
11. *Extend data*: `Lua_SetExtendData` declares its uuid twice, so that the outer one stays empty (`globalfunction.cpp:345`); `PackageHelper.hpp:120` sets the content where it should set the extension.
12. *Deleted templates* (`DeleteTemplateHandler` of `servermanage.cpp`): nothing asks whether a template has nodes. They keep its id, which the database may give to the next template, and are counted and told of nothing.
13. *Files*: where the rename of an upload fails, `mv` copies it (`filemanager.cpp:118`); a second UploadedHandler that empties the temporary file meanwhile leaves a part of the file in the archive that nobody completes, and the first client is told success (`cut`).
   Ranges are pushed to a list without a lock (`filemanager.cpp:204`). `CUtility::WriteFile` always returns an error (`utility.cpp:172`), so SimpleUpload never succeeds; the size a client declares is never compared; images whose thumbnails fail halfway keep the first ones.

## 6. What is assumed, and what is left out

- A connection's hash code is not reused while a request or a break of its old connection is queued. The hash is one of address and port.
- The Manager has one process thread. With several, each has a registry of its own (`CreateProcessEnvironmentHandler`), and they do not agree.
- A session that breaks is destroyed in the model when no thread is inside it. In the code a thread may be; what happens then is undefined.
- Containers are atomic per operation, as their locks make them; the upload's `std::list`, which has none, is not (`UploadingTogether`). Iterations beside a writer are not modelled.
- `mv` is taken to put its new file in the place of one that is in the archive already in one step, and to remove the source after the copy. In `Gateway` a query answered between erasing a node and removing it from its template is left out; its answer has a nameless node (`ServerManage` has it).
- `SendPath` and `ReceivePath` are about a plain socket of an accepted connection: no TLS, no reconnection. In `ReceivePath` a priority is less than `Levels`.
- The kernel reports EPOLLOUT when the interest is set on a socket with room, and when a full and monitored socket gets room again; EPOLLIN when data come to a monitored socket, and when a socket with data is monitored.
- `Gateway`: a node answers a request at most once; a uuid is one life of a process; the order within a list of nodes is left out, so that any of its nodes may be the first.
- `SyncCall`: the peer answers a request once or not at all, and ids come from `Snowflake`, so that none is used twice.
- `DataCenter`: whether a login succeeds is MySQL's choice; connections do not fail later. `FileCenter`: a range that fails its checks is refused and leaves nothing.
- Not modelled: logging, configuration parsing, loading of libraries, `PostLog` and load reports, SQL, downloads, thumbnails and image processing, which keep no state between requests, the bindings and scripts of Lua, the
  stubs for other languages, the firewall (its handlers answer "succeed"), TLS. The Lua layer's view of the data and file centers is kept as the gateway's directory is, and is not modelled again.
- Not modelled because it is not this system's: vendored code. About 67,000 of the 83,600 lines of C and C++ in the repository are `CImg.h`, `sqlite_orm.h`,
  `pb.c`, `pb.h`, `CRC.hpp` and `univ.h`, libraries that the modules take as given; a share of lines of the whole repository says for that reason little about how much of sloongnet itself is modelled.

## 7. Plan

Order of work, most important behaviour first. Done, each with proofs: 1. `Snowflake`. 2. `ServerManage`. 3. `ServiceLifecycle`. 4. `LuaContextPool`. 5. `SendPath` and `FramedChannel`. 6. `Gateway` and `RequestBroker`.
7. `ReceivePath`. 8. `SyncCall`. 9. `DataCenter`. 10. `FileCenter`.

Left:

1. `ReceivePath` and `SendPath` composed over one stream, to implement `FramedChannel` from sender to handler.
2. An abstract specification of the Manager's directory, which `ServerManage` implements and which `Gateway` uses for its half of the Manager.
3. The sessions of `NetworkHub` by themselves: accept, the clock of the timeout check, and reconnection of outgoing connections, whose half sent package survives (`EasyConnect.cpp:398`).
4. `Gateway` with clients that have connections of their own, and several gateways at one Manager.
