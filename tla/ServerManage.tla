---------------------------- MODULE ServerManage ----------------------------
(***************************************************************************)
(* The Manager's registry (modules/manager/servermanage.cpp) with the      *)
(* template database behind it, the registration protocol of the workers   *)
(* (base_service.cpp), and the two threads of the Manager that share the   *)
(* registry without a lock around a whole handler:                         *)
(*                                                                         *)
(*   - the process thread runs the request handlers one after the other    *)
(*     (processthreadquantity is 1 in the Manager's default configuration);*)
(*   - the control thread runs OnSocketClosed for every ConnectionBreaked. *)
(*                                                                         *)
(* A handler is one action unless it reads state, gives way to something   *)
(* slow, and uses what it read: SetTemplate copies an item, writes the     *)
(* database, and stores the copy back; RegisteNode stores the node, then   *)
(* enters its connection, then notifies; OnSocketClosed gathers and tells  *)
(* the referrers, then erases the node, then takes it out of its template. *)
(* "task" and "closing" are what the two threads are in the middle of.     *)
(*                                                                         *)
(* A worker process draws one uuid in its life and ids never repeat        *)
(* (Snowflake), so the worker stands for its uuid.  A connection stands    *)
(* for its hash code, which a later connection may have again.             *)
(***************************************************************************)
EXTENDS Integers, FiniteSets, FiniteSetsExt

CONSTANTS
    Workers,        \* worker processes, and the uuids the Manager gives them
    Manager,        \* uuid 0, the Manager's own node
    Conns, NoConn,  \* connection hash codes; 0
    TemplateIds,    \* ids the database can give
    Configs,        \* module configurations: [type, refs]
    NoConfig,       \* ConfiguationObj is a null pointer
    EmptyConfig,    \* what parsing an empty configuration gives
    MaxReplicas,    \* bound: replicas of a template
    MaxEdits,       \* bound: administrator requests
    Mode,           \* how a worker was started: "Default", "AssignTemplate", ...
    Targets,        \* the ids or types on its command line
    InitialStore    \* the templates in the database at the start

None == 0           \* no template: the id 0, which operator[] may still create
Ids == TemplateIds \cup {None}
Uuids == Workers \cup {Manager}
Modes == {"Default", "AssignTemplate", "IncludeType", "ExcludeType"}

ASSUME ServerManageAssumption ==
    /\ TemplateIds \subseteq Nat \ {0} /\ 1 \in TemplateIds /\ IsFiniteSet(TemplateIds)
    /\ Manager \notin Workers /\ NoConn \notin Conns /\ NoConfig \notin Configs
    /\ EmptyConfig \in Configs
    /\ MaxReplicas \in Nat /\ MaxEdits \in Nat
    /\ Mode \in [Workers -> Modes]
    /\ \A c \in Configs : c.refs \subseteq TemplateIds
    /\ 1 \in DOMAIN InitialStore /\ DOMAIN InitialStore \subseteq TemplateIds
    /\ \A t \in DOMAIN InitialStore :
          InitialStore[t] \in [replicas : 0 .. MaxReplicas, cfg : Configs]

VARIABLES
    store,      \* the template_list table: id -> [replicas, cfg], or no row
    tpl,        \* m_mapIDToTemplateItem
    node,       \* m_mapUUIDToNodeItem
    connUuid,   \* m_mapConnectionToUUID, never erased from; Manager: no entry
    task,       \* what the process thread is in the middle of
    inbox,      \* requests queued for the process thread
    breaks,     \* ConnectionBreaked events queued for the control thread
    closing,    \* the OnSocketClosed the control thread is in the middle of
    worker,     \* the worker processes: [pc, conn, tpl]
    outbox,     \* the events of the last step: {[to, kind, about]}
    edits,      \* administrator requests so far (bounded by MaxEdits)
    crashed,    \* a null ConfiguationObj was dereferenced
    late,       \* history: nodes stored after their connection was cleaned up
    revived,    \* history: nodes put back by SetTemplate after their removal
    missed      \* history: nodes stored since OnSocketClosed gathered whom to tell

registry == <<tpl, node, connUuid>>
history == <<late, revived, missed>>
vars == <<store, registry, task, inbox, breaks, closing, worker, outbox, edits, crashed, history>>

----------------------------------------------------------------------------
(* Items of the two maps.  An item operator[] creates has a null           *)
(* configuration, and an ID and Replicas that nobody initialised: the ID   *)
(* is taken to name no template, Replicas is arbitrary.                    *)

NoRow == [replicas |-> 0, cfg |-> NoConfig]
NoItem == [listed |-> FALSE, id |-> None, replicas |-> 0, cfg |-> NoConfig, created |-> {}]
Item(id, row, created) ==
    [listed |-> TRUE, id |-> id, replicas |-> row.replicas, cfg |-> row.cfg, created |-> created]
GhostItems == {Item(None, [replicas |-> r, cfg |-> NoConfig], {}) : r \in {0, MaxReplicas}}

NoNode == [known |-> FALSE, template |-> None, conn |-> NoConn]
BlankNode == [NoNode EXCEPT !.known = TRUE]

\* m_mapIDToTemplateItem[t] and m_mapUUIDToNodeItem[u], which create what is missing.
TouchTemplate(t) ==
    IF tpl[t].listed THEN {tpl} ELSE {[tpl EXCEPT ![t] = g] : g \in GhostItems}
TouchNodes(us) ==
    [u \in Uuids |-> IF u \in us /\ ~node[u].known THEN BlankNode ELSE node[u]]

Refs(item) == IF item.cfg = NoConfig THEN {} ELSE item.cfg.refs

\* Mutant: the reference is looked up in the wrong direction.
Referrers_Reversed(id) == UNION {tpl[t].created : t \in Refs(tpl[id])}

\* The nodes to notify of a change in template id: those of the templates that refer to it.
Referrers(id) ==
    UNION {tpl[t].created : t \in {s \in Ids : tpl[s].listed /\ id \in Refs(tpl[s])}}

\* The control thread is between two events.
Closed == [pc |-> "idle", of |-> Manager, tpl |-> None, told |-> {}]

Events(notifyList, kind, about) ==
    {[to |-> u, kind |-> kind, about |-> about] : u \in notifyList}

----------------------------------------------------------------------------
(* SearchNeedCreate...: templates without any node first, then templates   *)
(* below their replicas, in the order of the map.                          *)

\* Mutant: one replica too few.
NeedsNode_OffByOne(t) ==
    /\ tpl[t].listed /\ tpl[t].id # 1
    /\ Cardinality(tpl[t].created) + 1 < tpl[t].replicas

NeedsNode(t) ==
    /\ tpl[t].listed /\ tpl[t].id # 1
    /\ Cardinality(tpl[t].created) < tpl[t].replicas

FirstOf(ts) == IF ts = {} THEN None ELSE Min(ts)

\* Mutant: the second pass is missing.
SearchNeedCreateWithIDs_FirstPassOnly(ids) ==
    FirstOf({t \in Ids \cap ids : NeedsNode(t) /\ tpl[t].created = {}})

SearchNeedCreateWithIDs(ids) ==
    LET open == {t \in Ids \cap ids : NeedsNode(t)}
        bare == {t \in open : tpl[t].created = {}}
    IN  IF bare # {} THEN FirstOf(bare) ELSE FirstOf(open)

IdsOfTypes(types) == {t \in Ids : tpl[t].listed /\ tpl[t].cfg.type \in types}

\* What RegisteWorkerHandler searches for a worker.  A Default request has no
\* field set and serialises to nothing, and an empty request is not searched
\* for; an ExcludeType request fills excludetargettype, but the handler reads
\* includetargettype, finds no type, and does not search either.
Assigned(w) ==
    CASE Mode[w] = "AssignTemplate" -> SearchNeedCreateWithIDs(Targets[w])
      [] Mode[w] = "IncludeType"    -> SearchNeedCreateWithIDs(IdsOfTypes(Targets[w]))
      [] Mode[w] \in {"Default", "ExcludeType"} -> None

\* The type search reads the configuration of every item.
SearchDereferencesNull(w) ==
    Mode[w] = "IncludeType" /\ \E t \in Ids : tpl[t].listed /\ tpl[t].cfg = NoConfig

----------------------------------------------------------------------------
Load(rows) ==
    [t \in Ids |-> IF t \in TemplateIds /\ rows[t] # NoRow
                   THEN Item(t, rows[t], IF t = 1 THEN {Manager} ELSE {})
                   ELSE NoItem]

Init ==
    /\ store = [t \in TemplateIds |-> IF t \in DOMAIN InitialStore THEN InitialStore[t] ELSE NoRow]
    /\ tpl = Load(store)
    /\ node = [u \in Uuids |-> NoNode]
    /\ connUuid = [c \in Conns |-> Manager]
    /\ task = [op |-> "idle"]
    /\ inbox = {}
    /\ breaks = [c \in Conns |-> 0]
    /\ worker = [w \in Workers |-> [pc |-> "off", conn |-> NoConn, tpl |-> None]]
    /\ outbox = {}
    /\ edits = 0
    /\ crashed = FALSE
    /\ closing = Closed
    /\ late = {} /\ revived = {} /\ missed = {}

Crash ==
    /\ crashed' = TRUE
    /\ UNCHANGED <<store, registry, task, inbox, breaks, closing, worker, edits, history>>
    /\ outbox' = {}

----------------------------------------------------------------------------
(* A worker process: InitlializeForWorker, then the hub and RegisteNode.   *)

Request(op, w) == [op |-> op, from |-> w, conn |-> worker[w].conn, tpl |-> worker[w].tpl]

UnchangedManager == UNCHANGED <<store, registry, task, edits, crashed, closing, history>>

\* Send the RegisteWorker request: the first time with sender 0, then, after
\* a second's sleep, with the uuid the Manager gave.
AskForTemplate(w) ==
    /\ worker[w].pc \in {"off", "poll"}
    /\ worker' = [worker EXCEPT ![w].pc = "wait"]
    /\ inbox' = inbox \cup {Request("RegisteWorker", w)}
    /\ outbox' = {}
    /\ UnchangedManager /\ UNCHANGED breaks

\* The hub opens the connection to the Manager that the node registers on.
\* An address and port are not used again while anything of the connection
\* that had them is queued or being registered.
OpenConnection(w, c) ==
    /\ worker[w].pc = "assigned"
    /\ breaks[c] = 0
    /\ \A x \in Workers : worker[x].conn # c
    /\ \A r \in inbox : r.conn # c
    /\ task.op = "map" => task.conn # c
    /\ worker' = [worker EXCEPT ![w].pc = "registering", ![w].conn = c]
    /\ inbox' = inbox \cup {[op |-> "RegisteNode", from |-> w, conn |-> c, tpl |-> worker[w].tpl]}
    /\ outbox' = {}
    /\ UnchangedManager /\ UNCHANGED breaks

\* A running module asks for the nodes it refers to.
AskForReferences(w) ==
    /\ worker[w].pc = "running" /\ worker[w].conn # NoConn
    /\ inbox' = inbox \cup {Request("QueryReferenceInfo", w)}
    /\ outbox' = {}
    /\ UnchangedManager /\ UNCHANGED <<breaks, worker>>

\* The connection breaks: the epoll, send and receive paths of the Manager
\* may each post a ConnectionBreaked for it before the hub drops the session.
\* Mutant: nobody posts the event.
Posted_ByNobody(c) == {breaks}

Posted(c) == IF c = NoConn THEN {breaks} ELSE {[breaks EXCEPT ![c] = n] : n \in 1 .. 2}

LoseConnection(w) ==
    /\ worker[w].pc = "running" /\ worker[w].conn # NoConn
    /\ breaks' \in Posted(worker[w].conn)
    /\ worker' = [worker EXCEPT ![w].conn = NoConn]
    /\ outbox' = {}
    /\ UnchangedManager /\ UNCHANGED inbox

\* The process ends: killed, stopped, or the answer to RegisteNode took longer
\* than the five seconds it waits.
Exit(w) ==
    /\ worker[w].pc \notin {"off", "dead"}
    /\ breaks' \in Posted(worker[w].conn)
    /\ worker' = [worker EXCEPT ![w].pc = "dead", ![w].conn = NoConn]
    /\ outbox' = {}
    /\ UnchangedManager /\ UNCHANGED inbox

----------------------------------------------------------------------------
(* The process thread.                                                     *)

Take(op, r) == ~crashed /\ task.op = "idle" /\ r.op = op /\ inbox' = inbox \ {r}

\* The answer moves the worker on, if it still waits for one.
Answer(w, waiting, next) ==
    worker' = IF worker[w].pc = waiting THEN [worker EXCEPT ![w] = next] ELSE worker

\* RegisteWorkerHandler, sender unknown: the node is recorded and the worker
\* told its uuid, as a Retry.
RegisteWorkerNew(r) ==
    /\ Take("RegisteWorker", r)
    /\ ~node[r.from].known
    /\ node' = [node EXCEPT ![r.from] = BlankNode]
    /\ Answer(r.from, "wait", [worker[r.from] EXCEPT !.pc = "poll"])
    /\ outbox' = {}
    /\ UNCHANGED <<store, tpl, connUuid, task, breaks, edits, crashed, closing, history>>

\* RegisteWorkerHandler, sender known: Retry "Wait", or a template.  Nothing is
\* reserved for the worker; the item of a template without configuration is
\* read once more by its uninitialised id, and the worker refuses the answer.
RegisteWorkerKnown(r) ==
    LET w == r.from
        index == Assigned(w)
        item == tpl[index]
    IN
    /\ Take("RegisteWorker", r)
    /\ node[w].known /\ ~SearchDereferencesNull(w)
    /\ \/ /\ index = None
          /\ Answer(w, "wait", [worker[w] EXCEPT !.pc = "poll"])
          /\ UNCHANGED tpl
       \/ /\ index # None /\ item.cfg # NoConfig
          /\ Answer(w, "wait", [worker[w] EXCEPT !.pc = "assigned", !.tpl = item.id])
          /\ UNCHANGED tpl
       \/ /\ index # None /\ item.cfg = NoConfig
          /\ Answer(w, "wait", [worker[w] EXCEPT !.pc = "dead"])
          /\ tpl' \in TouchTemplate(item.id)
    /\ outbox' = {}
    /\ UNCHANGED <<store, node, connUuid, task, breaks, edits, crashed, closing, history>>

RegisteNodeFails(r) == ~tpl[r.tpl].listed \/ ~node[r.from].known \/ r.tpl = 1

\* Who is stored while OnSocketClosed has gathered whom to tell of a node, and has
\* not erased that node yet, is not told.
Missing(ws) == IF closing.pc = "erase" THEN missed \cup ws ELSE missed

\* RegisteNodeHandler up to the list of its template.
RegisteNodeStore(r) ==
    LET w == r.from
        t == r.tpl
    IN
    /\ Take("RegisteNode", r)
    /\ \/ /\ RegisteNodeFails(r)
          /\ Answer(w, "registering", [worker[w] EXCEPT !.pc = "dead", !.conn = NoConn])
          /\ breaks' \in Posted(IF worker[w].pc = "registering" THEN worker[w].conn ELSE NoConn)
          /\ UNCHANGED <<node, tpl, task, missed>>
       \/ /\ ~RegisteNodeFails(r) /\ tpl[t].cfg # NoConfig
          /\ node' = [node EXCEPT ![w] = [known |-> TRUE, template |-> tpl[t].id, conn |-> r.conn]]
          /\ tpl' = [tpl EXCEPT ![t].created = @ \cup {w}]
          /\ task' = [op |-> "map", of |-> w, tpl |-> t, conn |-> r.conn]
          /\ missed' = Missing({w})
          /\ UNCHANGED <<breaks, worker>>
    /\ outbox' = {}
    /\ UNCHANGED <<store, connUuid, edits, crashed, closing, late, revived>>

\* The node's connection: OnSocketClosed finds the node from here on.
RegisteNodeMap ==
    /\ ~crashed /\ task.op = "map"
    /\ connUuid' = [connUuid EXCEPT ![task.conn] = task.of]
    /\ late' = IF worker[task.of].conn # task.conn /\ breaks[task.conn] = 0
               THEN late \cup {task.of} ELSE late
    /\ task' = [op |-> "notify", of |-> task.of, tpl |-> task.tpl]
    /\ outbox' = {}
    /\ UNCHANGED <<store, tpl, node, inbox, breaks, worker, edits, crashed, closing, revived, missed>>

\* The rest of RegisteNodeHandler: tell the referrers, answer the worker.
RegisteNodeNotify ==
    LET notifyList == Referrers(task.tpl)
    IN
    /\ ~crashed /\ task.op = "notify"
    /\ outbox' = Events(notifyList, "online", task.of)
    /\ node' = IF notifyList = {} THEN node ELSE TouchNodes(notifyList \cup {task.of})
    /\ Answer(task.of, "registering", [worker[task.of] EXCEPT !.pc = "running"])
    /\ task' = [op |-> "idle"]
    /\ UNCHANGED <<store, tpl, connUuid, inbox, breaks, edits, crashed, closing, history>>

\* QueryReferenceInfoHandler: reads the items of the referenced templates and
\* the nodes created for them.
QueryReferences(u) == Refs(tpl[node[u].template])

QueryReferenceInfo(r) ==
    LET u == r.from
    IN
    /\ Take("QueryReferenceInfo", r)
    /\ \/ /\ ~node[u].known \/ ~tpl[node[u].template].listed
          /\ UNCHANGED node
       \/ /\ node[u].known /\ tpl[node[u].template].cfg # NoConfig
          /\ \A t \in QueryReferences(u) : tpl[t].cfg # NoConfig
          /\ node' = TouchNodes(UNION {tpl[t].created : t \in QueryReferences(u)})
    /\ outbox' = {}
    /\ UNCHANGED <<store, tpl, connUuid, task, breaks, worker, edits, crashed, closing, history>>

\* A handler that reads the configuration of an item which has none.
Dereferences(r) ==
    CASE r.op = "RegisteWorker" ->
            node[r.from].known /\ SearchDereferencesNull(r.from)
      [] r.op = "RegisteNode" ->
            ~RegisteNodeFails(r) /\ tpl[r.tpl].cfg = NoConfig
      [] r.op = "QueryReferenceInfo" ->
            /\ node[r.from].known /\ tpl[node[r.from].template].listed
            /\ \/ tpl[node[r.from].template].cfg = NoConfig
               \/ \E t \in QueryReferences(r.from) : tpl[t].cfg = NoConfig

CrashOnRequest(r) == ~crashed /\ task.op = "idle" /\ Dereferences(r) /\ Crash

----------------------------------------------------------------------------
(* The process thread, for the administrator.                              *)

Edit ==
    /\ ~crashed /\ task.op = "idle" /\ edits < MaxEdits
    /\ edits' = edits + 1
    /\ outbox' = {}
    /\ UNCHANGED <<connUuid, inbox, breaks, worker, crashed, closing, history>>

\* The row id SQLite gives: one more than the largest in the table, so the id
\* of a deleted template can come back.
NextRow == 1 + Max({t \in TemplateIds : store[t] # NoRow})

AddTemplate(row) ==
    /\ Edit
    /\ NextRow \in TemplateIds
    /\ store' = [store EXCEPT ![NextRow] = row]
    /\ tpl' = [tpl EXCEPT ![NextRow] = Item(NextRow, row, {})]
    /\ UNCHANGED <<node, task>>

\* Nothing asks whether nodes of the template are alive.
DeleteTemplate(t) ==
    /\ Edit
    /\ tpl[t].listed /\ t # 1
    /\ store' = [store EXCEPT ![t] = NoRow]
    /\ tpl' = [tpl EXCEPT ![t] = NoItem]
    /\ UNCHANGED <<node, task>>

\* SetTemplateHandler up to the database: a copy of the item, its nodes
\* included, with the fields the request sets.
SetTemplateCopy(t, row) ==
    LET kept == IF tpl[t].cfg = NoConfig THEN EmptyConfig ELSE tpl[t].cfg
    IN
    /\ Edit
    /\ tpl[t].listed
    /\ \E r \in {tpl[t].replicas} \cup ({row.replicas} \ {0}), c \in {kept, row.cfg} :
          task' = [op |-> "set", tpl |-> t,
                   item |-> [tpl[t] EXCEPT !.replicas = r, !.cfg = c]]
    /\ UNCHANGED <<store, tpl, node>>

\* Mutant: the configuration column is not written.
UpdateRow_OnlyReplicas(id, row) ==
    [t \in TemplateIds |->
        IF t = id /\ store[t] # NoRow THEN [store[t] EXCEPT !.replicas = row.replicas] ELSE store[t]]

\* CConfiguation::SetTemplate: an UPDATE, which changes nothing when there is no row.
UpdateRow(id, row) ==
    [t \in TemplateIds |-> IF t = id /\ store[t] # NoRow THEN row ELSE store[t]]

\* The rest of SetTemplateHandler: update the row, put the copy back.
SetTemplateStore ==
    LET item == task.item
        row  == [replicas |-> item.replicas, cfg |-> item.cfg]
    IN
    /\ ~crashed /\ task.op = "set"
    /\ store' = UpdateRow(item.id, row)
    /\ tpl' = [tpl EXCEPT ![item.id] = item]
    /\ revived' = revived \cup (item.created \ tpl[task.tpl].created)
    /\ task' = [op |-> "idle"]
    /\ outbox' = {}
    /\ missed' = Missing(item.created)
    /\ UNCHANGED <<node, connUuid, inbox, breaks, closing, worker, edits, crashed, late>>

\* The update fails: the error is returned before anything is stored.
SetTemplateFails ==
    /\ ~crashed /\ task.op = "set"
    /\ task' = [op |-> "idle"]
    /\ outbox' = {}
    /\ UNCHANGED <<store, registry, inbox, breaks, worker, edits, crashed, closing, history>>

\* QueryNodeHandler for one template id.
QueryNode(t) ==
    /\ Edit
    /\ tpl' \in TouchTemplate(t)
    /\ node' = TouchNodes(tpl[t].created)
    /\ UNCHANGED <<store, task>>

\* QueryTemplateHandler by type reads the configuration of every item.
QueryTemplateCrashes ==
    /\ ~crashed /\ task.op = "idle"
    /\ \E t \in Ids : tpl[t].listed /\ tpl[t].cfg = NoConfig
    /\ Crash

----------------------------------------------------------------------------
(* The control thread, at any point of the process thread.                 *)

\* Mutant: the node is erased, but stays in the template's list.
RemoveCreated_Keeps(items, id, target) == items

RemoveCreated(items, id, target) == [items EXCEPT ![id].created = @ \ {target}]

\* OnSocketClosed up to the events: the referrers are gathered and told.
OnSocketClosed(c) ==
    LET target == connUuid[c]
        id == TouchNodes({target})[target].template
        notifyList == Referrers(id)
    IN
    /\ ~crashed /\ breaks[c] > 0 /\ closing.pc = "idle"
    /\ breaks' = [breaks EXCEPT ![c] = @ - 1]
    /\ IF target = Manager
       THEN outbox' = {} /\ UNCHANGED <<node, closing>>
       ELSE /\ outbox' = Events(notifyList, "offline", target)
            /\ node' = TouchNodes(notifyList \cup {target})
            /\ closing' = [pc |-> "erase", of |-> target, tpl |-> id, told |-> notifyList]
    /\ UNCHANGED <<store, tpl, connUuid, task, inbox, worker, edits, crashed, history>>

\* The node is erased.
EraseNode ==
    /\ ~crashed /\ closing.pc = "erase"
    /\ node' = [node EXCEPT ![closing.of] = NoNode]
    /\ closing' = [closing EXCEPT !.pc = "remove", !.told = {}]
    /\ missed' = {}
    /\ outbox' = {}
    /\ UNCHANGED <<store, tpl, connUuid, task, inbox, breaks, worker, edits, crashed, late, revived>>

\* Its template's list forgets it; operator[] creates the item if it is gone.
RemoveReplica ==
    /\ ~crashed /\ closing.pc = "remove"
    /\ \E touched \in TouchTemplate(closing.tpl) :
          tpl' = RemoveCreated(touched, closing.tpl, closing.of)
    /\ closing' = Closed
    /\ outbox' = {}
    /\ UNCHANGED <<store, node, connUuid, task, inbox, breaks, worker, edits, crashed, history>>

----------------------------------------------------------------------------
\* The Manager starts again, after a crash or a stop: templates come from the
\* database, nodes are gone, and every connection with it.  Workers that wait
\* for an answer give up; running ones keep running, unregistered.
ManagerRestart ==
    /\ tpl' = Load(store)
    /\ node' = [u \in Uuids |-> NoNode]
    /\ connUuid' = [c \in Conns |-> Manager]
    /\ task' = [op |-> "idle"]
    /\ inbox' = {}
    /\ breaks' = [c \in Conns |-> 0]
    /\ worker' = [w \in Workers |->
          [worker[w] EXCEPT !.conn = NoConn,
                            !.pc = IF @ \in {"wait", "poll", "registering"} THEN "dead" ELSE @]]
    /\ outbox' = {}
    /\ crashed' = FALSE
    /\ closing' = Closed
    /\ late' = {} /\ revived' = {} /\ missed' = {}
    /\ UNCHANGED <<store, edits>>

Rows == [replicas : 0 .. MaxReplicas, cfg : Configs]

WorkerNext ==
    \E w \in Workers :
       \/ AskForTemplate(w) \/ AskForReferences(w) \/ LoseConnection(w) \/ Exit(w)
       \/ \E c \in Conns : OpenConnection(w, c)

RequestNext ==
    \E r \in inbox :
       \/ RegisteWorkerNew(r) \/ RegisteWorkerKnown(r)
       \/ RegisteNodeStore(r) \/ QueryReferenceInfo(r)
       \/ CrashOnRequest(r)

EditNext ==
    \/ \E row \in Rows : AddTemplate(row) \/ \E t \in TemplateIds : SetTemplateCopy(t, row)
    \/ \E t \in TemplateIds : DeleteTemplate(t) \/ QueryNode(t)
    \/ QueryTemplateCrashes

HandlerNext == RegisteNodeMap \/ RegisteNodeNotify \/ SetTemplateStore \/ SetTemplateFails

ClosingNext == EraseNode \/ RemoveReplica

Next ==
    \/ WorkerNext \/ RequestNext \/ EditNext \/ HandlerNext \/ ClosingNext
    \/ \E c \in Conns : OnSocketClosed(c)
    \/ ManagerRestart

Spec == Init /\ [][Next]_vars

HandleRegistration(w) ==
    \E r \in inbox :
       r.from = w /\ (RegisteWorkerNew(r) \/ RegisteWorkerKnown(r) \/ CrashOnRequest(r))

\* The Manager's two threads keep running, every queued package is taken in the
\* end, and a worker polls again after its second of sleep.  Nothing promises
\* that the administrator edits, that a connection breaks or that a crashed
\* Manager is started again.
Fairness ==
    /\ \A w \in Workers : WF_vars(AskForTemplate(w))
    /\ \A w \in Workers : SF_vars(HandleRegistration(w))
    /\ WF_vars(HandlerNext)
    /\ \A c \in Conns : SF_vars(OnSocketClosed(c))
    /\ WF_vars(ClosingNext)

FairSpec == Spec /\ Fairness

----------------------------------------------------------------------------
Requests == [op : {"RegisteWorker", "RegisteNode", "QueryReferenceInfo"},
             from : Workers, conn : Conns \cup {NoConn}, tpl : Ids]
Items == [listed : BOOLEAN, id : Ids, replicas : 0 .. MaxReplicas,
          cfg : Configs \cup {NoConfig}, created : SUBSET Uuids]
Copies == {i \in Items : i.listed /\ i.cfg # NoConfig}
NodeItems == [known : BOOLEAN, template : Ids, conn : Conns \cup {NoConn}]
WorkerStates ==
    [pc : {"off", "poll", "wait", "assigned", "registering", "running", "dead"},
     conn : Conns \cup {NoConn}, tpl : Ids]
Tasks == [op : {"idle"}]
         \cup [op : {"map"}, of : Workers, tpl : Ids, conn : Conns \cup {NoConn}]
         \cup [op : {"notify"}, of : Workers, tpl : Ids]
         \cup [op : {"set"}, tpl : TemplateIds, item : Copies]
Closings ==
    {Closed}
    \cup [pc : {"erase", "remove"}, of : Workers, tpl : Ids, told : SUBSET Uuids]

TypeOK ==
    /\ store \in [TemplateIds -> Rows \cup {NoRow}]
    /\ tpl \in [Ids -> Items]
    /\ node \in [Uuids -> NodeItems]
    /\ connUuid \in [Conns -> Uuids]
    /\ task \in Tasks
    /\ inbox \subseteq Requests
    /\ breaks \in [Conns -> 0 .. 2]
    /\ closing \in Closings
    /\ worker \in [Workers -> WorkerStates]
    /\ outbox \subseteq [to : Uuids, kind : {"online", "offline"}, about : Workers]
    /\ edits \in 0 .. MaxEdits
    /\ crashed \in BOOLEAN
    /\ late \subseteq Workers /\ revived \subseteq Uuids /\ missed \subseteq Uuids

\* A uuid in a template's Created list counts as a replica, so it has to be a
\* node of that template whose connection is up, or whose break is still to be
\* handled, or one that a thread is just registering or cleaning up.  The two
\* ways the code leaves a dead replica are named: RegisteNode entering the
\* connection after OnSocketClosed of it, and SetTemplate putting back a copy
\* taken before the node was cleaned up.
UnderWay(w, t) ==
    \/ task.op = "map" /\ task.of = w /\ task.tpl = t
    \/ closing.of = w /\ closing.tpl = t

Accounted(w, t) ==
    LET c == node[w].conn
    IN  \/ UnderWay(w, t)
        \/ /\ node[w].known /\ node[w].template = t
           /\ c # NoConn /\ connUuid[c] = w
           /\ worker[w].conn = c \/ breaks[c] > 0

CreatedAreAccounted ==
    \A t \in Ids : \A w \in tpl[t].created \ (late \cup revived \cup {Manager}) : Accounted(w, t)

\* The templates the Manager serves are the ones a restart would load, with the
\* same configuration; anything else in the map has no configuration or is the
\* item 0.
MemoryMatchesStore ==
    \A t \in TemplateIds :
       /\ store[t] # NoRow =>
             tpl[t].listed /\ tpl[t].replicas = store[t].replicas /\ tpl[t].cfg = store[t].cfg
       /\ store[t] = NoRow => tpl[t].cfg = NoConfig

\* The inductive strengthening of the last two invariants.  Only an item with a
\* configuration has its own id, and only such an item has nodes.
ItemsAreWhole ==
    \A t \in Ids :
       /\ tpl[t].id \in {t, None}
       /\ IF tpl[t].cfg = NoConfig THEN tpl[t].created = {} ELSE tpl[t].id = t

RowsHaveItems == \A t \in TemplateIds : store[t] # NoRow <=> tpl[t].id = t

\* The copy SetTemplate holds is of a template with a row, or of no template.
CopyIsOfARow ==
    task.op = "set" =>
       \/ task.item.id = task.tpl /\ store[task.tpl] # NoRow
       \/ task.item.id = None /\ task.item.created = {}

\* A worker sends one RegisteNode in its life, on a connection of its own.
Settled(w) ==
    /\ worker[w].pc \in {"registering", "running", "dead"}
    /\ \A r \in inbox : r.op = "RegisteNode" => r.from # w

RegistrationsAreUnique ==
    /\ \A w \in Workers :
          worker[w].pc \in {"off", "poll", "wait", "assigned"} => worker[w].conn = NoConn
    /\ \A r \in inbox : r.op = "RegisteNode" =>
          /\ r.conn # NoConn
          /\ \/ worker[r.from].pc = "registering" /\ worker[r.from].conn = r.conn
             \/ worker[r.from].pc = "dead"
          /\ \A s \in inbox :
                s.op = "RegisteNode" /\ (s.from = r.from \/ s.conn = r.conn) => s = r

CreatedAreSettled ==
    /\ \A t \in Ids : \A w \in tpl[t].created \ {Manager} :
          /\ Settled(w)
          /\ w \notin late \cup revived /\ closing.of # w =>
                /\ \A r \in inbox : r.op = "RegisteNode" => r.conn # node[w].conn
                /\ task.op = "map" /\ task.of # w => task.conn # node[w].conn
    /\ task.op = "set" => \A w \in task.item.created \ {Manager} : Settled(w)
    /\ task.op \in {"map", "notify"} => Settled(task.of)

\* The node whose connection is being entered is the one that was stored, and it
\* is in no entry yet.
MapIsOfItsNode ==
    task.op = "map" =>
       /\ task.conn # NoConn /\ closing.of # task.of
       /\ node[task.of] = [known |-> TRUE, template |-> task.tpl, conn |-> task.conn]
       /\ \A c \in Conns : connUuid[c] # task.of
       /\ \A r \in inbox : r.op = "RegisteNode" => r.conn # task.conn

\* An entered connection is of a node that has registered, and so is a cleanup,
\* which leaves the node as it was until it erases it.
CleanupsAreOfNodes ==
    /\ \A c \in Conns : connUuid[c] # Manager => Settled(connUuid[c])
    /\ closing.pc # "idle" => Settled(closing.of)
    /\ closing.pc = "erase" => node[closing.of].known /\ node[closing.of].template = closing.tpl
    /\ closing.pc = "remove" => node[closing.of].conn = NoConn

IInv ==
    /\ TypeOK /\ ItemsAreWhole /\ RowsHaveItems /\ CopyIsOfARow
    /\ RegistrationsAreUnique /\ CreatedAreSettled /\ MapIsOfItsNode /\ CleanupsAreOfNodes
    /\ CreatedAreAccounted /\ MemoryMatchesStore

\* core.proto:130: a node is told when a node of a template it refers to goes.
\* The referrer is a running worker whose connection is up, judged, when the node
\* is erased, by its own node entry and its template's configuration, which is not
\* how the Manager looked for whom to tell.  A restart of the Manager tells
\* nobody, and a node stored between the gathering and the erasing is missed.
RefersTo(x, w) ==
    /\ worker[x].pc = "running" /\ worker[x].conn # NoConn
    /\ node[x].known /\ node[x].conn = worker[x].conn
    /\ node[w].template \in Refs(tpl[node[x].template])

AnnouncesDepartures ==
    \A w, x \in Workers :
       /\ node[w].known /\ ~node'[w].known
       /\ x # w /\ RefersTo(x, w)
       /\ ~ManagerRestart
       => closing.of = w /\ x \in closing.told \cup missed

DeparturesAreAnnounced == [][AnnouncesDepartures]_vars

\* It holds as long as no template is deleted that has nodes: the nodes of a
\* deleted template keep its id, are counted nowhere, and are told nothing when
\* the id comes back with a configuration that refers to others.
DeletesOnlyUnused == \A t \in TemplateIds : DeleteTemplate(t) => tpl[t].created = {}

\* What makes it so: a worker whose node has its open connection is counted in
\* its template, also in the copy SetTemplate is about to store.
Connected(w) ==
    worker[w].conn # NoConn /\ node[w].known /\ node[w].conn = worker[w].conn

ConnectedAreCreated ==
    /\ \A w \in Workers :
          /\ worker[w].pc = "assigned" => worker[w].tpl # None
          /\ node[w].conn # NoConn => node[w].template # None /\ Settled(w)
          /\ Connected(w) => w \in tpl[node[w].template].created
          /\ Connected(w) /\ task.op = "set" /\ task.item.id = node[w].template =>
                w \in task.item.created
    /\ \A r \in inbox : r.op = "RegisteNode" => r.tpl # None

\* Whom a cleanup under way has to have told, or will have missed.
ClosingIsTold ==
    closing.pc = "erase" =>
       \A x \in Workers \ {closing.of} :
          Connected(x) /\ closing.tpl \in Refs(tpl[node[x].template])
             => x \in closing.told \cup missed

\* What a worker may be given: the help text of main.cpp and manager.proto.
Serves(w, t) ==
    CASE Mode[w] = "Default"        -> TRUE
      [] Mode[w] = "AssignTemplate" -> t \in Targets[w]
      [] Mode[w] = "IncludeType"    -> tpl[t].cfg.type \in Targets[w]
      [] Mode[w] = "ExcludeType"    -> tpl[t].cfg.type \notin Targets[w]

Vacancies(w) ==
    {t \in TemplateIds \ {1} :
       /\ tpl[t].cfg # NoConfig /\ Serves(w, t)
       /\ Cardinality(tpl[t].created) < tpl[t].replicas}

\* A polling worker is told to wait only when no template it serves lacks a node.
ToldToWait(w) == worker[w].pc = "wait" /\ node[w].known /\ worker'[w].pc = "poll"
WaitsOnlyWhenFull(mode) ==
    \A w \in Workers : Mode[w] = mode /\ ToldToWait(w) => Vacancies(w) = {}

\* The id 0 is the answer for "no template" and may be a key of the map: a worker
\* that asks for 0, or an item 0 that SetTemplate gave a configuration, is told to
\* wait for that reason.
AsksForRealTemplates == \A w \in Workers : Mode[w] = "AssignTemplate" => None \notin Targets[w]
NoItemIsNamedNone == tpl[None].cfg = NoConfig

VacancyIsOffered ==
    [][WaitsOnlyWhenFull("AssignTemplate") /\ WaitsOnlyWhenFull("IncludeType")]_vars

\* The replica of a worker process that ended, and whose registration is through,
\* is released, so that another worker can take its place, in every case
\* CreatedAreAccounted promises it.
DeadReplica(w, t) ==
    /\ worker[w].pc = "dead" /\ w \in tpl[t].created \ (late \cup revived)
    /\ ~(task.op = "map" /\ task.of = w)

DeadReplicaIsReleased ==
    \A w \in Workers, t \in TemplateIds :
       DeadReplica(w, t) ~> w \notin tpl[t].created \/ crashed

\* A worker that polls while a template it serves stays short of nodes gets one.
Waiting(w) == worker[w].pc \in {"off", "poll", "wait"} /\ Vacancies(w) # {}
VacancyIsFilled ==
    \A w \in Workers :
       Mode[w] \in {"AssignTemplate", "IncludeType"} => (Waiting(w) ~> (~Waiting(w) \/ crashed))
=============================================================================
