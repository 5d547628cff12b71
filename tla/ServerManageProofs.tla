------------------------- MODULE ServerManageProofs -------------------------
(***************************************************************************)
(* The invariants of ServerManage, for every set of workers, connections,  *)
(* templates and configurations: first the shape of the Manager's state,   *)
(* then CreatedAreAccounted and MemoryMatchesStore.  The inductive         *)
(* invariant has two sides that do not need each other's detail: the store *)
(* side (items, rows, the copy SetTemplate holds) and the registering side *)
(* (workers, requests, connections, the nodes counted as created).  The    *)
(* registering side rests on a worker sending one RegisteNode in its life  *)
(* and on a hash code not being used again while anything of the           *)
(* connection that had it is queued or being registered.                   *)
(***************************************************************************)
EXTENDS ServerManage, FiniteSetTheorems, WellFoundedInduction, TLAPS

\* A non-empty set of naturals has a smallest member, so that Min is what it
\* says.
LEMMA Smallest ==
    ASSUME NEW S \in SUBSET Nat, S # {}
    PROVE  \E x \in S : \A y \in S : x =< y
<1>1. \E x \in S : \A y \in S : ~ (<<y, x>> \in OpToRel(<, Nat))
  BY WFMin, NatLessThanWellFounded
<1>2. \A x, y \in S : ~ (<<y, x>> \in OpToRel(<, Nat)) => x =< y
  BY DEF OpToRel
<1> QED BY <1>1, <1>2

\* The first match of a search is one of the matches, or the id 0.
LEMMA FirstOfIsMember ==
    ASSUME NEW ts \in SUBSET Ids
    PROVE  /\ FirstOf(ts) \in Ids
           /\ ts # {} => FirstOf(ts) \in ts
<1>1. ts \in SUBSET Nat
  BY ServerManageAssumption DEF Ids, None
<1>2. CASE ts = {}
  BY <1>2 DEF FirstOf, Ids
<1>3. CASE ts # {}
  BY <1>1, <1>3, Smallest DEF FirstOf, Min
<1> QED BY <1>2, <1>3

\* A row that is there is not the absent row.
LEMMA NoRowIsNoRow == \A row \in Rows : row # NoRow
BY ServerManageAssumption DEF Rows, NoRow

\* What the assumptions say of the values the definitions are written with.
LEMMA Constants ==
    /\ 1 \in Ids /\ None \in Ids /\ TemplateIds \subseteq Ids
    /\ Manager \in Uuids /\ Workers \subseteq Uuids
    /\ 0 \in 0 .. MaxReplicas /\ MaxReplicas \in 0 .. MaxReplicas
    /\ 0 \in 0 .. MaxEdits
    /\ NoRow.replicas = 0 /\ NoRow.cfg = NoConfig
    /\ None \notin TemplateIds
BY ServerManageAssumption DEF Ids, Uuids, None, NoRow

\* operator[] on the templates leaves every listed item alone and makes at
\* most empty ones.
LEMMA TouchTemplateKeeps ==
    ASSUME TypeOK, NEW t \in Ids, NEW touched \in TouchTemplate(t)
    PROVE  /\ touched \in [Ids -> Items]
           /\ \A s \in Ids : tpl[s].listed => touched[s] = tpl[s]
           /\ \A s \in Ids : touched[s] # tpl[s] =>
                 /\ ~tpl[s].listed
                 /\ touched[s].listed /\ touched[s].id = None
                 /\ touched[s].cfg = NoConfig /\ touched[s].created = {}
<1>1. GhostItems \subseteq Items
  <2> SUFFICES ASSUME NEW r \in {0, MaxReplicas}
               PROVE  Item(None, [replicas |-> r, cfg |-> NoConfig], {}) \in Items
    BY DEF GhostItems
  <2> QED BY Constants DEF Item, Items
<1> QED BY <1>1 DEF TouchTemplate, TypeOK, GhostItems, Item

\* operator[] on the nodes leaves every known node alone.
LEMMA TouchNodesKeeps ==
    ASSUME TypeOK, NEW us
    PROVE  /\ TouchNodes(us) \in [Uuids -> NodeItems]
           /\ \A u \in Uuids : node[u].known => TouchNodes(us)[u] = node[u]
           /\ \A u \in Uuids : TouchNodes(us)[u] # node[u] => TouchNodes(us)[u].conn = NoConn
           /\ \A u \in us \cap Uuids : TouchNodes(us)[u].known
BY Constants DEF TouchNodes, TypeOK, NodeItems, BlankNode, NoNode

\* Initialize makes an item of every row.
LEMMA LoadHasItems ==
    ASSUME NEW rows \in [TemplateIds -> Rows \cup {NoRow}]
    PROVE  Load(rows) \in [Ids -> Items]
<1>1. NoItem \in Items
  BY Constants DEF NoItem, Items
<1>2. \A t \in TemplateIds : rows[t] # NoRow => Item(t, rows[t], IF t = 1 THEN {Manager} ELSE {}) \in Items
  BY Constants DEF Item, Items, Rows
<1> QED BY <1>1, <1>2 DEF Load

\* A break posts one or two events.
LEMMA PostedIsTyped ==
    ASSUME TypeOK, NEW c \in Conns \cup {NoConn}, NEW b \in Posted(c)
    PROVE  b \in [Conns -> 0 .. 2]
BY DEF Posted, TypeOK

\* Events go to uuids.
LEMMA EventsAreTyped ==
    ASSUME TypeOK, NEW id, NEW kind \in {"online", "offline"}, NEW about \in Workers
    PROVE  /\ Referrers(id) \subseteq Uuids
           /\ Events(Referrers(id), kind, about) \subseteq [to : Uuids, kind : {"online", "offline"}, about : Workers]
<1>1. Referrers(id) \subseteq Uuids
  BY DEF Referrers, TypeOK, Items
<1> QED BY <1>1 DEF Events

\* The initial state has its shape.
LEMMA InitIsTyped == Init => TypeOK
<1> SUFFICES ASSUME Init PROVE TypeOK
  OBVIOUS
<1>1. store \in [TemplateIds -> Rows \cup {NoRow}]
  BY ServerManageAssumption DEF Init, Rows
<1>2. tpl \in [Ids -> Items]
  BY <1>1, LoadHasItems DEF Init
<1>3. node \in [Uuids -> NodeItems]
  BY Constants DEF Init, NoNode, NodeItems
<1>4. worker \in [Workers -> WorkerStates]
  BY Constants DEF Init, WorkerStates
<1>5. task \in Tasks
  BY DEF Init, Tasks
<1>7. edits \in 0 .. MaxEdits
  BY Constants DEF Init
<1>8. crashed \in BOOLEAN
  BY DEF Init
<1>6. connUuid \in [Conns -> Uuids] /\ breaks \in [Conns -> 0 .. 2]
  BY Constants DEF Init
<1>9. closing \in Closings
  BY DEF Init, Closings
<1> QED BY <1>1, <1>2, <1>3, <1>4, <1>5, <1>6, <1>7, <1>8, <1>9 DEF Init, TypeOK

\* An answer leaves every worker in one of its states.
LEMMA AnswerIsTyped ==
    ASSUME TypeOK, NEW w \in Workers, NEW waiting, NEW next,
           Answer(w, waiting, next),
           next \in WorkerStates
    PROVE  worker' \in [Workers -> WorkerStates]
BY DEF Answer, TypeOK

\* Steps of the worker processes keep the shape.
LEMMA WorkerStepIsTyped == TypeOK /\ WorkerNext => TypeOK'
<1> SUFFICES ASSUME TypeOK, NEW w \in Workers,
                    \/ AskForTemplate(w) \/ AskForReferences(w) \/ LoseConnection(w) \/ Exit(w)
                    \/ \E c \in Conns : OpenConnection(w, c)
             PROVE  TypeOK'
  BY DEF WorkerNext
<1> USE DEF UnchangedManager, registry, history
<1>1. CASE AskForTemplate(w)
  <2>1. Request("RegisteWorker", w) \in Requests
    BY DEF Request, Requests, TypeOK, WorkerStates
  <2>2. [worker[w] EXCEPT !.pc = "wait"] \in WorkerStates
    BY DEF TypeOK, WorkerStates
  <2> QED BY <1>1, <2>1, <2>2 DEF AskForTemplate, TypeOK
<1>2. CASE AskForReferences(w)
  <2>1. Request("QueryReferenceInfo", w) \in Requests
    BY DEF Request, Requests, TypeOK, WorkerStates
  <2> QED BY <1>2, <2>1 DEF AskForReferences, TypeOK
<1>3. CASE LoseConnection(w)
  <2>1. breaks' \in [Conns -> 0 .. 2]
    BY <1>3, PostedIsTyped DEF LoseConnection, TypeOK, WorkerStates
  <2>2. [worker[w] EXCEPT !.conn = NoConn] \in WorkerStates
    BY DEF TypeOK, WorkerStates
  <2> QED BY <1>3, <2>1, <2>2 DEF LoseConnection, TypeOK
<1>4. CASE Exit(w)
  <2>1. breaks' \in [Conns -> 0 .. 2]
    BY <1>4, PostedIsTyped DEF Exit, TypeOK, WorkerStates
  <2>2. [worker[w] EXCEPT !.pc = "dead", !.conn = NoConn] \in WorkerStates
    BY DEF TypeOK, WorkerStates
  <2> QED BY <1>4, <2>1, <2>2 DEF Exit, TypeOK
<1>5. ASSUME NEW c \in Conns, OpenConnection(w, c) PROVE TypeOK'
  <2>1. [op |-> "RegisteNode", from |-> w, conn |-> c, tpl |-> worker[w].tpl] \in Requests
    BY DEF Requests, TypeOK, WorkerStates
  <2>2. inbox' \subseteq Requests
    BY <1>5, <2>1 DEF OpenConnection, TypeOK
  <2>3. worker' \in [Workers -> WorkerStates]
    <3>1. [worker[w] EXCEPT !.pc = "registering", !.conn = c] \in WorkerStates
      BY DEF TypeOK, WorkerStates
    <3> QED BY <1>5, <3>1 DEF OpenConnection, TypeOK
  <2>4. UnchangedManager /\ breaks' = breaks /\ outbox' = {}
    BY <1>5 DEF OpenConnection
  <2> QED BY <2>2, <2>3, <2>4 DEF TypeOK
<1> QED BY <1>1, <1>2, <1>3, <1>4, <1>5

\* RegisteWorkerHandler only ever assigns a key of the map, or 0.
LEMMA AssignedIsAnId == ASSUME NEW w \in Workers PROVE Assigned(w) \in Ids
<1>1. ASSUME NEW ids PROVE SearchNeedCreateWithIDs(ids) \in Ids
  <2> DEFINE open == {t \in Ids \cap ids : NeedsNode(t)}
             bare == {t \in open : tpl[t].created = {}}
  <2>1. FirstOf(open) \in Ids /\ FirstOf(bare) \in Ids
    BY FirstOfIsMember
  <2> QED BY <2>1 DEF SearchNeedCreateWithIDs
<1>2. Mode[w] \in Modes
  BY ServerManageAssumption
<1> QED BY <1>1, <1>2, Constants DEF Assigned, Modes

\* What a queued request carries.
LEMMA RequestIsTyped ==
    ASSUME TypeOK, NEW r \in inbox
    PROVE  r.from \in Workers /\ r.conn \in Conns \cup {NoConn} /\ r.tpl \in Ids
BY DEF TypeOK, Requests

\* RegisteWorkerHandler keeps the shape.
LEMMA RegisteWorkerIsTyped ==
    ASSUME TypeOK, NEW r \in inbox, RegisteWorkerNew(r) \/ RegisteWorkerKnown(r)
    PROVE  TypeOK'
<1> USE DEF history
<1>1. r.from \in Workers /\ inbox' \subseteq Requests
  BY RequestIsTyped DEF TypeOK, RegisteWorkerNew, RegisteWorkerKnown, Take
<1>2. CASE RegisteWorkerNew(r)
  <2>1. BlankNode \in NodeItems
    BY Constants DEF BlankNode, NoNode, NodeItems
  <2>2. [worker[r.from] EXCEPT !.pc = "poll"] \in WorkerStates
    BY <1>1 DEF TypeOK, WorkerStates
  <2>3. worker' \in [Workers -> WorkerStates]
    BY <1>1, <1>2, <2>2, AnswerIsTyped DEF RegisteWorkerNew
  <2>4. node' \in [Uuids -> NodeItems]
    BY <1>1, <1>2, <2>1 DEF RegisteWorkerNew, TypeOK
  <2> QED BY <1>1, <1>2, <2>3, <2>4 DEF RegisteWorkerNew, TypeOK
<1>3. CASE RegisteWorkerKnown(r)
  <2> DEFINE index == Assigned(r.from)
  <2>1. index \in Ids /\ tpl[index].id \in Ids
    BY <1>1, AssignedIsAnId DEF TypeOK, Items
  <2>2. \A id \in Ids : /\ [worker[r.from] EXCEPT !.pc = "assigned", !.tpl = id] \in WorkerStates
                       /\ [worker[r.from] EXCEPT !.pc = "poll"] \in WorkerStates
                       /\ [worker[r.from] EXCEPT !.pc = "dead"] \in WorkerStates
    BY <1>1 DEF TypeOK, WorkerStates
  <2>3. worker' \in [Workers -> WorkerStates]
    BY <1>1, <1>3, <2>1, <2>2, AnswerIsTyped DEF RegisteWorkerKnown
  <2>4. tpl' \in [Ids -> Items]
    BY <1>3, <2>1, TouchTemplateKeeps DEF RegisteWorkerKnown, TypeOK
  <2> QED BY <1>1, <1>3, <2>3, <2>4 DEF RegisteWorkerKnown, TypeOK
<1> QED BY <1>2, <1>3

\* RegisteNodeHandler keeps the shape.
LEMMA RegisteNodeIsTyped ==
    ASSUME TypeOK, NEW r \in inbox, RegisteNodeStore(r)
    PROVE  TypeOK'
<1> USE DEF registry, history
<1> DEFINE w == r.from
           t == r.tpl
<1>1. w \in Workers /\ t \in Ids /\ r.conn \in Conns \cup {NoConn} /\ inbox' \subseteq Requests
  BY RequestIsTyped DEF TypeOK, RegisteNodeStore, Take
<1>2. CASE RegisteNodeFails(r)
  <2>1. [worker[w] EXCEPT !.pc = "dead", !.conn = NoConn] \in WorkerStates
    BY <1>1 DEF TypeOK, WorkerStates
  <2>2. worker' \in [Workers -> WorkerStates]
    BY <1>1, <1>2, <2>1, AnswerIsTyped DEF RegisteNodeStore
  <2>3. breaks' \in [Conns -> 0 .. 2]
    <3>1. worker[w].conn \in Conns \cup {NoConn}
      BY <1>1 DEF TypeOK, WorkerStates
    <3> QED BY <1>2, <3>1, PostedIsTyped DEF RegisteNodeStore
  <2> QED BY <1>1, <1>2, <2>2, <2>3 DEF RegisteNodeStore, TypeOK
<1>3. CASE ~RegisteNodeFails(r)
  <2>1. [known |-> TRUE, template |-> tpl[t].id, conn |-> r.conn] \in NodeItems
    BY <1>1 DEF TypeOK, Items, NodeItems
  <2>2. node' \in [Uuids -> NodeItems]
    BY <1>1, <1>3, <2>1 DEF RegisteNodeStore, TypeOK
  <2>3. [tpl[t] EXCEPT !.created = @ \cup {w}] \in Items
    BY <1>1, Constants DEF TypeOK, Items
  <2>4. tpl' \in [Ids -> Items]
    BY <1>1, <1>3, <2>3 DEF RegisteNodeStore, TypeOK
  <2>6. task' \in Tasks
    BY <1>1, <1>3 DEF RegisteNodeStore, Tasks
  <2>7. missed' \subseteq Uuids
    BY <1>1, <1>3, Constants DEF RegisteNodeStore, Missing, TypeOK
  <2> QED BY <1>1, <1>3, <2>2, <2>4, <2>6, <2>7 DEF RegisteNodeStore, TypeOK
<1> QED BY <1>2, <1>3

\* Entering the connection keeps the shape.
LEMMA RegisteNodeMapIsTyped == TypeOK /\ RegisteNodeMap => TypeOK'
<1> SUFFICES ASSUME TypeOK, RegisteNodeMap PROVE TypeOK'
  OBVIOUS
<1>1. task.of \in Workers /\ task.of \in Uuids /\ task.tpl \in Ids
  BY Constants DEF RegisteNodeMap, TypeOK, Tasks
<1>2. connUuid' \in [Conns -> Uuids]
  BY <1>1 DEF RegisteNodeMap, TypeOK
<1>3. late' \subseteq Workers
  BY <1>1 DEF RegisteNodeMap, TypeOK
<1>4. task' \in Tasks
  BY <1>1 DEF RegisteNodeMap, Tasks
<1> QED BY <1>2, <1>3, <1>4 DEF RegisteNodeMap, TypeOK

\* The second halves of RegisteNodeHandler and SetTemplateHandler keep the
\* shape.
LEMMA HandlerStepIsTyped == TypeOK /\ HandlerNext => TypeOK'
<1> USE DEF registry, history
<1>1. CASE TypeOK /\ RegisteNodeNotify
  <2>1. task.of \in Workers
    BY <1>1 DEF RegisteNodeNotify, TypeOK, Tasks
  <2>2. outbox' \subseteq [to : Uuids, kind : {"online", "offline"}, about : Workers]
    BY <1>1, <2>1, EventsAreTyped DEF RegisteNodeNotify
  <2>3. node' \in [Uuids -> NodeItems]
    BY <1>1, TouchNodesKeeps DEF RegisteNodeNotify, TypeOK
  <2>4. [worker[task.of] EXCEPT !.pc = "running"] \in WorkerStates
    BY <1>1, <2>1 DEF TypeOK, WorkerStates
  <2>5. worker' \in [Workers -> WorkerStates]
    BY <1>1, <2>1, <2>4, AnswerIsTyped DEF RegisteNodeNotify
  <2>6. task' \in Tasks
    BY <1>1 DEF RegisteNodeNotify, Tasks
  <2> QED BY <1>1, <2>2, <2>3, <2>5, <2>6 DEF RegisteNodeNotify, TypeOK
<1>2. CASE TypeOK /\ SetTemplateStore
  <2> DEFINE item == task.item
             row == [replicas |-> item.replicas, cfg |-> item.cfg]
  <2>1. item \in Items /\ item.cfg # NoConfig
    BY <1>2 DEF SetTemplateStore, TypeOK, Tasks, Copies
  <2>2. item.id \in Ids /\ row \in Rows /\ item.created \subseteq Uuids
    BY <2>1 DEF Items, Rows
  <2>3. tpl' \in [Ids -> Items]
    BY <1>2, <2>1, <2>2 DEF SetTemplateStore, TypeOK
  <2>4. store' \in [TemplateIds -> Rows \cup {NoRow}]
    BY <1>2, <2>2 DEF SetTemplateStore, UpdateRow, TypeOK
  <2>5. revived' \subseteq Uuids
    BY <1>2, <2>2 DEF SetTemplateStore, TypeOK
  <2>6. task' \in Tasks
    BY <1>2 DEF SetTemplateStore, Tasks
  <2>7. missed' \subseteq Uuids
    BY <1>2, <2>2 DEF SetTemplateStore, Missing, TypeOK
  <2> QED BY <1>2, <2>3, <2>4, <2>5, <2>6, <2>7 DEF SetTemplateStore, TypeOK
<1>3. CASE TypeOK /\ SetTemplateFails
  <2>1. task' \in Tasks
    BY <1>3 DEF SetTemplateFails, Tasks
  <2> QED BY <1>3, <2>1 DEF SetTemplateFails, TypeOK
<1> QED BY <1>1, <1>2, <1>3, RegisteNodeMapIsTyped DEF HandlerNext

\* OnSocketClosed keeps the shape.
LEMMA OnSocketClosedIsTyped ==
    ASSUME TypeOK, NEW c \in Conns, OnSocketClosed(c)
    PROVE  TypeOK'
<1> DEFINE target == connUuid[c]
           id == TouchNodes({target})[target].template
           notifyList == Referrers(id)
<1>1. breaks' \in [Conns -> 0 .. 2]
  BY DEF OnSocketClosed, TypeOK
<1>2. CASE target = Manager
  BY <1>1, <1>2 DEF OnSocketClosed, TypeOK, history
<1>3. CASE target # Manager
  <2>1. target \in Workers /\ target \in Uuids
    BY <1>3, Constants DEF TypeOK, Uuids
  <2>2. id \in Ids
    BY <2>1, TouchNodesKeeps DEF NodeItems
  <2>3. /\ notifyList \subseteq Uuids
        /\ outbox' \subseteq [to : Uuids, kind : {"online", "offline"}, about : Workers]
    <3>1. outbox' = Events(notifyList, "offline", target)
      BY <1>3 DEF OnSocketClosed
    <3> QED BY <2>1, <3>1, EventsAreTyped
  <2> HIDE DEF notifyList, id
  <2>4. node' \in [Uuids -> NodeItems]
    <3>1. \E us : node' = TouchNodes(us)
      BY <1>3 DEF OnSocketClosed
    <3> QED BY <3>1, TouchNodesKeeps
  <2>5. closing' = [pc |-> "erase", of |-> target, tpl |-> id, told |-> notifyList]
    BY <1>3 DEF OnSocketClosed, id, notifyList
  <2>6. closing' \in Closings
    BY <2>1, <2>2, <2>3, <2>5 DEF Closings
  <2>7. UNCHANGED <<store, tpl, connUuid, task, inbox, worker, edits, crashed, late, revived, missed>>
    BY DEF OnSocketClosed, history
  <2> QED BY <1>1, <2>3, <2>4, <2>6, <2>7 DEF TypeOK
<1> QED BY <1>2, <1>3

\* What a cleanup under way holds.
LEMMA ClosingIsTyped ==
    ASSUME TypeOK, closing.pc # "idle"
    PROVE  /\ closing.of \in Workers /\ closing.of \in Uuids /\ closing.tpl \in Ids
           /\ closing.of # Manager /\ closing.told \subseteq Uuids
BY Constants, ServerManageAssumption DEF TypeOK, Closings, Closed

\* The rest of OnSocketClosed keeps the shape.
LEMMA ClosingStepIsTyped == TypeOK /\ ClosingNext => TypeOK'
<1>1. ASSUME TypeOK, EraseNode PROVE TypeOK'
  <2>1. closing.pc = "erase" /\ closing.of \in Workers /\ closing.of \in Uuids /\ closing.tpl \in Ids
    BY <1>1, ClosingIsTyped DEF EraseNode
  <2>2. NoNode \in NodeItems
    BY Constants DEF NodeItems, NoNode
  <2>3. node' \in [Uuids -> NodeItems]
    BY <1>1, <2>1, <2>2 DEF EraseNode, TypeOK
  <2>4. closing' \in Closings
    <3>1. closing \in [pc : {"erase", "remove"}, of : Workers, tpl : Ids, told : SUBSET Uuids]
      BY <1>1, <2>1 DEF TypeOK, Closings, Closed
    <3>2. closing' = [closing EXCEPT !.pc = "remove", !.told = {}]
      BY <1>1 DEF EraseNode
    <3> QED BY <3>1, <3>2 DEF Closings
  <2>5. /\ outbox' = {} /\ missed' = {}
        /\ UNCHANGED <<store, tpl, connUuid, task, inbox, breaks, worker, edits, crashed, late, revived>>
    BY <1>1 DEF EraseNode
  <2> QED BY <1>1, <2>3, <2>4, <2>5 DEF TypeOK
<1>2. ASSUME TypeOK, RemoveReplica PROVE TypeOK'
  <2> DEFINE id == closing.tpl
  <2>1. closing.of \in Workers /\ id \in Ids
    BY <1>2, ClosingIsTyped DEF RemoveReplica
  <2>2. PICK touched \in TouchTemplate(id) : tpl' = RemoveCreated(touched, id, closing.of)
    BY <1>2 DEF RemoveReplica
  <2>3. touched \in [Ids -> Items]
    BY <1>2, <2>1, TouchTemplateKeeps
  <2>4. tpl' \in [Ids -> Items]
    <3>1. [touched[id] EXCEPT !.created = @ \ {closing.of}] \in Items
      BY <2>1, <2>3 DEF Items
    <3> QED BY <2>1, <2>2, <2>3, <3>1 DEF RemoveCreated
  <2>5. closing' \in Closings
    BY <1>2 DEF RemoveReplica, Closings
  <2>6. /\ outbox' = {}
        /\ UNCHANGED <<store, node, connUuid, task, inbox, breaks, worker, edits, crashed, late, revived, missed>>
    BY <1>2 DEF RemoveReplica, history
  <2> QED BY <1>2, <2>4, <2>5, <2>6 DEF TypeOK
<1> QED BY <1>1, <1>2 DEF ClosingNext

\* The frame of the administrator's requests.
LEMMA EditIsTyped ==
    ASSUME TypeOK, Edit,
           store' \in [TemplateIds -> Rows \cup {NoRow}], tpl' \in [Ids -> Items],
           node' \in [Uuids -> NodeItems], task' \in Tasks
    PROVE  TypeOK'
<1>1. edits' \in 0 .. MaxEdits
  BY ServerManageAssumption DEF Edit, TypeOK
<1> QED BY <1>1 DEF Edit, TypeOK, history

\* The administrator's requests keep the shape.
LEMMA EditStepIsTyped == TypeOK /\ EditNext /\ ~QueryTemplateCrashes => TypeOK'
<1>1. ASSUME TypeOK, NEW row \in Rows, AddTemplate(row) PROVE TypeOK'
  <2>1. NextRow \in TemplateIds /\ NextRow \in Ids
    BY <1>1, Constants DEF AddTemplate
  <2>2. Item(NextRow, row, {}) \in Items
    BY <2>1 DEF Item, Items, Rows
  <2>3. tpl' \in [Ids -> Items] /\ store' \in [TemplateIds -> Rows \cup {NoRow}]
    BY <1>1, <2>1, <2>2 DEF AddTemplate, TypeOK
  <2>4. Edit /\ UNCHANGED <<node, task>>
    BY <1>1 DEF AddTemplate
  <2> QED BY <1>1, <2>3, <2>4, EditIsTyped DEF TypeOK
<1>2. ASSUME TypeOK, NEW t \in TemplateIds, DeleteTemplate(t) PROVE TypeOK'
  <2>1. NoItem \in Items
    BY Constants DEF NoItem, Items
  <2>2. tpl' \in [Ids -> Items] /\ store' \in [TemplateIds -> Rows \cup {NoRow}]
    BY <1>2, <2>1, Constants DEF DeleteTemplate, TypeOK
  <2>3. Edit /\ UNCHANGED <<node, task>>
    BY <1>2 DEF DeleteTemplate
  <2> QED BY <1>2, <2>2, <2>3, EditIsTyped DEF TypeOK
<1>3. ASSUME TypeOK, NEW t \in TemplateIds, NEW row \in Rows, SetTemplateCopy(t, row) PROVE TypeOK'
  <2>1. tpl[t] \in Items /\ tpl[t].listed
    BY <1>3, Constants DEF SetTemplateCopy, TypeOK
  <2> DEFINE kept == IF tpl[t].cfg = NoConfig THEN EmptyConfig ELSE tpl[t].cfg
  <2>2. PICK r \in {tpl[t].replicas} \cup ({row.replicas} \ {0}), c \in {kept, row.cfg} :
          task' = [op |-> "set", tpl |-> t, item |-> [tpl[t] EXCEPT !.replicas = r, !.cfg = c]]
    BY <1>3 DEF SetTemplateCopy
  <2>3. r \in 0 .. MaxReplicas /\ c \in Configs /\ c # NoConfig
    BY <2>1, ServerManageAssumption DEF Items, Rows
  <2>4. [tpl[t] EXCEPT !.replicas = r, !.cfg = c] \in Copies
    BY <2>1, <2>3 DEF Items, Copies
  <2>5. task' \in Tasks
    BY <2>2, <2>4 DEF Tasks
  <2>6. Edit /\ UNCHANGED <<store, tpl, node>>
    BY <1>3 DEF SetTemplateCopy
  <2> QED BY <1>3, <2>5, <2>6, EditIsTyped DEF TypeOK
<1>4. ASSUME TypeOK, NEW t \in TemplateIds, QueryNode(t) PROVE TypeOK'
  <2>1. tpl' \in [Ids -> Items]
    BY <1>4, Constants, TouchTemplateKeeps DEF QueryNode
  <2>2. node' \in [Uuids -> NodeItems]
    BY <1>4, TouchNodesKeeps DEF QueryNode
  <2>3. Edit /\ UNCHANGED <<store, task>>
    BY <1>4 DEF QueryNode
  <2> QED BY <1>4, <2>1, <2>2, <2>3, EditIsTyped DEF TypeOK
<1> QED BY <1>1, <1>2, <1>3, <1>4 DEF EditNext

\* A crash changes nothing else.
LEMMA CrashIsTyped == TypeOK /\ Crash => TypeOK'
BY DEF Crash, TypeOK, registry, history

\* QueryReferenceInfoHandler keeps the shape.
LEMMA QueryReferenceInfoIsTyped ==
    ASSUME TypeOK, NEW r \in inbox, QueryReferenceInfo(r)
    PROVE  TypeOK'
<1>1. node' \in [Uuids -> NodeItems]
  BY TouchNodesKeeps DEF QueryReferenceInfo, TypeOK
<1>2. inbox' \subseteq Requests
  BY DEF QueryReferenceInfo, Take, TypeOK
<1>3. UNCHANGED <<store, tpl, connUuid, task, breaks, worker, edits, crashed, closing, late, revived, missed>> /\ outbox' = {}
  BY DEF QueryReferenceInfo, history
<1> QED BY <1>1, <1>2, <1>3 DEF TypeOK

\* A restart keeps the shape.
LEMMA RestartIsTyped == TypeOK /\ ManagerRestart => TypeOK'
<1> SUFFICES ASSUME TypeOK, ManagerRestart PROVE TypeOK'
  OBVIOUS
<1>1. tpl' \in [Ids -> Items]
  BY LoadHasItems DEF ManagerRestart, TypeOK
<1>2. node' \in [Uuids -> NodeItems]
  <2>1. NoNode \in NodeItems
    BY Constants DEF NoNode, NodeItems
  <2> QED BY <2>1 DEF ManagerRestart
<1>5. connUuid' \in [Conns -> Uuids]
  BY Constants DEF ManagerRestart
<1>6. breaks' \in [Conns -> 0 .. 2]
  <2>1. breaks' = [c \in Conns |-> 0]
    BY DEF ManagerRestart
  <2> QED BY <2>1
<1>3. task' \in Tasks
  BY DEF ManagerRestart, Tasks
<1>4. worker' \in [Workers -> WorkerStates]
  BY DEF ManagerRestart, TypeOK, WorkerStates
<1>7. closing' \in Closings
  BY DEF ManagerRestart, Closings
<1> QED BY <1>1, <1>2, <1>3, <1>4, <1>5, <1>6, <1>7 DEF ManagerRestart, TypeOK

\* Every step keeps the shape.
LEMMA StepIsTyped == TypeOK /\ [Next]_vars => TypeOK'
<1>1. ASSUME TypeOK, RequestNext PROVE TypeOK'
  BY <1>1, RegisteWorkerIsTyped, RegisteNodeIsTyped, QueryReferenceInfoIsTyped, CrashIsTyped
     DEF RequestNext, CrashOnRequest
<1>2. ASSUME TypeOK, EditNext PROVE TypeOK'
  BY <1>2, EditStepIsTyped, CrashIsTyped DEF QueryTemplateCrashes
<1>3. ASSUME TypeOK, UNCHANGED vars PROVE TypeOK'
  BY <1>3 DEF vars, registry, history, TypeOK
<1> QED BY <1>1, <1>2, <1>3, WorkerStepIsTyped, HandlerStepIsTyped, OnSocketClosedIsTyped,
           ClosingStepIsTyped, RestartIsTyped DEF Next

\* The registry, the queues, the workers and what a handler is in the middle of
\* keep their shape in every behaviour of the Manager and its workers.
THEOREM ManagerTypes == Spec => []TypeOK
BY InitIsTyped, StepIsTyped, PTL DEF Spec

-----------------------------------------------------------------------------
(* The templates and the nodes counted as created. *)


\* The side of the rows, the items and the copy.
StoreSide == ItemsAreWhole /\ RowsHaveItems /\ CopyIsOfARow /\ MemoryMatchesStore

\* Initialize lists one item for every row.
LEMMA InitStoreSide == Init => StoreSide
<1> SUFFICES ASSUME Init PROVE StoreSide
  OBVIOUS
<1>1. TypeOK
  BY InitIsTyped
<1>2. \A t \in Ids :
        tpl[t] = IF t \in TemplateIds /\ store[t] # NoRow
                 THEN Item(t, store[t], IF t = 1 THEN {Manager} ELSE {}) ELSE NoItem
  BY DEF Init, Load
<1>3. ItemsAreWhole
  <2> SUFFICES ASSUME NEW t \in Ids
               PROVE  /\ tpl[t].id \in {t, None}
                      /\ IF tpl[t].cfg = NoConfig THEN tpl[t].created = {} ELSE tpl[t].id = t
    BY DEF ItemsAreWhole
  <2>1. CASE t \in TemplateIds /\ store[t] # NoRow
    <3>1. store[t].cfg # NoConfig
      BY <1>1, <2>1, ServerManageAssumption DEF TypeOK, Rows
    <3>2. tpl[t] = Item(t, store[t], IF t = 1 THEN {Manager} ELSE {})
      BY <1>2, <2>1
    <3>3. tpl[t].cfg = store[t].cfg /\ tpl[t].id = t
      BY <3>2 DEF Item
    <3> QED BY <3>1, <3>3
  <2>2. CASE ~(t \in TemplateIds /\ store[t] # NoRow)
    BY <1>2, <2>2 DEF NoItem
  <2> QED BY <2>1, <2>2
<1>4. RowsHaveItems /\ MemoryMatchesStore
  <2>1. ASSUME NEW t \in TemplateIds, store[t] # NoRow
        PROVE  /\ tpl[t].id = t /\ tpl[t].listed
               /\ tpl[t].replicas = store[t].replicas /\ tpl[t].cfg = store[t].cfg
    <3>1. tpl[t] = Item(t, store[t], IF t = 1 THEN {Manager} ELSE {})
      BY <1>2, <2>1, Constants
    <3> QED BY <3>1 DEF Item
  <2>2. ASSUME NEW t \in TemplateIds, store[t] = NoRow
        PROVE  tpl[t].id # t /\ tpl[t].cfg = NoConfig
    <3>1. tpl[t] = NoItem
      BY <1>2, <2>2, Constants
    <3> QED BY <3>1, Constants DEF NoItem
  <2> QED BY <2>1, <2>2 DEF RowsHaveItems, MemoryMatchesStore
<1>5. CopyIsOfARow
  BY DEF Init, CopyIsOfARow
<1> QED BY <1>3, <1>4, <1>5 DEF StoreSide

\* Nothing of an item changed but the nodes created for it, or operator[] made
\* an item where there was none.
SameItem(s) ==
    /\ tpl'[s].listed = tpl[s].listed /\ tpl'[s].id = tpl[s].id
    /\ tpl'[s].replicas = tpl[s].replicas /\ tpl'[s].cfg = tpl[s].cfg
    /\ tpl[s].cfg = NoConfig => tpl'[s].created = {}
NewGhost(s) ==
    /\ ~tpl[s].listed
    /\ tpl'[s].listed /\ tpl'[s].id = None /\ tpl'[s].cfg = NoConfig /\ tpl'[s].created = {}

\* A step that changes items only in the two ways above, and no row, keeps the
\* store side.
LEMMA ItemsKept ==
    ASSUME StoreSide, store' = store, task' = task \/ task'.op # "set",
           \A s \in Ids : SameItem(s) \/ NewGhost(s)
    PROVE  StoreSide'
<1>1. ItemsAreWhole'
  BY DEF StoreSide, ItemsAreWhole, SameItem, NewGhost
<1>2. \A t \in TemplateIds : ~tpl[t].listed => store[t] = NoRow
  BY DEF StoreSide, MemoryMatchesStore
<1>3. RowsHaveItems' /\ MemoryMatchesStore'
  BY <1>2, Constants DEF StoreSide, RowsHaveItems, MemoryMatchesStore, SameItem, NewGhost
<1>4. CopyIsOfARow'
  BY DEF StoreSide, CopyIsOfARow
<1> QED BY <1>1, <1>3, <1>4 DEF StoreSide

\* operator[] changes items in one of the two ways.
LEMMA TouchedKept ==
    ASSUME TypeOK, StoreSide, NEW t \in Ids, tpl' \in TouchTemplate(t), NEW s \in Ids
    PROVE  SameItem(s) \/ NewGhost(s)
<1>1. CASE tpl'[s] = tpl[s]
  BY <1>1 DEF SameItem, StoreSide, ItemsAreWhole
<1>2. CASE tpl'[s] # tpl[s]
  BY <1>2, TouchTemplateKeeps DEF NewGhost
<1> QED BY <1>1, <1>2

\* So does a step that changes none.
LEMMA UntouchedKept ==
    ASSUME StoreSide, tpl' = tpl
    PROVE  \A s \in Ids : SameItem(s)
BY DEF SameItem, StoreSide, ItemsAreWhole

\* OnSocketClosed keeps the store side.
LEMMA OnSocketClosedKept ==
    ASSUME StoreSide, NEW c \in Conns, OnSocketClosed(c)
    PROVE  StoreSide'
BY UntouchedKept, ItemsKept DEF OnSocketClosed

\* So does the rest of it.
LEMMA ClosingKept ==
    ASSUME TypeOK, StoreSide, ClosingNext
    PROVE  StoreSide'
<1>1. store' = store /\ task' = task
  BY DEF ClosingNext, EraseNode, RemoveReplica
<1>2. CASE EraseNode
  BY <1>1, <1>2, UntouchedKept, ItemsKept DEF EraseNode
<1>3. CASE RemoveReplica
  <2> DEFINE id == closing.tpl
  <2>1. PICK touched \in TouchTemplate(id) : tpl' = RemoveCreated(touched, id, closing.of)
    BY <1>3 DEF RemoveReplica
  <2>2. id \in Ids
    BY <1>3, ClosingIsTyped DEF RemoveReplica
  <2>3. touched \in [Ids -> Items]
    BY <2>2, TouchTemplateKeeps
  <2>4. ASSUME NEW s \in Ids PROVE SameItem(s) \/ NewGhost(s)
    <3>1. /\ tpl'[s].listed = touched[s].listed /\ tpl'[s].id = touched[s].id
          /\ tpl'[s].replicas = touched[s].replicas /\ tpl'[s].cfg = touched[s].cfg
          /\ tpl'[s].created \subseteq touched[s].created
      BY <2>1, <2>2, <2>3 DEF RemoveCreated, Items
    <3>2. CASE touched[s] = tpl[s]
      BY <3>1, <3>2 DEF SameItem, StoreSide, ItemsAreWhole
    <3>3. CASE touched[s] # tpl[s]
      <4>1. /\ ~tpl[s].listed
            /\ touched[s].listed /\ touched[s].id = None
            /\ touched[s].cfg = NoConfig /\ touched[s].created = {}
        BY <2>2, <3>3, TouchTemplateKeeps
      <4> QED BY <3>1, <4>1 DEF NewGhost
    <3> QED BY <3>2, <3>3
  <2> QED BY <1>1, <2>4, ItemsKept
<1> QED BY <1>2, <1>3 DEF ClosingNext

\* The administrator's requests keep the store side.
LEMMA EditKept ==
    ASSUME TypeOK, TypeOK', StoreSide, EditNext
    PROVE  StoreSide'
<1>1. ASSUME NEW row \in Rows, AddTemplate(row) PROVE StoreSide'
  <2> DEFINE id == NextRow
  <2>1. /\ id \in TemplateIds /\ id \in Ids /\ id # None /\ row # NoRow /\ row.cfg # NoConfig
        /\ task' = task
    BY <1>1, Constants, NoRowIsNoRow, ServerManageAssumption DEF AddTemplate, Rows
  <2>2. /\ store'[id] = row
        /\ \A s \in TemplateIds : s # id => store'[s] = store[s]
    BY <1>1, <2>1 DEF AddTemplate, TypeOK
  <2>3. /\ tpl'[id] = Item(id, row, {})
        /\ \A s \in Ids : s # id => tpl'[s] = tpl[s]
    BY <1>1, <2>1 DEF AddTemplate, TypeOK
  <2>4. /\ tpl'[id].id = id /\ tpl'[id].listed /\ tpl'[id].replicas = row.replicas
        /\ tpl'[id].cfg = row.cfg
    BY <2>3 DEF Item
  <2>5. ItemsAreWhole'
    BY <2>1, <2>3, <2>4 DEF StoreSide, ItemsAreWhole
  <2>6. RowsHaveItems' /\ MemoryMatchesStore'
    BY <2>1, <2>2, <2>3, <2>4, Constants DEF StoreSide, RowsHaveItems, MemoryMatchesStore
  <2>7. CopyIsOfARow'
    BY <1>1, <2>1 DEF AddTemplate, Edit, CopyIsOfARow
  <2> QED BY <2>5, <2>6, <2>7 DEF StoreSide
<1>2. ASSUME NEW id \in TemplateIds, DeleteTemplate(id) PROVE StoreSide'
  <2>1. id \in Ids /\ id # None /\ task' = task /\ task.op = "idle"
    BY <1>2, Constants DEF DeleteTemplate, Edit
  <2>2. /\ store'[id] = NoRow
        /\ \A s \in TemplateIds : s # id => store'[s] = store[s]
    BY <1>2 DEF DeleteTemplate, TypeOK
  <2>3. /\ tpl'[id] = NoItem
        /\ \A s \in Ids : s # id => tpl'[s] = tpl[s]
    BY <1>2, <2>1 DEF DeleteTemplate, TypeOK
  <2>4. tpl'[id].id = None /\ tpl'[id].cfg = NoConfig /\ tpl'[id].created = {}
    BY <2>3 DEF NoItem
  <2>5. ItemsAreWhole'
    BY <2>1, <2>3, <2>4 DEF StoreSide, ItemsAreWhole
  <2>6. RowsHaveItems' /\ MemoryMatchesStore'
    BY <2>1, <2>2, <2>3, <2>4, Constants DEF StoreSide, RowsHaveItems, MemoryMatchesStore
  <2>7. CopyIsOfARow'
    BY <2>1 DEF CopyIsOfARow
  <2> QED BY <2>5, <2>6, <2>7 DEF StoreSide
<1>3. ASSUME NEW t \in TemplateIds, NEW row \in Rows, SetTemplateCopy(t, row) PROVE StoreSide'
  <2>1. store' = store /\ tpl' = tpl /\ t \in Ids
    BY <1>3, Constants DEF SetTemplateCopy
  <2>2. PICK r, c : task' = [op |-> "set", tpl |-> t, item |-> [tpl[t] EXCEPT !.replicas = r, !.cfg = c]]
    BY <1>3 DEF SetTemplateCopy
  <2>3. tpl[t] \in Items
    BY <2>1 DEF TypeOK
  <2>4. task'.tpl = t /\ task'.item.id = tpl[t].id /\ task'.item.created = tpl[t].created
    BY <2>2, <2>3 DEF Items
  <2>5. CopyIsOfARow'
    <3>1. CASE tpl[t].id = t
      BY <2>1, <2>4, <3>1 DEF CopyIsOfARow, StoreSide, RowsHaveItems
    <3>2. CASE tpl[t].id # t
      BY <2>1, <2>4, <3>2 DEF CopyIsOfARow, StoreSide, ItemsAreWhole
    <3> QED BY <3>1, <3>2
  <2>6. (ItemsAreWhole /\ RowsHaveItems /\ MemoryMatchesStore)'
    BY <2>1 DEF StoreSide, ItemsAreWhole, RowsHaveItems, MemoryMatchesStore
  <2> QED BY <2>5, <2>6 DEF StoreSide
<1>4. ASSUME NEW t \in TemplateIds, QueryNode(t) PROVE StoreSide'
  <2>1. tpl' \in TouchTemplate(t) /\ store' = store /\ task' = task /\ t \in Ids
    BY <1>4, Constants DEF QueryNode
  <2> QED BY <2>1, TouchedKept, ItemsKept
<1>5. ASSUME QueryTemplateCrashes PROVE StoreSide'
  BY <1>5, UntouchedKept, ItemsKept DEF QueryTemplateCrashes, Crash, registry
<1> QED BY <1>1, <1>2, <1>3, <1>4, <1>5 DEF EditNext

\* Storing SetTemplate's copy writes the row it puts back.
LEMMA HandlerKept ==
    ASSUME TypeOK, TypeOK', StoreSide, HandlerNext
    PROVE  StoreSide'
<1>1. ASSUME RegisteNodeMap \/ RegisteNodeNotify PROVE StoreSide'
  <2>1. store' = store /\ tpl' = tpl /\ task'.op # "set"
    BY <1>1 DEF RegisteNodeMap, RegisteNodeNotify
  <2> QED BY <2>1, UntouchedKept, ItemsKept
<1>2. ASSUME SetTemplateFails PROVE StoreSide'
  <2>1. store' = store /\ tpl' = tpl /\ task'.op # "set"
    BY <1>2 DEF SetTemplateFails, registry
  <2> QED BY <2>1, UntouchedKept, ItemsKept
<1>3. ASSUME SetTemplateStore PROVE StoreSide'
  <2> DEFINE item == task.item
             id == item.id
             row == [replicas |-> item.replicas, cfg |-> item.cfg]
  <2>1. item \in Items /\ item.listed /\ item.cfg # NoConfig /\ task.op = "set"
    BY <1>3 DEF SetTemplateStore, TypeOK, Tasks, Copies
  <2>2. id \in Ids /\ row # NoRow
    BY <2>1 DEF Items, NoRow
  <2>3. /\ \A s \in TemplateIds : store'[s] = IF s = id /\ store[s] # NoRow THEN row ELSE store[s]
        /\ task'.op # "set"
    BY <1>3 DEF SetTemplateStore, UpdateRow
  <2>4. /\ tpl'[id] = item
        /\ \A s \in Ids : s # id => tpl'[s] = tpl[s]
    BY <1>3, <2>2 DEF SetTemplateStore, TypeOK
  <2>5. id \in TemplateIds => store[id] # NoRow
    BY <2>1, Constants DEF StoreSide, CopyIsOfARow
  <2>6. ItemsAreWhole'
    BY <2>1, <2>4 DEF StoreSide, ItemsAreWhole
  <2>7. RowsHaveItems'
    BY <2>2, <2>3, <2>4, <2>5, Constants DEF StoreSide, RowsHaveItems
  <2>8. MemoryMatchesStore'
    BY <2>1, <2>2, <2>3, <2>4, <2>5, Constants DEF StoreSide, MemoryMatchesStore
  <2>9. CopyIsOfARow'
    BY <2>3 DEF CopyIsOfARow
  <2> QED BY <2>6, <2>7, <2>8, <2>9 DEF StoreSide
<1> QED BY <1>1, <1>2, <1>3 DEF HandlerNext

\* The workers' requests keep the store side.
LEMMA RequestKept ==
    ASSUME TypeOK, StoreSide, NEW r \in inbox,
           \/ RegisteWorkerNew(r) \/ RegisteWorkerKnown(r) \/ RegisteNodeStore(r)
           \/ QueryReferenceInfo(r) \/ CrashOnRequest(r)
    PROVE  StoreSide'
<1>1. CASE RegisteWorkerNew(r) \/ QueryReferenceInfo(r) \/ CrashOnRequest(r)
  <2>1. store' = store /\ tpl' = tpl /\ task' = task
    BY <1>1 DEF RegisteWorkerNew, QueryReferenceInfo, CrashOnRequest, Crash, registry
  <2> QED BY <2>1, UntouchedKept, ItemsKept
<1>2. CASE RegisteWorkerKnown(r)
  <2>1. store' = store /\ task' = task
    BY <1>2 DEF RegisteWorkerKnown
  <2>2. CASE tpl' = tpl
    BY <2>1, <2>2, UntouchedKept, ItemsKept
  <2>3. CASE tpl' \in TouchTemplate(tpl[Assigned(r.from)].id)
    <3>1. tpl[Assigned(r.from)].id \in Ids
      BY RequestIsTyped, AssignedIsAnId DEF TypeOK, Items
    <3> QED BY <2>1, <2>3, <3>1, TouchedKept, ItemsKept
  <2> QED BY <1>2, <2>2, <2>3 DEF RegisteWorkerKnown
<1>3. CASE RegisteNodeStore(r)
  <2>1. store' = store /\ (task' = task \/ task'.op # "set")
    BY <1>3 DEF RegisteNodeStore
  <2>2. CASE RegisteNodeFails(r)
    BY <1>3, <2>1, <2>2, UntouchedKept, ItemsKept DEF RegisteNodeStore, registry
  <2>3. CASE ~RegisteNodeFails(r)
    <3>1. r.tpl \in Ids /\ tpl[r.tpl].cfg # NoConfig
      BY <1>3, <2>3, RequestIsTyped DEF RegisteNodeStore
    <3>2. tpl' = [tpl EXCEPT ![r.tpl].created = @ \cup {r.from}]
      BY <1>3, <2>3 DEF RegisteNodeStore
    <3>3. \A s \in Ids : SameItem(s)
      BY <3>1, <3>2 DEF SameItem, StoreSide, ItemsAreWhole, TypeOK, Items
    <3> QED BY <2>1, <3>3, ItemsKept
  <2> QED BY <2>2, <2>3
<1> QED BY <1>1, <1>2, <1>3

\* The side of the workers, the requests and the nodes counted as created.
RegisteringSide ==
    /\ RegistrationsAreUnique /\ CreatedAreSettled
    /\ MapIsOfItsNode /\ CleanupsAreOfNodes /\ CreatedAreAccounted

Early == {"off", "poll", "wait", "assigned"}

\* How a worker may move in a step that neither opens a connection nor starts
\* the Manager again.
Moves(w) ==
    /\ \/ worker'[w].conn = worker[w].conn
       \/ /\ worker'[w].conn = NoConn
          /\ worker[w].conn # NoConn => breaks'[worker[w].conn] > 0
    /\ \/ worker'[w] = worker[w]
       \/ worker'[w].pc = "dead"
       \/ worker[w].pc \in Early /\ worker'[w].pc \in Early
       \/ Settled(w) /\ worker'[w].pc = "running"

\* A worker that has registered stays registered.
LEMMA MovesKeepSettled ==
    ASSUME NEW w \in Workers, Moves(w), Settled(w),
           \A r \in inbox' : r.op = "RegisteNode" => r \in inbox
    PROVE  Settled(w)'
BY DEF Moves, Settled, Early

\* A node that is known stays as it is, and one that operator[] or the allocation
\* of a uuid makes has no connection.
NodeKept(w) == node'[w] = node[w] \/ (~node[w].known /\ node'[w].conn = NoConn)

LEMMA TouchedNodeKept ==
    ASSUME TypeOK, NEW us, NEW w \in Workers, node' = TouchNodes(us)
    PROVE  NodeKept(w)
BY TouchNodesKeeps, Constants DEF NodeKept

\* Whoever a cleanup or a registration is of is a worker.
LEMMA UnderWayAreWorkers ==
    ASSUME TypeOK
    PROVE  /\ task.op \in {"map", "notify"} => task.of \in Workers /\ task.tpl \in Ids
           /\ closing.pc = "idle" => closing.of = Manager
           /\ \A c \in Conns : connUuid[c] # Manager => connUuid[c] \in Workers
BY DEF TypeOK, Tasks, Closings, Closed, Uuids

\* The frame of every step that registers no node and cleans none up.
LEMMA RegisteringFrame ==
    ASSUME TypeOK, TypeOK', RegisteringSide,
           \A w \in Workers : Moves(w),
           \A r \in inbox' : r.op = "RegisteNode" => r \in inbox,
           \A c \in Conns : breaks[c] > 0 => breaks'[c] > 0,
           connUuid' = connUuid, closing' = closing, late' = late, revived \subseteq revived',
           \A u \in Workers : NodeKept(u),
           \A t \in Ids : \A w \in tpl'[t].created \ {Manager} :
              w \in tpl[t].created \/ (Settled(w) /\ w \in revived'),
           \/ task' = task
           \/ task.op # "map" /\ task'.op = "idle"
           \/ /\ task.op # "map" /\ task'.op = "set"
              /\ \A w \in task'.item.created \ {Manager} : Settled(w)
    PROVE  RegisteringSide'
<1>1. \A t \in Ids : tpl[t].created \ {Manager} \subseteq Workers /\ tpl'[t].created \ {Manager} \subseteq Workers
  BY DEF TypeOK, Items, Uuids
<1>2. \A r \in inbox : r.from \in Workers
  BY RequestIsTyped
<1>3. RegistrationsAreUnique'
  <2>1. ASSUME NEW w \in Workers, worker'[w].pc \in Early PROVE worker'[w].conn = NoConn
    BY <2>1 DEF Moves, Early, RegisteringSide, RegistrationsAreUnique, Settled
  <2>2. ASSUME NEW r \in inbox', r.op = "RegisteNode"
        PROVE  /\ r.conn # NoConn
               /\ \/ worker'[r.from].pc = "registering" /\ worker'[r.from].conn = r.conn
                  \/ worker'[r.from].pc = "dead"
               /\ \A s \in inbox' :
                     s.op = "RegisteNode" /\ (s.from = r.from \/ s.conn = r.conn) => s = r
    <3>1. r \in inbox /\ r.from \in Workers
      BY <1>2, <2>2
    <3>2. \/ worker[r.from].pc = "registering" /\ worker[r.from].conn = r.conn
          \/ worker[r.from].pc = "dead"
      BY <2>2, <3>1 DEF RegisteringSide, RegistrationsAreUnique
    <3>3. ~Settled(r.from) /\ Moves(r.from)
      BY <2>2, <3>1 DEF Settled
    <3>4. worker'[r.from] = worker[r.from] \/ worker'[r.from].pc = "dead"
      BY <3>2, <3>3 DEF Moves, Early
    <3>5. /\ r.conn # NoConn
          /\ \A s \in inbox :
                s.op = "RegisteNode" /\ (s.from = r.from \/ s.conn = r.conn) => s = r
      BY <2>2, <3>1 DEF RegisteringSide, RegistrationsAreUnique
    <3> QED BY <3>2, <3>4, <3>5
  <2> QED BY <2>1, <2>2 DEF RegistrationsAreUnique, Early
<1>4. ASSUME NEW t \in Ids, NEW w \in tpl'[t].created \ {Manager}
      PROVE  Settled(w) /\ Settled(w)' /\ w \in Workers
  <2>1. w \in Workers /\ Settled(w)
    BY <1>1 DEF RegisteringSide, CreatedAreSettled
  <2> QED BY <2>1, MovesKeepSettled
<1>5. /\ task'.op = "map" => task' = task
      /\ task.op = "map" => task' = task
  OBVIOUS
<1>6. ASSUME NEW t \in Ids, NEW w \in tpl'[t].created \ {Manager}, w \notin late' \cup revived'
      PROVE  w \in tpl[t].created /\ w \notin late \cup revived /\ Accounted(w, t)
  BY <1>6 DEF RegisteringSide, CreatedAreAccounted
<1>7. MapIsOfItsNode'
  <2> SUFFICES ASSUME task.op = "map", task' = task PROVE MapIsOfItsNode'
    BY <1>5 DEF MapIsOfItsNode
  <2>1. node[task.of].known /\ task.of \in Workers
    BY UnderWayAreWorkers DEF RegisteringSide, MapIsOfItsNode
  <2>2. node'[task.of] = node[task.of]
    BY <2>1 DEF NodeKept
  <2> QED BY <2>2 DEF RegisteringSide, MapIsOfItsNode
<1>8. CleanupsAreOfNodes'
  <2>1. ASSUME NEW c \in Conns, connUuid[c] # Manager PROVE Settled(connUuid[c])'
    BY <2>1, UnderWayAreWorkers, MovesKeepSettled DEF RegisteringSide, CleanupsAreOfNodes
  <2>2. ASSUME closing.pc # "idle" PROVE Settled(closing.of)' /\ NodeKept(closing.of)
    BY <2>2, ClosingIsTyped, MovesKeepSettled DEF RegisteringSide, CleanupsAreOfNodes
  <2> QED BY <2>1, <2>2 DEF RegisteringSide, CleanupsAreOfNodes, NodeKept
<1>9. ASSUME NEW t \in Ids, NEW w \in tpl'[t].created \ {Manager}, w \notin late' \cup revived'
      PROVE  \/ UnderWay(w, t)
             \/ node'[w] = node[w] /\ node[w].known /\ Accounted(w, t)
  BY <1>4, <1>6, <1>9 DEF Accounted, NodeKept
<1>10. ASSUME NEW t \in Ids, NEW w, UnderWay(w, t) PROVE UnderWay(w, t)'
  BY <1>5, <1>10 DEF UnderWay
<1>11. CreatedAreSettled'
  <2>1. ASSUME NEW t \in Ids, NEW w \in tpl'[t].created \ {Manager}, w \notin late' \cup revived',
               closing.of # w
        PROVE  /\ \A r \in inbox' : r.op = "RegisteNode" => r.conn # node'[w].conn
               /\ task'.op = "map" /\ task'.of # w => task'.conn # node'[w].conn
    <3>1. node'[w] = node[w]
      <4>1. CASE UnderWay(w, t)
        <5>1. task.op = "map" /\ task.of = w
          BY <2>1, <4>1 DEF UnderWay
        <5> QED BY <1>4, <2>1, <5>1 DEF RegisteringSide, MapIsOfItsNode, NodeKept
      <4> QED BY <1>9, <2>1, <4>1
    <3>2. w \in tpl[t].created \ {Manager} /\ w \notin late \cup revived
      BY <1>6, <2>1
    <3>3. /\ \A r \in inbox : r.op = "RegisteNode" => r.conn # node[w].conn
          /\ task.op = "map" /\ task.of # w => task.conn # node[w].conn
      BY <2>1, <3>2 DEF RegisteringSide, CreatedAreSettled
    <3> QED BY <1>5, <3>1, <3>3
  <2>2. task'.op = "set" => \A w \in task'.item.created \ {Manager} : Settled(w) /\ w \in Workers
    <3>1. task'.op = "set" => task'.item.created \ {Manager} \subseteq Workers
      BY DEF TypeOK, Tasks, Copies, Items, Uuids
    <3> QED BY <3>1 DEF RegisteringSide, CreatedAreSettled
  <2>3. task'.op \in {"map", "notify"} => Settled(task'.of) /\ task'.of \in Workers
    BY UnderWayAreWorkers DEF RegisteringSide, CreatedAreSettled
  <2> QED BY <1>4, <2>1, <2>2, <2>3, MovesKeepSettled DEF CreatedAreSettled
<1>12. CreatedAreAccounted'
  <2>1. ASSUME NEW t \in Ids, NEW w \in tpl'[t].created \ {Manager}, w \notin late' \cup revived',
               ~UnderWay(w, t)
        PROVE  Accounted(w, t)'
    <3>1. Accounted(w, t) /\ node'[w] = node[w] /\ w \in Workers /\ Moves(w)
      BY <1>4, <1>9, <2>1
    <3>2. node[w].conn \in Conns
      BY <2>1, <3>1, Constants DEF Accounted, TypeOK, NodeItems
    <3> QED BY <2>1, <3>1, <3>2 DEF Accounted, Moves
  <2> QED BY <1>10, <2>1 DEF CreatedAreAccounted, Accounted
<1> QED BY <1>3, <1>7, <1>8, <1>11, <1>12 DEF RegisteringSide

\* The same frame, when no worker moves.
LEMMA UnmovedFrame ==
    ASSUME TypeOK, TypeOK', RegisteringSide,
           worker' = worker, breaks' = breaks, connUuid' = connUuid, closing' = closing,
           late' = late, revived' = revived,
           \A r \in inbox' : r.op = "RegisteNode" => r \in inbox,
           \A u \in Workers : NodeKept(u),
           \A t \in Ids : tpl'[t].created \subseteq tpl[t].created,
           \/ task' = task
           \/ task.op # "map" /\ task'.op = "idle"
           \/ /\ task.op # "map" /\ task'.op = "set"
              /\ \A w \in task'.item.created \ {Manager} : Settled(w)
    PROVE  RegisteringSide'
<1>1. \A w \in Workers : Moves(w)
  BY DEF Moves
<1> QED BY <1>1, RegisteringFrame

\* operator[] creates no replica.
LEMMA TouchedCreated ==
    ASSUME TypeOK, NEW t \in Ids, tpl' \in TouchTemplate(t)
    PROVE  \A s \in Ids : tpl'[s].created \subseteq tpl[s].created
BY TouchTemplateKeeps

\* How a worker moves in its own steps, but for the opening of a connection.
LEMMA WorkerMoves ==
    ASSUME TypeOK, RegisteringSide, NEW w \in Workers,
           AskForTemplate(w) \/ AskForReferences(w) \/ LoseConnection(w) \/ Exit(w),
           NEW v \in Workers
    PROVE  Moves(v)
<1>1. CASE AskForTemplate(w)
  BY <1>1 DEF AskForTemplate, Moves, Early, TypeOK, WorkerStates
<1>2. CASE AskForReferences(w)
  BY <1>2 DEF AskForReferences, Moves
<1>3. CASE LoseConnection(w)
  <2>1. breaks'[worker[w].conn] > 0
    BY <1>3 DEF LoseConnection, Posted, TypeOK, WorkerStates
  <2>2. worker[w].pc = "running" /\ worker' = [worker EXCEPT ![w].conn = NoConn]
    BY <1>3 DEF LoseConnection
  <2>3. Settled(w)
    BY <2>2 DEF Settled, RegisteringSide, RegistrationsAreUnique
  <2> QED BY <2>1, <2>2, <2>3 DEF Moves, TypeOK, WorkerStates
<1>4. CASE Exit(w)
  <2>1. worker[w].conn # NoConn => breaks'[worker[w].conn] > 0
    BY <1>4 DEF Exit, Posted, TypeOK, WorkerStates
  <2>2. worker' = [worker EXCEPT ![w].pc = "dead", ![w].conn = NoConn]
    BY <1>4 DEF Exit
  <2> QED BY <2>1, <2>2 DEF Moves, TypeOK, WorkerStates
<1> QED BY <1>1, <1>2, <1>3, <1>4

\* Steps of the workers, but for the opening of a connection.
LEMMA WorkerRegistering ==
    ASSUME TypeOK, TypeOK', RegisteringSide, NEW w \in Workers,
           AskForTemplate(w) \/ AskForReferences(w) \/ LoseConnection(w) \/ Exit(w)
    PROVE  RegisteringSide'
<1>1. UnchangedManager
  BY DEF AskForTemplate, AskForReferences, LoseConnection, Exit
<1>2. \A r \in inbox' : r.op = "RegisteNode" => r \in inbox
  BY DEF AskForTemplate, AskForReferences, LoseConnection, Exit, Request
<1>3. \A v \in Workers : Moves(v)
  BY WorkerMoves
<1>4. \A c \in Conns : breaks[c] > 0 => breaks'[c] > 0
  BY DEF AskForTemplate, AskForReferences, LoseConnection, Exit, Posted, TypeOK, WorkerStates
<1> QED BY <1>1, <1>2, <1>3, <1>4, RegisteringFrame DEF UnchangedManager, registry, history, NodeKept

\* A connection that opens has a hash code no counted replica depends on.
LEMMA OpenConnectionRegistering ==
    ASSUME TypeOK, TypeOK', RegisteringSide, NEW w \in Workers, NEW c \in Conns, OpenConnection(w, c)
    PROVE  RegisteringSide'
<1> DEFINE q == [op |-> "RegisteNode", from |-> w, conn |-> c, tpl |-> worker[w].tpl]
<1>1. /\ worker[w].pc = "assigned" /\ breaks[c] = 0 /\ inbox' = inbox \cup {q}
      /\ \A x \in Workers : worker[x].conn # c
      /\ \A r \in inbox : r.conn # c
      /\ task.op = "map" => task.conn # c
      /\ UNCHANGED <<tpl, node, connUuid, task, breaks, closing, late, revived>>
  BY DEF OpenConnection, UnchangedManager, registry, history
<1>2. /\ worker'[w].pc = "registering" /\ worker'[w].conn = c
      /\ \A v \in Workers : v # w => worker'[v] = worker[v]
  BY DEF OpenConnection, TypeOK, WorkerStates
<1>3. /\ c # NoConn
      /\ q.op = "RegisteNode" /\ q.from = w /\ q.conn = c
  BY ServerManageAssumption
<1>4. \A r \in inbox : r.from \in Workers /\ (r.op = "RegisteNode" => r.from # w)
  BY <1>1, RequestIsTyped DEF RegisteringSide, RegistrationsAreUnique
<1>5. RegistrationsAreUnique'
  <2>1. \A v \in Workers : worker'[v].pc \in Early => worker'[v].conn = NoConn
    BY <1>2 DEF RegisteringSide, RegistrationsAreUnique, Early
  <2>2. ASSUME NEW r \in inbox', r.op = "RegisteNode"
        PROVE  /\ r.conn # NoConn
               /\ \/ worker'[r.from].pc = "registering" /\ worker'[r.from].conn = r.conn
                  \/ worker'[r.from].pc = "dead"
               /\ \A s \in inbox' :
                     s.op = "RegisteNode" /\ (s.from = r.from \/ s.conn = r.conn) => s = r
    <3>1. CASE r = q
      BY <1>1, <1>2, <1>3, <1>4, <3>1
    <3>2. CASE r # q
      BY <1>1, <1>2, <1>3, <1>4, <2>2, <3>2 DEF RegisteringSide, RegistrationsAreUnique
    <3> QED BY <3>1, <3>2
  <2> QED BY <2>1, <2>2 DEF RegistrationsAreUnique, Early
<1>6. ASSUME NEW v \in Workers, Settled(v) PROVE v # w /\ Settled(v)'
  BY <1>1, <1>2, <1>3, <1>6 DEF Settled
<1>7. \A t \in Ids : \A v \in tpl[t].created \ {Manager} : v \in Workers /\ Settled(v)
  BY DEF TypeOK, Items, Uuids, RegisteringSide, CreatedAreSettled
<1>8. ASSUME NEW t \in Ids, NEW v \in tpl[t].created \ {Manager}, v \notin late \cup revived
      PROVE  Accounted(v, t)' /\ (closing.of # v => node[v].conn # c)
  <2>1. Accounted(v, t) /\ v # w /\ v \in Workers
    BY <1>6, <1>7, <1>8 DEF RegisteringSide, CreatedAreAccounted
  <2>2. CASE UnderWay(v, t)
    <3>1. UnderWay(v, t)'
      BY <1>1, <2>2 DEF UnderWay
    <3>2. closing.of # v => task.op = "map" /\ task.of = v
      BY <2>2 DEF UnderWay
    <3>3. task.op = "map" => node[task.of].conn = task.conn /\ task.conn # c
      BY <1>1 DEF RegisteringSide, MapIsOfItsNode
    <3> QED BY <3>1, <3>2, <3>3 DEF Accounted
  <2>3. CASE ~UnderWay(v, t)
    BY <1>1, <1>2, <2>1, <2>3 DEF Accounted
  <2> QED BY <2>2, <2>3
<1>9. CreatedAreSettled'
  <2>1. task.op = "set" => \A v \in task.item.created \ {Manager} : Settled(v) /\ v \in Workers
    <3>1. task.op = "set" => task.item.created \ {Manager} \subseteq Workers
      BY DEF TypeOK, Tasks, Copies, Items, Uuids
    <3> QED BY <3>1 DEF RegisteringSide, CreatedAreSettled
  <2>2. task.op \in {"map", "notify"} => Settled(task.of) /\ task.of \in Workers
    BY UnderWayAreWorkers DEF RegisteringSide, CreatedAreSettled
  <2>3. ASSUME NEW t \in Ids, NEW v \in tpl[t].created \ {Manager}, v \notin late \cup revived,
               closing.of # v
        PROVE  /\ \A r \in inbox' : r.op = "RegisteNode" => r.conn # node[v].conn
               /\ task.op = "map" /\ task.of # v => task.conn # node[v].conn
    BY <1>1, <1>3, <1>8, <2>3 DEF RegisteringSide, CreatedAreSettled
  <2>4. UNCHANGED <<task, tpl, node, closing, late, revived>>
    BY <1>1
  <2> QED BY <1>6, <1>7, <2>1, <2>2, <2>3, <2>4 DEF CreatedAreSettled
<1>10. CreatedAreAccounted'
  BY <1>1, <1>8 DEF CreatedAreAccounted
<1>11. MapIsOfItsNode'
  BY <1>1, <1>3 DEF RegisteringSide, MapIsOfItsNode
<1>12. CleanupsAreOfNodes'
  <2>1. \A d \in Conns : connUuid[d] # Manager => connUuid[d] \in Workers /\ Settled(connUuid[d])
    BY UnderWayAreWorkers DEF RegisteringSide, CleanupsAreOfNodes
  <2>2. closing.pc # "idle" => closing.of \in Workers /\ Settled(closing.of)
    BY ClosingIsTyped DEF RegisteringSide, CleanupsAreOfNodes
  <2> QED BY <1>1, <1>6, <2>1, <2>2 DEF RegisteringSide, CleanupsAreOfNodes
<1> QED BY <1>5, <1>9, <1>10, <1>11, <1>12 DEF RegisteringSide

\* RegisteNodeHandler stores and counts the node of the request it took.
LEMMA RegisteNodeRegistering ==
    ASSUME TypeOK, TypeOK', StoreSide, RegisteringSide, NEW r \in inbox, RegisteNodeStore(r),
           ~RegisteNodeFails(r)
    PROVE  RegisteringSide'
<1> DEFINE w == r.from
           t == r.tpl
<1>1. /\ r.op = "RegisteNode" /\ inbox' = inbox \ {r} /\ tpl[t].cfg # NoConfig
      /\ node' = [node EXCEPT ![w] = [known |-> TRUE, template |-> tpl[t].id, conn |-> r.conn]]
      /\ tpl' = [tpl EXCEPT ![t].created = @ \cup {w}]
      /\ task.op = "idle"
      /\ task' = [op |-> "map", of |-> w, tpl |-> t, conn |-> r.conn]
      /\ UNCHANGED <<connUuid, breaks, worker, closing, late, revived>>
  BY DEF RegisteNodeStore, Take
<1>2. w \in Workers /\ t \in Ids /\ w # Manager /\ w \in Uuids
  BY RequestIsTyped, ServerManageAssumption DEF Uuids
<1>3. r.conn \in Conns /\ r.conn # NoConn
  BY <1>1, RequestIsTyped DEF RegisteringSide, RegistrationsAreUnique
<1>4. \A s \in inbox' : s.op = "RegisteNode" => s \in inbox /\ s.from # w /\ s.conn # r.conn
  BY <1>1 DEF RegisteringSide, RegistrationsAreUnique
<1>5. worker[w].pc \in {"registering", "dead"}
  BY <1>1 DEF RegisteringSide, RegistrationsAreUnique
<1>6. Settled(w)' /\ ~Settled(w)
  BY <1>1, <1>4, <1>5 DEF Settled
<1>7. tpl[t].id = t
  BY <1>1, <1>2 DEF StoreSide, ItemsAreWhole
<1>8. RegistrationsAreUnique'
  BY <1>1 DEF RegisteringSide, RegistrationsAreUnique
<1>9. ASSUME NEW v \in Workers, Settled(v) PROVE v # w /\ Settled(v)' /\ node'[v] = node[v]
  <2>1. v # w
    BY <1>6, <1>9
  <2>2. Settled(v)'
    BY <1>1, <1>9 DEF Settled
  <2> QED BY <1>1, <2>1, <2>2 DEF TypeOK
<1>10. ASSUME NEW s \in Ids, NEW v \in tpl'[s].created \ {Manager}
       PROVE  /\ v \in Workers /\ Settled(v)'
              /\ \/ v = w /\ s = t
                 \/ v # w /\ v \in tpl[s].created /\ Settled(v)
  <2>1. tpl'[s].created \ {Manager} \subseteq Workers
    BY DEF TypeOK, Items, Uuids
  <2>2. v \in tpl[s].created \/ (v = w /\ s = t)
    BY <1>1, <1>2 DEF TypeOK, Items
  <2>3. CASE v \in tpl[s].created
    <3>1. Settled(v)
      BY <2>3 DEF RegisteringSide, CreatedAreSettled
    <3> QED BY <1>9, <2>1, <2>3, <3>1
  <2> QED BY <1>6, <2>1, <2>2, <2>3
<1>11. node'[w] = [known |-> TRUE, template |-> t, conn |-> r.conn]
  BY <1>1, <1>2, <1>7 DEF TypeOK
<1>12. ASSUME NEW s \in Ids, NEW v \in tpl'[s].created \ {Manager}, v \notin late \cup revived
       PROVE  /\ Accounted(v, s)'
              /\ closing.of # v =>
                    /\ \A q \in inbox' : q.op = "RegisteNode" => q.conn # node'[v].conn
                    /\ w # v => r.conn # node'[v].conn
  <2>1. CASE v = w /\ s = t
    BY <1>1, <1>4, <1>11, <2>1 DEF Accounted, UnderWay
  <2>2. CASE v # w /\ v \in tpl[s].created /\ Settled(v)
    <3>1. node'[v] = node[v]
      BY <1>9, <1>10, <2>2
    <3>2. Accounted(v, s) /\ (closing.of # v =>
             \A q \in inbox : q.op = "RegisteNode" => q.conn # node[v].conn)
      BY <1>12, <2>2 DEF RegisteringSide, CreatedAreAccounted, CreatedAreSettled
    <3>3. Accounted(v, s)'
      BY <1>1, <3>1, <3>2 DEF Accounted, UnderWay
    <3> QED BY <1>1, <3>1, <3>2, <3>3
  <2> QED BY <1>10, <2>1, <2>2
<1>13. CreatedAreSettled'
  BY <1>1, <1>6, <1>10, <1>12 DEF CreatedAreSettled
<1>14. CreatedAreAccounted'
  BY <1>1, <1>12 DEF CreatedAreAccounted
<1>15. \A c \in Conns : connUuid[c] # Manager => connUuid[c] \in Workers /\ Settled(connUuid[c])
  BY UnderWayAreWorkers DEF RegisteringSide, CleanupsAreOfNodes
<1>16. closing.pc # "idle" => closing.of \in Workers /\ Settled(closing.of)
  BY ClosingIsTyped DEF RegisteringSide, CleanupsAreOfNodes
<1>17. MapIsOfItsNode'
  <2>1. closing.of # w
    BY <1>2, <1>9, <1>16, UnderWayAreWorkers
  <2>2. \A c \in Conns : connUuid[c] # w
    BY <1>2, <1>9, <1>15
  <2> QED BY <1>1, <1>3, <1>4, <1>11, <2>1, <2>2 DEF MapIsOfItsNode
<1>18. CleanupsAreOfNodes'
  BY <1>1, <1>9, <1>15, <1>16 DEF RegisteringSide, CleanupsAreOfNodes
<1> QED BY <1>8, <1>13, <1>14, <1>17, <1>18 DEF RegisteringSide

\* The node's entry is made while its connection is up or its break is queued,
\* unless the node is late.
LEMMA RegisteNodeMapRegistering ==
    ASSUME TypeOK, TypeOK', RegisteringSide, RegisteNodeMap
    PROVE  RegisteringSide'
<1> DEFINE w == task.of
           c == task.conn
<1>1. /\ task.op = "map" /\ task' = [op |-> "notify", of |-> w, tpl |-> task.tpl]
      /\ connUuid' = [connUuid EXCEPT ![c] = w]
      /\ late' = IF worker[w].conn # c /\ breaks[c] = 0 THEN late \cup {w} ELSE late
      /\ UNCHANGED <<tpl, node, inbox, breaks, worker, closing, revived>>
  BY DEF RegisteNodeMap
<1>2. /\ c # NoConn /\ closing.of # w /\ Settled(w) /\ w \in Workers
      /\ node[w] = [known |-> TRUE, template |-> task.tpl, conn |-> c]
      /\ \A d \in Conns : connUuid[d] # w
  BY <1>1, UnderWayAreWorkers DEF RegisteringSide, MapIsOfItsNode, CreatedAreSettled
<1>3. c \in Conns
  BY <1>1, <1>2 DEF TypeOK, Tasks
<1>4. connUuid'[c] = w /\ \A d \in Conns : d # c => connUuid'[d] = connUuid[d]
  BY <1>1, <1>3 DEF TypeOK
<1>5. \A v : Settled(v) => Settled(v)'
  BY <1>1 DEF Settled
<1>6. RegistrationsAreUnique' /\ MapIsOfItsNode'
  BY <1>1 DEF RegisteringSide, RegistrationsAreUnique, MapIsOfItsNode
<1>7. CleanupsAreOfNodes'
  BY <1>1, <1>2, <1>4, <1>5 DEF RegisteringSide, CleanupsAreOfNodes
<1>8. CreatedAreSettled'
  BY <1>1, <1>2, <1>5 DEF RegisteringSide, CreatedAreSettled
<1>9. CreatedAreAccounted'
  <2> SUFFICES ASSUME NEW t \in Ids, NEW v \in tpl[t].created \ {Manager},
                      v \notin late' \cup revived
               PROVE  Accounted(v, t)'
    BY <1>1 DEF CreatedAreAccounted
  <2>1. v \notin late \cup revived /\ Accounted(v, t)
    BY <1>1 DEF RegisteringSide, CreatedAreAccounted
  <2>2. CASE closing.of = v /\ closing.tpl = t
    BY <1>1, <2>2 DEF Accounted, UnderWay
  <2>3. CASE v = w /\ ~(closing.of = v /\ closing.tpl = t)
    <3>1. node[w].template = t
      BY <1>2, <2>1, <2>3 DEF Accounted, UnderWay
    <3>2. worker[w].conn = c \/ breaks[c] > 0
      BY <1>1, <1>3, <2>3 DEF TypeOK
    <3> QED BY <1>1, <1>2, <1>4, <2>3, <3>1, <3>2 DEF Accounted
  <2>4. CASE v # w /\ ~(closing.of = v /\ closing.tpl = t)
    <3>1. /\ node[v].known /\ node[v].template = t
          /\ node[v].conn # NoConn /\ connUuid[node[v].conn] = v
          /\ worker[v].conn = node[v].conn \/ breaks[node[v].conn] > 0
      BY <2>1, <2>4 DEF Accounted, UnderWay
    <3>2. v \in Uuids /\ node[v].conn \in Conns
      <4>1. v \in Uuids
        BY DEF TypeOK, Items
      <4> QED BY <3>1, <4>1 DEF TypeOK, NodeItems
    <3>3. node[v].conn # c
      <4>1. CASE closing.of # v
        BY <1>1, <2>1, <2>4, <4>1 DEF RegisteringSide, CreatedAreSettled
      <4>2. CASE closing.of = v
        <5>1. closing.pc # "idle"
          BY <4>2, UnderWayAreWorkers
        <5>2. closing.pc \in {"erase", "remove"}
          BY <5>1 DEF TypeOK, Closings, Closed
        <5> QED BY <2>4, <3>1, <4>2, <5>2 DEF RegisteringSide, CleanupsAreOfNodes
      <4> QED BY <4>1, <4>2
    <3> QED BY <1>1, <1>4, <3>1, <3>2, <3>3 DEF Accounted
  <2> QED BY <2>2, <2>3, <2>4
<1> QED BY <1>6, <1>7, <1>8, <1>9 DEF RegisteringSide

\* How a worker moves when its request is handled.
LEMMA RequestMoves ==
    ASSUME TypeOK, NEW r \in inbox,
           \/ RegisteWorkerNew(r) \/ RegisteWorkerKnown(r) \/ RegisteNodeStore(r)
           \/ QueryReferenceInfo(r) \/ CrashOnRequest(r),
           NEW v \in Workers
    PROVE  Moves(v)
<1>1. r.from \in Workers
  BY RequestIsTyped
<1>2. CASE RegisteWorkerNew(r) \/ RegisteWorkerKnown(r)
  <2>1. \E next : /\ next.conn = worker[r.from].conn /\ next.pc \in {"poll", "assigned", "dead"}
                  /\ Answer(r.from, "wait", next)
    BY <1>1, <1>2 DEF RegisteWorkerNew, RegisteWorkerKnown, TypeOK, WorkerStates
  <2> QED BY <1>1, <2>1 DEF Answer, Moves, Early, TypeOK
<1>3. CASE RegisteNodeStore(r) /\ RegisteNodeFails(r)
  <2> DEFINE w == r.from
  <2>1. /\ Answer(w, "registering", [worker[w] EXCEPT !.pc = "dead", !.conn = NoConn])
        /\ breaks' \in Posted(IF worker[w].pc = "registering" THEN worker[w].conn ELSE NoConn)
        /\ worker[w].conn \in Conns \cup {NoConn}
    BY <1>1, <1>3 DEF RegisteNodeStore, TypeOK, WorkerStates
  <2>2. worker[w].pc = "registering" /\ worker[w].conn # NoConn => breaks'[worker[w].conn] > 0
    BY <2>1 DEF Posted, TypeOK
  <2> QED BY <1>1, <2>1, <2>2 DEF Answer, Moves, TypeOK, WorkerStates
<1>4. CASE \/ RegisteNodeStore(r) /\ ~RegisteNodeFails(r)
           \/ QueryReferenceInfo(r) \/ CrashOnRequest(r)
  BY <1>4 DEF RegisteNodeStore, QueryReferenceInfo, CrashOnRequest, Crash, Moves
<1> QED BY <1>2, <1>3, <1>4

\* The workers' requests keep the registering side.
LEMMA RequestRegistering ==
    ASSUME TypeOK, TypeOK', StoreSide, RegisteringSide, NEW r \in inbox,
           \/ RegisteWorkerNew(r) \/ RegisteWorkerKnown(r) \/ RegisteNodeStore(r)
           \/ QueryReferenceInfo(r) \/ CrashOnRequest(r)
    PROVE  RegisteringSide'
<1>1. CASE QueryReferenceInfo(r)
  BY <1>1, TouchedNodeKept, UnmovedFrame DEF QueryReferenceInfo, Take, history, NodeKept
<1>2. CASE CrashOnRequest(r)
  BY <1>2, UnmovedFrame DEF CrashOnRequest, Crash, registry, history, NodeKept
<1>3. CASE RegisteWorkerNew(r) \/ RegisteWorkerKnown(r)
  <2>1. /\ \A q \in inbox' : q \in inbox
        /\ UNCHANGED <<breaks, connUuid, closing, late, revived, task>>
    BY <1>3 DEF RegisteWorkerNew, RegisteWorkerKnown, Take, history
  <2>2. \A u \in Workers : NodeKept(u)
    BY <1>3, Constants DEF RegisteWorkerNew, RegisteWorkerKnown, TypeOK, NodeKept, BlankNode, NoNode
  <2>3. \A s \in Ids : tpl'[s].created \subseteq tpl[s].created
    <3>1. tpl[Assigned(r.from)].id \in Ids
      BY RequestIsTyped, AssignedIsAnId DEF TypeOK, Items
    <3> QED BY <1>3, <3>1, TouchedCreated DEF RegisteWorkerNew, RegisteWorkerKnown
  <2>4. \A w \in Workers : Moves(w)
    BY <1>3, RequestMoves
  <2> QED BY <2>1, <2>2, <2>3, <2>4, RegisteringFrame
<1>4. CASE RegisteNodeStore(r) /\ RegisteNodeFails(r)
  <2> DEFINE w == r.from
  <2>1. w \in Workers /\ worker[w].conn \in Conns \cup {NoConn} /\ inbox' \subseteq inbox
    BY <1>4, RequestIsTyped DEF TypeOK, WorkerStates, RegisteNodeStore, Take
  <2>2. /\ UNCHANGED <<tpl, node, connUuid, task, closing, late, revived>>
        /\ Answer(w, "registering", [worker[w] EXCEPT !.pc = "dead", !.conn = NoConn])
        /\ breaks' \in Posted(IF worker[w].pc = "registering" THEN worker[w].conn ELSE NoConn)
    BY <1>4 DEF RegisteNodeStore, registry, history
  <2>3. \A c \in Conns : breaks[c] > 0 => breaks'[c] > 0
    BY <2>1, <2>2 DEF Posted, TypeOK
  <2>4. \A v \in Workers : Moves(v)
    BY <1>4, RequestMoves
  <2> QED BY <2>1, <2>2, <2>3, <2>4, RegisteringFrame DEF NodeKept
<1>5. CASE RegisteNodeStore(r) /\ ~RegisteNodeFails(r)
  BY <1>5, RegisteNodeRegistering
<1> QED BY <1>1, <1>2, <1>3, <1>4, <1>5

\* The administrator's requests keep the registering side; the copy
\* SetTemplate takes holds settled nodes.
LEMMA EditRegistering ==
    ASSUME TypeOK, TypeOK', StoreSide, RegisteringSide, EditNext
    PROVE  RegisteringSide'
<1>0. ASSUME Edit PROVE /\ worker' = worker /\ breaks' = breaks /\ connUuid' = connUuid
                         /\ inbox' = inbox /\ closing' = closing /\ task.op = "idle"
                         /\ late' = late /\ revived' = revived
  BY <1>0 DEF Edit, history
<1>1. ASSUME NEW row \in Rows, AddTemplate(row) PROVE RegisteringSide'
  <2>1. Edit /\ UNCHANGED <<node, task>>
    BY <1>1 DEF AddTemplate
  <2>2. \A s \in Ids : tpl'[s].created \subseteq tpl[s].created
    BY <1>1 DEF AddTemplate, Item, TypeOK
  <2> QED BY <1>0, <2>1, <2>2, UnmovedFrame DEF NodeKept
<1>2. ASSUME NEW t \in TemplateIds, DeleteTemplate(t) PROVE RegisteringSide'
  <2>1. Edit /\ UNCHANGED <<node, task>>
    BY <1>2 DEF DeleteTemplate
  <2>2. \A s \in Ids : tpl'[s].created \subseteq tpl[s].created
    BY <1>2 DEF DeleteTemplate, NoItem, TypeOK
  <2> QED BY <1>0, <2>1, <2>2, UnmovedFrame DEF NodeKept
<1>3. ASSUME NEW t \in TemplateIds, NEW row \in Rows, SetTemplateCopy(t, row) PROVE RegisteringSide'
  <2>1. Edit /\ UNCHANGED <<store, tpl, node>> /\ t \in Ids
    BY <1>3, Constants DEF SetTemplateCopy
  <2>2. PICK r, c : task' = [op |-> "set", tpl |-> t, item |-> [tpl[t] EXCEPT !.replicas = r, !.cfg = c]]
    BY <1>3 DEF SetTemplateCopy
  <2>3. task'.op = "set" /\ task'.item.created = tpl[t].created
    <3>1. tpl[t] \in Items
      BY <2>1 DEF TypeOK
    <3> QED BY <2>2, <3>1 DEF Items
  <2>4. \A w \in tpl[t].created \ {Manager} : Settled(w)
    BY <2>1 DEF RegisteringSide, CreatedAreSettled
  <2> QED BY <1>0, <2>1, <2>3, <2>4, UnmovedFrame DEF NodeKept
<1>4. ASSUME NEW t \in TemplateIds, QueryNode(t) PROVE RegisteringSide'
  <2>1. Edit /\ UNCHANGED <<store, task>> /\ t \in Ids
    BY <1>4, Constants DEF QueryNode
  <2>2. \A u \in Workers : NodeKept(u)
    BY <1>4, TouchedNodeKept DEF QueryNode
  <2>3. \A s \in Ids : tpl'[s].created \subseteq tpl[s].created
    BY <1>4, <2>1, TouchedCreated DEF QueryNode
  <2> QED BY <1>0, <2>1, <2>2, <2>3, UnmovedFrame
<1>5. ASSUME QueryTemplateCrashes PROVE RegisteringSide'
  BY <1>5, UnmovedFrame DEF QueryTemplateCrashes, Crash, registry, history, NodeKept
<1> QED BY <1>1, <1>2, <1>3, <1>4, <1>5 DEF EditNext

\* The worker whose node was stored runs, if it still waits for the answer.
LEMMA NotifyMoves ==
    ASSUME TypeOK, RegisteringSide, RegisteNodeNotify, NEW v \in Workers
    PROVE  Moves(v)
<1>1. task.of \in Workers /\ Settled(task.of)
  BY DEF RegisteNodeNotify, TypeOK, Tasks, RegisteringSide, CreatedAreSettled
<1>2. Answer(task.of, "registering", [worker[task.of] EXCEPT !.pc = "running"])
  BY DEF RegisteNodeNotify
<1> QED BY <1>1, <1>2 DEF Answer, Moves, TypeOK, WorkerStates

\* What SetTemplate's copy brings back is revived or still counted.
LEMMA HandlerRegistering ==
    ASSUME TypeOK, TypeOK', StoreSide, RegisteringSide, HandlerNext
    PROVE  RegisteringSide'
<1>1. ASSUME RegisteNodeNotify PROVE RegisteringSide'
  <2>1. \A u \in Workers : NodeKept(u)
    BY <1>1, TouchedNodeKept DEF RegisteNodeNotify, NodeKept
  <2>2. \A w \in Workers : Moves(w)
    BY <1>1, NotifyMoves
  <2>3. /\ UNCHANGED <<tpl, connUuid, inbox, breaks, closing, late, revived>>
        /\ task.op = "notify" /\ task'.op = "idle"
    BY <1>1 DEF RegisteNodeNotify, history
  <2> QED BY <2>1, <2>2, <2>3, RegisteringFrame
<1>2. ASSUME SetTemplateFails PROVE RegisteringSide'
  <2>1. task.op = "set" /\ task'.op = "idle"
    BY <1>2 DEF SetTemplateFails
  <2> QED BY <1>2, <2>1, UnmovedFrame DEF SetTemplateFails, registry, history, NodeKept
<1>3. ASSUME SetTemplateStore PROVE RegisteringSide'
  <2> DEFINE item == task.item
  <2>1. /\ UNCHANGED <<node, connUuid, inbox, breaks, closing, worker, late>> /\ task'.op = "idle"
        /\ task.op = "set" /\ tpl' = [tpl EXCEPT ![item.id] = item]
        /\ revived' = revived \cup (item.created \ tpl[task.tpl].created)
    BY <1>3 DEF SetTemplateStore
  <2>2. item.id = task.tpl \/ item.created = {}
    BY <2>1 DEF StoreSide, CopyIsOfARow
  <2>3. ASSUME NEW t \in Ids, NEW w \in tpl'[t].created \ {Manager}
        PROVE  w \in tpl[t].created \/ (Settled(w) /\ w \in revived')
    <3>1. CASE t = item.id
      <4>1. w \in item.created /\ item.id = task.tpl
        BY <2>1, <2>2, <2>3, <3>1 DEF TypeOK
      <4> QED BY <2>1, <3>1, <4>1 DEF RegisteringSide, CreatedAreSettled
    <3>2. CASE t # item.id
      BY <2>1, <3>2 DEF TypeOK
    <3> QED BY <3>1, <3>2
  <2>4. \A w \in Workers : Moves(w)
    BY <2>1 DEF Moves
  <2> QED BY <2>1, <2>3, <2>4, RegisteringFrame DEF NodeKept
<1> QED BY <1>1, <1>2, <1>3, RegisteNodeMapRegistering DEF HandlerNext

\* OnSocketClosed starts to clean up the node of its own connection.
LEMMA OnSocketClosedRegistering ==
    ASSUME TypeOK, TypeOK', RegisteringSide, NEW c \in Conns, OnSocketClosed(c)
    PROVE  RegisteringSide'
<1> DEFINE target == connUuid[c]
           id == TouchNodes({target})[target].template
<1>1. /\ UNCHANGED <<tpl, connUuid, task, inbox, worker, late, revived>>
      /\ \A d \in Conns : d # c => breaks'[d] = breaks[d]
      /\ closing.pc = "idle" /\ closing.of = Manager
  BY UnderWayAreWorkers DEF OnSocketClosed, TypeOK, history
<1>2. RegistrationsAreUnique'
  BY <1>1 DEF RegisteringSide, RegistrationsAreUnique
<1>3. ASSUME NEW w \in Workers PROVE NodeKept(w)
  BY <1>3, TouchedNodeKept DEF OnSocketClosed, NodeKept
<1>4. /\ target = Manager => closing' = closing
      /\ target # Manager =>
            /\ closing'.pc = "erase" /\ closing'.of = target /\ closing'.tpl = id
            /\ target \in Workers /\ node'[target].known /\ node'[target].template = id
  <2>1. CASE target = Manager
    BY <2>1 DEF OnSocketClosed
  <2>2. CASE target # Manager
    <3>1. target \in Workers /\ target \in Uuids
      BY <2>2, UnderWayAreWorkers, Constants
    <3>2. \E us : node' = TouchNodes(us \cup {target})
      BY <2>2 DEF OnSocketClosed
    <3>3. node'[target] = TouchNodes({target})[target] /\ node'[target].known
      BY <3>1, <3>2 DEF TouchNodes, BlankNode, NoNode
    <3>4. closing'.pc = "erase" /\ closing'.of = target /\ closing'.tpl = id
      BY <2>2 DEF OnSocketClosed
    <3> QED BY <2>2, <3>1, <3>3, <3>4
  <2> QED BY <2>1, <2>2
<1>5. MapIsOfItsNode'
  <2> SUFFICES ASSUME task.op = "map" PROVE MapIsOfItsNode'
    BY <1>1 DEF MapIsOfItsNode
  <2>1. task.of \in Workers /\ node'[task.of] = node[task.of]
    BY <1>3, UnderWayAreWorkers DEF RegisteringSide, MapIsOfItsNode, NodeKept
  <2>2. closing'.of # task.of
    BY <1>4 DEF RegisteringSide, MapIsOfItsNode
  <2> QED BY <1>1, <2>1, <2>2 DEF RegisteringSide, MapIsOfItsNode
<1>6. \A v : Settled(v) => Settled(v)'
  BY <1>1 DEF Settled
<1>7. CleanupsAreOfNodes'
  BY <1>1, <1>4, <1>6 DEF RegisteringSide, CleanupsAreOfNodes
<1>8. ASSUME NEW t \in Ids, NEW w \in tpl[t].created \ {Manager}, w \notin late \cup revived
      PROVE  /\ Accounted(w, t) /\ node'[w] = node[w]
             /\ closing.of # w
  <2>1. Accounted(w, t) /\ w \in Workers /\ closing.of # w
    <3>1. tpl[t].created \ {Manager} \subseteq Workers
      BY DEF TypeOK, Items, Uuids
    <3> QED BY <1>1, <1>8, <3>1 DEF RegisteringSide, CreatedAreAccounted
  <2>2. node[w].known
    BY <2>1 DEF Accounted, UnderWay, RegisteringSide, MapIsOfItsNode
  <2> QED BY <1>3, <2>1, <2>2 DEF NodeKept
<1>9. CreatedAreSettled'
  BY <1>1, <1>6, <1>8 DEF RegisteringSide, CreatedAreSettled
<1>10. CreatedAreAccounted'
  <2> SUFFICES ASSUME NEW t \in Ids, NEW w \in tpl[t].created \ {Manager},
                      w \notin late \cup revived
               PROVE  Accounted(w, t)'
    BY <1>1 DEF CreatedAreAccounted
  <2>1. Accounted(w, t) /\ node'[w] = node[w] /\ closing.of # w
    BY <1>8
  <2>2. CASE task.op = "map" /\ task.of = w /\ task.tpl = t
    BY <1>1, <2>2 DEF Accounted, UnderWay
  <2>3. CASE ~(task.op = "map" /\ task.of = w /\ task.tpl = t)
    <3>1. /\ node[w].known /\ node[w].template = t
          /\ node[w].conn # NoConn /\ connUuid[node[w].conn] = w
          /\ worker[w].conn = node[w].conn \/ breaks[node[w].conn] > 0
      BY <2>1, <2>3 DEF Accounted, UnderWay
    <3>2. w \in Uuids /\ node[w].conn \in Conns
      <4>1. w \in Uuids
        BY DEF TypeOK, Items
      <4> QED BY <3>1, <4>1 DEF TypeOK, NodeItems
    <3>3. CASE w = target
      <4>1. TouchNodes({target})[target] = node[target]
        BY <3>1, <3>2, <3>3, TouchNodesKeeps
      <4> QED BY <1>4, <3>1, <3>3, <4>1 DEF Accounted, UnderWay
    <3>4. CASE w # target
      <4>1. breaks'[node[w].conn] = breaks[node[w].conn]
        BY <1>1, <3>1, <3>2, <3>4
      <4> QED BY <1>1, <2>1, <3>1, <4>1 DEF Accounted
    <3> QED BY <3>3, <3>4
  <2> QED BY <2>2, <2>3
<1> QED BY <1>2, <1>5, <1>7, <1>9, <1>10 DEF RegisteringSide

\* The node is erased while its cleanup is still under way.
LEMMA EraseNodeRegistering ==
    ASSUME TypeOK, TypeOK', RegisteringSide, EraseNode
    PROVE  RegisteringSide'
<1> DEFINE w == closing.of
<1>1. /\ closing.pc = "erase" /\ closing'.pc = "remove"
      /\ closing'.of = w /\ closing'.tpl = closing.tpl
      /\ UNCHANGED <<tpl, connUuid, task, inbox, breaks, worker, late, revived>>
  BY DEF EraseNode, TypeOK, Closings
<1>2. w \in Workers /\ w \in Uuids /\ node[w].template = closing.tpl
  BY <1>1, ClosingIsTyped DEF RegisteringSide, CleanupsAreOfNodes
<1>3. node'[w].conn = NoConn /\ \A u \in Uuids : u # w => node'[u] = node[u]
  BY <1>2 DEF EraseNode, TypeOK, NoNode
<1>4. \A v : Settled(v) => Settled(v)'
  BY <1>1 DEF Settled
<1>5. RegistrationsAreUnique'
  BY <1>1 DEF RegisteringSide, RegistrationsAreUnique
<1>6. MapIsOfItsNode'
  <2>1. task.op = "map" => task.of \in Uuids /\ task.of # w
    BY UnderWayAreWorkers, Constants DEF RegisteringSide, MapIsOfItsNode
  <2> QED BY <1>1, <1>3, <2>1 DEF RegisteringSide, MapIsOfItsNode
<1>7. CleanupsAreOfNodes'
  BY <1>1, <1>3, <1>4 DEF RegisteringSide, CleanupsAreOfNodes
<1>8. \A t \in Ids : tpl[t].created \subseteq Uuids
  BY DEF TypeOK, Items
<1>9. CreatedAreSettled'
  BY <1>1, <1>3, <1>4, <1>8 DEF RegisteringSide, CreatedAreSettled
<1>10. CreatedAreAccounted'
  <2> SUFFICES ASSUME NEW t \in Ids, NEW v \in tpl[t].created \ {Manager},
                      v \notin late \cup revived
               PROVE  Accounted(v, t)'
    BY <1>1 DEF CreatedAreAccounted
  <2>1. Accounted(v, t) /\ v \in Uuids
    BY <1>8 DEF RegisteringSide, CreatedAreAccounted
  <2>2. CASE v = w
    <3>1. ~(task.op = "map" /\ task.of = v)
      BY <2>2 DEF RegisteringSide, MapIsOfItsNode
    <3>2. t = closing.tpl
      BY <1>2, <2>1, <2>2, <3>1 DEF Accounted, UnderWay
    <3> QED BY <1>1, <2>2, <3>2 DEF Accounted, UnderWay
  <2>3. CASE v # w
    BY <1>1, <1>3, <2>1, <2>3 DEF Accounted, UnderWay
  <2> QED BY <2>2, <2>3
<1> QED BY <1>5, <1>6, <1>7, <1>9, <1>10 DEF RegisteringSide

\* The node that is taken out of its template's list was counted in no other.
LEMMA RemoveReplicaRegistering ==
    ASSUME TypeOK, TypeOK', RegisteringSide, RemoveReplica
    PROVE  RegisteringSide'
<1> DEFINE w == closing.of
           id == closing.tpl
<1>1. /\ closing.pc = "remove" /\ closing'.pc = "idle" /\ closing'.of = Manager
      /\ UNCHANGED <<node, connUuid, task, inbox, breaks, worker, late, revived>>
  BY DEF RemoveReplica, Closed, history
<1>2. w \in Workers /\ id \in Ids /\ node[w].conn = NoConn
  BY <1>1, ClosingIsTyped DEF RegisteringSide, CleanupsAreOfNodes
<1>3. PICK touched \in TouchTemplate(id) : tpl' = RemoveCreated(touched, id, w)
  BY DEF RemoveReplica
<1>4. /\ touched \in [Ids -> Items]
      /\ \A s \in Ids : touched[s].created \subseteq tpl[s].created
  BY <1>2, TouchTemplateKeeps
<1>5. /\ tpl'[id].created = touched[id].created \ {w}
      /\ \A s \in Ids : s # id => tpl'[s] = touched[s]
  BY <1>2, <1>3, <1>4 DEF RemoveCreated, Items
<1>6. ASSUME NEW t \in Ids, NEW v \in tpl'[t].created \ {Manager}
      PROVE  v \in tpl[t].created /\ (t = id => v # w)
  BY <1>4, <1>5
<1>7. \A v : Settled(v) => Settled(v)'
  BY <1>1 DEF Settled
<1>8. RegistrationsAreUnique'
  BY <1>1 DEF RegisteringSide, RegistrationsAreUnique
<1>9. MapIsOfItsNode'
  <2>1. task.op = "map" => task.of # Manager
    BY UnderWayAreWorkers, ServerManageAssumption
  <2> QED BY <1>1, <2>1 DEF RegisteringSide, MapIsOfItsNode
<1>10. CleanupsAreOfNodes'
  BY <1>1, <1>7 DEF RegisteringSide, CleanupsAreOfNodes
<1>11. ASSUME NEW t \in Ids, NEW v \in tpl'[t].created \ {Manager}, v \notin late \cup revived
       PROVE  v # w /\ Accounted(v, t) /\ Accounted(v, t)'
  <2>1. Accounted(v, t) /\ (t = id => v # w)
    BY <1>6, <1>11 DEF RegisteringSide, CreatedAreAccounted
  <2>2. v # w
    <3>1. task.op = "map" => task.of # w
      BY DEF RegisteringSide, MapIsOfItsNode
    <3> QED BY <1>2, <2>1, <3>1 DEF Accounted, UnderWay
  <2> QED BY <1>1, <2>1, <2>2 DEF Accounted, UnderWay
<1>12. CreatedAreAccounted'
  BY <1>1, <1>11 DEF CreatedAreAccounted
<1>13. CreatedAreSettled'
  BY <1>1, <1>6, <1>7, <1>11 DEF RegisteringSide, CreatedAreSettled
<1> QED BY <1>8, <1>9, <1>10, <1>12, <1>13 DEF RegisteringSide

\* A restart loads the rows and counts no worker.
LEMMA RestartKept ==
    ASSUME TypeOK, TypeOK', ManagerRestart
    PROVE  StoreSide' /\ RegisteringSide'
<1>1. /\ store' = store /\ inbox' = {} /\ task'.op = "idle"
      /\ connUuid' = [c \in Conns |-> Manager] /\ closing'.pc = "idle"
      /\ worker' = [w \in Workers |->
            [worker[w] EXCEPT !.conn = NoConn,
                              !.pc = IF @ \in {"wait", "poll", "registering"} THEN "dead" ELSE @]]
  BY DEF ManagerRestart, Closed
<1>2. \A t \in Ids :
        tpl'[t] = IF t \in TemplateIds /\ store[t] # NoRow
                  THEN Item(t, store[t], IF t = 1 THEN {Manager} ELSE {}) ELSE NoItem
  BY DEF ManagerRestart, Load
<1>3. ASSUME NEW t \in Ids
      PROVE  /\ tpl'[t].created \subseteq {Manager}
             /\ IF t \in TemplateIds /\ store[t] # NoRow
                THEN /\ tpl'[t].listed /\ tpl'[t].id = t
                     /\ tpl'[t].replicas = store[t].replicas /\ tpl'[t].cfg = store[t].cfg
                     /\ store[t].cfg # NoConfig
                ELSE tpl'[t].id = None /\ tpl'[t].cfg = NoConfig /\ tpl'[t].created = {}
  <2>1. CASE t \in TemplateIds /\ store[t] # NoRow
    <3>1. store[t].cfg # NoConfig
      BY <2>1, ServerManageAssumption DEF TypeOK, Rows
    <3>2. tpl'[t] = Item(t, store[t], IF t = 1 THEN {Manager} ELSE {})
      BY <1>2, <2>1
    <3> QED BY <2>1, <3>1, <3>2 DEF Item
  <2>2. CASE ~(t \in TemplateIds /\ store[t] # NoRow)
    <3>1. tpl'[t] = NoItem
      BY <1>2, <2>2
    <3> QED BY <2>2, <3>1 DEF NoItem
  <2> QED BY <2>1, <2>2
<1>4. StoreSide'
  <2>1. ItemsAreWhole'
    BY <1>3 DEF ItemsAreWhole
  <2>2. RowsHaveItems' /\ MemoryMatchesStore'
    BY <1>1, <1>3, Constants DEF RowsHaveItems, MemoryMatchesStore
  <2> QED BY <1>1, <2>1, <2>2 DEF StoreSide, CopyIsOfARow
<1>5. RegisteringSide'
  <2>1. \A t \in Ids : tpl'[t].created \ {Manager} = {}
    BY <1>3
  <2>2. CreatedAreAccounted' /\ CreatedAreSettled'
    BY <1>1, <2>1 DEF CreatedAreAccounted, CreatedAreSettled
  <2>3. ASSUME NEW w \in Workers PROVE worker'[w].conn = NoConn
    <3>1. worker[w] \in WorkerStates
      BY DEF TypeOK
    <3> QED BY <1>1, <3>1 DEF WorkerStates
  <2>4. MapIsOfItsNode' /\ CleanupsAreOfNodes'
    BY <1>1 DEF MapIsOfItsNode, CleanupsAreOfNodes
  <2> QED BY <1>1, <2>2, <2>3, <2>4 DEF RegisteringSide, RegistrationsAreUnique
<1> QED BY <1>4, <1>5

\* Nothing is registered at the start.
LEMMA InitRegistering == Init => RegisteringSide
<1> SUFFICES ASSUME Init PROVE RegisteringSide
  OBVIOUS
<1>1. \A t \in Ids : tpl[t].created \ {Manager} = {}
  <2>1. ASSUME NEW t \in Ids
        PROVE  tpl[t] = IF t \in TemplateIds /\ store[t] # NoRow
                        THEN Item(t, store[t], IF t = 1 THEN {Manager} ELSE {}) ELSE NoItem
    BY DEF Init, Load
  <2>3. ASSUME NEW t \in Ids PROVE tpl[t].created \subseteq {Manager}
    <3>1. CASE t \in TemplateIds /\ store[t] # NoRow
      <4>1. tpl[t] = Item(t, store[t], IF t = 1 THEN {Manager} ELSE {})
        BY <2>1, <3>1
      <4> QED BY <4>1 DEF Item
    <3>2. CASE ~(t \in TemplateIds /\ store[t] # NoRow)
      <4>1. tpl[t] = NoItem
        BY <2>1, <3>2
      <4> QED BY <4>1 DEF NoItem
    <3> QED BY <3>1, <3>2
  <2> QED BY <2>3
<1>2. /\ inbox = {} /\ task.op = "idle" /\ closing.pc = "idle"
      /\ \A c \in Conns : connUuid[c] = Manager
      /\ \A w \in Workers : worker[w].conn = NoConn
  BY DEF Init, Closed
<1> QED BY <1>1, <1>2 DEF RegisteringSide, RegistrationsAreUnique, CreatedAreSettled,
        MapIsOfItsNode, CleanupsAreOfNodes, CreatedAreAccounted

\* The invariant is the shape, the store side and the registering side.
LEMMA IInvSides == IInv <=> TypeOK /\ StoreSide /\ RegisteringSide
BY DEF IInv, StoreSide, RegisteringSide

\* The invariant is inductive.
LEMMA IInvKept == IInv /\ [Next]_vars => IInv'
<1> SUFFICES ASSUME TypeOK, StoreSide, RegisteringSide, [Next]_vars
             PROVE  StoreSide' /\ RegisteringSide'
  BY IInvSides, StepIsTyped, PTL
<1>1. TypeOK'
  BY StepIsTyped
<1>2. CASE WorkerNext
  <2>1. UnchangedManager
    BY <1>2 DEF WorkerNext, AskForTemplate, AskForReferences, LoseConnection, Exit, OpenConnection
  <2>2. StoreSide'
    BY <2>1, UntouchedKept, ItemsKept DEF UnchangedManager, registry
  <2> QED BY <1>1, <1>2, <2>2, WorkerRegistering, OpenConnectionRegistering DEF WorkerNext
<1>3. CASE RequestNext
  BY <1>1, <1>3, RequestKept, RequestRegistering DEF RequestNext
<1>4. CASE EditNext
  BY <1>1, <1>4, EditKept, EditRegistering
<1>5. CASE HandlerNext
  BY <1>1, <1>5, HandlerKept, HandlerRegistering
<1>6. CASE \E c \in Conns : OnSocketClosed(c)
  BY <1>1, <1>6, OnSocketClosedKept, OnSocketClosedRegistering
<1>7. CASE ManagerRestart
  BY <1>1, <1>7, RestartKept
<1>8. CASE UNCHANGED vars
  <2>1. UNCHANGED <<store, tpl, node, connUuid, task, inbox, breaks, closing, worker, late, revived>>
    BY <1>8 DEF vars, registry, history
  <2> QED BY <1>1, <2>1, UntouchedKept, ItemsKept, UnmovedFrame DEF NodeKept
<1>9. CASE ClosingNext
  BY <1>1, <1>9, ClosingKept, EraseNodeRegistering, RemoveReplicaRegistering DEF ClosingNext
<1> QED BY <1>2, <1>3, <1>4, <1>5, <1>6, <1>7, <1>8, <1>9 DEF Next

\* The inductive invariant of the Manager: memory and database go together, and a
\* counted replica has finished its registration on a connection of its own.
THEOREM ManagerInvariant == Spec => []IInv
<1>1. Init => IInv
  BY InitIsTyped, InitStoreSide, InitRegistering, IInvSides
<1> QED BY <1>1, IInvKept, PTL DEF Spec

\* Every uuid that counts as a replica is a node whose connection is up or whose
\* break is still queued, whatever the interleaving of the process thread's
\* handlers, OnSocketClosed, edits and restarts, but for the two named races.
THEOREM CreatedAccounting == Spec => []CreatedAreAccounted
<1>1. IInv => CreatedAreAccounted
  BY DEF IInv
<1> QED BY <1>1, ManagerInvariant, PTL

\* The templates in memory are the rows of the database, at every step.
THEOREM StoreAgreement == Spec => []MemoryMatchesStore
<1>1. IInv => MemoryMatchesStore
  BY DEF IInv
<1> QED BY <1>1, ManagerInvariant, PTL

-----------------------------------------------------------------------------
(* Departures: who refers to a node that goes is told.                     *)

\* A nonempty finite set of naturals has a largest member, so that the row id
\* AddTemplate gives is free.
LEMMA Largest ==
    ASSUME NEW S \in SUBSET Nat, IsFiniteSet(S), S # {}
    PROVE  \E x \in S : \A y \in S : x >= y
<1> DEFINE Bare(T) == T # {} /\ ~ \E x \in T : \A y \in T : x >= y
           Sizes == {Cardinality(T) : T \in {U \in SUBSET S : Bare(U)}}
<1>1. SUFFICES ASSUME Bare(S) PROVE FALSE
  OBVIOUS
<1>2. \A T \in SUBSET S : IsFiniteSet(T) /\ Cardinality(T) \in Nat
  BY FS_Subset, FS_CardinalityType
<1>3. Sizes \in SUBSET Nat /\ Sizes # {}
  BY <1>1, <1>2
<1> HIDE DEF Bare
<1>4. PICK n \in Sizes : \A m \in Sizes : n =< m
  BY <1>3, Smallest
<1>5. PICK T \in SUBSET S : Bare(T) /\ n = Cardinality(T)
  BY <1>4
<1>6. PICK x : x \in T
  BY <1>5 DEF Bare
<1> DEFINE U == T \ {x}
<1>7. U \in SUBSET S /\ Cardinality(U) < n
  <2>1. Cardinality(U) = Cardinality(T) - 1 /\ Cardinality(T) \in Nat
    BY <1>2, <1>5, <1>6, FS_RemoveElement, FS_CardinalityType
  <2> QED BY <1>5, <2>1
<1>8. ~Bare(U)
  <2>1. Cardinality(U) \in Nat /\ n \in Nat
    BY <1>2, <1>3, <1>7
  <2>2. Cardinality(U) \notin Sizes
    BY <1>4, <1>7, <2>1
  <2> QED BY <1>7, <2>2
<1>9. T \subseteq Nat /\ x \in Nat
  BY <1>6
<1>10. CASE U = {}
  <2>1. \A y \in T : x >= y
    BY <1>9, <1>10
  <2> QED BY <1>5, <1>6, <2>1 DEF Bare
<1>11. CASE U # {}
  <2>1. PICK y \in U : \A z \in U : y >= z
    BY <1>8, <1>11 DEF Bare
  <2>2. \E m \in {x, y} : \A z \in T : m >= z
    <3>1. \A z \in T : z = x \/ z \in U
      OBVIOUS
    <3>2. y \in Nat /\ \A z \in U : z \in Nat
      BY <1>9
    <3>3. CASE x >= y
      BY <1>9, <2>1, <3>1, <3>2, <3>3
    <3>4. CASE y >= x
      BY <1>9, <2>1, <3>1, <3>2, <3>4
    <3> QED BY <1>9, <3>2, <3>3, <3>4
  <2> QED BY <1>5, <1>6, <2>2 DEF Bare
<1> QED BY <1>10, <1>11

\* The id AddTemplate gives has no row, because the Manager's own row stays.
ManagerHasARow == store[1] # NoRow

LEMMA NextRowIsFree ==
    ASSUME TypeOK, ManagerHasARow, NextRow \in TemplateIds
    PROVE  store[NextRow] = NoRow
<1> DEFINE used == {t \in TemplateIds : store[t] # NoRow}
<1>1. used \in SUBSET Nat /\ IsFiniteSet(used) /\ 1 \in used
  BY ServerManageAssumption, FS_Subset DEF ManagerHasARow
<1>2. Max(used) \in used /\ \A y \in used : Max(used) >= y
  <2>1. \E x \in used : \A y \in used : x >= y
    BY <1>1, Largest
  <2> QED BY <2>1 DEF Max
<1>3. 1 + Max(used) \notin used
  BY <1>1, <1>2
<1> QED BY <1>3 DEF NextRow

LEMMA ManagerKeepsItsRow ==
    ASSUME TypeOK, TypeOK', ManagerHasARow, [Next]_vars
    PROVE  ManagerHasARow'
<1> USE DEF ManagerHasARow
<1>1. 1 \in TemplateIds
  BY ServerManageAssumption
<1>2. ASSUME NEW row \in Rows, AddTemplate(row) PROVE ManagerHasARow'
  BY <1>1, <1>2, NoRowIsNoRow DEF AddTemplate, TypeOK
<1>3. ASSUME NEW t \in TemplateIds, DeleteTemplate(t) PROVE ManagerHasARow'
  BY <1>1, <1>3 DEF DeleteTemplate, TypeOK
<1>4. ASSUME SetTemplateStore PROVE ManagerHasARow'
  <2>1. /\ store' = UpdateRow(task.item.id, [replicas |-> task.item.replicas, cfg |-> task.item.cfg])
        /\ task.item.cfg # NoConfig
    BY <1>4 DEF SetTemplateStore, TypeOK, Tasks, Copies
  <2>2. NoRow.cfg = NoConfig
    BY DEF NoRow
  <2> QED BY <1>1, <2>1, <2>2 DEF UpdateRow
<1>5. CASE UNCHANGED store
  BY <1>5
<1>6. CASE WorkerNext
  BY <1>5, <1>6 DEF WorkerNext, AskForTemplate, AskForReferences, LoseConnection, Exit, OpenConnection,
     UnchangedManager
<1>7. CASE RequestNext
  BY <1>5, <1>7 DEF RequestNext, RegisteWorkerNew, RegisteWorkerKnown, RegisteNodeStore,
     QueryReferenceInfo, CrashOnRequest, Crash
<1>8. CASE EditNext
  BY <1>2, <1>3, <1>5, <1>8 DEF EditNext, SetTemplateCopy, QueryNode, QueryTemplateCrashes, Crash
<1>9. CASE HandlerNext
  BY <1>4, <1>5, <1>9 DEF HandlerNext, RegisteNodeMap, RegisteNodeNotify, SetTemplateFails
<1>10. CASE (\E c \in Conns : OnSocketClosed(c)) \/ ClosingNext \/ ManagerRestart \/ UNCHANGED vars
  BY <1>5, <1>10 DEF OnSocketClosed, ClosingNext, EraseNode, RemoveReplica, ManagerRestart, vars
<1> QED BY <1>6, <1>7, <1>8, <1>9, <1>10 DEF Next

\* A node of a template that has an item is in the list the item keeps, which
\* operator[] leaves alone.
LEMMA CreatedAreListed ==
    ASSUME StoreSide, NEW t \in Ids \ {None}, tpl[t].created # {}
    PROVE  tpl[t].listed
BY Constants DEF StoreSide, ItemsAreWhole, MemoryMatchesStore, Ids

\* A known node is left alone by operator[] and by the handlers, and a node they
\* make has no connection.
NodeStays(w) == node'[w] = node[w] \/ node'[w].conn = NoConn

LEMMA TouchedNodeStays ==
    ASSUME TypeOK, NEW us, NEW w \in Workers, node' = TouchNodes(us)
    PROVE  NodeStays(w)
BY Constants DEF NodeStays, TouchNodes, BlankNode, NoNode

\* The frame of the steps that register no node and open no connection.
LEMMA ConnectedFrame ==
    ASSUME TypeOK, TypeOK', ConnectedAreCreated,
           \A w \in Workers : Moves(w) /\ NodeStays(w),
           \A w \in Workers : worker'[w].pc = "assigned" => worker'[w].tpl # None,
           \A r \in inbox' : r.op = "RegisteNode" => r \in inbox,
           \A t \in Ids \ {None} : \A w \in tpl[t].created \cap Workers :
              Connected(w)' /\ node[w].template = t => w \in tpl'[t].created,
           \/ task' = task \/ task'.op # "set"
           \/ /\ task'.item.id \in Ids
              /\ task'.item.id # None =>
                    tpl[task'.item.id].created \subseteq task'.item.created
    PROVE  ConnectedAreCreated'
<1>1. ASSUME NEW w \in Workers, node'[w].conn # NoConn
      PROVE  node'[w] = node[w] /\ node[w].template \in Ids \ {None} /\ Settled(w) /\ Settled(w)'
  <2>1. node'[w] = node[w]
    BY <1>1 DEF NodeStays
  <2>2. node[w].template # None /\ Settled(w)
    BY <1>1, <2>1 DEF ConnectedAreCreated
  <2>3. node[w].template \in Ids
    BY Constants DEF TypeOK, NodeItems
  <2> QED BY <2>1, <2>2, <2>3, MovesKeepSettled
<1>2. ASSUME NEW w \in Workers, Connected(w)'
      PROVE  /\ node'[w] = node[w] /\ node[w].template \in Ids \ {None}
             /\ Connected(w) /\ w \in tpl[node[w].template].created
  <2>1. worker'[w].conn # NoConn /\ node'[w].known /\ node'[w].conn = worker'[w].conn
    BY <1>2 DEF Connected
  <2>2. worker[w].conn = worker'[w].conn
    BY <2>1 DEF Moves
  <2>3. node'[w] = node[w] /\ node[w].template \in Ids \ {None}
    BY <1>1, <2>1
  <2>4. Connected(w)
    BY <2>1, <2>2, <2>3 DEF Connected
  <2> QED BY <2>3, <2>4 DEF ConnectedAreCreated
<1>3. ASSUME NEW w \in Workers, Connected(w)', task'.op = "set", task'.item.id = node'[w].template
      PROVE  w \in task'.item.created
  <2>1. CASE task' = task
    BY <1>2, <1>3, <2>1 DEF ConnectedAreCreated
  <2>2. CASE task' # task
    BY <1>2, <1>3, <2>2
  <2> QED BY <2>1, <2>2
<1>4. \A r \in inbox' : r.op = "RegisteNode" => r.tpl # None
  BY DEF ConnectedAreCreated
<1> QED BY <1>1, <1>2, <1>3, <1>4 DEF ConnectedAreCreated

\* A worker that is given a template is given one with an id.
LEMMA AssignedHaveTemplates ==
    ASSUME TypeOK, StoreSide, ConnectedAreCreated, RequestNext, NEW w \in Workers,
           worker'[w].pc = "assigned"
    PROVE  worker'[w].tpl # None
<1>1. PICK r \in inbox : \/ RegisteWorkerNew(r) \/ RegisteWorkerKnown(r) \/ RegisteNodeStore(r)
                         \/ QueryReferenceInfo(r) \/ CrashOnRequest(r)
  BY DEF RequestNext
<1>2. r.from \in Workers
  BY RequestIsTyped
<1>3. CASE worker'[w] = worker[w]
  BY <1>3 DEF ConnectedAreCreated
<1>4. CASE worker'[w] # worker[w] /\ RegisteWorkerKnown(r)
  <2> DEFINE index == Assigned(r.from)
  <2>1. index \in Ids
    BY <1>2, AssignedIsAnId
  <2>2. CASE index # None /\ tpl[index].cfg # NoConfig
    <3>1. tpl[index].id # None
      BY <2>1, <2>2 DEF StoreSide, ItemsAreWhole
    <3>2. Answer(r.from, "wait", [worker[r.from] EXCEPT !.pc = "assigned", !.tpl = tpl[index].id])
      BY <1>4, <2>2 DEF RegisteWorkerKnown
    <3> QED BY <1>2, <1>4, <3>1, <3>2 DEF Answer, TypeOK, WorkerStates
  <2>3. CASE index = None \/ tpl[index].cfg = NoConfig
    <3>1. \E pc \in {"poll", "dead"} : Answer(r.from, "wait", [worker[r.from] EXCEPT !.pc = pc])
      BY <1>4, <2>3 DEF RegisteWorkerKnown
    <3> QED BY <1>2, <1>4, <3>1 DEF Answer, TypeOK, WorkerStates
  <2> QED BY <2>2, <2>3
<1>5. CASE worker'[w] # worker[w] /\ ~RegisteWorkerKnown(r)
  <2>1. worker[r.from] \in WorkerStates
    BY <1>2 DEF TypeOK
  <2>2. PICK next : /\ next.pc \in {"poll", "dead"}
                    /\ Answer(r.from, "wait", next) \/ Answer(r.from, "registering", next)
    <3>1. CASE RegisteWorkerNew(r)
      <4>1. Answer(r.from, "wait", [worker[r.from] EXCEPT !.pc = "poll"])
        BY <3>1 DEF RegisteWorkerNew
      <4> QED BY <2>1, <4>1 DEF WorkerStates
    <3>2. CASE RegisteNodeStore(r)
      <4> DEFINE refused == [worker[r.from] EXCEPT !.pc = "dead", !.conn = NoConn]
      <4>1. Answer(r.from, "registering", refused)
        BY <1>5, <3>2 DEF RegisteNodeStore
      <4>2. refused.pc = "dead"
        BY <2>1 DEF WorkerStates
      <4> HIDE DEF refused
      <4> QED BY <4>1, <4>2
    <3>3. CASE QueryReferenceInfo(r) \/ CrashOnRequest(r)
      BY <1>5, <3>3 DEF QueryReferenceInfo, CrashOnRequest, Crash
    <3> QED BY <1>1, <1>5, <3>1, <3>2, <3>3
  <2>3. worker'[w] = next
    BY <1>2, <1>5, <2>2 DEF Answer, TypeOK
  <2> QED BY <2>2, <2>3
<1> QED BY <1>3, <1>4, <1>5

\* Opening a connection: the worker has no node with a connection yet.
LEMMA OpenConnectionConnected ==
    ASSUME TypeOK, TypeOK', RegisteringSide, ConnectedAreCreated,
           NEW w \in Workers, NEW c \in Conns, OpenConnection(w, c)
    PROVE  ConnectedAreCreated'
<1> DEFINE q == [op |-> "RegisteNode", from |-> w, conn |-> c, tpl |-> worker[w].tpl]
<1>1. /\ worker[w].pc = "assigned" /\ inbox' = inbox \cup {q}
      /\ UNCHANGED <<tpl, node, task>>
  BY DEF OpenConnection, UnchangedManager, registry
<1>2. /\ worker'[w].pc = "registering" /\ \A v \in Workers : v # w => worker'[v] = worker[v]
  BY DEF OpenConnection, TypeOK, WorkerStates
<1>3. node[w].conn = NoConn /\ worker[w].tpl # None
  BY <1>1 DEF ConnectedAreCreated, Settled
<1>4. c # NoConn /\ worker'[w].conn = c
  BY ServerManageAssumption DEF OpenConnection, TypeOK, WorkerStates
<1>5. ASSUME NEW v \in Workers, v # w, Settled(v) PROVE Settled(v)'
  BY <1>1, <1>2, <1>5 DEF Settled
<1>6. ASSUME NEW v \in Workers PROVE /\ node[v].conn # NoConn => v # w
                                     /\ Connected(v)' => Connected(v)
  BY <1>1, <1>2, <1>3, <1>4 DEF Connected
<1>7. \A r \in inbox' : r.op = "RegisteNode" => r.tpl # None
  BY <1>1, <1>3 DEF ConnectedAreCreated
<1> QED BY <1>1, <1>2, <1>5, <1>6, <1>7 DEF ConnectedAreCreated

\* RegisteNodeHandler counts the node it stores.
LEMMA RegisteNodeConnected ==
    ASSUME TypeOK, TypeOK', StoreSide, RegisteringSide, ConnectedAreCreated,
           NEW r \in inbox, RegisteNodeStore(r), ~RegisteNodeFails(r)
    PROVE  ConnectedAreCreated'
<1> DEFINE w == r.from
           t == r.tpl
<1>1. /\ r.op = "RegisteNode" /\ inbox' = inbox \ {r} /\ tpl[t].cfg # NoConfig
      /\ node' = [node EXCEPT ![w] = [known |-> TRUE, template |-> tpl[t].id, conn |-> r.conn]]
      /\ tpl' = [tpl EXCEPT ![t].created = @ \cup {w}]
      /\ worker' = worker /\ task' = [op |-> "map", of |-> w, tpl |-> t, conn |-> r.conn]
  BY DEF RegisteNodeStore, Take
<1>2. w \in Workers /\ t \in Ids /\ w \in Uuids
  BY RequestIsTyped DEF Uuids
<1>3. t # None /\ tpl[t].id = t
  BY <1>1, <1>2 DEF ConnectedAreCreated, StoreSide, ItemsAreWhole
<1>4. node'[w].template = t /\ w \in tpl'[t].created /\ task'.op = "map"
      /\ \A v \in Workers : v # w => node'[v] = node[v]
      /\ \A s \in Ids : tpl[s].created \subseteq tpl'[s].created
  BY <1>1, <1>2, <1>3 DEF TypeOK, Items
<1>5. \A s \in inbox' : s.op = "RegisteNode" => s \in inbox /\ s.from # w
  BY <1>1 DEF RegisteringSide, RegistrationsAreUnique
<1>6. Settled(w)'
  <2>1. worker[w].pc \in {"registering", "dead"}
    BY <1>1 DEF RegisteringSide, RegistrationsAreUnique
  <2> QED BY <1>1, <1>5, <2>1 DEF Settled
<1>7. ASSUME NEW v \in Workers, Settled(v) PROVE Settled(v)'
  BY <1>1, <1>7 DEF Settled
<1>8. ASSUME NEW v \in Workers, node'[v].conn # NoConn
      PROVE  node'[v].template # None /\ Settled(v)'
  BY <1>3, <1>4, <1>6, <1>7, <1>8 DEF ConnectedAreCreated
<1>9. ASSUME NEW v \in Workers, Connected(v)' PROVE v \in tpl'[node'[v].template].created
  <2>1. CASE v = w
    BY <1>4, <2>1
  <2>2. CASE v # w
    <3>1. node'[v] = node[v] /\ node[v].template \in Ids
      BY <1>4, <2>2, Constants DEF TypeOK, NodeItems
    <3>2. v \in tpl[node[v].template].created
      BY <1>1, <1>9, <3>1 DEF Connected, ConnectedAreCreated
    <3> QED BY <1>4, <3>1, <3>2
  <2> QED BY <2>1, <2>2
<1>10. \A s \in inbox' : s.op = "RegisteNode" => s.tpl # None
  BY <1>5 DEF ConnectedAreCreated
<1>11. \A v \in Workers : worker'[v].pc = "assigned" => worker'[v].tpl # None
  BY <1>1 DEF ConnectedAreCreated
<1> QED BY <1>4, <1>8, <1>9, <1>10, <1>11 DEF ConnectedAreCreated

\* The other requests.
LEMMA RequestConnected ==
    ASSUME TypeOK, TypeOK', StoreSide, RegisteringSide, ConnectedAreCreated, RequestNext
    PROVE  ConnectedAreCreated'
<1>1. PICK r \in inbox : \/ RegisteWorkerNew(r) \/ RegisteWorkerKnown(r) \/ RegisteNodeStore(r)
                         \/ QueryReferenceInfo(r) \/ CrashOnRequest(r)
  BY DEF RequestNext
<1>2. \A w \in Workers : worker'[w].pc = "assigned" => worker'[w].tpl # None
  BY AssignedHaveTemplates
<1>3. \A w \in Workers : Moves(w)
  BY <1>1, RequestMoves
<1>4. CASE RegisteNodeStore(r) /\ ~RegisteNodeFails(r)
  BY <1>4, RegisteNodeConnected
<1>5. CASE \/ RegisteWorkerNew(r) \/ RegisteWorkerKnown(r) \/ QueryReferenceInfo(r)
           \/ CrashOnRequest(r) \/ (RegisteNodeStore(r) /\ RegisteNodeFails(r))
  <2>1. inbox' \subseteq inbox /\ task' = task
    BY <1>5 DEF RegisteWorkerNew, RegisteWorkerKnown, QueryReferenceInfo, CrashOnRequest, Crash,
       RegisteNodeStore, Take
  <2>2. ASSUME NEW w \in Workers PROVE NodeStays(w)
    <3>1. CASE RegisteWorkerNew(r)
      BY <3>1, RequestIsTyped, Constants DEF RegisteWorkerNew, NodeStays, TypeOK, BlankNode, NoNode
    <3>2. CASE QueryReferenceInfo(r)
      BY <3>2, TouchedNodeStays DEF QueryReferenceInfo, NodeStays
    <3>3. CASE RegisteWorkerKnown(r) \/ CrashOnRequest(r) \/ (RegisteNodeStore(r) /\ RegisteNodeFails(r))
      BY <3>3 DEF RegisteWorkerKnown, CrashOnRequest, Crash, RegisteNodeStore, registry, NodeStays
    <3> QED BY <1>5, <3>1, <3>2, <3>3
  <2>3. ASSUME NEW t \in Ids \ {None}, tpl[t].created # {} PROVE tpl'[t] = tpl[t]
    <3>1. CASE tpl' = tpl
      BY <3>1
    <3>2. CASE RegisteWorkerKnown(r) /\ tpl' # tpl
      <4>1. tpl[Assigned(r.from)].id \in Ids
        BY RequestIsTyped, AssignedIsAnId DEF TypeOK, Items
      <4>2. tpl' \in TouchTemplate(tpl[Assigned(r.from)].id)
        BY <3>2 DEF RegisteWorkerKnown
      <4> QED BY <2>3, <4>1, <4>2, CreatedAreListed, TouchTemplateKeeps
    <3> QED BY <1>5, <3>1, <3>2 DEF RegisteWorkerNew, QueryReferenceInfo, CrashOnRequest, Crash,
            RegisteNodeStore, registry
  <2> QED BY <1>2, <1>3, <2>1, <2>2, <2>3, ConnectedFrame
<1> QED BY <1>1, <1>4, <1>5

\* The steps of the workers.
LEMMA WorkerConnected ==
    ASSUME TypeOK, TypeOK', RegisteringSide, ConnectedAreCreated, WorkerNext
    PROVE  ConnectedAreCreated'
<1>1. ASSUME NEW w \in Workers, NEW c \in Conns, OpenConnection(w, c) PROVE ConnectedAreCreated'
  BY <1>1, OpenConnectionConnected
<1>2. ASSUME NEW w \in Workers,
             AskForTemplate(w) \/ AskForReferences(w) \/ LoseConnection(w) \/ Exit(w)
      PROVE  ConnectedAreCreated'
  <2>1. UNCHANGED <<tpl, node, task>>
    BY <1>2 DEF AskForTemplate, AskForReferences, LoseConnection, Exit, UnchangedManager, registry
  <2>2. \A r \in inbox' : r.op = "RegisteNode" => r \in inbox
    BY <1>2 DEF AskForTemplate, AskForReferences, LoseConnection, Exit, Request
  <2>3. \A v \in Workers : Moves(v) /\ NodeStays(v)
    BY <1>2, <2>1, WorkerMoves DEF NodeStays
  <2>4. ASSUME NEW v \in Workers, worker'[v].pc = "assigned" PROVE worker'[v].tpl # None
    <3>1. \/ worker'[v] = worker[v]
          \/ worker'[v].pc = worker[v].pc /\ worker'[v].tpl = worker[v].tpl
          \/ worker'[v].pc \in {"wait", "dead"}
      BY <1>2 DEF AskForTemplate, AskForReferences, LoseConnection, Exit, TypeOK, WorkerStates
    <3> QED BY <2>4, <3>1 DEF ConnectedAreCreated
  <2> QED BY <2>1, <2>2, <2>3, <2>4, ConnectedFrame
<1> QED BY <1>1, <1>2 DEF WorkerNext

\* The administrator's requests, when no template is deleted that has nodes.
LEMMA EditConnected ==
    ASSUME TypeOK, TypeOK', StoreSide, ManagerHasARow, ConnectedAreCreated,
           EditNext, DeletesOnlyUnused
    PROVE  ConnectedAreCreated'
<1>1. worker' = worker /\ inbox' = inbox
  BY DEF EditNext, AddTemplate, SetTemplateCopy, DeleteTemplate, QueryNode, QueryTemplateCrashes,
     Edit, Crash
<1>2. \A w \in Workers : Moves(w) /\ (worker'[w].pc = "assigned" => worker'[w].tpl # None)
  BY <1>1 DEF Moves, ConnectedAreCreated
<1>3. ASSUME NEW row \in Rows, AddTemplate(row) PROVE ConnectedAreCreated'
  <2>1. UNCHANGED <<node, task>> /\ NextRow \in TemplateIds
    BY <1>3 DEF AddTemplate
  <2>2. tpl[NextRow].created = {}
    <3>1. store[NextRow] = NoRow /\ NextRow \in Ids
      BY <2>1, NextRowIsFree, Constants
    <3> QED BY <2>1, <3>1 DEF StoreSide, MemoryMatchesStore, ItemsAreWhole
  <2>3. \A t \in Ids : t # NextRow => tpl'[t] = tpl[t]
    BY <1>3 DEF AddTemplate, TypeOK
  <2> QED BY <1>1, <1>2, <2>1, <2>2, <2>3, ConnectedFrame DEF NodeStays
<1>4. ASSUME NEW s \in TemplateIds, DeleteTemplate(s) PROVE ConnectedAreCreated'
  <2>1. UNCHANGED <<node, task>> /\ tpl[s].created = {}
    BY <1>4 DEF DeleteTemplate, DeletesOnlyUnused
  <2>2. \A t \in Ids : t # s => tpl'[t] = tpl[t]
    BY <1>4 DEF DeleteTemplate, TypeOK
  <2> QED BY <1>1, <1>2, <2>1, <2>2, ConnectedFrame DEF NodeStays
<1>5. ASSUME NEW s \in TemplateIds, NEW row \in Rows, SetTemplateCopy(s, row)
      PROVE  ConnectedAreCreated'
  <2>1. UNCHANGED <<tpl, node>> /\ s \in Ids
    BY <1>5, Constants DEF SetTemplateCopy
  <2>2. PICK r, c : task' = [op |-> "set", tpl |-> s,
                             item |-> [tpl[s] EXCEPT !.replicas = r, !.cfg = c]]
    BY <1>5 DEF SetTemplateCopy
  <2>3. task'.item.id = tpl[s].id /\ task'.item.created = tpl[s].created
    <3>1. tpl[s] \in Items
      BY <2>1 DEF TypeOK
    <3> QED BY <2>2, <3>1 DEF Items
  <2>4. tpl[s].id \in {s, None}
    BY <2>1 DEF StoreSide, ItemsAreWhole
  <2> QED BY <1>1, <1>2, <2>1, <2>3, <2>4, Constants, ConnectedFrame DEF NodeStays
<1>6. ASSUME NEW s \in TemplateIds, QueryNode(s) PROVE ConnectedAreCreated'
  <2>1. UNCHANGED task /\ s \in Ids /\ tpl' \in TouchTemplate(s)
    BY <1>6, Constants DEF QueryNode
  <2>2. \A w \in Workers : NodeStays(w)
    BY <1>6, TouchedNodeStays DEF QueryNode
  <2>3. \A t \in Ids \ {None} : tpl[t].created # {} => tpl'[t] = tpl[t]
    BY <2>1, CreatedAreListed, TouchTemplateKeeps
  <2> QED BY <1>1, <1>2, <2>1, <2>2, <2>3, ConnectedFrame
<1>7. CASE QueryTemplateCrashes
  <2>1. UNCHANGED <<tpl, node, task>>
    BY <1>7 DEF QueryTemplateCrashes, Crash, registry
  <2> QED BY <1>1, <1>2, <2>1, ConnectedFrame DEF NodeStays
<1> QED BY <1>3, <1>4, <1>5, <1>6, <1>7 DEF EditNext

\* The rest of a handler: the copy SetTemplate stores holds every node that is
\* connected.
LEMMA HandlerConnected ==
    ASSUME TypeOK, TypeOK', RegisteringSide, ConnectedAreCreated, HandlerNext
    PROVE  ConnectedAreCreated'
<1>1. inbox' = inbox /\ task'.op # "set"
  BY DEF HandlerNext, RegisteNodeMap, RegisteNodeNotify, SetTemplateStore, SetTemplateFails
<1>5. CASE RegisteNodeMap
  BY <1>1, <1>5, ConnectedFrame DEF RegisteNodeMap, Moves, NodeStays, ConnectedAreCreated
<1>2. CASE RegisteNodeNotify
  <2>1. tpl' = tpl /\ \A w \in Workers : Moves(w) /\ NodeStays(w)
    BY <1>2, NotifyMoves, TouchedNodeStays DEF RegisteNodeNotify, NodeStays
  <2>2. ASSUME NEW w \in Workers, worker'[w].pc = "assigned" PROVE worker'[w].tpl # None
    <3>1. worker'[w] = worker[w] \/ worker'[w].pc # "assigned"
      BY <1>2 DEF RegisteNodeNotify, Answer, TypeOK, Tasks, WorkerStates
    <3> QED BY <2>2, <3>1 DEF ConnectedAreCreated
  <2> QED BY <1>1, <2>1, <2>2, ConnectedFrame
<1>3. CASE SetTemplateFails
  BY <1>1, <1>3, ConnectedFrame DEF SetTemplateFails, registry, Moves, NodeStays, ConnectedAreCreated
<1>4. CASE SetTemplateStore
  <2>1. /\ UNCHANGED <<node, worker>> /\ task.op = "set"
        /\ tpl' = [tpl EXCEPT ![task.item.id] = task.item]
    BY <1>4 DEF SetTemplateStore
  <2>2. ASSUME NEW t \in Ids \ {None}, NEW w \in tpl[t].created \cap Workers,
               Connected(w)', node[w].template = t
        PROVE  w \in tpl'[t].created
    <3>1. CASE t = task.item.id
      <4>1. Connected(w)
        BY <2>1, <2>2 DEF Connected
      <4>2. w \in task.item.created
        BY <2>1, <2>2, <3>1, <4>1 DEF ConnectedAreCreated
      <4> QED BY <2>1, <3>1, <4>2 DEF TypeOK
    <3>2. CASE t # task.item.id
      BY <2>1, <3>2 DEF TypeOK
    <3> QED BY <3>1, <3>2
  <2>3. \A w \in Workers : /\ Moves(w) /\ NodeStays(w)
                           /\ worker'[w].pc = "assigned" => worker'[w].tpl # None
    BY <2>1 DEF Moves, NodeStays, ConnectedAreCreated
  <2> QED BY <1>1, <2>2, <2>3, ConnectedFrame
<1> QED BY <1>2, <1>3, <1>4, <1>5 DEF HandlerNext

\* OnSocketClosed takes its own node out of its template's list when that node is
\* erased.
LEMMA OnSocketClosedConnected ==
    ASSUME TypeOK, TypeOK', ConnectedAreCreated, NEW c \in Conns, OnSocketClosed(c)
    PROVE  ConnectedAreCreated'
<1>1. UNCHANGED <<tpl, task, inbox, worker>>
  BY DEF OnSocketClosed
<1>2. \A w \in Workers : Moves(w) /\ (worker'[w].pc = "assigned" => worker'[w].tpl # None)
  BY <1>1 DEF Moves, ConnectedAreCreated
<1>3. \A w \in Workers : NodeStays(w)
  BY TouchedNodeStays DEF OnSocketClosed, NodeStays
<1> QED BY <1>1, <1>2, <1>3, ConnectedFrame

LEMMA ClosingConnected ==
    ASSUME TypeOK, TypeOK', StoreSide, RegisteringSide, ConnectedAreCreated, ClosingNext
    PROVE  ConnectedAreCreated'
<1>1. UNCHANGED <<task, inbox, worker>>
  BY DEF ClosingNext, EraseNode, RemoveReplica
<1>2. \A w \in Workers : Moves(w) /\ (worker'[w].pc = "assigned" => worker'[w].tpl # None)
  BY <1>1 DEF Moves, ConnectedAreCreated
<1>3. CASE EraseNode
  <2>1. tpl' = tpl
    BY <1>3 DEF EraseNode
  <2>2. ASSUME NEW w \in Workers PROVE NodeStays(w)
    BY <1>3, Constants DEF EraseNode, TypeOK, NodeStays, NoNode
  <2> QED BY <1>1, <1>2, <2>1, <2>2, ConnectedFrame
<1>4. CASE RemoveReplica
  <2> DEFINE id == closing.tpl
  <2>1. PICK touched \in TouchTemplate(id) : tpl' = RemoveCreated(touched, id, closing.of)
    BY <1>4 DEF RemoveReplica
  <2>2. id \in Ids /\ node[closing.of].conn = NoConn /\ node' = node
    BY <1>4, ClosingIsTyped DEF RemoveReplica, RegisteringSide, CleanupsAreOfNodes
  <2>3. ASSUME NEW t \in Ids \ {None}, NEW w \in tpl[t].created \cap Workers, Connected(w)'
        PROVE  w \in tpl'[t].created
    <3>1. w # closing.of
      BY <2>2, <2>3 DEF Connected
    <3>2. touched[t] = tpl[t] /\ touched \in [Ids -> Items]
      BY <2>2, <2>3, CreatedAreListed, TouchTemplateKeeps
    <3> QED BY <2>1, <2>2, <2>3, <3>1, <3>2 DEF RemoveCreated, Items
  <2> QED BY <1>1, <1>2, <2>2, <2>3, ConnectedFrame DEF NodeStays
<1> QED BY <1>3, <1>4 DEF ClosingNext

LEMMA RestartConnected ==
    ASSUME TypeOK, TypeOK', ConnectedAreCreated, ManagerRestart
    PROVE  ConnectedAreCreated'
<1>1. inbox' = {} /\ task'.op = "idle" /\ \A u \in Uuids : node'[u] = NoNode
  BY DEF ManagerRestart
<1>2. \A w \in Workers : ~node'[w].known /\ node'[w].conn = NoConn
  BY <1>1, Constants DEF NoNode
<1>3. ASSUME NEW w \in Workers, worker'[w].pc = "assigned" PROVE worker'[w].tpl # None
  <2>1. worker[w] \in WorkerStates
    BY DEF TypeOK
  <2>2. worker[w].pc = "assigned" /\ worker'[w].tpl = worker[w].tpl
    BY <1>3, <2>1 DEF ManagerRestart, WorkerStates
  <2> QED BY <2>2 DEF ConnectedAreCreated
<1> QED BY <1>1, <1>2, <1>3 DEF ConnectedAreCreated, Connected

LEMMA InitConnected == Init => ConnectedAreCreated /\ ManagerHasARow
<1> SUFFICES ASSUME Init PROVE ConnectedAreCreated /\ ManagerHasARow
  OBVIOUS
<1>1. ConnectedAreCreated
  BY Constants DEF Init, ConnectedAreCreated, Connected, NoNode
<1>2. 1 \in TemplateIds /\ store[1] = InitialStore[1] /\ InitialStore[1] \in Rows
  BY ServerManageAssumption DEF Init, Rows
<1> QED BY <1>1, <1>2, NoRowIsNoRow DEF ManagerHasARow

\* One step, when it deletes no template that has nodes.
LEMMA ConnectedKept ==
    IInv /\ ManagerHasARow /\ ConnectedAreCreated /\ [Next]_vars /\ [DeletesOnlyUnused]_vars
    => ConnectedAreCreated' /\ ManagerHasARow'
<1> SUFFICES ASSUME TypeOK, StoreSide, RegisteringSide, ManagerHasARow, ConnectedAreCreated,
                    [Next]_vars, [DeletesOnlyUnused]_vars
             PROVE  ConnectedAreCreated' /\ ManagerHasARow'
  BY IInvSides
<1>1. TypeOK'
  BY StepIsTyped
<1>2. ManagerHasARow'
  BY <1>1, ManagerKeepsItsRow
<1>3. CASE UNCHANGED vars
  BY <1>2, <1>3 DEF vars, registry, ConnectedAreCreated, Connected, Settled
<1>4. CASE Next /\ DeletesOnlyUnused
  <2>1. CASE WorkerNext
    BY <1>1, <1>2, <2>1, WorkerConnected
  <2>2. CASE RequestNext
    BY <1>1, <1>2, <2>2, RequestConnected
  <2>3. CASE EditNext
    BY <1>1, <1>2, <1>4, <2>3, EditConnected
  <2>4. CASE HandlerNext
    BY <1>1, <1>2, <2>4, HandlerConnected
  <2>5. CASE \E c \in Conns : OnSocketClosed(c)
    BY <1>1, <1>2, <2>5, OnSocketClosedConnected
  <2>6. CASE ManagerRestart
    BY <1>1, <1>2, <2>6, RestartConnected
  <2>7. CASE ClosingNext
    BY <1>1, <1>2, <2>7, ClosingConnected
  <2> QED BY <1>2, <1>4, <2>1, <2>2, <2>3, <2>4, <2>5, <2>6, <2>7 DEF Next
<1> QED BY <1>3, <1>4

\* Only the erasing of a cleanup takes a node away, when the Manager runs on.
LEMMA OnlyErasedNodesGo ==
    ASSUME TypeOK, Next, ~ManagerRestart, NEW w \in Workers, node[w].known, ~node'[w].known
    PROVE  closing.pc = "erase" /\ closing.of = w
<1>1. w \in Uuids
  BY Constants
<1>2. ASSUME NEW us, node' = TouchNodes(us) PROVE FALSE
  BY <1>1, <1>2, TouchNodesKeeps
<1>3. ASSUME UNCHANGED node PROVE FALSE
  BY <1>3
<1>4. CASE WorkerNext
  BY <1>3, <1>4 DEF WorkerNext, AskForTemplate, AskForReferences, LoseConnection, Exit,
     OpenConnection, UnchangedManager, registry
<1>5. CASE RequestNext
  <2>1. PICK r \in inbox : \/ RegisteWorkerNew(r) \/ RegisteWorkerKnown(r) \/ RegisteNodeStore(r)
                           \/ QueryReferenceInfo(r) \/ CrashOnRequest(r)
    BY <1>5 DEF RequestNext
  <2>2. \A item : node' = [node EXCEPT ![r.from] = item] => ~item.known
    BY <1>1 DEF TypeOK
  <2>3. ~RegisteWorkerNew(r)
    BY <2>2 DEF RegisteWorkerNew, BlankNode, NoNode
  <2>4. ~RegisteNodeStore(r)
    BY <1>3, <2>2 DEF RegisteNodeStore
  <2>5. ~RegisteWorkerKnown(r) /\ ~CrashOnRequest(r)
    BY <1>3 DEF RegisteWorkerKnown, CrashOnRequest, Crash, registry
  <2>6. ~QueryReferenceInfo(r)
    BY <1>2, <1>3 DEF QueryReferenceInfo
  <2> QED BY <2>1, <2>3, <2>4, <2>5, <2>6
<1>6. CASE EditNext
  BY <1>2, <1>3, <1>6 DEF EditNext, AddTemplate, SetTemplateCopy, DeleteTemplate, QueryNode,
     QueryTemplateCrashes, Crash, registry
<1>7. CASE HandlerNext
  BY <1>2, <1>3, <1>7 DEF HandlerNext, RegisteNodeMap, RegisteNodeNotify, SetTemplateStore,
     SetTemplateFails, registry
<1>8. CASE \E c \in Conns : OnSocketClosed(c)
  BY <1>2, <1>3, <1>8 DEF OnSocketClosed
<1>9. CASE RemoveReplica
  BY <1>3, <1>9 DEF RemoveReplica
<1>10. CASE EraseNode
  <2>1. CASE closing.of = w
    BY <1>10, <2>1 DEF EraseNode
  <2>2. CASE closing.of # w
    BY <1>1, <1>10, <2>2 DEF EraseNode, TypeOK
  <2> QED BY <2>1, <2>2
<1> QED BY <1>4, <1>5, <1>6, <1>7, <1>8, <1>9, <1>10 DEF Next, ClosingNext

\* A connected worker whose template refers to another is found among the
\* referrers.
LEMMA ReferrersAreFound ==
    ASSUME TypeOK, StoreSide, ConnectedAreCreated,
           NEW id, NEW x \in Workers, Connected(x), id \in Refs(tpl[node[x].template])
    PROVE  x \in Referrers(id)
<1> DEFINE t == node[x].template
<1>1. x \in tpl[t].created /\ t # None
  BY DEF Connected, ConnectedAreCreated
<1>2. t \in Ids
  BY Constants DEF TypeOK, NodeItems
<1>3. tpl[t].listed
  BY <1>1, <1>2, CreatedAreListed
<1> QED BY <1>1, <1>2, <1>3 DEF Referrers

\* A worker becomes connected only when its node is stored; otherwise nothing of
\* its node has changed.
LEMMA ConnectedStays ==
    ASSUME NEW x \in Workers, Moves(x), NodeStays(x), Connected(x)'
    PROVE  Connected(x) /\ node'[x] = node[x]
BY DEF Moves, NodeStays, Connected

\* An item gets no reference but by the edits.
FewerRefs(t) == Refs(tpl'[t]) \subseteq Refs(tpl[t])

LEMMA KeptItemsHaveFewerRefs ==
    ASSUME NEW t, SameItem(t) \/ NewGhost(t) \/ tpl'[t] = NoItem
    PROVE  FewerRefs(t)
BY DEF SameItem, NewGhost, NoItem, FewerRefs, Refs

\* The frame of the steps between the gathering and the erasing.
LEMMA ToldFrame ==
    ASSUME TypeOK, ClosingIsTold, closing' = closing, missed \subseteq missed',
           \A x \in Workers : Connected(x)' =>
              \/ x \in missed'
              \/ Connected(x) /\ node'[x] = node[x] /\ FewerRefs(node[x].template)
    PROVE  ClosingIsTold'
BY DEF ClosingIsTold, FewerRefs

\* The steps of the workers and of the process thread, for the workers.
LEMMA WorkerTold ==
    ASSUME TypeOK, TypeOK', StoreSide, RegisteringSide, ConnectedAreCreated, ClosingIsTold, WorkerNext
    PROVE  ClosingIsTold'
<1>1. UNCHANGED <<tpl, node, closing, missed>>
  BY DEF WorkerNext, AskForTemplate, AskForReferences, LoseConnection, Exit, OpenConnection,
     UnchangedManager, registry, history
<1>2. ASSUME NEW x \in Workers, Connected(x)' PROVE Connected(x)
  <2>1. PICK w \in Workers :
           \/ AskForTemplate(w) \/ AskForReferences(w) \/ LoseConnection(w) \/ Exit(w)
           \/ \E c \in Conns : OpenConnection(w, c)
    BY DEF WorkerNext
  <2>2. CASE AskForTemplate(w) \/ AskForReferences(w) \/ LoseConnection(w) \/ Exit(w)
    BY <1>1, <1>2, <2>2, WorkerMoves, ConnectedStays DEF NodeStays
  <2>3. ASSUME NEW c \in Conns, OpenConnection(w, c) PROVE Connected(x)
    <3>1. node[w].conn = NoConn
      BY <2>3 DEF OpenConnection, ConnectedAreCreated, Settled
    <3>2. x # w
      BY <1>1, <1>2, <3>1 DEF Connected
    <3>3. worker'[x] = worker[x]
      BY <2>3, <3>2 DEF OpenConnection, TypeOK
    <3> QED BY <1>1, <1>2, <3>3 DEF Connected
  <2> QED BY <2>1, <2>2, <2>3
<1>3. \A t : FewerRefs(t)
  BY <1>1 DEF FewerRefs
<1> QED BY <1>1, <1>2, <1>3, ToldFrame

LEMMA RequestTold ==
    ASSUME TypeOK, TypeOK', StoreSide, ConnectedAreCreated, ClosingIsTold, RequestNext
    PROVE  ClosingIsTold'
<1>1. PICK r \in inbox : \/ RegisteWorkerNew(r) \/ RegisteWorkerKnown(r) \/ RegisteNodeStore(r)
                         \/ QueryReferenceInfo(r) \/ CrashOnRequest(r)
  BY DEF RequestNext
<1>2. r.from \in Workers /\ r.from \in Uuids
  BY RequestIsTyped, Constants
<1>3. closing' = closing /\ missed \subseteq missed'
  BY <1>1 DEF RegisteWorkerNew, RegisteWorkerKnown, RegisteNodeStore, QueryReferenceInfo,
     CrashOnRequest, Crash, Missing, history
<1>4. ASSUME NEW t \in Ids PROVE FewerRefs(t)
  <2>1. CASE tpl' = tpl
    BY <2>1 DEF FewerRefs
  <2>2. CASE RegisteWorkerKnown(r) /\ tpl' # tpl
    <3>1. tpl[Assigned(r.from)].id \in Ids /\ tpl' \in TouchTemplate(tpl[Assigned(r.from)].id)
      BY <1>2, <2>2, AssignedIsAnId DEF RegisteWorkerKnown, TypeOK, Items
    <3> QED BY <3>1, TouchedKept, KeptItemsHaveFewerRefs
  <2>3. CASE RegisteNodeStore(r) /\ tpl' # tpl
    <3>1. tpl' = [tpl EXCEPT ![r.tpl].created = @ \cup {r.from}]
      BY <2>3 DEF RegisteNodeStore
    <3>2. tpl'[t].cfg = tpl[t].cfg
      BY <3>1 DEF TypeOK, Items
    <3> QED BY <3>2 DEF FewerRefs, Refs
  <2> QED BY <1>1, <2>1, <2>2, <2>3 DEF RegisteWorkerNew, QueryReferenceInfo, CrashOnRequest,
          Crash, registry
<1>5. ASSUME NEW x \in Workers, Connected(x)', closing.pc = "erase"
      PROVE  x \in missed' \/ (Connected(x) /\ node'[x] = node[x])
  <2>1. Moves(x) /\ x \in Uuids
    BY <1>1, RequestMoves, Constants
  <2>2. CASE NodeStays(x)
    BY <1>5, <2>1, <2>2, ConnectedStays
  <2>3. CASE ~NodeStays(x)
    <3>1. ~RegisteWorkerNew(r)
      BY <2>1, <2>3 DEF RegisteWorkerNew, TypeOK, NodeStays, BlankNode, NoNode
    <3>2. ~QueryReferenceInfo(r)
      BY <2>3, TouchedNodeStays DEF QueryReferenceInfo, NodeStays
    <3>3. RegisteNodeStore(r) /\ ~RegisteNodeFails(r)
      BY <1>1, <2>3, <3>1, <3>2 DEF RegisteWorkerKnown, CrashOnRequest, Crash, registry,
         RegisteNodeStore, NodeStays
    <3>4. x = r.from
      BY <2>1, <2>3, <3>3 DEF RegisteNodeStore, TypeOK, NodeStays
    <3> QED BY <1>5, <3>3, <3>4 DEF RegisteNodeStore, Missing
  <2> QED BY <2>2, <2>3
<1>6. \A x \in Workers : node[x].template \in Ids
  BY Constants DEF TypeOK, NodeItems
<1>7. CASE closing.pc = "erase"
  BY <1>3, <1>4, <1>5, <1>6, <1>7, ToldFrame
<1> QED BY <1>3, <1>7 DEF ClosingIsTold

LEMMA EditTold ==
    ASSUME TypeOK, TypeOK', StoreSide, ManagerHasARow, ConnectedAreCreated, ClosingIsTold, EditNext
    PROVE  ClosingIsTold'
<1>1. UNCHANGED <<worker, closing, missed>>
  BY DEF EditNext, AddTemplate, SetTemplateCopy, DeleteTemplate, QueryNode, QueryTemplateCrashes,
     Edit, Crash, history
<1>2. \A x \in Workers : NodeStays(x)
  BY TouchedNodeStays DEF EditNext, AddTemplate, SetTemplateCopy, DeleteTemplate, QueryNode,
     QueryTemplateCrashes, Crash, registry, NodeStays
<1>3. ASSUME NEW x \in Workers, Connected(x)'
      PROVE  /\ Connected(x) /\ node'[x] = node[x]
             /\ node[x].template \in Ids /\ x \in tpl[node[x].template].created
  <2>1. Connected(x) /\ node'[x] = node[x]
    BY <1>1, <1>2, <1>3, ConnectedStays DEF Moves
  <2> QED BY <2>1, Constants DEF TypeOK, NodeItems, ConnectedAreCreated
<1>4. ASSUME NEW row \in Rows, AddTemplate(row), NEW x \in Workers, Connected(x)'
      PROVE  FewerRefs(node[x].template)
  <2>1. NextRow \in TemplateIds /\ NextRow \in Ids
    BY <1>4, Constants DEF AddTemplate
  <2>2. tpl[NextRow].created = {}
    BY <2>1, NextRowIsFree DEF StoreSide, MemoryMatchesStore, ItemsAreWhole
  <2>3. node[x].template # NextRow
    BY <1>3, <1>4, <2>2
  <2>4. tpl'[node[x].template] = tpl[node[x].template]
    BY <1>3, <1>4, <2>3 DEF AddTemplate, TypeOK
  <2> QED BY <2>4 DEF FewerRefs
<1>5. ASSUME NEW s \in TemplateIds, DeleteTemplate(s), NEW t \in Ids PROVE FewerRefs(t)
  <2>1. tpl'[t] = NoItem \/ tpl'[t] = tpl[t]
    BY <1>5 DEF DeleteTemplate, TypeOK
  <2> QED BY <2>1, KeptItemsHaveFewerRefs DEF FewerRefs
<1>6. ASSUME NEW s \in TemplateIds, QueryNode(s), NEW t \in Ids PROVE FewerRefs(t)
  <2>1. s \in Ids /\ tpl' \in TouchTemplate(s)
    BY <1>6, Constants DEF QueryNode
  <2> QED BY <2>1, TouchedKept, KeptItemsHaveFewerRefs
<1>7. ASSUME tpl' = tpl, NEW t PROVE FewerRefs(t)
  BY <1>7 DEF FewerRefs
<1>8. \A x \in Workers : Connected(x)' => FewerRefs(node[x].template)
  BY <1>3, <1>4, <1>5, <1>6, <1>7 DEF EditNext, SetTemplateCopy, QueryTemplateCrashes, Crash, registry
<1> QED BY <1>1, <1>3, <1>8, ToldFrame

LEMMA HandlerTold ==
    ASSUME TypeOK, TypeOK', RegisteringSide, ConnectedAreCreated, ClosingIsTold, HandlerNext
    PROVE  ClosingIsTold'
<1>1. closing' = closing /\ missed \subseteq missed'
  BY DEF HandlerNext, RegisteNodeMap, RegisteNodeNotify, SetTemplateStore, SetTemplateFails,
     Missing, history
<1>2. CASE RegisteNodeMap \/ RegisteNodeNotify \/ SetTemplateFails
  <2>1. tpl' = tpl
    BY <1>2 DEF RegisteNodeMap, RegisteNodeNotify, SetTemplateFails, registry
  <2>2. ASSUME NEW x \in Workers PROVE Moves(x) /\ NodeStays(x)
    <3>1. CASE RegisteNodeNotify
      BY <3>1, NotifyMoves, TouchedNodeStays DEF RegisteNodeNotify, NodeStays
    <3>2. CASE RegisteNodeMap \/ SetTemplateFails
      BY <3>2 DEF RegisteNodeMap, SetTemplateFails, registry, Moves, NodeStays
    <3> QED BY <1>2, <3>1, <3>2
  <2>3. \A t : FewerRefs(t)
    BY <2>1 DEF FewerRefs
  <2> QED BY <1>1, <2>2, <2>3, ConnectedStays, ToldFrame
<1>3. CASE SetTemplateStore /\ closing.pc = "erase"
  <2>1. /\ UNCHANGED <<node, worker>> /\ task.op = "set"
        /\ tpl' = [tpl EXCEPT ![task.item.id] = task.item]
        /\ missed' = missed \cup task.item.created
    BY <1>3 DEF SetTemplateStore, Missing
  <2>2. ASSUME NEW x \in Workers, Connected(x)', x \notin missed'
        PROVE  Connected(x) /\ FewerRefs(node[x].template)
    <3>1. Connected(x)
      BY <2>1, <2>2 DEF Connected
    <3>2. node[x].template # task.item.id
      BY <2>1, <2>2, <3>1 DEF ConnectedAreCreated
    <3> QED BY <2>1, <3>1, <3>2 DEF FewerRefs, TypeOK
  <2> QED BY <1>1, <2>1, <2>2, ToldFrame
<1> QED BY <1>1, <1>2, <1>3 DEF HandlerNext, ClosingIsTold

\* Whoever refers to a node when its cleanup starts is gathered and told.
LEMMA OnSocketClosedTold ==
    ASSUME TypeOK, TypeOK', StoreSide, ConnectedAreCreated', ClosingIsTold,
           NEW c \in Conns, OnSocketClosed(c)
    PROVE  ClosingIsTold'
<1> DEFINE target == connUuid[c]
           id == TouchNodes({target})[target].template
<1>1. CASE target = Manager
  BY <1>1 DEF OnSocketClosed, ClosingIsTold
<1>2. CASE target # Manager
  <2>1. tpl' = tpl /\ closing'.tpl = id /\ closing'.told = Referrers(id)
    BY <1>2 DEF OnSocketClosed
  <2> HIDE DEF id
  <2>2. ASSUME NEW x \in Workers, Connected(x)', id \in Refs(tpl'[node'[x].template])
        PROVE  x \in Referrers(id)
    <3> DEFINE t == node'[x].template
    <3>1. t \in Ids
      BY Constants DEF TypeOK, NodeItems
    <3>2. x \in tpl'[t].created /\ t # None
      BY <2>2 DEF Connected, ConnectedAreCreated
    <3>3. x \in tpl[t].created /\ tpl[t].listed
      BY <2>1, <3>1, <3>2, CreatedAreListed
    <3>4. id \in Refs(tpl[t])
      BY <2>1, <2>2
    <3> HIDE DEF t
    <3> QED BY <3>1, <3>3, <3>4 DEF Referrers
  <2> QED BY <2>1, <2>2 DEF ClosingIsTold
<1> QED BY <1>1, <1>2

\* An erased node is next taken out of its template.
LEMMA ErasedIsRemoved == ASSUME TypeOK, TypeOK', EraseNode PROVE closing'.pc = "remove"
BY DEF EraseNode, TypeOK, Closings

\* One step, when it deletes no template that has nodes.
LEMMA ClosingToldKept ==
    IInv /\ ManagerHasARow /\ ConnectedAreCreated /\ ClosingIsTold
      /\ [Next]_vars /\ [DeletesOnlyUnused]_vars
    => ClosingIsTold'
<1> SUFFICES ASSUME TypeOK, StoreSide, RegisteringSide, ManagerHasARow, ConnectedAreCreated,
                    ClosingIsTold, [Next]_vars, [DeletesOnlyUnused]_vars
             PROVE  ClosingIsTold'
  BY IInvSides
<1>1. TypeOK'
  BY StepIsTyped
<1>2. IInv
  BY IInvSides
<1>3. ConnectedAreCreated'
  BY <1>2, ConnectedKept
<1>4. CASE UNCHANGED vars
  <2>1. UNCHANGED <<tpl, node, worker, closing, missed>>
    BY <1>4 DEF vars, registry, history
  <2> QED BY <2>1 DEF ClosingIsTold, Connected
<1>5. CASE ClosingNext \/ ManagerRestart
  <2>1. closing'.pc # "erase"
    <3>1. EraseNode => closing'.pc = "remove"
      BY <1>1, ErasedIsRemoved
    <3>2. RemoveReplica \/ ManagerRestart => closing'.pc = "idle"
      <4>1. RemoveReplica \/ ManagerRestart => closing' = Closed
        BY DEF RemoveReplica, ManagerRestart
      <4>2. Closed.pc = "idle"
        BY DEF Closed
      <4> QED BY <4>1, <4>2
    <3> QED BY <1>5, <3>1, <3>2 DEF ClosingNext
  <2> QED BY <2>1 DEF ClosingIsTold
<1>6. CASE WorkerNext
  BY <1>1, <1>6, WorkerTold
<1>7. CASE RequestNext
  BY <1>1, <1>7, RequestTold DEF RequestNext
<1>8. CASE EditNext
  BY <1>1, <1>8, EditTold
<1>9. CASE HandlerNext
  BY <1>1, <1>9, HandlerTold
<1>10. CASE \E c \in Conns : OnSocketClosed(c)
  BY <1>1, <1>3, <1>10, OnSocketClosedTold
<1> QED BY <1>4, <1>5, <1>6, <1>7, <1>8, <1>9, <1>10 DEF Next

\* When a node is erased, every running worker with an open connection whose
\* template refers to the node's has been told of it (OnSocketClosed's
\* broadcast), whatever the threads do in between, but for the workers stored
\* since the referrers were gathered; as long as no template is deleted that has
\* nodes.
THEOREM DeparturesAnnounced == Spec /\ [][DeletesOnlyUnused]_vars => DeparturesAreAnnounced
<1> DEFINE Inv == IInv /\ ManagerHasARow /\ ConnectedAreCreated /\ ClosingIsTold
<1>1. Init => Inv
  BY InitIsTyped, InitStoreSide, InitRegistering, IInvSides, InitConnected
     DEF Init, Closed, ClosingIsTold
<1>2. Inv /\ [Next]_vars /\ [DeletesOnlyUnused]_vars => Inv'
  BY IInvKept, ConnectedKept, ClosingToldKept
<1>3. Inv /\ [Next]_vars => [AnnouncesDepartures]_vars
  <2> SUFFICES ASSUME Inv, Next, NEW w \in Workers, NEW x \in Workers,
                      node[w].known, ~node'[w].known, x # w, RefersTo(x, w), ~ManagerRestart
               PROVE  closing.of = w /\ x \in closing.told \cup missed
    BY DEF AnnouncesDepartures
  <2>1. TypeOK /\ RegisteringSide
    BY IInvSides
  <2>2. closing.pc = "erase" /\ closing.of = w
    BY <2>1, OnlyErasedNodesGo
  <2>3. node[w].template = closing.tpl
    BY <2>1, <2>2 DEF RegisteringSide, CleanupsAreOfNodes
  <2>4. Connected(x) /\ closing.tpl \in Refs(tpl[node[x].template])
    BY <2>3 DEF RefersTo, Connected
  <2> QED BY <2>2, <2>4 DEF ClosingIsTold
<1> QED BY <1>1, <1>2, <1>3, PTL DEF Spec, DeparturesAreAnnounced

-----------------------------------------------------------------------------
(* Offers: a worker waits only when there is no place for it.              *)

\* The search finds a match when there is one whose id is not 0.
LEMMA SearchFinds ==
    ASSUME NEW ids, NEW t \in Ids \cap ids, NeedsNode(t), ~NeedsNode(None) \/ None \notin ids
    PROVE  SearchNeedCreateWithIDs(ids) # None
<1> DEFINE open == {s \in Ids \cap ids : NeedsNode(s)}
           bare == {s \in open : tpl[s].created = {}}
<1>1. t \in open /\ None \notin open
  OBVIOUS
<1>2. \A ts \in SUBSET open : ts # {} => FirstOf(ts) # None
  BY <1>1, FirstOfIsMember
<1>3. bare \in SUBSET open /\ open \in SUBSET open /\ open # {}
  BY <1>1
<1>4. (bare # {} => FirstOf(bare) # None) /\ FirstOf(open) # None
  BY <1>2, <1>3
<1> QED BY <1>4 DEF SearchNeedCreateWithIDs

\* A worker is told to wait when the search gave 0, and nowhere else.
LEMMA WaitingIsAnswered ==
    ASSUME TypeOK, Next, NEW w \in Workers, ToldToWait(w)
    PROVE  Assigned(w) = None /\ ~SearchDereferencesNull(w)
<1>1. worker[w] \in WorkerStates /\ worker[w].pc = "wait" /\ node[w].known /\ worker'[w].pc = "poll"
  BY DEF TypeOK, ToldToWait
<1>2. ASSUME UNCHANGED worker PROVE FALSE
  BY <1>1, <1>2
<1>3. CASE WorkerNext
  BY <1>1, <1>3 DEF WorkerNext, AskForTemplate, AskForReferences, LoseConnection, Exit,
     OpenConnection, TypeOK, WorkerStates
<1>4. CASE RequestNext
  <2>1. PICK r \in inbox : \/ RegisteWorkerNew(r) \/ RegisteWorkerKnown(r) \/ RegisteNodeStore(r)
                           \/ QueryReferenceInfo(r) \/ CrashOnRequest(r)
    BY <1>4 DEF RequestNext
  <2>2. \A waiting, next : Answer(r.from, waiting, next) => r.from = w /\ next.pc = "poll"
    BY <1>1 DEF Answer, TypeOK
  <2>3. ~RegisteWorkerNew(r)
    BY <1>1, <2>2 DEF RegisteWorkerNew
  <2>4. ~RegisteNodeStore(r)
    <3> DEFINE next == [worker[r.from] EXCEPT !.pc = "dead", !.conn = NoConn]
    <3>1. worker[r.from] \in WorkerStates
      BY RequestIsTyped DEF TypeOK
    <3>2. next.pc = "dead"
      BY <3>1 DEF WorkerStates
    <3>3. RegisteNodeStore(r) => Answer(r.from, "registering", next) \/ UNCHANGED worker
      BY DEF RegisteNodeStore
    <3> HIDE DEF next
    <3> QED BY <1>2, <2>2, <3>2, <3>3
  <2>5. ~CrashOnRequest(r) /\ ~QueryReferenceInfo(r)
    BY <1>2 DEF QueryReferenceInfo, CrashOnRequest, Crash
  <2>6. RegisteWorkerKnown(r)
    BY <2>1, <2>3, <2>4, <2>5
  <2> DEFINE given == [worker[r.from] EXCEPT !.pc = "assigned", !.tpl = tpl[Assigned(r.from)].id]
             refused == [worker[r.from] EXCEPT !.pc = "dead"]
  <2>7. given.pc = "assigned" /\ refused.pc = "dead"
    BY RequestIsTyped DEF TypeOK, WorkerStates
  <2>8. \/ Assigned(r.from) = None /\ \E next : Answer(r.from, "wait", next)
        \/ Answer(r.from, "wait", given) \/ Answer(r.from, "wait", refused)
    BY <2>6 DEF RegisteWorkerKnown
  <2> HIDE DEF given, refused
  <2>9. r.from = w /\ Assigned(w) = None
    BY <2>2, <2>7, <2>8
  <2> QED BY <2>6, <2>9 DEF RegisteWorkerKnown
<1>5. CASE EditNext
  BY <1>2, <1>5 DEF EditNext, AddTemplate, SetTemplateCopy, DeleteTemplate, QueryNode,
     QueryTemplateCrashes, Edit, Crash
<1>6. CASE HandlerNext
  <2>1. ~RegisteNodeNotify
    BY <1>1 DEF RegisteNodeNotify, Answer, TypeOK, Tasks
  <2> QED BY <1>2, <1>6, <2>1 DEF HandlerNext, RegisteNodeMap, SetTemplateStore, SetTemplateFails
<1>7. CASE (\E c \in Conns : OnSocketClosed(c)) \/ ClosingNext
  BY <1>2, <1>7 DEF OnSocketClosed, ClosingNext, EraseNode, RemoveReplica
<1>8. CASE ManagerRestart
  BY <1>1, <1>8 DEF ManagerRestart, TypeOK, WorkerStates
<1> QED BY <1>3, <1>4, <1>5, <1>6, <1>7, <1>8 DEF Next

\* A template with a place left for the worker is one the search takes.
LEMMA VacanciesAreSearched ==
    ASSUME TypeOK, StoreSide, AsksForRealTemplates, NoItemIsNamedNone,
           NEW w \in Workers, Mode[w] \in {"AssignTemplate", "IncludeType"},
           ~SearchDereferencesNull(w), NEW t \in Vacancies(w)
    PROVE  Assigned(w) # None
<1>1. /\ t \in TemplateIds /\ t \in Ids /\ t # 1 /\ tpl[t].cfg # NoConfig /\ Serves(w, t)
      /\ Cardinality(tpl[t].created) < tpl[t].replicas
  BY Constants DEF Vacancies
<1>2. tpl[t].listed /\ tpl[t].id = t
  BY <1>1 DEF StoreSide, MemoryMatchesStore, ItemsAreWhole
<1>3. NeedsNode(t)
  BY <1>1, <1>2 DEF NeedsNode
<1>4. CASE Mode[w] = "AssignTemplate"
  <2>1. t \in Targets[w] /\ None \notin Targets[w]
    BY <1>1, <1>4 DEF Serves, AsksForRealTemplates
  <2> QED BY <1>1, <1>3, <1>4, <2>1, SearchFinds DEF Assigned
<1>5. CASE Mode[w] = "IncludeType"
  <2>1. t \in IdsOfTypes(Targets[w])
    BY <1>1, <1>2, <1>5 DEF Serves, IdsOfTypes
  <2>2. ~tpl[None].listed
    BY <1>5, Constants DEF SearchDereferencesNull, NoItemIsNamedNone
  <2>3. None \notin IdsOfTypes(Targets[w])
    BY <2>2 DEF IdsOfTypes
  <2> QED BY <1>1, <1>3, <1>5, <2>1, <2>3, SearchFinds DEF Assigned
<1> QED BY <1>4, <1>5

\* A polling worker is told to wait only when no template it serves is short of
\* nodes (RegisteWorkerHandler's search in its two passes), as long as the id 0
\* stands for no template: nobody asks for it and it has no configuration.
THEOREM VacancyOffered ==
    AsksForRealTemplates => (Spec /\ []NoItemIsNamedNone => VacancyIsOffered)
<1> DEFINE Offers == WaitsOnlyWhenFull("AssignTemplate") /\ WaitsOnlyWhenFull("IncludeType")
<1> SUFFICES ASSUME AsksForRealTemplates PROVE Spec /\ []NoItemIsNamedNone => [][Offers]_vars
  BY DEF VacancyIsOffered
<1>1. IInv /\ NoItemIsNamedNone /\ [Next]_vars => [Offers]_vars
  <2> SUFFICES ASSUME IInv, NoItemIsNamedNone, Next, NEW w \in Workers,
                      Mode[w] \in {"AssignTemplate", "IncludeType"}, ToldToWait(w)
               PROVE  Vacancies(w) = {}
    BY DEF WaitsOnlyWhenFull
  <2>1. TypeOK /\ StoreSide
    BY IInvSides
  <2>2. Assigned(w) = None /\ ~SearchDereferencesNull(w)
    BY <2>1, WaitingIsAnswered
  <2> QED BY <2>1, <2>2, VacanciesAreSearched
<1> QED BY <1>1, ManagerInvariant, PTL DEF Spec
=============================================================================
