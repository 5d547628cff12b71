---------------------------- MODULE CenterProofs ----------------------------
(* Proofs about the data center (DataCenter), and after them about the file *)
(* center (FileCenter).                                                     *)
(*                                                                          *)
(* Of the data center, for every number of scripts, threads, databases and  *)
(* restarts: a session means one database, and a query reaches the database *)
(* its script asked for, but for ids computed twice or remembered from      *)
(* before a restart.                                                        *)
(*                                                                          *)
(* The invariant follows what an id means: a session that is known, and     *)
(* whose connections lead to one database unless the id was computed twice. *)
(* MeaningsKept is the frame of all steps that change no meaning; the three *)
(* that do have a proof of their own (TakeId, Insert, Restart).             *)
EXTENDS DataCenter, FileCenter, FiniteSetTheorems, TLAPS

-----------------------------------------------------------------------------
(* The data center. *)

\* A session's databases, by its connections.
LEMMA Connections ==
    ASSUME DataCenterAssumption, TypeOK, NEW i \in Ids
    PROVE  /\ \A d : d \in DatabasesOf(i) <=> d # NoDatabase /\ \E t \in Threads : sessions[i][t] = d
           /\ DatabasesOf(i) \subseteq Databases
           /\ i \in Known <=> DatabasesOf(i) # {}
<1>1. \A d : d \in DatabasesOf(i) <=> d # NoDatabase /\ \E t \in Threads : sessions[i][t] = d
    BY DEF DatabasesOf
<1>2. sessions[i] \in [Threads -> Databases \cup {NoDatabase}]
    BY DEF TypeOK
<1>3. i \in Known <=> \E t \in Threads : sessions[i][t] # NoDatabase
  <2>1. Nobody \in [Threads -> {NoDatabase}] /\ \A t \in Threads : Nobody[t] = NoDatabase
      BY DEF Nobody
  <2>2. sessions[i] = Nobody <=> \A t \in Threads : sessions[i][t] = NoDatabase
      BY <1>2, <2>1 DEF Nobody
  <2> QED BY <2>2 DEF Known
<1> QED BY <1>1, <1>2, <1>3

LEMMA DataInit == ASSUME DataCenterAssumption, Init PROVE IInv
<1> USE DEF None
<1>1. TypeOK
  <2>1. sessions \in [Ids -> [Threads -> Databases \cup {NoDatabase}]]
      BY DEF Init, Nobody
  <2>2. /\ script \in [Scripts -> [pc : {"idle", "connect", "store", "query"},
                                   db : Databases \cup {NoDatabase}, id : {None, 0} \cup Ids]]
        /\ server \in [Threads -> [pc : {"free", "login", "number", "insert", "publish", "answer"},
                                   by : Scripts \cup {NoScript}, db : Databases \cup {NoDatabase},
                                   id : {None} \cup Ids]]
      BY DEF Init, Idle, Free
  <2> QED BY <2>1, <2>2 DEF Init, TypeOK, DataCenterAssumption
<1>2. Known = {} /\ \A i \in Ids : DatabasesOf(i) = {}
  <2>1. \A i \in Ids : sessions[i] = Nobody
      BY DEF Init
  <2>2. Known = {}
      BY <2>1 DEF Known
  <2> QED BY <1>1, <2>2, Connections
<1>3. IdsInOrder
  <2>1. 0 \in 0..MaxId /\ Known = 1..0
      BY <1>2 DEF DataCenterAssumption
  <2>2. \A t \in Threads : server[t].pc # "insert"
      BY DEF Init, Free
  <2> QED BY <2>1, <2>2 DEF IdsInOrder
<1>4. ServersInStep
    BY DEF Init, Free, ServersInStep
<1>5. SessionsAreWhole
    BY <1>2 DEF SessionsAreWhole, Linked
<1>6. NamesMeanDatabases
    BY DEF Init, NamesMeanDatabases
<1>9. ScriptsNameDatabases
    BY DEF Init, Idle, ScriptsNameDatabases
<1>7. RememberedMeans
    BY DEF Init, Idle, Ids, RememberedMeans, DataCenterAssumption
<1>8. QueriesHitTheirDatabase
    BY DEF Init, QueriesHitTheirDatabase
<1> QED BY <1>1, <1>3, <1>4, <1>5, <1>6, <1>7, <1>8, <1>9 DEF IInv

ServerRecords == [pc : {"free", "login", "number", "insert", "publish", "answer"},
                  by : Scripts \cup {NoScript}, db : Databases \cup {NoDatabase},
                  id : {None} \cup Ids]
ScriptRecords == [pc : {"idle", "connect", "store", "query"},
                  db : Databases \cup {NoDatabase}, id : {None, 0} \cup Ids]

(* A step keeps the invariant if no id changes its meaning, what is newly   *)
(* named or remembered means its database, and a thread that moves is in    *)
(* step.                                                                    *)
LEMMA MeaningsKept ==
    ASSUME DataCenterAssumption, IInv, TypeOK',
           Known' = Known, Linked' = Linked, twice' = twice, stale' = stale,
           QueriesHitTheirDatabase', ScriptsNameDatabases',
           \A d \in Databases : \/ names'[d] = names[d]
                                \/ names'[d] # None /\ Means(names'[d], d),
           \A u \in Threads :
             \/ /\ server'[u].pc = server[u].pc /\ server'[u].db = server[u].db
                /\ server'[u].id = server[u].id
             \/ /\ server'[u].pc # "insert"
                /\ server'[u].pc # "free" => server'[u].db \in Databases
                /\ server'[u].pc = "publish" => /\ server'[u].id \in Ids
                                                /\ Means(server'[u].id, server'[u].db)
                /\ server'[u].pc = "answer" => names'[server'[u].db] # None,
           \A d \in Databases : \A id \in given'[d] : id \in Ids \ stale =>
                                  id \in given[d] \/ Means(id, d),
           \A s \in Scripts :
             script'[s].pc \in {"store", "query"} /\ script'[s].id \in Ids \ stale =>
                 script'[s] = script[s] \/ Means(script'[s].id, script'[s].db)
    PROVE  IInv'
<1> USE DEF Means
<1>1. IdsInOrder'
  <2>1. PICK k \in 0..MaxId : /\ Known = 1..k
                              /\ \A u \in Threads : server[u].pc = "insert" => server[u].id <= k + 1
      BY DEF IInv, IdsInOrder
  <2>2. \A u \in Threads : server'[u].pc = "insert" => server'[u].id <= k + 1
      BY <2>1
  <2>3. Known' = 1..k
      BY <2>1
  <2> QED BY <2>2, <2>3 DEF IdsInOrder
<1>2. ServersInStep'
  <2> SUFFICES ASSUME NEW u \in Threads
               PROVE  /\ server'[u].pc # "free" => server'[u].db \in Databases
                      /\ server'[u].pc \in {"insert", "publish"} => server'[u].id \in Ids
                      /\ server'[u].pc = "insert" /\ server'[u].id \notin twice' =>
                           /\ server'[u].id \notin Known'
                           /\ \A v \in Threads \ {u} :
                                ~(server'[v].pc = "insert" /\ server'[v].id = server'[u].id)
                      /\ server'[u].pc = "publish" => Means(server'[u].id, server'[u].db)
                      /\ server'[u].pc = "answer" => names'[server'[u].db] # None
      BY DEF ServersInStep
  <2>0. ServersInStep
      BY DEF IInv
  <2>1. \A v \in Threads : server'[v].pc = "insert" => /\ server[v].pc = "insert"
                                                       /\ server'[v].id = server[v].id
      OBVIOUS
  <2>2. CASE /\ server'[u].pc = server[u].pc /\ server'[u].db = server[u].db
             /\ server'[u].id = server[u].id
    <3>1. /\ server[u].pc # "free" => server[u].db \in Databases
          /\ server[u].pc \in {"insert", "publish"} => server[u].id \in Ids
          /\ server[u].pc = "publish" => Means(server[u].id, server[u].db)
          /\ server[u].pc = "answer" => names[server[u].db] # None
        BY <2>0 DEF ServersInStep
    <3>2. server[u].pc = "insert" /\ server[u].id \notin twice =>
            /\ server[u].id \notin Known
            /\ \A v \in Threads \ {u} : ~(server[v].pc = "insert" /\ server[v].id = server[u].id)
        BY <2>0 DEF ServersInStep
    <3>3. server'[u].pc = "answer" => names'[server'[u].db] # None
        BY <3>1, <2>2
    <3> QED BY <3>1, <3>2, <3>3, <2>1, <2>2
  <2>3. CASE /\ server'[u].pc # "insert"
             /\ server'[u].pc # "free" => server'[u].db \in Databases
             /\ server'[u].pc = "publish" => /\ server'[u].id \in Ids
                                             /\ Means(server'[u].id, server'[u].db)
             /\ server'[u].pc = "answer" => names'[server'[u].db] # None
      BY <2>3
  <2> QED BY <2>2, <2>3
<1>3. SessionsAreWhole'
    BY DEF IInv, SessionsAreWhole
<1>4. NamesMeanDatabases'
    BY DEF IInv, NamesMeanDatabases
<1>5. RememberedMeans'
  <2>1. \A d \in Databases : \A id \in given'[d] : id \in Ids \ stale => Means(id, d)
      BY DEF IInv, RememberedMeans
  <2>2. \A s \in Scripts :
          script'[s].pc \in {"store", "query"} /\ script'[s].id \in Ids \ stale =>
              Means(script'[s].id, script'[s].db)
      BY DEF IInv, RememberedMeans
  <2> QED BY <2>1, <2>2 DEF RememberedMeans
<1> QED BY <1>1, <1>2, <1>3, <1>4, <1>5 DEF IInv

LEMMA SameSessions ==
    ASSUME UNCHANGED sessions PROVE Known' = Known /\ Linked' = Linked
BY DEF Known, Linked, DatabasesOf, Nobody

LEMMA ConnectStep == ASSUME DataCenterAssumption, IInv, NEW s \in Scripts, Connect(s) PROVE IInv'
<1>1. /\ UNCHANGED <<given, server, names, sessions, restarts, twice, stale, wrong>>
      /\ \A u \in Scripts : script'[u] = script[u] \/ script'[u].pc = "connect"
    BY DEF Connect, IInv, TypeOK
<1>2. TypeOK'
    BY <1>1 DEF Connect, IInv, TypeOK
<1>3. Known' = Known /\ Linked' = Linked
    BY <1>1, SameSessions
<1>4. QueriesHitTheirDatabase'
    BY <1>1 DEF IInv, QueriesHitTheirDatabase
<1>5. ScriptsNameDatabases'
    BY DEF Connect, IInv, TypeOK, ScriptsNameDatabases
<1> QED BY <1>1, <1>2, <1>3, <1>4, <1>5, MeaningsKept

\* The parts of the state of a script after a step of its own.
LEMMA ScriptMoves ==
    ASSUME IInv, NEW s \in Scripts, NEW r \in ScriptRecords, script' = [script EXCEPT ![s] = r]
    PROVE  /\ script' \in [Scripts -> ScriptRecords]
           /\ script'[s] = r
           /\ \A u \in Scripts : u # s => script'[u] = script[u]
BY DEF IInv, TypeOK, ScriptRecords

LEMMA StoreStep == ASSUME DataCenterAssumption, IInv, NEW s \in Scripts, Store(s) PROVE IInv'
<1>1. /\ UNCHANGED <<server, names, sessions, restarts, twice, stale, wrong>>
      /\ script[s].pc = "store" /\ script' = [script EXCEPT ![s] = Idle]
      /\ given' = [given EXCEPT ![script[s].db] = @ \cup {script[s].id}]
    BY DEF Store
<1>2. Idle \in ScriptRecords /\ Idle.pc = "idle"
    BY DEF Idle, ScriptRecords
<1>3. /\ script' \in [Scripts -> ScriptRecords] /\ script'[s].pc = "idle"
      /\ \A u \in Scripts : u # s => script'[u] = script[u]
    BY <1>1, <1>2, ScriptMoves
<1>4. PICK d \in Databases : d = script[s].db
    BY <1>1 DEF IInv, ScriptsNameDatabases
<1>5. PICK i \in {0} \cup Ids : i = script[s].id
  <2>1. script[s] \in ScriptRecords /\ script[s].id # None
      BY <1>1 DEF IInv, TypeOK, ScriptsNameDatabases, ScriptRecords
  <2> QED BY <2>1 DEF ScriptRecords
<1>6. /\ given' \in [Databases -> SUBSET ({0} \cup Ids)]
      /\ given'[d] = given[d] \cup {i}
      /\ \A e \in Databases : e # d => given'[e] = given[e]
  <2>1. given' = [given EXCEPT ![d] = @ \cup {i}]
      BY <1>1, <1>4, <1>5
  <2> QED BY <2>1 DEF IInv, TypeOK
<1>7. TypeOK'
    BY <1>1, <1>3, <1>6 DEF IInv, TypeOK, ScriptRecords
<1>8. Known' = Known /\ Linked' = Linked
    BY <1>1, SameSessions
<1>9. QueriesHitTheirDatabase' /\ ScriptsNameDatabases'
    BY <1>1, <1>3 DEF IInv, QueriesHitTheirDatabase, ScriptsNameDatabases
<1>10. i \in Ids \ stale => Means(i, d)
    BY <1>1, <1>4, <1>5 DEF IInv, RememberedMeans
<1>11. \A e \in Databases : \A id \in given'[e] : id \in Ids \ stale =>
                              id \in given[e] \/ Means(id, e)
    BY <1>6, <1>10
<1> QED BY <1>1, <1>3, <1>7, <1>8, <1>9, <1>11, MeaningsKept

LEMMA QueryStep == ASSUME DataCenterAssumption, IInv, NEW s \in Scripts, Query(s) PROVE IInv'
<1>1. PICK d \in Databases : \E id \in given[d] :
        script' = [script EXCEPT ![s] = [pc |-> "query", db |-> d, id |-> id]]
    BY DEF Query
<1>2. PICK id \in given[d] :
        script' = [script EXCEPT ![s] = [pc |-> "query", db |-> d, id |-> id]]
    BY <1>1
<1>3. UNCHANGED <<given, server, names, sessions, restarts, twice, stale, wrong>>
    BY DEF Query
<1>4. PICK r \in ScriptRecords : r = [pc |-> "query", db |-> d, id |-> id]
    BY DEF IInv, TypeOK, ScriptRecords
<1>5. /\ script' \in [Scripts -> ScriptRecords] /\ script'[s] = r
      /\ \A u \in Scripts : u # s => script'[u] = script[u]
    BY <1>2, <1>4, ScriptMoves
<1>6. r.pc = "query" /\ r.db = d /\ r.id = id
    BY <1>4
<1>7. TypeOK'
    BY <1>3, <1>5 DEF IInv, TypeOK, ScriptRecords
<1>8. Known' = Known /\ Linked' = Linked
    BY <1>3, SameSessions
<1>9. QueriesHitTheirDatabase'
    BY <1>3 DEF IInv, QueriesHitTheirDatabase
<1>10. id \in Ids \ stale => Means(id, d)
    BY DEF IInv, RememberedMeans
<1>11. ScriptsNameDatabases'
  <2>1. id # None
      BY DEF IInv, TypeOK, Ids, None
  <2> QED BY <1>5, <1>6, <2>1 DEF IInv, ScriptsNameDatabases
<1>12. \A u \in Scripts :
         script'[u].pc \in {"store", "query"} /\ script'[u].id \in Ids \ stale =>
             script'[u] = script[u] \/ Means(script'[u].id, script'[u].db)
    BY <1>5, <1>6, <1>10
<1> QED BY <1>3, <1>7, <1>8, <1>9, <1>11, <1>12, MeaningsKept

LEMMA CallFailsStep ==
    ASSUME DataCenterAssumption, IInv, NEW s \in Scripts, CallFails(s) PROVE IInv'
<1>1. /\ UNCHANGED <<names, sessions, restarts, twice, stale, wrong>>
      /\ \A u \in Scripts : script'[u] = script[u] \/ script'[u].pc = "idle"
      /\ \A t \in Threads : /\ server'[t].pc = server[t].pc /\ server'[t].db = server[t].db
                            /\ server'[t].id = server[t].id
      /\ \A d \in Databases : given'[d] \subseteq given[d] \cup {0}
    BY DEF CallFails, Idle, IInv, TypeOK
<1>2. TypeOK'
  <2>1. Idle \in ScriptRecords
      BY DEF Idle, ScriptRecords
  <2>2. script' \in [Scripts -> ScriptRecords]
      BY <2>1 DEF CallFails, IInv, TypeOK, ScriptRecords
  <2>3. server' \in [Threads -> ServerRecords]
      BY DEF CallFails, IInv, TypeOK, ServerRecords
  <2>4. given' \in [Databases -> SUBSET ({0} \cup Ids)]
      BY DEF CallFails, IInv, TypeOK
  <2> QED BY <2>2, <2>3, <2>4, <1>1 DEF IInv, TypeOK, ScriptRecords, ServerRecords
<1>3. Known' = Known /\ Linked' = Linked
    BY <1>1, SameSessions
<1>4. QueriesHitTheirDatabase'
    BY <1>1 DEF IInv, QueriesHitTheirDatabase
<1>5. \A d \in Databases : \A id \in given'[d] : id \in Ids => id \in given[d]
    BY <1>1 DEF Ids
<1>20. ScriptsNameDatabases'
    BY <1>1 DEF IInv, ScriptsNameDatabases
<1> QED BY <1>1, <1>2, <1>3, <1>4, <1>5, <1>20, MeaningsKept

\* The parts of the state of a thread after a step of its own.
LEMMA ThreadMoves ==
    ASSUME IInv, NEW t \in Threads, NEW r \in ServerRecords, server' = [server EXCEPT ![t] = r]
    PROVE  /\ server' \in [Threads -> ServerRecords]
           /\ server'[t] = r
           /\ \A u \in Threads : u # t => server'[u] = server[u]
BY DEF IInv, TypeOK, ServerRecords

LEMMA NextPlace ==
    ASSUME IInv, NEW t \in Threads,
           NEW p \in {"free", "login", "number", "insert", "publish", "answer"}
    PROVE  \E r \in ServerRecords :
             /\ r = [server[t] EXCEPT !.pc = p]
             /\ r.pc = p /\ r.by = server[t].by /\ r.db = server[t].db /\ r.id = server[t].id
<1>1. PICK q \in ServerRecords : q = server[t]
    BY DEF IInv, TypeOK, ServerRecords
<1>2. [q EXCEPT !.pc = p] \in ServerRecords
    BY DEF ServerRecords
<1>3. /\ [q EXCEPT !.pc = p].pc = p /\ [q EXCEPT !.pc = p].by = q.by
      /\ [q EXCEPT !.pc = p].db = q.db /\ [q EXCEPT !.pc = p].id = q.id
    BY DEF ServerRecords
<1> QED BY <1>1, <1>2, <1>3

LEMMA TakeConnectStep ==
    ASSUME DataCenterAssumption, IInv, NEW t \in Threads, TakeConnect(t) PROVE IInv'
<1>1. PICK s \in Scripts :
        /\ script[s].pc = "connect"
        /\ server' = [server EXCEPT ![t] =
             [pc |-> IF names[script[s].db] = None THEN "login" ELSE "answer",
              by |-> s, db |-> script[s].db, id |-> None]]
    BY DEF TakeConnect
<1> DEFINE r == [pc |-> IF names[script[s].db] = None THEN "login" ELSE "answer",
                 by |-> s, db |-> script[s].db, id |-> None]
<1>2. UNCHANGED <<given, script, names, sessions, restarts, twice, stale, wrong>>
    BY DEF TakeConnect
<1>0. script[s].db \in Databases
    BY <1>1 DEF IInv, ScriptsNameDatabases
<1>3. r \in ServerRecords
    BY <1>0 DEF ServerRecords
<1>4. /\ server' \in [Threads -> ServerRecords] /\ server'[t] = r
      /\ \A u \in Threads : u # t => server'[u] = server[u]
  <2> HIDE DEF r
  <2>1. server' = [server EXCEPT ![t] = r]
      BY <1>1 DEF r
  <2> QED BY <2>1, <1>3, ThreadMoves
<1>5. TypeOK'
    BY <1>2, <1>4 DEF IInv, TypeOK, ServerRecords
<1>6. Known' = Known /\ Linked' = Linked
    BY <1>2, SameSessions
<1>7. QueriesHitTheirDatabase'
    BY <1>2 DEF IInv, QueriesHitTheirDatabase
<1>8. /\ server'[t].pc \in {"login", "answer"} /\ server'[t].db \in Databases
      /\ server'[t].pc = "answer" => names'[server'[t].db] # None
    BY <1>0, <1>2, <1>4
<1> HIDE DEF r
<1>20. ScriptsNameDatabases'
    BY <1>2 DEF IInv, ScriptsNameDatabases
<1> QED BY <1>2, <1>4, <1>5, <1>6, <1>7, <1>8, <1>20, MeaningsKept

LEMMA LoginStep == ASSUME DataCenterAssumption, IInv, NEW t \in Threads, Login(t) PROVE IInv'
<1>1. /\ UNCHANGED <<given, names, sessions, restarts, twice, stale, wrong>>
      /\ server[t].pc = "login"
    BY DEF Login
<1>2. PICK r \in ServerRecords : /\ server' = [server EXCEPT ![t] = r]
                                 /\ r = Free \/ r = [server[t] EXCEPT !.pc = "number"]
  <2>1. Free \in ServerRecords
      BY DEF Free, ServerRecords
  <2>3. PICK r \in ServerRecords : r = [server[t] EXCEPT !.pc = "number"]
      BY NextPlace
  <2>2. server' = [server EXCEPT ![t] = Free]
          \/ server' = [server EXCEPT ![t] = [server[t] EXCEPT !.pc = "number"]]
      BY DEF Login, Step
  <2> QED BY <2>1, <2>2, <2>3
<1>3. /\ server' \in [Threads -> ServerRecords] /\ server'[t] = r
      /\ \A u \in Threads : u # t => server'[u] = server[u]
    BY <1>2, ThreadMoves
<1>4. /\ script' \in [Scripts -> ScriptRecords]
      /\ \A u \in Scripts : script'[u] = script[u] \/ script'[u].pc = "idle"
  <2>1. Idle \in ScriptRecords /\ Idle.pc = "idle"
      BY DEF Idle, ScriptRecords
  <2> QED BY <2>1 DEF Login, IInv, TypeOK, ScriptRecords
<1>5. TypeOK'
    BY <1>1, <1>3, <1>4 DEF IInv, TypeOK, ServerRecords, ScriptRecords
<1>6. Known' = Known /\ Linked' = Linked
    BY <1>1, SameSessions
<1>7. QueriesHitTheirDatabase'
    BY <1>1 DEF IInv, QueriesHitTheirDatabase
<1>8. server'[t].pc \in {"free", "number"} /\ (server'[t].pc # "free" => server'[t].db \in Databases)
  <2>1. server[t].db \in Databases
      BY <1>1 DEF IInv, ServersInStep
  <2>2. server[t] \in ServerRecords
      BY DEF IInv, TypeOK, ServerRecords
  <2> QED BY <2>1, <2>2, <1>2, <1>3 DEF Free, ServerRecords
<1>20. ScriptsNameDatabases'
    BY <1>4 DEF IInv, ScriptsNameDatabases
<1> QED BY <1>1, <1>3, <1>4, <1>5, <1>6, <1>7, <1>8, <1>20, MeaningsKept

LEMMA PublishStep == ASSUME DataCenterAssumption, IInv, NEW t \in Threads, Publish(t) PROVE IInv'
<1>1. /\ UNCHANGED <<given, script, sessions, restarts, twice, stale, wrong>>
      /\ server[t].pc = "publish"
    BY DEF Publish
<1>2. /\ server[t].db \in Databases /\ server[t].id \in Ids /\ server[t].id # None
      /\ Means(server[t].id, server[t].db)
    BY <1>1 DEF IInv, ServersInStep, Ids, None
<1>3. /\ names' \in [Databases -> {None} \cup Ids]
      /\ names'[server[t].db] = server[t].id
      /\ \A d \in Databases : d # server[t].db => names'[d] = names[d]
    BY <1>2 DEF Publish, IInv, TypeOK
<1>4. PICK r \in ServerRecords : /\ server' = [server EXCEPT ![t] = r]
                                 /\ r.pc = "answer" /\ r.db = server[t].db
  <2>1. \E r \in ServerRecords : /\ r = [server[t] EXCEPT !.pc = "answer"]
                                 /\ r.pc = "answer" /\ r.db = server[t].db
      BY NextPlace
  <2>2. server' = [server EXCEPT ![t] = [server[t] EXCEPT !.pc = "answer"]]
      BY DEF Publish, Step
  <2> QED BY <2>1, <2>2
<1>5. /\ server' \in [Threads -> ServerRecords] /\ server'[t] = r
      /\ \A u \in Threads : u # t => server'[u] = server[u]
    BY <1>4, ThreadMoves
<1>6. TypeOK'
    BY <1>1, <1>3, <1>5 DEF IInv, TypeOK, ServerRecords
<1>7. Known' = Known /\ Linked' = Linked
    BY <1>1, SameSessions
<1>8. QueriesHitTheirDatabase'
    BY <1>1 DEF IInv, QueriesHitTheirDatabase
<1>9. \A d \in Databases : names'[d] = names[d] \/ (names'[d] # None /\ Means(names'[d], d))
    BY <1>2, <1>3
<1>10. /\ server'[t].pc = "answer" /\ server'[t].db \in Databases
       /\ names'[server'[t].db] # None
    BY <1>2, <1>3, <1>4, <1>5
<1>20. ScriptsNameDatabases'
    BY <1>1 DEF IInv, ScriptsNameDatabases
<1> QED BY <1>1, <1>5, <1>6, <1>7, <1>8, <1>9, <1>10, <1>20, MeaningsKept

LEMMA AnswerStep == ASSUME DataCenterAssumption, IInv, NEW t \in Threads, Answer(t) PROVE IInv'
<1>1. /\ UNCHANGED <<given, names, sessions, restarts, twice, stale, wrong>>
      /\ server[t].pc = "answer" /\ server' = [server EXCEPT ![t] = Free]
    BY DEF Answer
<1>2. PICK d \in Databases : d = server[t].db
    BY <1>1 DEF IInv, ServersInStep
<1>3. names[d] # None /\ names[d] \in Ids /\ Means(names[d], d)
    BY <1>1, <1>2 DEF IInv, TypeOK, ServersInStep, NamesMeanDatabases
<1>4. PICK r \in ScriptRecords : r = [pc |-> "store", db |-> d, id |-> names[d]]
    BY <1>3 DEF ScriptRecords
<1>5. /\ script' \in [Scripts -> ScriptRecords]
      /\ \A u \in Scripts : script'[u] = script[u] \/ script'[u] = r
  <2>1. script \in [Scripts -> ScriptRecords]
      BY DEF IInv, TypeOK, ScriptRecords
  <2>2. \/ script' = script
        \/ script' = [script EXCEPT ![server[t].by] = r]
      BY <1>2, <1>4 DEF Answer, Tell
  <2> QED BY <2>1, <2>2
<1>6. Free \in ServerRecords /\ Free.pc = "free"
    BY DEF Free, ServerRecords
<1>7. /\ server' \in [Threads -> ServerRecords] /\ server'[t] = Free
      /\ \A u \in Threads : u # t => server'[u] = server[u]
    BY <1>1, <1>6, ThreadMoves
<1>8. TypeOK'
    BY <1>1, <1>5, <1>7 DEF IInv, TypeOK, ServerRecords, ScriptRecords
<1>9. Known' = Known /\ Linked' = Linked
    BY <1>1, SameSessions
<1>10. QueriesHitTheirDatabase'
    BY <1>1 DEF IInv, QueriesHitTheirDatabase
<1>11. r.db = d /\ r.id = names[d]
    BY <1>4
<1>12. \A u \in Scripts :
         script'[u].pc \in {"store", "query"} /\ script'[u].id \in Ids \ stale =>
             script'[u] = script[u] \/ Means(script'[u].id, script'[u].db)
    BY <1>3, <1>5, <1>11
<1>13. server'[t].pc = "free"
    BY <1>6, <1>7
<1>14. ScriptsNameDatabases'
    BY <1>3, <1>5, <1>11 DEF IInv, ScriptsNameDatabases
<1> QED BY <1>1, <1>5, <1>7, <1>8, <1>9, <1>10, <1>12, <1>13, <1>14, MeaningsKept

LEMMA TakeIdStep == ASSUME DataCenterAssumption, IInv, NEW t \in Threads, TakeId(t) PROVE IInv'
<1> USE DEF Means
<1>1. PICK k \in 0..MaxId :
        /\ Known = 1..k
        /\ \A u \in Threads : server[u].pc = "insert" => server[u].id <= k + 1
    BY DEF IInv, IdsInOrder
<1>2. Cardinality(Known) = k
  <2>1. Cardinality(1..k) = IF 1 > k THEN 0 ELSE k - 1 + 1
      BY FS_Interval
  <2> QED BY <1>1, <2>1
<1> DEFINE id == k + 1
<1>3. /\ UNCHANGED <<given, script, names, sessions, restarts, stale, wrong>>
      /\ server[t].pc = "number" /\ id \in Ids
      /\ server' = [server EXCEPT ![t].id = id, ![t].pc = "insert"]
      /\ twice' = IF Numbering(id) THEN twice \cup {id} ELSE twice
    BY <1>2 DEF TakeId
<1>4. PICK r \in ServerRecords : /\ server' = [server EXCEPT ![t] = r]
                                 /\ r.pc = "insert" /\ r.id = id /\ r.db = server[t].db
  <2>1. PICK q \in ServerRecords : q = server[t]
      BY DEF IInv, TypeOK, ServerRecords
  <2>2. server' = [server EXCEPT ![t] = [q EXCEPT !.id = id, !.pc = "insert"]]
      BY <1>3, <2>1 DEF IInv, TypeOK
  <2>3. \E r \in ServerRecords : /\ r = [q EXCEPT !.id = id, !.pc = "insert"]
                                 /\ r.pc = "insert" /\ r.id = id /\ r.db = server[t].db
    <3> HIDE DEF id
    <3>1. [q EXCEPT !.id = id, !.pc = "insert"] \in ServerRecords
        BY <1>3 DEF ServerRecords
    <3>2. /\ [q EXCEPT !.id = id, !.pc = "insert"].pc = "insert"
          /\ [q EXCEPT !.id = id, !.pc = "insert"].id = id
          /\ [q EXCEPT !.id = id, !.pc = "insert"].db = q.db
        BY DEF ServerRecords
    <3> QED BY <2>1, <3>1, <3>2
  <2> QED BY <2>2, <2>3
<1>5. /\ server' \in [Threads -> ServerRecords] /\ server'[t] = r
      /\ \A u \in Threads : u # t => server'[u] = server[u]
    BY <1>4, ThreadMoves
<1> HIDE DEF id
<1>6. twice \subseteq twice' /\ twice' \subseteq Ids
    BY <1>3 DEF IInv, TypeOK
<1>7. TypeOK'
    BY <1>3, <1>5, <1>6 DEF IInv, TypeOK, ServerRecords
<1>8. Known' = Known /\ Linked' = Linked
    BY <1>3, SameSessions
<1>9. IdsInOrder'
  <2>1. \A u \in Threads : server'[u].pc = "insert" => server'[u].id <= k + 1
      BY <1>1, <1>4, <1>5 DEF id
  <2> QED BY <1>1, <1>8, <2>1 DEF IdsInOrder
<1>10. ServersInStep'
  <2> SUFFICES ASSUME NEW u \in Threads
               PROVE  /\ server'[u].pc # "free" => server'[u].db \in Databases
                      /\ server'[u].pc \in {"insert", "publish"} => server'[u].id \in Ids
                      /\ server'[u].pc = "insert" /\ server'[u].id \notin twice' =>
                           /\ server'[u].id \notin Known'
                           /\ \A v \in Threads \ {u} :
                                ~(server'[v].pc = "insert" /\ server'[v].id = server'[u].id)
                      /\ server'[u].pc = "publish" =>
                           /\ server'[u].id \in Known'
                           /\ server'[u].id \notin twice' =>
                                Linked'[server'[u].id] = {server'[u].db}
                      /\ server'[u].pc = "answer" => names'[server'[u].db] # None
      BY DEF ServersInStep
  <2>0. ServersInStep
      BY DEF IInv
  <2>1. id \notin twice' => \A v \in Threads : ~(server[v].pc = "insert" /\ server[v].id = id)
      BY <1>3 DEF Numbering
  <2>2. CASE u = t
    <3>1. id \notin Known
        BY <1>1 DEF id
    <3>2. server[t].db \in Databases
        BY <2>0, <1>3 DEF ServersInStep
    <3> QED BY <2>1, <2>2, <3>1, <3>2, <1>3, <1>4, <1>5, <1>8
  <2>3. CASE u # t
    <3>1. server'[u] = server[u]
        BY <2>3, <1>5
    <3>2. server[u].pc = "insert" /\ server[u].id \notin twice' =>
            /\ server[u].id \notin Known
            /\ \A v \in Threads \ {u} : ~(server'[v].pc = "insert" /\ server'[v].id = server[u].id)
        BY <2>0, <2>1, <2>3, <1>4, <1>5, <1>6 DEF ServersInStep
    <3>3. server[u].pc = "publish" =>
            /\ server[u].id \in Known
            /\ server[u].id \notin twice' => Linked[server[u].id] = {server[u].db}
        BY <2>0, <1>6 DEF ServersInStep
    <3>4. /\ server[u].pc # "free" => server[u].db \in Databases
          /\ server[u].pc \in {"insert", "publish"} => server[u].id \in Ids
          /\ server[u].pc = "answer" => names'[server[u].db] # None
        BY <2>0, <1>3 DEF ServersInStep
    <3> QED BY <3>1, <3>2, <3>3, <3>4, <1>8
  <2> QED BY <2>2, <2>3
<1>11. SessionsAreWhole'
    BY <1>6, <1>8 DEF IInv, SessionsAreWhole
<1>12. ScriptsNameDatabases' /\ QueriesHitTheirDatabase'
    BY <1>3, <1>6 DEF IInv, ScriptsNameDatabases, QueriesHitTheirDatabase
<1>13. NamesMeanDatabases'
    BY <1>3, <1>6, <1>8 DEF IInv, NamesMeanDatabases
<1>14. RememberedMeans'
    BY <1>3, <1>6, <1>8 DEF IInv, RememberedMeans
<1> QED BY <1>7, <1>9, <1>10, <1>11, <1>12, <1>13, <1>14 DEF IInv

LEMMA InsertStep == ASSUME DataCenterAssumption, IInv, NEW t \in Threads, Insert(t) PROVE IInv'
<1> USE DEF Means
<1>1. PICK k \in 0..MaxId :
        /\ Known = 1..k
        /\ \A u \in Threads : server[u].pc = "insert" => server[u].id <= k + 1
    BY DEF IInv, IdsInOrder
<1>2. server[t].pc = "insert" /\ server[t].id \in Ids /\ server[t].db \in Databases
    BY DEF Insert, IInv, ServersInStep
<1>3. PICK id \in Ids, d \in Databases : id = server[t].id /\ d = server[t].db
    BY <1>2
<1>4. /\ UNCHANGED <<given, script, names, restarts, twice, stale, wrong>>
      /\ sessions' = [sessions EXCEPT ![id][t] = IF @ = NoDatabase THEN d ELSE @]
    BY <1>3 DEF Insert
<1>5. PICK r \in ServerRecords : /\ server' = [server EXCEPT ![t] = r]
                                 /\ r.pc = "publish" /\ r.id = id /\ r.db = d
  <2>1. \E r \in ServerRecords : /\ r = [server[t] EXCEPT !.pc = "publish"]
                                 /\ r.pc = "publish" /\ r.id = id /\ r.db = d
      BY <1>3, NextPlace
  <2>2. server' = [server EXCEPT ![t] = [server[t] EXCEPT !.pc = "publish"]]
      BY DEF Insert, Step
  <2> QED BY <2>1, <2>2
<1>6. /\ server' \in [Threads -> ServerRecords] /\ server'[t] = r
      /\ \A u \in Threads : u # t => server'[u] = server[u]
    BY <1>5, ThreadMoves
<1>7. /\ sessions' \in [Ids -> [Threads -> Databases \cup {NoDatabase}]]
      /\ \A i \in Ids : i # id => sessions'[i] = sessions[i]
      /\ sessions'[id][t] \in Databases
      /\ sessions[id][t] = NoDatabase => sessions'[id][t] = d
      /\ \A u \in Threads : u # t => sessions'[id][u] = sessions[id][u]
    BY <1>4 DEF IInv, TypeOK
<1>8. TypeOK'
    BY <1>4, <1>6, <1>7 DEF IInv, TypeOK, ServerRecords
<1>9. /\ Known' = Known \cup {id}
      /\ \A i \in Ids : i # id => Linked'[i] = Linked[i]
  <2>1. sessions'[id] # Nobody
      BY <1>7 DEF Nobody, DataCenterAssumption
  <2> QED BY <2>1, <1>7 DEF Known, Linked, DatabasesOf, Nobody
<1>10. id \notin twice =>
         /\ id \notin Known /\ Linked'[id] = {d}
         /\ \A u \in Threads \ {t} : ~(server[u].pc = "insert" /\ server[u].id = id)
  <2> SUFFICES ASSUME id \notin twice
               PROVE  /\ id \notin Known /\ Linked'[id] = {d}
                      /\ \A u \in Threads \ {t} : ~(server[u].pc = "insert" /\ server[u].id = id)
      OBVIOUS
  <2>1. /\ id \notin Known
        /\ \A u \in Threads \ {t} : ~(server[u].pc = "insert" /\ server[u].id = id)
      BY <1>2, <1>3 DEF IInv, ServersInStep
  <2>2. \A u \in Threads : sessions[id][u] = NoDatabase
      BY <2>1 DEF Known, Nobody
  <2>3. \A u \in Threads : sessions'[id][u] = IF u = t THEN d ELSE NoDatabase
      BY <2>2, <1>7
  <2>4. DatabasesOf(id)' = {d}
      BY <2>3, <1>3 DEF DatabasesOf, DataCenterAssumption
  <2> QED BY <2>1, <2>4 DEF Linked
<1>11. IdsInOrder'
  <2>1. id <= k + 1
      BY <1>1, <1>2, <1>3
  <2>2. CASE id <= k
    <3>1. Known' = 1..k
        BY <2>2, <1>1, <1>9 DEF Ids
    <3> QED BY <3>1, <1>1, <1>5, <1>6 DEF IdsInOrder
  <2>3. CASE id = k + 1
    <3>1. k + 1 \in 0..MaxId /\ Known' = 1..(k + 1)
        BY <2>3, <1>1, <1>9 DEF Ids, DataCenterAssumption
    <3>2. \A u \in Threads : server'[u].pc = "insert" => server'[u].id <= k + 1 + 1
      <4>1. \A u \in Threads : server'[u].pc = "insert" => /\ server[u].id \in Ids
                                                           /\ server[u].id <= k + 1
                                                           /\ server'[u] = server[u]
          BY <1>1, <1>5, <1>6 DEF IInv, ServersInStep
      <4> QED BY <4>1 DEF Ids
    <3> QED BY <3>1, <3>2 DEF IdsInOrder
  <2> QED BY <2>1, <2>2, <2>3 DEF Ids
<1>12. ServersInStep'
  <2> SUFFICES ASSUME NEW u \in Threads
               PROVE  /\ server'[u].pc # "free" => server'[u].db \in Databases
                      /\ server'[u].pc \in {"insert", "publish"} => server'[u].id \in Ids
                      /\ server'[u].pc = "insert" /\ server'[u].id \notin twice' =>
                           /\ server'[u].id \notin Known'
                           /\ \A v \in Threads \ {u} :
                                ~(server'[v].pc = "insert" /\ server'[v].id = server'[u].id)
                      /\ server'[u].pc = "publish" =>
                           /\ server'[u].id \in Known'
                           /\ server'[u].id \notin twice' =>
                                Linked'[server'[u].id] = {server'[u].db}
                      /\ server'[u].pc = "answer" => names'[server'[u].db] # None
      BY DEF ServersInStep
  <2>0. ServersInStep
      BY DEF IInv
  <2>1. CASE u = t
      BY <2>1, <1>4, <1>5, <1>6, <1>9, <1>10
  <2>2. CASE u # t
    <3>1. server'[u] = server[u]
        BY <2>2, <1>6
    <3>2. server[u].pc = "insert" /\ server[u].id \notin twice =>
            /\ server[u].id \notin Known /\ server[u].id # id
            /\ \A v \in Threads \ {u} : ~(server'[v].pc = "insert" /\ server'[v].id = server[u].id)
      <4>1. server[u].pc = "insert" /\ server[u].id \notin twice => server[u].id # id
          BY <2>2, <1>10
      <4>2. \A v \in Threads : server'[v].pc = "insert" => server'[v] = server[v]
          BY <1>5, <1>6
      <4> QED BY <2>0, <4>1, <4>2 DEF ServersInStep
    <3>3. server[u].pc = "publish" =>
            /\ server[u].id \in Known'
            /\ server[u].id \notin twice => Linked'[server[u].id] = {server[u].db}
      <4>1. server[u].pc = "publish" =>
              /\ server[u].id \in Known /\ server[u].id \in Ids
              /\ server[u].id \notin twice => Linked[server[u].id] = {server[u].db}
          BY <2>0 DEF ServersInStep
      <4> QED BY <4>1, <1>9, <1>10
    <3> QED BY <2>0, <3>1, <3>2, <3>3, <1>4, <1>9 DEF ServersInStep
  <2> QED BY <2>1, <2>2
<1>13. \A i \in Ids : \A e : Means(i, e) =>
         i \in Known' /\ (i \notin twice => Linked'[i] = {e})
    BY <1>9, <1>10
<1>14. SessionsAreWhole'
    BY <1>4, <1>9, <1>10 DEF IInv, SessionsAreWhole
<1>15. ScriptsNameDatabases' /\ QueriesHitTheirDatabase'
    BY <1>4 DEF IInv, ScriptsNameDatabases, QueriesHitTheirDatabase
<1>16. NamesMeanDatabases'
  <2>1. \A e \in Databases : names[e] # None => names[e] \in Ids /\ Means(names[e], e)
      BY DEF IInv, TypeOK, NamesMeanDatabases
  <2> QED BY <2>1, <1>4, <1>13 DEF NamesMeanDatabases
<1>17. RememberedMeans'
    BY <1>4, <1>13 DEF IInv, RememberedMeans
<1> QED BY <1>8, <1>11, <1>12, <1>14, <1>15, <1>16, <1>17 DEF IInv

LEMMA RunQueryStep == ASSUME DataCenterAssumption, IInv, NEW t \in Threads, RunQuery(t) PROVE IInv'
<1>1. PICK s \in Scripts :
        /\ script[s].pc = "query"
        /\ script' = [script EXCEPT ![s] = Idle]
        /\ LET id == script[s].id
               known == id \in Known
               use(d) == wrong' = IF d = script[s].db THEN wrong ELSE wrong \cup {id} IN
             \/ ~known /\ UNCHANGED <<sessions, wrong>>
             \/ /\ known /\ sessions[id][t] # NoDatabase
                /\ use(sessions[id][t])
                /\ UNCHANGED sessions
             \/ /\ known /\ sessions[id][t] = NoDatabase
                /\ \E d \in DatabasesOf(id) :
                     sessions' = [sessions EXCEPT ![id][t] = d] /\ use(d)
    BY DEF RunQuery
<1>2. UNCHANGED <<given, server, names, restarts, twice, stale>>
    BY DEF RunQuery
<1>3. /\ script' \in [Scripts -> ScriptRecords]
      /\ \A u \in Scripts : script'[u] = script[u] \/ script'[u].pc = "idle"
  <2>1. Idle \in ScriptRecords /\ Idle.pc = "idle"
      BY DEF Idle, ScriptRecords
  <2>2. script \in [Scripts -> ScriptRecords]
      BY DEF IInv, TypeOK, ScriptRecords
  <2> QED BY <1>1, <2>1, <2>2
<1>4. PICK id : id = script[s].id
    OBVIOUS
<1>5. \/ UNCHANGED <<sessions, wrong>>
      \/ \E d \in DatabasesOf(id) :
           /\ id \in Known
           /\ wrong' = IF d = script[s].db THEN wrong ELSE wrong \cup {id}
           /\ \/ UNCHANGED sessions
              \/ sessions[id][t] = NoDatabase /\ sessions' = [sessions EXCEPT ![id][t] = d]
  <2>1. CASE id \in Known /\ sessions[id][t] # NoDatabase
    <3>1. sessions[id][t] \in DatabasesOf(id)
        BY <2>1 DEF DatabasesOf
    <3> QED BY <1>1, <1>4, <2>1, <3>1
  <2>2. CASE ~(id \in Known /\ sessions[id][t] # NoDatabase)
      BY <1>1, <1>4, <2>2
  <2> QED BY <2>1, <2>2
<1>6. CASE UNCHANGED <<sessions, wrong>>
  <2>1. TypeOK'
      BY <1>2, <1>3, <1>6 DEF IInv, TypeOK, ScriptRecords
  <2>2. Known' = Known /\ Linked' = Linked
      BY <1>6, SameSessions
  <2>3. QueriesHitTheirDatabase' /\ ScriptsNameDatabases'
      BY <1>2, <1>3, <1>6 DEF IInv, QueriesHitTheirDatabase, ScriptsNameDatabases
  <2> QED BY <1>2, <1>3, <2>1, <2>2, <2>3, MeaningsKept
<1>7. ASSUME NEW d \in DatabasesOf(id), id \in Known,
             wrong' = IF d = script[s].db THEN wrong ELSE wrong \cup {id},
             \/ UNCHANGED sessions
             \/ sessions[id][t] = NoDatabase /\ sessions' = [sessions EXCEPT ![id][t] = d]
      PROVE  IInv'
  <2>1. id \in Ids /\ d \in Databases /\ d \in Linked[id]
    <3>1. id \in Ids
        BY <1>7 DEF Known
    <3> QED BY <3>1, <1>7, Connections DEF IInv, Linked
  <2>2. sessions' \in [Ids -> [Threads -> Databases \cup {NoDatabase}]]
    <3>1. sessions \in [Ids -> [Threads -> Databases \cup {NoDatabase}]]
        BY DEF IInv, TypeOK
    <3> QED BY <1>7, <2>1, <3>1
  <2>3. wrong' \subseteq twice \cup stale /\ wrong' \subseteq Ids
    <3>1. id \notin stale => Means(id, script[s].db)
        BY <1>1, <1>4, <2>1 DEF IInv, RememberedMeans
    <3>2. d # script[s].db => id \in twice \cup stale
        BY <2>1, <3>1 DEF Means
    <3> QED BY <1>7, <2>1, <3>2 DEF IInv, TypeOK, QueriesHitTheirDatabase
  <2>4. TypeOK'
      BY <1>2, <1>3, <2>2, <2>3 DEF IInv, TypeOK, ScriptRecords
  <2>5. Known' = Known /\ Linked' = Linked
    <3>1. CASE UNCHANGED sessions
        BY <3>1, SameSessions
    <3>2. CASE sessions[id][t] = NoDatabase /\ sessions' = [sessions EXCEPT ![id][t] = d]
      <4>1. \A i \in Ids : \A u \in Threads :
              sessions'[i][u] = IF i = id /\ u = t THEN d ELSE sessions[i][u]
          BY <3>2, <2>1 DEF IInv, TypeOK
      <4>2. d # NoDatabase /\ \E u \in Threads : sessions[id][u] = d
          BY <1>7 DEF DatabasesOf
      <4>3. \A i \in Ids : \A e : e \in DatabasesOf(i)' <=> e \in DatabasesOf(i)
        <5> SUFFICES ASSUME NEW i \in Ids, NEW e, e # NoDatabase
                     PROVE  (\E u \in Threads : sessions'[i][u] = e)
                              <=> \E u \in Threads : sessions[i][u] = e
            BY DEF DatabasesOf
        <5>1. CASE i # id
            BY <5>1, <4>1
        <5>2. CASE i = id
          <6>1. ASSUME NEW u \in Threads, sessions'[i][u] = e
                PROVE  \E v \in Threads : sessions[i][v] = e
              BY <5>2, <6>1, <4>1, <4>2
          <6>2. ASSUME NEW u \in Threads, sessions[i][u] = e
                PROVE  \E v \in Threads : sessions'[i][v] = e
            <7>1. u # t
                BY <5>2, <6>2, <3>2
            <7> QED BY <7>1, <6>2, <4>1
          <6> QED BY <6>1, <6>2
        <5> QED BY <5>1, <5>2
      <4>4. \A i \in Ids : DatabasesOf(i)' = DatabasesOf(i)
          BY <4>3
      <4>5. Linked' = Linked
          BY <4>4 DEF Linked
      <4>6. \A i \in Ids : i \in Known' <=> i \in Known
        <5>1. \A i \in Ids : i # id => sessions'[i] = sessions[i]
            BY <3>2
        <5>2. sessions'[id] # Nobody
            BY <4>1, <4>2, <2>1 DEF Nobody
        <5> QED BY <5>1, <5>2, <1>7 DEF Known, Nobody
      <4> QED BY <4>5, <4>6 DEF Known
    <3> QED BY <1>7, <3>1, <3>2
  <2>6. QueriesHitTheirDatabase' /\ ScriptsNameDatabases'
      BY <1>2, <1>3, <2>3 DEF IInv, QueriesHitTheirDatabase, ScriptsNameDatabases
  <2> QED BY <1>2, <1>3, <2>4, <2>5, <2>6, MeaningsKept
<1> QED BY <1>5, <1>6, <1>7

LEMMA RestartStep == ASSUME DataCenterAssumption, IInv, Restart PROVE IInv'
<1> USE DEF None
<1>1. /\ names' = [d \in Databases |-> None] /\ sessions' = [i \in Ids |-> Nobody]
      /\ server' = [t \in Threads |-> Free]
      /\ script' = [s \in Scripts |-> IF script[s].pc = "store" THEN script[s] ELSE Idle]
      /\ stale' = stale \cup (UNION {given[d] : d \in Databases})
                       \cup {script[s].id : s \in {u \in Scripts : script[u].pc = "store"}}
      /\ twice' = {} /\ wrong' = {} /\ given' = given
      /\ restarts < MaxRestarts /\ restarts' = restarts + 1
    BY DEF Restart
<1> DEFINE Had == UNION {given[d] : d \in Databases}
           Answered == {script[s].id : s \in {u \in Scripts : script[u].pc = "store"}}
<1>11. stale' = (stale \cup Had) \cup Answered
    BY <1>1
<1>2. TypeOK'
  <2>1. sessions' \in [Ids -> [Threads -> Databases \cup {NoDatabase}]]
      BY <1>1 DEF Nobody
  <2>2. script' \in [Scripts -> ScriptRecords] /\ server' \in [Threads -> ServerRecords]
    <3>1. Idle \in ScriptRecords /\ Free \in ServerRecords
        BY DEF Idle, Free, ScriptRecords, ServerRecords
    <3>2. \A s \in Scripts : script[s] \in ScriptRecords
        BY DEF IInv, TypeOK, ScriptRecords
    <3> QED BY <1>1, <3>1, <3>2
  <2>3. restarts' \in 0..MaxRestarts
      BY <1>1 DEF IInv, TypeOK, DataCenterAssumption
  <2>4. stale' \subseteq {0} \cup Ids
    <3>1. \A d \in Databases : given[d] \subseteq {0} \cup Ids
        BY DEF IInv, TypeOK
    <3>2. stale \subseteq {0} \cup Ids
        BY DEF IInv, TypeOK
    <3>3. ASSUME NEW s \in Scripts, script[s].pc = "store" PROVE script[s].id \in {0} \cup Ids
      <4>1. script[s] \in ScriptRecords /\ script[s].id # None
          BY <3>3 DEF IInv, TypeOK, ScriptsNameDatabases, ScriptRecords
      <4> QED BY <4>1 DEF ScriptRecords
    <3>4. Had \subseteq {0} \cup Ids
        BY <3>1
    <3>5. Answered \subseteq {0} \cup Ids
        BY <3>3
    <3> HIDE DEF Had, Answered
    <3> QED BY <1>11, <3>2, <3>4, <3>5
  <2>5. /\ given' \in [Databases -> SUBSET ({0} \cup Ids)] /\ names' \in [Databases -> {None} \cup Ids]
        /\ twice' \subseteq Ids /\ wrong' \subseteq Ids
      BY <1>1 DEF IInv, TypeOK
  <2> QED BY <2>1, <2>2, <2>3, <2>4, <2>5 DEF TypeOK, ScriptRecords, ServerRecords
<1>3. Known' = {} /\ \A i \in Ids : Linked'[i] = {}
  <2>1. \A i \in Ids : sessions'[i] = Nobody
      BY <1>1
  <2>2. Known' = {}
      BY <2>1 DEF Known, Nobody
  <2>3. \A i \in Ids : \A t \in Threads : sessions'[i][t] = NoDatabase
      BY <2>1 DEF Nobody
  <2>4. \A i \in Ids : DatabasesOf(i)' = {}
      BY <2>3 DEF DatabasesOf
  <2> QED BY <2>2, <2>4 DEF Linked
<1>4. IdsInOrder'
  <2>1. 0 \in 0..MaxId /\ Known' = 1..0
      BY <1>3 DEF DataCenterAssumption
  <2>2. \A t \in Threads : server'[t].pc # "insert"
      BY <1>1 DEF Free
  <2> QED BY <2>1, <2>2 DEF IdsInOrder
<1>5. ServersInStep'
    BY <1>1 DEF Free, ServersInStep
<1>6. SessionsAreWhole'
    BY <1>3 DEF SessionsAreWhole
<1>7. NamesMeanDatabases' /\ QueriesHitTheirDatabase'
    BY <1>1 DEF NamesMeanDatabases, QueriesHitTheirDatabase
<1>8. \A s \in Scripts : \/ script'[s].pc = "idle"
                         \/ script'[s] = script[s] /\ script[s].pc = "store"
    BY <1>1 DEF Idle
<1>9. ScriptsNameDatabases'
    BY <1>8 DEF IInv, ScriptsNameDatabases
<1>10. RememberedMeans'
  <2>1. \A d \in Databases : \A id \in given'[d] : id \in stale'
      BY <1>1
  <2>2. ASSUME NEW s \in Scripts, script'[s].pc \in {"store", "query"}
        PROVE  script'[s].id \in stale'
    <3>1. script'[s] = script[s] /\ script[s].pc = "store"
        BY <1>8, <2>2
    <3>2. script[s].id \in Answered
        BY <3>1
    <3> HIDE DEF Had, Answered
    <3> QED BY <1>11, <3>1, <3>2
  <2> QED BY <2>1, <2>2 DEF RememberedMeans
<1> QED BY <1>2, <1>4, <1>5, <1>6, <1>7, <1>9, <1>10 DEF IInv

LEMMA DataNext == ASSUME DataCenterAssumption, IInv, [Next]_vars PROVE IInv'
<1>1. ASSUME NEW s \in Scripts, Connect(s) \/ Store(s) \/ Query(s) \/ CallFails(s) PROVE IInv'
    BY <1>1, ConnectStep, StoreStep, QueryStep, CallFailsStep
<1>2. ASSUME NEW t \in Threads,
             \/ TakeConnect(t) \/ Login(t) \/ TakeId(t) \/ Insert(t) \/ Publish(t)
             \/ Answer(t) \/ RunQuery(t)
      PROVE  IInv'
    BY <1>2, TakeConnectStep, LoginStep, TakeIdStep, InsertStep, PublishStep, AnswerStep,
       RunQueryStep
<1>3. CASE UNCHANGED vars
  <2>1. /\ UNCHANGED <<given, script, server, names, sessions, restarts, twice, stale, wrong>>
      BY <1>3 DEF vars
  <2>2. TypeOK' /\ QueriesHitTheirDatabase' /\ ScriptsNameDatabases'
      BY <2>1 DEF IInv, TypeOK, QueriesHitTheirDatabase, ScriptsNameDatabases
  <2>3. Known' = Known /\ Linked' = Linked
      BY <2>1, SameSessions
  <2> QED BY <2>1, <2>2, <2>3, MeaningsKept
<1> QED BY <1>1, <1>2, <1>3, RestartStep DEF Next

(* The inductive invariant of the data center holds for every number of     *)
(* scripts, threads and databases: ids are given out in order, and what is  *)
(* named, answered or remembered leads to its database unless the id was    *)
(* computed twice or comes from before a restart (dbhub.cpp,                *)
(* ConnectDatabaseHandler; globalfunction.cpp, the session ids of a node).  *)
THEOREM DataCenterInvariant == Spec => []IInv
<1>1. Init => IInv
    BY DataInit, DataCenterAssumption
<1>2. IInv /\ [Next]_vars => IInv'
    BY DataNext, DataCenterAssumption
<1> QED BY <1>1, <1>2, PTL DEF Spec

(* A session leads to one database, that of its name, but for an id that    *)
(* two threads computed at the same time.                                   *)
THEOREM SessionsMeanDatabases == Spec => []SessionMeansDatabase
<1>1. IInv => SessionMeansDatabase
  <2> SUFFICES ASSUME IInv PROVE SessionMeansDatabase
      OBVIOUS
  <2>1. ASSUME NEW i \in Ids \ twice PROVE Cardinality(DatabasesOf(i)) <= 1
    <3>1. \A d, e \in DatabasesOf(i) : d = e
        BY <2>1 DEF IInv, SessionsAreWhole, Linked
    <3>2. CASE DatabasesOf(i) = {}
        BY <3>2, FS_EmptySet
    <3>3. ASSUME NEW d \in DatabasesOf(i) PROVE Cardinality(DatabasesOf(i)) <= 1
      <4>1. DatabasesOf(i) = {d}
          BY <3>1, <3>3
      <4>2. Cardinality({d}) = 1
          BY FS_Singleton
      <4> QED BY <4>1, <4>2
    <3> QED BY <3>2, <3>3
  <2>2. ASSUME NEW d \in Databases, names[d] \in Known \ twice PROVE DatabasesOf(names[d]) = {d}
    <3>1. names[d] \in Ids /\ names[d] # None
        BY <2>2 DEF Known, Ids, None
    <3> QED BY <3>1, <2>2 DEF IInv, NamesMeanDatabases, Means, Linked
  <2> QED BY <2>1, <2>2 DEF SessionMeansDatabase
<1> QED BY <1>1, DataCenterInvariant, PTL

(* A query reaches the database its script asked for, unless its id was     *)
(* computed twice or is from before a restart.                              *)
THEOREM QueriesReachTheirDatabase == Spec => []QueriesHitTheirDatabase
<1>1. IInv => QueriesHitTheirDatabase
    BY DEF IInv
<1> QED BY <1>1, DataCenterInvariant, PTL

-----------------------------------------------------------------------------
(* Proofs about FileCenter, for every number of threads, ranges and         *)
(* requests: what is in the archive is whole or is being written, but for   *)
(* the copies of mv that were disturbed.                                    *)

InList == {list[k] : k \in DOMAIN list}

(* What a file contains came from the list.                                 *)
FilesFromList == \A i \in Inodes : content[i] \subseteq InList

(* The archive and the temporary file are two files, and the copies of mv   *)
(* never are at the temporary path.                                         *)
PathsAreApart ==
    /\ archive # NoFile => archive # temp
    /\ temp \notin cut

(* A thread that merges writes to a file, and is not beyond the list.       *)
WritersGoOn ==
    \A t \in Uploaders : pc[t] = "merge" => out[t] \in Inodes /\ next[t] <= Len(list) + 1

(* Once a thread has found the whole file, the list has every range.        *)
Passed == archive # NoFile \/ \E t \in Uploaders : pc[t] = "archive"
ListIsWhole == Passed => Ranges \subseteq InList

(* A file is kept by a thread that merges when it has every entry that this *)
(* thread has passed.                                                       *)
Keeps(t, i) ==
    /\ pc[t] = "merge" /\ out[t] = i
    /\ \A k \in DOMAIN list : k < next[t] => list[k] \in content[i]

Kept == {i \in Inodes : \E t \in Uploaders : Keeps(t, i)}

(* The ranges a thread has found for the hash are in the file it reads, or  *)
(* the file was emptied since and is kept; the file is at the temporary     *)
(* path or was archived.                                                    *)
HashersGoOn ==
    \A t \in Uploaders : pc[t] = "hash" =>
        /\ from[t] \in Inodes
        /\ from[t] # temp => archive # NoFile
        /\ Ranges \ left[t] \subseteq InList
        /\ Ranges \ left[t] \subseteq content[from[t]] \/ from[t] \in Kept

(* A copy that was not disturbed has a whole source and the ranges that     *)
(* were read.                                                               *)
CopiersGoOn ==
    \A t \in Uploaders : pc[t] = "copy" =>
        /\ from[t] \in Inodes /\ out[t] \in Inodes
        /\ from[t] # out[t] /\ out[t] # temp
        /\ archive # NoFile
        /\ out[t] \notin cut =>
             content[from[t]] = Ranges /\ Ranges \ left[t] \subseteq content[out[t]]

(* What can be moved to the archive is whole or kept, and what is there too,*)
(* unless it is a copy that goes on or that was disturbed.                  *)
TempIsWhole == Passed /\ temp # NoFile => content[temp] = Ranges \/ temp \in Kept

Copied == {i \in Inodes : \E t \in Uploaders : pc[t] = "copy" /\ out[t] = i}
ArchiveIsWhole ==
    archive # NoFile =>
        content[archive] = Ranges \/ archive \in Kept \cup cut \cup Copied

(* Who answers the client has moved the file.                               *)
ConfirmedIsThere ==
    (uploaded > 0 \/ \E t \in Uploaders : pc[t] = "remove") => archive # NoFile

UploadInv ==
    /\ UploadTypeOK
    /\ FilesFromList
    /\ PathsAreApart
    /\ WritersGoOn
    /\ ListIsWhole
    /\ HashersGoOn
    /\ CopiersGoOn
    /\ TempIsWhole
    /\ ArchiveIsWhole
    /\ ConfirmedIsThere

LEMMA InitStep == UploadInit => UploadInv
<1> SUFFICES ASSUME UploadInit PROVE UploadInv
  OBVIOUS
<1> USE DEF UploadInit, NoFile, Inodes, InList
<1>1. UploadTypeOK
  <2>1. list \in Seq(Ranges) /\ content \in Seq(SUBSET Ranges) /\ cut \subseteq Inodes
    OBVIOUS
  <2>2. /\ pc \in [Uploaders -> Pcs] /\ next \in [Uploaders -> Nat \ {0}]
        /\ left \in [Uploaders -> SUBSET Ranges]
    BY DEF Pcs
  <2>3. 0 \in 0 .. MaxRequests
    BY FileCenterAssumption
  <2> QED
    BY <2>1, <2>2, <2>3 DEF UploadTypeOK
<1>2. FilesFromList /\ PathsAreApart /\ WritersGoOn /\ HashersGoOn /\ CopiersGoOn
  BY DEF FilesFromList, PathsAreApart, WritersGoOn, HashersGoOn, CopiersGoOn
<1>3. ListIsWhole /\ TempIsWhole /\ ArchiveIsWhole /\ ConfirmedIsThere
  BY DEF ListIsWhole, Passed, TempIsWhole, ArchiveIsWhole, ConfirmedIsThere
<1> QED
  BY <1>1, <1>2, <1>3 DEF UploadInv

(* A step that only moves one thread from a place where it neither merges,  *)
(* reads nor copies, or where it gives up reading, to another such place:   *)
(* what the invariant says of files and of the other threads stays.         *)
LEMMA QuietStep ==
  ASSUME UploadInv, NEW t \in Uploaders, NEW step \in {"free", "remove"},
         pc[t] \in {"check", "hash", "archive", "remove"},
         pc' = [pc EXCEPT ![t] = step],
         UploadTypeOK',
         \A u \in Uploaders \ {t} : from'[u] = from[u] /\ left'[u] = left[u],
         UNCHANGED <<list, out, next, temp, archive, content, cut>>,
         (uploaded' > 0 \/ step = "remove") => archive # NoFile
  PROVE  UploadInv'
<1>1. /\ pc'[t] = step
      /\ \A u \in Uploaders : u # t => pc'[u] = pc[u]
  BY DEF UploadInv, UploadTypeOK
<1>2. FilesFromList' /\ PathsAreApart' /\ WritersGoOn'
  BY <1>1 DEF UploadInv, FilesFromList, PathsAreApart, WritersGoOn, Inodes, InList, NoFile
<1>3. Passed' => Passed
  BY <1>1 DEF Passed, NoFile
<1>4. ListIsWhole'
  BY <1>3 DEF UploadInv, ListIsWhole, InList
<1>5. Kept \subseteq Kept'
  BY <1>1 DEF Kept, Keeps, Inodes
<1>6. HashersGoOn'
  BY <1>1, <1>5 DEF UploadInv, HashersGoOn, Inodes, InList, NoFile
<1>7. CopiersGoOn'
  BY <1>1 DEF UploadInv, CopiersGoOn, Inodes, NoFile
<1>8. TempIsWhole'
  BY <1>3, <1>5 DEF UploadInv, TempIsWhole, NoFile
<1>9. ArchiveIsWhole'
  <2>1. Copied \subseteq Copied'
    BY <1>1 DEF Copied, Inodes
  <2> QED
    BY <1>5, <2>1 DEF UploadInv, ArchiveIsWhole, NoFile
<1>10. ConfirmedIsThere'
  BY <1>1 DEF UploadInv, ConfirmedIsThere, NoFile
<1> QED
  BY <1>2, <1>4, <1>6, <1>7, <1>8, <1>9, <1>10 DEF UploadInv

(* Ranges are pushed: what was written before stays written.                *)
LEMMA PushStep ==
  ASSUME UploadInv, NEW r \in Ranges, list' = list \/ list' = Append(list, r),
         UploadTypeOK',
         UNCHANGED <<pc, out, next, from, left, temp, archive, content, cut, uploaded>>
  PROVE  UploadInv'
<1> DEFINE n == Len(list)
           m == Len(list')
<1>1. /\ m >= n /\ n \in Nat /\ m \in Nat
      /\ DOMAIN list' = 1 .. m /\ DOMAIN list = 1 .. n
      /\ \A k \in DOMAIN list : k \in DOMAIN list' /\ list'[k] = list[k]
  <2>1. CASE list' = list
    BY <2>1 DEF UploadInv, UploadTypeOK
  <2>2. CASE list' = Append(list, r)
    BY <2>2 DEF UploadInv, UploadTypeOK
  <2> QED
    BY <2>1, <2>2
<1>a. \A u \in Uploaders : pc[u] = "merge" =>
        out[u] \in Inodes /\ next[u] <= n + 1 /\ next[u] \in Nat
  BY DEF UploadInv, UploadTypeOK, WritersGoOn
<1>b. WritersGoOn' <=>
        \A u \in Uploaders : pc[u] = "merge" => out[u] \in Inodes /\ next[u] <= m + 1
  BY DEF WritersGoOn, Inodes
<1> HIDE DEF n, m
<1>2. InList \subseteq InList'
  BY <1>1 DEF InList
<1>3. FilesFromList'
  BY <1>2 DEF UploadInv, FilesFromList, Inodes
<1>4. PathsAreApart' /\ ConfirmedIsThere' /\ CopiersGoOn'
  BY DEF UploadInv, PathsAreApart, ConfirmedIsThere, CopiersGoOn, Inodes, NoFile
<1>5. WritersGoOn'
  <2>1. ASSUME NEW u \in Uploaders, pc[u] = "merge" PROVE next[u] <= m + 1
    BY <1>1, <1>a, <2>1
  <2> QED
    BY <1>a, <1>b, <2>1
<1>6. Passed' <=> Passed
  BY DEF Passed, NoFile
<1>7. ListIsWhole'
  BY <1>2, <1>6 DEF UploadInv, ListIsWhole
<1>8. Kept \subseteq Kept'
  <2> SUFFICES ASSUME NEW i \in Inodes, NEW u \in Uploaders, Keeps(u, i),
                      NEW k \in DOMAIN list', k < next[u]
               PROVE  list'[k] \in content[i]
    BY DEF Kept, Keeps, Inodes
  <2>1. next[u] <= n + 1 /\ next[u] \in Nat
    BY <1>a DEF Keeps
  <2>2. k \in DOMAIN list
    <3>1. k \in 1 .. m
      BY <1>1
    <3> QED
      BY <1>1, <2>1, <3>1
  <2> QED
    BY <1>1, <2>2 DEF Keeps
<1>9. HashersGoOn'
  BY <1>2, <1>8 DEF UploadInv, HashersGoOn, Inodes, NoFile
<1>10. TempIsWhole'
  BY <1>6, <1>8 DEF UploadInv, TempIsWhole, NoFile
<1>11. ArchiveIsWhole'
  BY <1>8 DEF UploadInv, ArchiveIsWhole, Copied, NoFile, Inodes
<1> QED
  BY <1>3, <1>4, <1>5, <1>7, <1>9, <1>10, <1>11 DEF UploadInv

LEMMA UploadingStep ==
  ASSUME UploadInv, NEW t \in Uploaders,
         Uploading(t) \/ \E u \in Uploaders : UploadingTogether(t, u)
  PROVE  UploadInv'
<1>1. PICK r \in Ranges : list' = IF detached THEN list ELSE Append(list, r)
  BY DEF Uploading, UploadingTogether
<1>2. UNCHANGED <<pc, out, next, from, left, temp, archive, content, cut, uploaded>>
  BY DEF Uploading, UploadingTogether
<1>a. detached' \in BOOLEAN
  BY DEF UploadInv, UploadTypeOK, Uploading, UploadingTogether
<1>b. requests' \in 0 .. MaxRequests
  <2>1. Take(1) \/ Take(2)
    BY DEF Uploading, UploadingTogether
  <2> QED
    BY <2>1, FileCenterAssumption DEF UploadInv, UploadTypeOK, Take
<1>3. list' \in Seq(Ranges)
  BY <1>1 DEF UploadInv, UploadTypeOK
<1>4. UploadTypeOK'
  BY <1>2, <1>3, <1>a, <1>b DEF UploadInv, UploadTypeOK, Inodes, NoFile
<1> QED
  BY <1>1, <1>2, <1>4, PushStep

(* The temporary file is emptied: the thread that empties it has passed no  *)
(* entry of the list, and is the one that keeps the file. Copies that were  *)
(* read from it are disturbed.                                              *)
LEMMA UploadedStep ==
  ASSUME UploadInv, NEW t \in Uploaders, Uploaded(t)
  PROVE  UploadInv'
<1>1. /\ pc[t] = "free"
      /\ pc' = [pc EXCEPT ![t] = "merge"]
      /\ out' = [out EXCEPT ![t] = temp']
      /\ next' = [next EXCEPT ![t] = 1]
      /\ UNCHANGED <<list, detached, from, left, archive, uploaded>>
      /\ requests + 1 <= MaxRequests /\ requests' = requests + 1
  BY DEF Uploaded, Take, Goto, Writes
<1>2. /\ temp' \in DOMAIN content' /\ temp' # NoFile
      /\ DOMAIN content \subseteq DOMAIN content'
      /\ content' \in Seq(SUBSET Ranges)
      /\ content'[temp'] = {}
      /\ \A i \in DOMAIN content' \ {temp'} : i \in DOMAIN content /\ content'[i] = content[i]
      /\ temp # NoFile => temp' = temp /\ cut' = cut \cup CopiesOf(temp)
      /\ temp = NoFile => temp' \notin DOMAIN content /\ cut' = cut
  <2>1. CASE temp = NoFile
    <3>1. content' = Append(content, {}) /\ temp' = Len(content) + 1 /\ cut' = cut
      BY <2>1 DEF Uploaded
    <3> QED
      BY <2>1, <3>1 DEF UploadInv, UploadTypeOK, NoFile
  <2>2. CASE temp # NoFile
    <3>1. content' = [content EXCEPT ![temp] = {}] /\ temp' = temp
          /\ cut' = cut \cup CopiesOf(temp)
      BY <2>2 DEF Uploaded
    <3>2. temp \in DOMAIN content
      BY <2>2 DEF UploadInv, UploadTypeOK, Inodes
    <3> QED
      BY <2>2, <3>1, <3>2 DEF UploadInv, UploadTypeOK
  <2> QED
    BY <2>1, <2>2
<1>3. /\ archive # temp' \/ archive = NoFile
      /\ \A u \in Uploaders : pc[u] \in {"hash", "copy"} => from[u] \in DOMAIN content
      /\ \A u \in Uploaders : pc[u] = "copy" => out[u] \in DOMAIN content /\ out[u] # temp'
  BY <1>2 DEF UploadInv, UploadTypeOK, PathsAreApart, HashersGoOn, CopiersGoOn, Inodes
<1>4. CopiesOf(temp) \subseteq DOMAIN content \ {temp'}
  BY <1>3 DEF CopiesOf
<1>5. cut' \subseteq DOMAIN content' /\ temp' \notin cut' /\ cut \subseteq cut'
  BY <1>2, <1>4 DEF UploadInv, UploadTypeOK, PathsAreApart, Inodes
<1>6. UploadTypeOK'
  <2>1. pc' \in [Uploaders -> Pcs] /\ next' \in [Uploaders -> Nat \ {0}]
    BY <1>1 DEF UploadInv, UploadTypeOK, Pcs
  <2>2. /\ out' \in [Uploaders -> DOMAIN content' \cup {NoFile}]
        /\ from' \in [Uploaders -> DOMAIN content' \cup {NoFile}]
        /\ left' \in [Uploaders -> SUBSET Ranges]
    BY <1>1, <1>2 DEF UploadInv, UploadTypeOK, Inodes
  <2>3. archive' \in DOMAIN content' \cup {NoFile}
    BY <1>1, <1>2 DEF UploadInv, UploadTypeOK, Inodes
  <2>4. requests' \in 0 .. MaxRequests /\ uploaded' \in Nat
    BY <1>1, FileCenterAssumption DEF UploadInv, UploadTypeOK
  <2> QED
    BY <1>1, <1>2, <1>5, <2>1, <2>2, <2>3, <2>4 DEF UploadInv, UploadTypeOK, Inodes, NoFile
<1>7. FilesFromList'
  BY <1>1, <1>2 DEF UploadInv, FilesFromList, Inodes, InList
<1>8. PathsAreApart'
  BY <1>1, <1>3, <1>5 DEF PathsAreApart, NoFile
<1>9. /\ pc'[t] = "merge" /\ out'[t] = temp' /\ next'[t] = 1
      /\ \A u \in Uploaders : u # t => pc'[u] = pc[u] /\ out'[u] = out[u] /\ next'[u] = next[u]
  BY <1>1 DEF UploadInv, UploadTypeOK
<1>10. WritersGoOn'
  BY <1>1, <1>2, <1>9 DEF UploadInv, UploadTypeOK, WritersGoOn, Inodes
<1>11. Passed' <=> Passed
  BY <1>1, <1>9 DEF Passed, NoFile
<1>12. ListIsWhole' /\ ConfirmedIsThere'
  BY <1>1, <1>9, <1>11 DEF UploadInv, ListIsWhole, ConfirmedIsThere, InList, NoFile
<1>13. temp' \in Kept'
  <2>1. \A k \in DOMAIN list' : ~(k < 1)
    BY <1>1 DEF UploadInv, UploadTypeOK
  <2> QED
    BY <1>2, <1>9, <2>1 DEF Kept, Keeps, Inodes
<1>14. \A i \in Kept : i # temp' => i \in Kept'
  BY <1>1, <1>2, <1>9 DEF Kept, Keeps, Inodes
<1>15. HashersGoOn'
  <2> SUFFICES ASSUME NEW u \in Uploaders, pc'[u] = "hash"
               PROVE  /\ from'[u] \in DOMAIN content'
                      /\ from'[u] # temp' => archive' # NoFile
                      /\ Ranges \ left'[u] \subseteq InList'
                      /\ Ranges \ left'[u] \subseteq content'[from'[u]] \/ from'[u] \in Kept'
    BY DEF HashersGoOn, Inodes, NoFile
  <2>1. /\ pc[u] = "hash" /\ from[u] \in DOMAIN content
        /\ from[u] # temp => archive # NoFile
        /\ Ranges \ left[u] \subseteq InList
        /\ Ranges \ left[u] \subseteq content[from[u]] \/ from[u] \in Kept
    BY <1>9 DEF UploadInv, HashersGoOn, Inodes
  <2>2. from'[u] = from[u] /\ left'[u] = left[u] /\ InList' = InList /\ archive' = archive
    BY <1>1 DEF InList
  <2>3. from[u] # temp' => from[u] # temp
    BY <1>2, <2>1 DEF UploadInv, UploadTypeOK, Inodes, NoFile
  <2>4. CASE from[u] = temp'
    BY <1>2, <1>13, <2>1, <2>2, <2>4
  <2>5. CASE from[u] # temp'
    <3>1. content'[from[u]] = content[from[u]]
      BY <1>2, <2>1, <2>5
    <3>2. from[u] \in Kept => from[u] \in Kept'
      BY <1>14, <2>5
    <3> QED
      BY <1>2, <2>1, <2>2, <2>3, <2>5, <3>1, <3>2
  <2> QED
    BY <2>4, <2>5
<1>16. CopiersGoOn'
  <2> SUFFICES ASSUME NEW u \in Uploaders, pc'[u] = "copy"
               PROVE  /\ from'[u] \in DOMAIN content' /\ out'[u] \in DOMAIN content'
                      /\ from'[u] # out'[u] /\ out'[u] # temp'
                      /\ archive' # NoFile
                      /\ out'[u] \notin cut' =>
                           /\ content'[from'[u]] = Ranges
                           /\ Ranges \ left'[u] \subseteq content'[out'[u]]
    BY DEF CopiersGoOn, Inodes, NoFile
  <2>1. /\ pc[u] = "copy" /\ from'[u] = from[u] /\ out'[u] = out[u] /\ left'[u] = left[u]
    BY <1>1, <1>9
  <2>2. /\ from[u] \in DOMAIN content /\ out[u] \in DOMAIN content
        /\ from[u] # out[u] /\ out[u] # temp'
        /\ archive # NoFile
        /\ out[u] \notin cut =>
             content[from[u]] = Ranges /\ Ranges \ left[u] \subseteq content[out[u]]
    BY <1>3, <2>1 DEF UploadInv, CopiersGoOn, Inodes
  <2>3. content'[out[u]] = content[out[u]]
    BY <1>2, <2>2
  <2>4. ASSUME out[u] \notin cut' PROVE content'[from[u]] = content[from[u]]
    <3>1. from[u] # temp'
      BY <1>2, <2>1, <2>2, <2>4 DEF CopiesOf
    <3> QED
      BY <1>2, <2>2, <3>1
  <2> QED
    BY <1>1, <1>2, <1>5, <2>1, <2>2, <2>3, <2>4
<1>17. TempIsWhole'
  BY <1>13 DEF TempIsWhole
<1>18. ArchiveIsWhole'
  <2> SUFFICES ASSUME archive # NoFile
               PROVE  content'[archive] = Ranges \/ archive \in Kept' \cup cut' \cup Copied'
    BY <1>1 DEF ArchiveIsWhole, NoFile
  <2>1. archive \in DOMAIN content /\ archive # temp'
    BY <1>3 DEF UploadInv, UploadTypeOK, Inodes
  <2>2. content'[archive] = content[archive] /\ (archive \in Kept => archive \in Kept')
    BY <1>2, <1>14, <2>1
  <2>3. Copied \subseteq Copied'
    BY <1>1, <1>2, <1>9 DEF Copied, Inodes
  <2> QED
    BY <1>5, <2>2, <2>3 DEF UploadInv, ArchiveIsWhole
<1> QED
  BY <1>6, <1>7, <1>8, <1>10, <1>12, <1>15, <1>16, <1>17, <1>18 DEF UploadInv

(* An entry of the list is written, which only adds to files; the thread    *)
(* that finds the end of the list has written all of it.                    *)
LEMMA MergeFileStep ==
  ASSUME UploadInv, NEW t \in Uploaders, MergeFile(t)
  PROVE  UploadInv'
<1>1. /\ pc[t] = "merge"
      /\ UNCHANGED <<list, detached, from, left, temp, archive, cut, requests, uploaded>>
  BY DEF MergeFile
<1>2. /\ out[t] \in DOMAIN content /\ next[t] <= Len(list) + 1 /\ next[t] \in Nat \ {0}
      /\ Len(list) \in Nat /\ DOMAIN list = 1 .. Len(list)
      /\ \A k \in DOMAIN list : list[k] \in Ranges
      /\ \A i \in DOMAIN content : content[i] \subseteq Ranges
  BY <1>1 DEF UploadInv, UploadTypeOK, WritersGoOn, Inodes
<1>3. CASE next[t] <= Len(list)
  <2>1. /\ content' = [content EXCEPT ![out[t]] = @ \cup {list[next[t]]}]
        /\ next' = [next EXCEPT ![t] = @ + 1]
        /\ UNCHANGED <<pc, out>>
    BY <1>3 DEF MergeFile
  <2>2. next[t] \in DOMAIN list
    BY <1>2, <1>3
  <2>3. /\ content' \in Seq(SUBSET Ranges) /\ DOMAIN content' = DOMAIN content
        /\ \A i \in DOMAIN content : content[i] \subseteq content'[i]
        /\ \A i \in DOMAIN content : content'[i] \subseteq content[i] \cup {list[next[t]]}
        /\ list[next[t]] \in content'[out[t]]
    BY <1>2, <2>1, <2>2 DEF UploadInv, UploadTypeOK
  <2>4. UploadTypeOK'
    BY <1>1, <2>1, <2>3 DEF UploadInv, UploadTypeOK, Inodes
  <2>5. FilesFromList'
    BY <1>1, <2>2, <2>3 DEF UploadInv, FilesFromList, Inodes, InList
  <2>6. PathsAreApart' /\ ListIsWhole' /\ ConfirmedIsThere'
    BY <1>1, <2>1 DEF UploadInv, PathsAreApart, ListIsWhole, ConfirmedIsThere, Passed, InList,
                      NoFile
  <2>7. WritersGoOn'
    BY <1>1, <1>2, <1>3, <2>1, <2>3 DEF UploadInv, UploadTypeOK, WritersGoOn, Inodes
  <2>8. ASSUME NEW u \in Uploaders, NEW i \in DOMAIN content, Keeps(u, i)
        PROVE  Keeps(u, i)'
    <3> SUFFICES ASSUME NEW k \in DOMAIN list, k < next'[u]
                 PROVE  list[k] \in content'[i]
      BY <1>1, <2>1, <2>8 DEF Keeps
    <3>1. CASE k < next[u]
      BY <2>3, <2>8, <3>1 DEF Keeps
    <3>2. CASE ~(k < next[u])
      <4>1. u = t /\ k = next[t]
        BY <1>2, <2>1, <3>2 DEF UploadInv, UploadTypeOK
      <4> QED
        BY <2>3, <2>8, <4>1 DEF Keeps
    <3> QED
      BY <3>1, <3>2
  <2>9. Kept \subseteq Kept' /\ Copied' = Copied
    BY <2>1, <2>3, <2>8 DEF Kept, Copied, Inodes
  <2>10. \A i \in DOMAIN content : content[i] = Ranges => content'[i] = Ranges
    BY <1>2, <2>2, <2>3
  <2>11. HashersGoOn'
    BY <1>1, <2>1, <2>3, <2>9 DEF UploadInv, HashersGoOn, Inodes, InList, NoFile
  <2>12. CopiersGoOn'
    BY <1>1, <2>1, <2>3, <2>10 DEF UploadInv, CopiersGoOn, Inodes, NoFile
  <2>13. TempIsWhole'
    BY <1>1, <2>1, <2>3, <2>9, <2>10 DEF UploadInv, UploadTypeOK, TempIsWhole, Passed, Inodes, NoFile
  <2>14. ArchiveIsWhole'
    BY <1>1, <2>1, <2>3, <2>9, <2>10 DEF UploadInv, UploadTypeOK, ArchiveIsWhole, Inodes, NoFile
  <2> QED
    BY <2>4, <2>5, <2>6, <2>7, <2>11, <2>12, <2>13, <2>14 DEF UploadInv
<1>4. CASE ~(next[t] <= Len(list))
  <2>1. /\ pc' = [pc EXCEPT ![t] = "check"] /\ out' = [out EXCEPT ![t] = NoFile]
        /\ next' = [next EXCEPT ![t] = 1] /\ UNCHANGED content
    BY <1>4 DEF MergeFile, Goto, Writes
  <2>2. UploadTypeOK'
    BY <1>1, <2>1 DEF UploadInv, UploadTypeOK, Pcs, Inodes
  <2>3. /\ pc'[t] = "check"
        /\ \A u \in Uploaders :
             u # t => pc'[u] = pc[u] /\ out'[u] = out[u] /\ next'[u] = next[u]
    BY <2>1 DEF UploadInv, UploadTypeOK
  <2>4. FilesFromList' /\ PathsAreApart' /\ WritersGoOn'
    BY <1>1, <2>1, <2>3 DEF UploadInv, FilesFromList, PathsAreApart, WritersGoOn, Inodes,
                      InList, NoFile
  <2>5. Passed' <=> Passed
    BY <1>1, <2>3 DEF Passed, NoFile
  <2>6. ListIsWhole' /\ ConfirmedIsThere'
    BY <1>1, <2>3, <2>5 DEF UploadInv, ListIsWhole, ConfirmedIsThere, InList, NoFile
  <2>7. \A i \in Kept : i \in Kept' \/ InList \subseteq content[i]
    BY <1>1, <1>2, <1>4, <2>1, <2>3 DEF Kept, Keeps, InList, Inodes
  <2>8. Copied \subseteq Copied'
    BY <1>1, <2>1, <2>3 DEF Copied, Inodes
  <2>9. HashersGoOn'
    BY <1>1, <2>1, <2>3, <2>7 DEF UploadInv, HashersGoOn, Inodes, InList, NoFile
  <2>10. CopiersGoOn'
    BY <1>1, <2>1, <2>3 DEF UploadInv, CopiersGoOn, Inodes, NoFile
  <2>11. Passed => \A i \in Kept : i \in Kept' \/ content[i] = Ranges
    BY <1>2, <2>7 DEF UploadInv, ListIsWhole, Kept, Inodes
  <2>12. TempIsWhole'
    BY <1>1, <2>1, <2>5, <2>11 DEF UploadInv, TempIsWhole, NoFile
  <2>13. ArchiveIsWhole'
    BY <1>1, <2>1, <2>8, <2>11 DEF UploadInv, ArchiveIsWhole, Passed, NoFile
  <2> QED
    BY <2>2, <2>4, <2>6, <2>9, <2>10, <2>12, <2>13 DEF UploadInv
<1> QED
  BY <1>3, <1>4

(* The file at the path is opened for its hash. *)
LEMMA CheckHashStep ==
  ASSUME UploadInv, NEW t \in Uploaders, CheckHash(t)
  PROVE  UploadInv'
<1>1. /\ pc[t] = "check"
      /\ UNCHANGED <<list, detached, out, next, temp, archive, content, cut, requests, uploaded>>
  BY DEF CheckHash
<1>2. CASE temp = NoFile
  <2>1. pc' = [pc EXCEPT ![t] = "free"] /\ UNCHANGED <<from, left>>
    BY <1>2 DEF CheckHash, Goto
  <2>2. UploadTypeOK'
    BY <1>1, <2>1 DEF UploadInv, UploadTypeOK, Pcs, Inodes
  <2>3. uploaded' > 0 => archive # NoFile
    BY <1>1 DEF UploadInv, ConfirmedIsThere
  <2> QED
    BY <1>1, <2>1, <2>2, <2>3, QuietStep
<1>3. CASE temp # NoFile
  <2>1. /\ pc' = [pc EXCEPT ![t] = "hash"]
        /\ from' = [from EXCEPT ![t] = temp] /\ left' = [left EXCEPT ![t] = Ranges]
    BY <1>3 DEF CheckHash, Goto, Reads
  <2>2. UploadTypeOK'
    BY <1>1, <2>1 DEF UploadInv, UploadTypeOK, Pcs, Inodes
  <2>3. /\ pc'[t] = "hash" /\ from'[t] = temp /\ left'[t] = Ranges
        /\ temp \in Inodes
        /\ \A u \in Uploaders :
             u # t => pc'[u] = pc[u] /\ from'[u] = from[u] /\ left'[u] = left[u]
    BY <1>3, <2>1 DEF UploadInv, UploadTypeOK
  <2>4. FilesFromList' /\ PathsAreApart' /\ WritersGoOn'
    BY <1>1, <2>3 DEF UploadInv, FilesFromList, PathsAreApart, WritersGoOn, Inodes, InList, NoFile
  <2>5. Passed' <=> Passed
    BY <1>1, <2>3 DEF Passed, NoFile
  <2>6. ListIsWhole' /\ ConfirmedIsThere'
    BY <1>1, <2>3, <2>5 DEF UploadInv, ListIsWhole, ConfirmedIsThere, InList, NoFile
  <2>7. Kept \subseteq Kept' /\ Copied \subseteq Copied'
    BY <1>1, <2>3 DEF Kept, Keeps, Copied, Inodes
  <2>8. HashersGoOn'
    BY <1>1, <2>3, <2>7 DEF UploadInv, HashersGoOn, Inodes, InList, NoFile
  <2>9. CopiersGoOn'
    BY <1>1, <2>3 DEF UploadInv, CopiersGoOn, Inodes, NoFile
  <2>10. TempIsWhole' /\ ArchiveIsWhole'
    BY <1>1, <2>5, <2>7 DEF UploadInv, TempIsWhole, ArchiveIsWhole, NoFile
  <2> QED
    BY <2>2, <2>4, <2>6, <2>8, <2>9, <2>10 DEF UploadInv
<1> QED
  BY <1>2, <1>3

(* The last range is read, so that the list is whole and the file is whole  *)
(* or kept, or a range is missing and the thread gives up.                  *)
LEMMA HashRangeStep ==
  ASSUME UploadInv, NEW t \in Uploaders, HashRange(t)
  PROVE  UploadInv'
<1>1. /\ pc[t] = "hash"
      /\ UNCHANGED <<list, detached, out, next, temp, archive, content, cut, requests, uploaded>>
  BY DEF HashRange
<1>2. PICK r \in left[t] :
        IF r \notin content[from[t]]
          THEN Goto(t, "free") /\ Reads(t, NoFile, {})
        ELSE IF left[t] = {r}
          THEN Goto(t, "archive") /\ Reads(t, NoFile, {})
        ELSE Reads(t, from[t], left[t] \ {r}) /\ UNCHANGED pc
  BY DEF HashRange
<1>3. /\ from[t] \in Inodes
      /\ from[t] # temp => archive # NoFile
      /\ Ranges \ left[t] \subseteq InList
      /\ Ranges \ left[t] \subseteq content[from[t]] \/ from[t] \in Kept
      /\ left[t] \subseteq Ranges
  BY <1>1 DEF UploadInv, UploadTypeOK, HashersGoOn
<1>4. CASE r \notin content[from[t]]
  <2>1. /\ pc' = [pc EXCEPT ![t] = "free"]
        /\ from' = [from EXCEPT ![t] = NoFile] /\ left' = [left EXCEPT ![t] = {}]
    BY <1>2, <1>4 DEF Goto, Reads
  <2>2. UploadTypeOK'
    BY <1>1, <2>1 DEF UploadInv, UploadTypeOK, Pcs, Inodes
  <2>3. uploaded' > 0 => archive # NoFile
    BY <1>1 DEF UploadInv, ConfirmedIsThere
  <2>4. \A u \in Uploaders \ {t} : from'[u] = from[u] /\ left'[u] = left[u]
    BY <2>1 DEF UploadInv, UploadTypeOK
  <2> QED
    BY <1>1, <2>1, <2>2, <2>3, <2>4, QuietStep
<1>5. ASSUME r \in content[from[t]]
      PROVE  Ranges \ (left[t] \ {r}) \subseteq InList
  BY <1>3, <1>5 DEF UploadInv, FilesFromList
<1>6. CASE r \in content[from[t]] /\ left[t] = {r}
  <2>1. /\ pc' = [pc EXCEPT ![t] = "archive"]
        /\ from' = [from EXCEPT ![t] = NoFile] /\ left' = [left EXCEPT ![t] = {}]
    BY <1>2, <1>6 DEF Goto, Reads
  <2>2. UploadTypeOK'
    BY <1>1, <2>1 DEF UploadInv, UploadTypeOK, Pcs, Inodes
  <2>3. /\ pc'[t] = "archive"
        /\ \A u \in Uploaders :
             u # t => pc'[u] = pc[u] /\ from'[u] = from[u] /\ left'[u] = left[u]
    BY <2>1 DEF UploadInv, UploadTypeOK
  <2>4. FilesFromList' /\ PathsAreApart' /\ WritersGoOn'
    BY <1>1, <2>3 DEF UploadInv, FilesFromList, PathsAreApart, WritersGoOn, Inodes, InList, NoFile
  <2>5. Ranges \subseteq InList
    BY <1>5, <1>6
  <2>6. ListIsWhole' /\ ConfirmedIsThere'
    BY <1>1, <2>3, <2>5 DEF UploadInv, ListIsWhole, ConfirmedIsThere, InList, NoFile
  <2>7. Kept \subseteq Kept' /\ Copied \subseteq Copied'
    BY <1>1, <2>3 DEF Kept, Keeps, Copied, Inodes
  <2>8. HashersGoOn'
    BY <1>1, <2>3, <2>7 DEF UploadInv, HashersGoOn, Inodes, InList, NoFile
  <2>9. CopiersGoOn'
    BY <1>1, <2>3 DEF UploadInv, CopiersGoOn, Inodes, NoFile
  <2>10. ArchiveIsWhole'
    BY <1>1, <2>7 DEF UploadInv, ArchiveIsWhole, NoFile
  <2>11. TempIsWhole'
    <3>1. CASE archive # NoFile
      BY <1>1, <2>7, <3>1 DEF UploadInv, TempIsWhole, Passed, NoFile
    <3>2. CASE archive = NoFile
      <4>1. from[t] = temp
        BY <1>3, <3>2
      <4>2. content[temp] \subseteq Ranges
        BY <1>3, <4>1 DEF UploadInv, UploadTypeOK, Inodes
      <4>3. content[temp] = Ranges \/ temp \in Kept
        BY <1>3, <1>6, <4>1, <4>2
      <4> QED
        BY <1>1, <2>7, <4>3 DEF TempIsWhole
    <3> QED
      BY <3>1, <3>2
  <2> QED
    BY <2>2, <2>4, <2>6, <2>8, <2>9, <2>10, <2>11 DEF UploadInv
<1>7. CASE r \in content[from[t]] /\ left[t] # {r}
  <2>1. /\ from' = [from EXCEPT ![t] = from[t]] /\ left' = [left EXCEPT ![t] = left[t] \ {r}]
        /\ pc' = pc
    BY <1>2, <1>7 DEF Reads
  <2>2. UploadTypeOK'
    BY <1>1, <1>3, <2>1 DEF UploadInv, UploadTypeOK, Inodes
  <2>3. /\ from' = from /\ left'[t] = left[t] \ {r}
        /\ \A u \in Uploaders : u # t => left'[u] = left[u]
    BY <2>1 DEF UploadInv, UploadTypeOK
  <2>4. FilesFromList' /\ PathsAreApart' /\ WritersGoOn'
    BY <1>1, <2>1 DEF UploadInv, FilesFromList, PathsAreApart, WritersGoOn, Inodes, InList, NoFile
  <2>5. (Passed' <=> Passed) /\ Kept' = Kept /\ Copied' = Copied
    BY <1>1, <2>1 DEF Passed, Kept, Keeps, Copied, Inodes, NoFile
  <2>6. ListIsWhole' /\ ConfirmedIsThere' /\ TempIsWhole' /\ ArchiveIsWhole'
    BY <1>1, <2>1, <2>5 DEF UploadInv, ListIsWhole, ConfirmedIsThere, TempIsWhole, ArchiveIsWhole,
                            InList, NoFile
  <2>7. HashersGoOn'
    <3> SUFFICES ASSUME NEW u \in Uploaders, pc[u] = "hash"
                 PROVE  /\ from[u] \in Inodes
                        /\ from[u] # temp => archive # NoFile
                        /\ Ranges \ left'[u] \subseteq InList
                        /\ Ranges \ left'[u] \subseteq content[from[u]] \/ from[u] \in Kept
      BY <1>1, <2>1, <2>3, <2>5 DEF HashersGoOn, Inodes, InList, NoFile
    <3>1. CASE u = t
      BY <1>3, <1>5, <1>7, <2>3, <3>1
    <3>2. CASE u # t
      BY <2>3, <3>2 DEF UploadInv, HashersGoOn
    <3> QED
      BY <3>1, <3>2
  <2>8. CopiersGoOn'
    BY <1>1, <2>1, <2>3 DEF UploadInv, CopiersGoOn, Inodes, NoFile
  <2> QED
    BY <2>2, <2>4, <2>6, <2>7, <2>8 DEF UploadInv
<1> QED
  BY <1>4, <1>6, <1>7

LEMMA ArchiveFailsStep ==
  ASSUME UploadInv, NEW t \in Uploaders, ArchiveFails(t)
  PROVE  UploadInv'
<1>1. /\ pc[t] = "archive" /\ pc' = [pc EXCEPT ![t] = "free"]
      /\ UNCHANGED <<list, detached, out, next, from, left, temp, archive, content, cut, requests,
                     uploaded>>
  BY DEF ArchiveFails, Goto
<1>2. UploadTypeOK'
  BY <1>1 DEF UploadInv, UploadTypeOK, Pcs, Inodes
<1>3. uploaded' > 0 => archive # NoFile
  BY <1>1 DEF UploadInv, ConfirmedIsThere
<1> QED
  BY <1>1, <1>2, <1>3, QuietStep

(* What is moved to the archive was whole, or is kept by a thread.          *)
LEMMA ArchiveFileStep ==
  ASSUME UploadInv, NEW t \in Uploaders, ArchiveFile(t)
  PROVE  UploadInv'
<1>1. /\ pc[t] = "archive" /\ pc' = [pc EXCEPT ![t] = "remove"]
      /\ temp # NoFile /\ archive' = temp /\ temp' = NoFile
      /\ UNCHANGED <<list, detached, out, next, from, left, content, cut, requests, uploaded>>
  BY DEF ArchiveFile, Goto
<1>2. UploadTypeOK'
  BY <1>1 DEF UploadInv, UploadTypeOK, Pcs, Inodes, NoFile
<1>3. /\ pc'[t] = "remove" /\ temp \in Inodes /\ Passed
      /\ NoFile \notin Inodes
      /\ \A u \in Uploaders : u # t => pc'[u] = pc[u]
  BY <1>1 DEF UploadInv, UploadTypeOK, Passed, Inodes, NoFile
<1>4. FilesFromList' /\ WritersGoOn'
  BY <1>1, <1>3 DEF UploadInv, FilesFromList, WritersGoOn, Inodes, InList
<1>5. PathsAreApart' /\ ConfirmedIsThere'
  BY <1>1, <1>3 DEF UploadInv, UploadTypeOK, PathsAreApart, ConfirmedIsThere, Inodes, NoFile
<1>6. ListIsWhole'
  BY <1>1, <1>3 DEF UploadInv, ListIsWhole, InList
<1>7. Kept \subseteq Kept'
  BY <1>1, <1>3 DEF Kept, Keeps, Inodes
<1>8. HashersGoOn'
  BY <1>1, <1>3, <1>7 DEF UploadInv, HashersGoOn, Inodes, InList, NoFile
<1>9. CopiersGoOn'
  BY <1>1, <1>3 DEF UploadInv, CopiersGoOn, Inodes, NoFile
<1>10. TempIsWhole'
  BY <1>1 DEF TempIsWhole, NoFile
<1>11. ArchiveIsWhole'
  BY <1>1, <1>3, <1>7 DEF UploadInv, TempIsWhole, ArchiveIsWhole
<1> QED
  BY <1>2, <1>4, <1>5, <1>6, <1>8, <1>9, <1>10, <1>11 DEF UploadInv

(* A copy that begins while no thread writes its source has a whole one.    *)
LEMMA ArchiveCopyStep ==
  ASSUME UploadInv, NEW t \in Uploaders, ArchiveCopy(t)
  PROVE  UploadInv'
<1> DEFINE new == Len(content) + 1
<1>1. /\ pc[t] = "archive" /\ pc' = [pc EXCEPT ![t] = "copy"]
      /\ temp # NoFile /\ archive' = new
      /\ content' = Append(content, {})
      /\ out' = [out EXCEPT ![t] = new]
      /\ from' = [from EXCEPT ![t] = temp] /\ left' = [left EXCEPT ![t] = Ranges]
      /\ cut' = IF \E u \in Uploaders : pc[u] = "merge" /\ out[u] = temp
                  THEN cut \cup {new} ELSE cut
      /\ UNCHANGED <<list, detached, next, temp, requests, uploaded>>
  BY DEF ArchiveCopy, Goto, Writes, Reads
<1>2. /\ new # NoFile /\ new \notin DOMAIN content
      /\ DOMAIN content' = DOMAIN content \cup {new}
      /\ content' \in Seq(SUBSET Ranges) /\ content'[new] = {}
      /\ \A i \in DOMAIN content : content'[i] = content[i]
  BY <1>1 DEF UploadInv, UploadTypeOK, NoFile
<1> HIDE DEF new
<1>3. /\ temp \in DOMAIN content /\ temp # new /\ Passed /\ temp \notin cut
  BY <1>1, <1>2 DEF UploadInv, UploadTypeOK, PathsAreApart, Passed, Inodes
<1>4. /\ pc'[t] = "copy" /\ out'[t] = new /\ from'[t] = temp /\ left'[t] = Ranges
      /\ \A u \in Uploaders : u # t => /\ pc'[u] = pc[u] /\ out'[u] = out[u]
                                      /\ from'[u] = from[u] /\ left'[u] = left[u]
  BY <1>1 DEF UploadInv, UploadTypeOK
<1>5. cut \subseteq cut' /\ cut' \subseteq cut \cup {new} /\ cut \subseteq DOMAIN content
  BY <1>1 DEF UploadInv, UploadTypeOK, Inodes
<1>6. UploadTypeOK'
  <2>1. pc' \in [Uploaders -> Pcs]
    BY <1>1 DEF UploadInv, UploadTypeOK, Pcs
  <2>2. /\ out' \in [Uploaders -> DOMAIN content' \cup {NoFile}]
        /\ from' \in [Uploaders -> DOMAIN content' \cup {NoFile}]
        /\ left' \in [Uploaders -> SUBSET Ranges]
    BY <1>1, <1>2, <1>3 DEF UploadInv, UploadTypeOK, Inodes
  <2> QED
    BY <1>1, <1>2, <1>3, <1>5, <2>1, <2>2 DEF UploadInv, UploadTypeOK, Inodes, NoFile
<1>7. FilesFromList'
  BY <1>1, <1>2 DEF UploadInv, FilesFromList, Inodes, InList
<1>8. PathsAreApart' /\ ConfirmedIsThere'
  BY <1>1, <1>2, <1>3, <1>5 DEF PathsAreApart, ConfirmedIsThere, NoFile
<1>9. WritersGoOn'
  BY <1>1, <1>2, <1>4 DEF UploadInv, WritersGoOn, Inodes
<1>10. ListIsWhole'
  BY <1>1, <1>3 DEF UploadInv, ListIsWhole, InList
<1>11. Kept \subseteq Kept'
  BY <1>1, <1>2, <1>4 DEF Kept, Keeps, Inodes
<1>12. HashersGoOn'
  BY <1>1, <1>2, <1>4, <1>11 DEF UploadInv, HashersGoOn, Inodes, InList, NoFile
<1>13. new \notin cut' => content[temp] = Ranges
  <2> SUFFICES ASSUME new \notin cut', content[temp] # Ranges PROVE FALSE
    OBVIOUS
  <2>1. temp \in Kept
    BY <1>1, <1>3 DEF UploadInv, TempIsWhole
  <2> QED
    BY <1>1, <2>1 DEF Kept, Keeps
<1>14. CopiersGoOn'
  <2> SUFFICES ASSUME NEW u \in Uploaders, pc'[u] = "copy"
               PROVE  /\ from'[u] \in DOMAIN content' /\ out'[u] \in DOMAIN content'
                      /\ from'[u] # out'[u] /\ out'[u] # temp
                      /\ out'[u] \notin cut' =>
                           /\ content'[from'[u]] = Ranges
                           /\ Ranges \ left'[u] \subseteq content'[out'[u]]
    BY <1>1, <1>2 DEF CopiersGoOn, Inodes, NoFile
  <2>1. CASE u = t
    BY <1>2, <1>3, <1>4, <1>13, <2>1
  <2>2. CASE u # t
    BY <1>2, <1>4, <1>5, <2>2 DEF UploadInv, CopiersGoOn, Inodes
  <2> QED
    BY <2>1, <2>2
<1>15. TempIsWhole'
  BY <1>1, <1>2, <1>3, <1>11 DEF UploadInv, TempIsWhole, NoFile
<1>16. ArchiveIsWhole'
  BY <1>1, <1>2, <1>4 DEF ArchiveIsWhole, Copied, Inodes
<1> QED
  BY <1>6, <1>7, <1>8, <1>9, <1>10, <1>12, <1>14, <1>15, <1>16 DEF UploadInv

(* A range is copied, which only adds to the copy.                          *)
LEMMA CopyRangeStep ==
  ASSUME UploadInv, NEW t \in Uploaders, CopyRange(t)
  PROVE  UploadInv'
<1>1. /\ pc[t] = "copy"
      /\ UNCHANGED <<list, detached, pc, out, next, temp, archive, cut, requests, uploaded>>
  BY DEF CopyRange
<1>2. PICK r \in left[t] :
        /\ content' = [content EXCEPT ![out[t]] = @ \cup (content[from[t]] \cap {r})]
        /\ from' = [from EXCEPT ![t] = from[t]] /\ left' = [left EXCEPT ![t] = left[t] \ {r}]
  BY DEF CopyRange, Reads
<1>3. /\ from[t] \in DOMAIN content /\ out[t] \in DOMAIN content /\ from[t] # out[t]
      /\ left[t] \subseteq Ranges /\ content \in Seq(SUBSET Ranges)
      /\ \A i \in DOMAIN content : content[i] \subseteq Ranges
  BY <1>1 DEF UploadInv, UploadTypeOK, CopiersGoOn, Inodes
<1>4. /\ content' \in Seq(SUBSET Ranges) /\ DOMAIN content' = DOMAIN content
      /\ content'[out[t]] = content[out[t]] \cup (content[from[t]] \cap {r})
      /\ \A i \in DOMAIN content : i # out[t] => content'[i] = content[i]
  BY <1>2, <1>3
<1>5. /\ \A i \in DOMAIN content : content[i] \subseteq content'[i]
      /\ \A i \in DOMAIN content : content[i] = Ranges => content'[i] = Ranges
  BY <1>3, <1>4
<1>6. /\ from' = from /\ left'[t] = left[t] \ {r}
      /\ \A u \in Uploaders : u # t => left'[u] = left[u]
      /\ left' \in [Uploaders -> SUBSET Ranges]
  BY <1>2 DEF UploadInv, UploadTypeOK
<1>7. UploadTypeOK'
  BY <1>1, <1>4, <1>6 DEF UploadInv, UploadTypeOK, Inodes
<1>8. FilesFromList'
  BY <1>1, <1>3, <1>4 DEF UploadInv, FilesFromList, Inodes, InList
<1>9. PathsAreApart' /\ WritersGoOn' /\ ListIsWhole' /\ ConfirmedIsThere'
  BY <1>1, <1>4 DEF UploadInv, PathsAreApart, WritersGoOn, ListIsWhole, ConfirmedIsThere, Passed,
                    Inodes, InList, NoFile
<1>10. Kept \subseteq Kept' /\ Copied' = Copied
  BY <1>1, <1>4, <1>5 DEF Kept, Keeps, Copied, Inodes
<1>11. HashersGoOn'
  <2> SUFFICES ASSUME NEW u \in Uploaders, pc[u] = "hash"
               PROVE  /\ from[u] \in Inodes
                      /\ from[u] # temp => archive # NoFile
                      /\ Ranges \ left[u] \subseteq InList
                      /\ Ranges \ left[u] \subseteq content'[from[u]] \/ from[u] \in Kept'
    BY <1>1, <1>4, <1>6 DEF HashersGoOn, Inodes, InList, NoFile
  <2> QED
    BY <1>5, <1>10 DEF UploadInv, HashersGoOn, Inodes
<1>12. CopiersGoOn'
  <2> SUFFICES ASSUME NEW u \in Uploaders, pc[u] = "copy"
               PROVE  /\ from[u] \in DOMAIN content /\ out[u] \in DOMAIN content
                      /\ from[u] # out[u] /\ out[u] # temp
                      /\ archive # NoFile
                      /\ out[u] \notin cut =>
                           /\ content'[from[u]] = Ranges
                           /\ Ranges \ left'[u] \subseteq content'[out[u]]
    BY <1>1, <1>4, <1>6 DEF CopiersGoOn, Inodes, NoFile
  <2>1. /\ from[u] \in DOMAIN content /\ out[u] \in DOMAIN content
        /\ from[u] # out[u] /\ out[u] # temp
        /\ archive # NoFile
        /\ out[u] \notin cut =>
             content[from[u]] = Ranges /\ Ranges \ left[u] \subseteq content[out[u]]
    BY DEF UploadInv, CopiersGoOn, Inodes
  <2>2. CASE u = t
    BY <1>3, <1>4, <1>5, <1>6, <2>1, <2>2
  <2>3. CASE u # t
    BY <1>5, <1>6, <2>1, <2>3
  <2> QED
    BY <2>2, <2>3
<1>13. TempIsWhole' /\ ArchiveIsWhole'
  BY <1>1, <1>4, <1>5, <1>10 DEF UploadInv, UploadTypeOK, TempIsWhole, ArchiveIsWhole, Passed,
                                 Inodes, NoFile
<1> QED
  BY <1>7, <1>8, <1>9, <1>11, <1>12, <1>13 DEF UploadInv

(* The copy is complete when it was not disturbed. *)
LEMMA CopyEndsStep ==
  ASSUME UploadInv, NEW t \in Uploaders, CopyEnds(t)
  PROVE  UploadInv'
<1>1. /\ pc[t] = "copy" /\ left[t] = {} /\ temp' = NoFile
      /\ pc' = [pc EXCEPT ![t] = IF temp = NoFile THEN "free" ELSE "remove"]
      /\ out' = [out EXCEPT ![t] = NoFile]
      /\ from' = [from EXCEPT ![t] = NoFile] /\ left' = [left EXCEPT ![t] = {}]
      /\ UNCHANGED <<list, detached, next, archive, content, cut, requests, uploaded>>
  BY DEF CopyEnds, Goto, Writes, Reads
<1>2. UploadTypeOK'
  BY <1>1 DEF UploadInv, UploadTypeOK, Pcs, Inodes
<1>3. /\ pc'[t] \in {"free", "remove"} /\ archive # NoFile /\ NoFile \notin Inodes
      /\ \A u \in Uploaders : u # t => /\ pc'[u] = pc[u] /\ out'[u] = out[u]
                                      /\ from'[u] = from[u] /\ left'[u] = left[u]
  BY <1>1 DEF UploadInv, UploadTypeOK, CopiersGoOn, Inodes, NoFile
<1>4. out[t] \in Inodes /\ (out[t] \notin cut => content[out[t]] = Ranges)
  <2>1. out[t] \in Inodes /\ (out[t] \notin cut => Ranges \subseteq content[out[t]])
    BY <1>1 DEF UploadInv, CopiersGoOn
  <2>2. content[out[t]] \subseteq Ranges
    BY <2>1 DEF UploadInv, UploadTypeOK, Inodes
  <2> QED
    BY <2>1, <2>2
<1>5. FilesFromList' /\ WritersGoOn'
  BY <1>1, <1>3 DEF UploadInv, FilesFromList, WritersGoOn, Inodes, InList
<1>6. PathsAreApart' /\ ConfirmedIsThere' /\ TempIsWhole'
  BY <1>1, <1>3 DEF UploadInv, UploadTypeOK, PathsAreApart, ConfirmedIsThere, TempIsWhole, Inodes,
                    NoFile
<1>7. ListIsWhole'
  BY <1>1, <1>3 DEF UploadInv, ListIsWhole, Passed, InList
<1>8. Kept \subseteq Kept' /\ Copied \subseteq Copied' \cup {out[t]}
  BY <1>1, <1>3 DEF Kept, Keeps, Copied, Inodes
<1>9. HashersGoOn'
  BY <1>1, <1>3, <1>8 DEF UploadInv, HashersGoOn, Inodes, InList, NoFile
<1>10. CopiersGoOn'
  BY <1>1, <1>3 DEF UploadInv, CopiersGoOn, Inodes, NoFile
<1>11. ArchiveIsWhole'
  BY <1>1, <1>3, <1>4, <1>8 DEF UploadInv, ArchiveIsWhole, NoFile
<1> QED
  BY <1>2, <1>5, <1>6, <1>7, <1>9, <1>10, <1>11 DEF UploadInv

LEMMA CopyFailsStep ==
  ASSUME UploadInv, NEW t \in Uploaders, CopyFails(t)
  PROVE  UploadInv'
<1>1. /\ pc[t] = "copy" /\ cut' = cut \cup {out[t]}
      /\ pc' = [pc EXCEPT ![t] = "free"]
      /\ out' = [out EXCEPT ![t] = NoFile]
      /\ from' = [from EXCEPT ![t] = NoFile] /\ left' = [left EXCEPT ![t] = {}]
      /\ UNCHANGED <<list, detached, next, temp, archive, content, requests, uploaded>>
  BY DEF CopyFails, Goto, Writes, Reads
<1>2. out[t] \in Inodes /\ out[t] # temp /\ archive # NoFile
  BY <1>1 DEF UploadInv, CopiersGoOn
<1>3. UploadTypeOK'
  BY <1>1, <1>2 DEF UploadInv, UploadTypeOK, Pcs, Inodes
<1>4. /\ pc'[t] = "free"
      /\ \A u \in Uploaders : u # t => /\ pc'[u] = pc[u] /\ out'[u] = out[u]
                                      /\ from'[u] = from[u] /\ left'[u] = left[u]
  BY <1>1 DEF UploadInv, UploadTypeOK
<1>5. FilesFromList' /\ WritersGoOn' /\ PathsAreApart' /\ ConfirmedIsThere'
  BY <1>1, <1>2, <1>4 DEF UploadInv, FilesFromList, WritersGoOn, PathsAreApart, ConfirmedIsThere,
                          Inodes, InList, NoFile
<1>6. Passed
  BY <1>2 DEF Passed
<1>7. ListIsWhole'
  BY <1>1, <1>6 DEF UploadInv, ListIsWhole, InList
<1>8. Kept \subseteq Kept' /\ Copied \subseteq Copied' \cup {out[t]}
  BY <1>1, <1>4 DEF Kept, Keeps, Copied, Inodes
<1>9. HashersGoOn'
  BY <1>1, <1>4, <1>8 DEF UploadInv, HashersGoOn, Inodes, InList, NoFile
<1>10. CopiersGoOn'
  BY <1>1, <1>4 DEF UploadInv, CopiersGoOn, Inodes, NoFile
<1>11. TempIsWhole' /\ ArchiveIsWhole'
  BY <1>1, <1>6, <1>8 DEF UploadInv, TempIsWhole, ArchiveIsWhole, NoFile
<1> QED
  BY <1>3, <1>5, <1>7, <1>9, <1>10, <1>11 DEF UploadInv

(* The answer to the client changes nothing that is in the files.           *)
LEMMA FinishStep ==
  ASSUME UploadInv, NEW t \in Uploaders, Finish(t)
  PROVE  UploadInv'
<1>1. /\ pc[t] = "remove"
      /\ pc' = [pc EXCEPT ![t] = "free"]
      /\ uploaded' = uploaded + 1
      /\ UNCHANGED <<list, detached, out, next, from, left, temp, archive, content, cut, requests>>
  BY DEF Finish, Goto
<1>2. UploadTypeOK'
  BY <1>1 DEF UploadInv, UploadTypeOK, Pcs, Inodes
<1>3. archive # NoFile
  BY <1>1 DEF UploadInv, ConfirmedIsThere
<1> QED
  BY <1>1, <1>2, <1>3, QuietStep

(* A step in which nothing happens. *)
LEMMA StutterStep ==
  ASSUME UploadInv, UNCHANGED uploadVars
  PROVE  UploadInv'
<1> USE DEF uploadVars, Inodes, InList, NoFile
<1>1. UploadTypeOK' /\ FilesFromList' /\ PathsAreApart' /\ WritersGoOn'
  BY DEF UploadInv, UploadTypeOK, FilesFromList, PathsAreApart, WritersGoOn
<1>2. ListIsWhole' /\ ConfirmedIsThere' /\ CopiersGoOn'
  BY DEF UploadInv, ListIsWhole, ConfirmedIsThere, CopiersGoOn, Passed
<1>3. HashersGoOn' /\ TempIsWhole' /\ ArchiveIsWhole'
  BY DEF UploadInv, HashersGoOn, TempIsWhole, ArchiveIsWhole, Passed, Kept, Keeps, Copied
<1> QED
  BY <1>1, <1>2, <1>3 DEF UploadInv

(* What is in the archive, or passed the hash check and can be moved there, *)
(* is whole or kept by a thread that writes it, but for the copies of mv    *)
(* that go on or were disturbed; what files contain comes from the list     *)
(* (filemanager.cpp:60-70, 95-135, 204-235).                                *)
THEOREM UploadInvariant == UploadSpec => []UploadInv
<1>1. UploadInv /\ [UploadNext]_uploadVars => UploadInv'
  <2> SUFFICES ASSUME UploadInv, [UploadNext]_uploadVars PROVE UploadInv'
    OBVIOUS
  <2>1. CASE UploadNext
    <3>1. PICK t \in Uploaders : UploadStep(t)
      BY <2>1 DEF UploadNext
    <3> QED
      BY <3>1, UploadingStep, UploadedStep, MergeFileStep, CheckHashStep, HashRangeStep,
         ArchiveFailsStep, ArchiveFileStep, ArchiveCopyStep, CopyRangeStep, CopyEndsStep,
         CopyFailsStep, FinishStep DEF UploadStep
  <2>2. CASE UNCHANGED uploadVars
    BY <2>2, StutterStep
  <2> QED
    BY <2>1, <2>2
<1> QED
  BY <1>1, InitStep, PTL DEF UploadSpec

(* A file in the archive is the whole file unless a thread is at work on it *)
(* or it is a copy of mv that was disturbed, and a confirmed upload has a   *)
(* file in the archive (filemanager.cpp:95-135, 209-235).                   *)
THEOREM ArchivedFileIsWhole == UploadSpec => []ArchivedIsWhole
<1>1. UploadInv => ArchivedIsWhole
  <2> SUFFICES ASSUME UploadInv PROVE ArchivedIsWhole
    OBVIOUS
  <2>1. uploaded > 0 => archive # NoFile
    BY DEF UploadInv, ConfirmedIsThere
  <2>2. \A i \in Kept \cup Copied : Writing(i)
    BY DEF Kept, Keeps, Copied, Writing
  <2> QED
    BY <2>1, <2>2 DEF UploadInv, ArchiveIsWhole, ArchivedIsWhole
<1> QED
  BY <1>1, UploadInvariant, PTL
=============================================================================
