----------------------------- MODULE DataCenter -----------------------------
(* Database sessions (DBHub) as the Lua functions of a process node use     *)
(* them (CGlobalFunction): the data center gives every database an id,      *)
(* which names one connection per process thread; the node remembers the    *)
(* ids it was given for ever, and its scripts keep them in variables of     *)
(* their own and query with them.                                           *)
(*                                                                          *)
(* A call is a SyncCall: it may be reported as timed out while the data     *)
(* center still works on it, or end with an empty answer (module SyncCall). *)
EXTENDS Integers, FiniteSets

CONSTANTS
    Scripts,        \* process threads of the node, each runs a script
    Threads,        \* process threads of the data center
    Databases,
    MaxId,          \* bound: ids given out
    MaxRestarts,    \* bound: restarts of the data center
    NoDatabase, NoScript

ASSUME DataCenterAssumption ==
    /\ MaxId \in Nat \ {0} /\ MaxRestarts \in Nat
    /\ NoDatabase \notin Databases /\ NoScript \notin Scripts

VARIABLES
    given,      \* the ids that scripts got for a database; m_mapDBNameToSessionID
                \* has the last one, and any of them may be kept by a script
    script,     \* what a script waits for, the database and id it uses
    server,     \* what a thread of the data center does, and for which script
    names,      \* m_pMapDBNameToSessioinID, None: no entry
    sessions,   \* m_pMapSessionIDToConnections: thread -> database of the connection
    restarts,
    twice,      \* history: ids computed again before they were inserted
    stale,      \* history: ids that the node had when the data center restarted
    wrong       \* history: ids with which a query reached another database; this
                \* and `twice` begin anew with the data center

vars == <<given, script, server, names, sessions, restarts, twice, stale, wrong>>

None == -1
Ids == 1 .. MaxId
Idle == [pc |-> "idle", db |-> NoDatabase, id |-> None]
Free == [pc |-> "free", by |-> NoScript, db |-> NoDatabase, id |-> None]

TypeOK ==
    /\ given \in [Databases -> SUBSET ({0} \cup Ids)]
    /\ script \in [Scripts -> [pc : {"idle", "connect", "store", "query"},
                               db : Databases \cup {NoDatabase}, id : {None, 0} \cup Ids]]
    /\ server \in [Threads -> [pc : {"free", "login", "number", "insert", "publish", "answer"},
                               by : Scripts \cup {NoScript}, db : Databases \cup {NoDatabase},
                               id : {None} \cup Ids]]
    /\ names \in [Databases -> {None} \cup Ids]
    /\ sessions \in [Ids -> [Threads -> Databases \cup {NoDatabase}]]
    /\ restarts \in 0 .. MaxRestarts
    /\ twice \subseteq Ids /\ stale \subseteq {0} \cup Ids /\ wrong \subseteq Ids

Nobody == [t \in Threads |-> NoDatabase]

Init ==
    /\ given = [d \in Databases |-> {}]
    /\ script = [s \in Scripts |-> Idle]
    /\ server = [t \in Threads |-> Free]
    /\ names = [d \in Databases |-> None]
    /\ sessions = [i \in Ids |-> Nobody]
    /\ restarts = 0
    /\ twice = {} /\ stale = {} /\ wrong = {}

\* The databases of the connections of a session.
DatabasesOf(i) == {sessions[i][t] : t \in Threads} \ {NoDatabase}
Known == {i \in Ids : sessions[i] # Nobody}

---------------------------------------------------------------------------
(* A script: it asks for the id of a database unless the node has it,       *)
(* stores the answer, and queries with an id that it got.                   *)

Connect(s) ==
    /\ script[s].pc = "idle"
    /\ \E d \in Databases :
         /\ given[d] = {}
         /\ script' = [script EXCEPT ![s] = [pc |-> "connect", db |-> d, id |-> None]]
    /\ UNCHANGED <<given, server, names, sessions, restarts, twice, stale, wrong>>

(* The node remembers the id it was answered and hands it to the script.    *)
Store(s) ==
    /\ script[s].pc = "store"
    /\ given' = [given EXCEPT ![script[s].db] = @ \cup {script[s].id}]
    /\ script' = [script EXCEPT ![s] = Idle]
    /\ UNCHANGED <<server, names, sessions, restarts, twice, stale, wrong>>

Query(s) ==
    /\ script[s].pc = "idle"
    /\ \E d \in Databases : \E id \in given[d] :
         script' = [script EXCEPT ![s] = [pc |-> "query", db |-> d, id |-> id]]
    /\ UNCHANGED <<given, server, names, sessions, restarts, twice, stale, wrong>>

(* The call ends without its answer, and a thread that works on it goes on  *)
(* for nobody. An empty result, which a wait that ended for no reason       *)
(* leaves, is taken for the id 0; anything else is not understood.          *)
CallFails(s) ==
    /\ script[s].pc \in {"connect", "query"}
    /\ script' = [script EXCEPT ![s] = Idle]
    /\ server' = [t \in Threads |->
                    IF server[t].by = s THEN [server[t] EXCEPT !.by = NoScript] ELSE server[t]]
    /\ \/ /\ script[s].pc = "connect"
          /\ given' = [given EXCEPT ![script[s].db] = @ \cup {0}]
       \/ UNCHANGED given
    /\ UNCHANGED <<names, sessions, restarts, twice, stale, wrong>>

---------------------------------------------------------------------------
(* ConnectDatabaseHandler: a thread of the data center looks for the        *)
(* database, connects to it, computes the id from the number of sessions,   *)
(* and fills the two maps, with nothing locked from one step to the next.   *)

InWork(s) == \E t \in Threads : server[t].by = s
Step(t, next) == server' = [server EXCEPT ![t].pc = next]

TakeConnect(t) ==
    /\ server[t].pc = "free"
    /\ \E s \in Scripts :
         /\ script[s].pc = "connect" /\ ~InWork(s)
         /\ server' = [server EXCEPT ![t] =
              [pc |-> IF names[script[s].db] = None THEN "login" ELSE "answer",
               by |-> s, db |-> script[s].db, id |-> None]]
    /\ UNCHANGED <<given, script, names, sessions, restarts, twice, stale, wrong>>

\* The login fails, or it succeeds.
Login(t) ==
    /\ server[t].pc = "login"
    /\ \/ /\ server' = [server EXCEPT ![t] = Free]
          /\ script' = [s \in Scripts |-> IF server[t].by = s THEN Idle ELSE script[s]]
       \/ Step(t, "number") /\ UNCHANGED script
    /\ UNCHANGED <<given, names, sessions, restarts, twice, stale, wrong>>

Numbering(i) == \E u \in Threads : server[u].pc = "insert" /\ server[u].id = i

TakeId(t) ==
    /\ server[t].pc = "number"
    /\ LET id == Cardinality(Known) + 1 IN
         /\ id \in Ids
         /\ server' = [server EXCEPT ![t].id = id, ![t].pc = "insert"]
         /\ twice' = IF Numbering(id) THEN twice \cup {id} ELSE twice
    /\ UNCHANGED <<given, script, names, sessions, restarts, stale, wrong>>

(* Mutant: the session is stored under the number of the sessions. *)
Insert_AtSize(t) ==
    /\ server[t].pc = "insert"
    /\ LET id == IF Known = {} THEN 1 ELSE Cardinality(Known) IN
         sessions' = [sessions EXCEPT ![id][t] = server[t].db]
    /\ Step(t, "publish")
    /\ UNCHANGED <<given, script, names, restarts, twice, stale, wrong>>

\* merge keeps the connections that other threads have under the id.
Insert(t) ==
    /\ server[t].pc = "insert"
    /\ sessions' = [sessions EXCEPT ![server[t].id][t] =
                      IF @ = NoDatabase THEN server[t].db ELSE @]
    /\ Step(t, "publish")
    /\ UNCHANGED <<given, script, names, restarts, twice, stale, wrong>>

Publish(t) ==
    /\ server[t].pc = "publish"
    /\ names' = [names EXCEPT ![server[t].db] = server[t].id]
    /\ Step(t, "answer")
    /\ UNCHANGED <<given, script, sessions, restarts, twice, stale, wrong>>

\* A script that waits for the answer has it.
Tell(s, d, id) ==
    script' = IF s = NoScript THEN script
              ELSE [script EXCEPT ![s] = [pc |-> "store", db |-> d, id |-> id]]

(* Mutant: the answer is the last id that was given out. *)
Answer_LastId(t) ==
    /\ server[t].pc = "answer"
    /\ Tell(server[t].by, server[t].db, Cardinality(Known))
    /\ server' = [server EXCEPT ![t] = Free]
    /\ UNCHANGED <<given, names, sessions, restarts, twice, stale, wrong>>

Answer(t) ==
    /\ server[t].pc = "answer"
    /\ Tell(server[t].by, server[t].db, names[server[t].db])
    /\ server' = [server EXCEPT ![t] = Free]
    /\ UNCHANGED <<given, names, sessions, restarts, twice, stale, wrong>>

(* A query handler: an unknown id is refused; a thread without a connection *)
(* duplicates the one of the first thread that has one.                     *)
RunQuery(t) ==
    /\ server[t].pc = "free"
    /\ \E s \in Scripts :
         /\ script[s].pc = "query"
         /\ script' = [script EXCEPT ![s] = Idle]
         /\ LET id == script[s].id
                known == id \in Known
                use(d) == wrong' = IF d = script[s].db THEN wrong ELSE wrong \cup {id} IN
              \/ ~known /\ UNCHANGED <<sessions, wrong>>
              \/ /\ known /\ sessions[id][t] # NoDatabase
                 /\ use(sessions[id][t])
                 /\ UNCHANGED sessions
              \/ /\ known /\ sessions[id][t] = NoDatabase
                 /\ \E d \in DatabasesOf(id) :
                      sessions' = [sessions EXCEPT ![id][t] = d] /\ use(d)
    /\ UNCHANGED <<given, server, names, restarts, twice, stale>>

(* The data center starts again: its maps are empty, the calls under way    *)
(* time out, and what the node has, or was answered and will store, stays.  *)
Restart ==
    /\ restarts < MaxRestarts
    /\ restarts' = restarts + 1
    /\ names' = [d \in Databases |-> None]
    /\ sessions' = [i \in Ids |-> Nobody]
    /\ server' = [t \in Threads |-> Free]
    /\ script' = [s \in Scripts |-> IF script[s].pc = "store" THEN script[s] ELSE Idle]
    /\ stale' = stale \cup (UNION {given[d] : d \in Databases})
                     \cup {script[s].id : s \in {u \in Scripts : script[u].pc = "store"}}
    /\ twice' = {} /\ wrong' = {}
    /\ UNCHANGED given

Next ==
    \/ \E s \in Scripts : Connect(s) \/ Store(s) \/ Query(s) \/ CallFails(s)
    \/ \E t \in Threads :
         \/ TakeConnect(t) \/ Login(t) \/ TakeId(t) \/ Insert(t) \/ Publish(t)
         \/ Answer(t) \/ RunQuery(t)
    \/ Restart

Spec == Init /\ [][Next]_vars

---------------------------------------------------------------------------
(* All connections of a session lead to one database, and that is the one   *)
(* the name of the session stands for, unless two threads computed the id   *)
(* at the same time.                                                        *)
SessionMeansDatabase ==
    /\ \A i \in Ids \ twice : Cardinality(DatabasesOf(i)) <= 1
    /\ \A d \in Databases : names[d] \in Known \ twice => DatabasesOf(names[d]) = {d}

(* A query reaches the database its script asked for, or none, unless its   *)
(* id was computed twice or the node has it from before a restart.          *)
QueriesHitTheirDatabase == wrong \subseteq twice \cup stale

---------------------------------------------------------------------------
(* What makes the properties inductive. *)

(* The known ids are the first ones, and the next one is all that is being  *)
(* given out.                                                               *)
IdsInOrder ==
    \E k \in 0 .. MaxId :
        /\ Known = 1 .. k
        /\ \A t \in Threads : server[t].pc = "insert" => server[t].id <= k + 1

Linked == [i \in Ids |-> DatabasesOf(i)]

\* The id is that of a session, and it leads to the database.
Means(i, d) == i \in Known /\ (i \notin twice => Linked[i] = {d})

(* An id that nobody else computes is new until it is inserted, and means   *)
(* the database from then on.                                               *)
ServersInStep ==
    \A t \in Threads :
        /\ server[t].pc # "free" => server[t].db \in Databases
        /\ server[t].pc \in {"insert", "publish"} => server[t].id \in Ids
        /\ server[t].pc = "insert" /\ server[t].id \notin twice =>
             /\ server[t].id \notin Known
             /\ \A u \in Threads \ {t} :
                    ~(server[u].pc = "insert" /\ server[u].id = server[t].id)
        /\ server[t].pc = "publish" => Means(server[t].id, server[t].db)
        /\ server[t].pc = "answer" => names[server[t].db] # None

SessionsAreWhole == \A i \in Ids \ twice : \A d, e \in Linked[i] : d = e
NamesMeanDatabases == \A d \in Databases : names[d] # None => Means(names[d], d)

ScriptsNameDatabases ==
    \A s \in Scripts :
        /\ script[s].pc # "idle" => script[s].db \in Databases
        /\ script[s].pc \in {"store", "query"} => script[s].id # None

(* So does what the node has, but for what it had before a restart.         *)
RememberedMeans ==
    /\ \A d \in Databases : \A id \in given[d] : id \in Ids \ stale => Means(id, d)
    /\ \A s \in Scripts :
         script[s].pc \in {"store", "query"} /\ script[s].id \in Ids \ stale =>
             Means(script[s].id, script[s].db)

IInv ==
    /\ TypeOK /\ IdsInOrder /\ ServersInStep /\ SessionsAreWhole
    /\ ScriptsNameDatabases /\ NamesMeanDatabases /\ RememberedMeans
    /\ QueriesHitTheirDatabase
=============================================================================
