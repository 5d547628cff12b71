--------------------------- MODULE LuaContextPool ---------------------------
(***************************************************************************)
(* The pool of Lua environments of the middle layer (LuaProcessCenter.cpp) *)
(* and the reloading of scripts (SetReloadScriptFlag of luaMiddleLayer.cpp)*)
(*                                                                         *)
(* Every process thread owns a CLuaProcessCenter with its own contexts and *)
(* queue of free context ids.  A request takes an id from the queue, loads *)
(* the scripts again if the context is flagged, runs the script function   *)
(* and puts the id back.  A script may flag the contexts of ALL threads.   *)
(* A script is abstracted to the version of the files it was loaded from.  *)
(***************************************************************************)
EXTENDS Naturals, Sequences, SequencesExt

CONSTANTS
    Threads,      \* process threads
    Quantity,     \* LuaContextQuantity, the contexts of one pool
    MaxVersion,   \* bound: edits of the script files
    MayFail       \* may loading the scripts fail?

ASSUME QuantityAssumption == Quantity \in Nat \ {0}
ASSUME MaxVersionAssumption == MaxVersion \in Nat
ASSUME MayFailAssumption == MayFail \in BOOLEAN

VARIABLES
    version,   \* of the script files
    free,      \* per thread: m_oFreeLuaContext
    reload,    \* per thread and context: LuaContent::Reload
    loaded,    \* per thread and context: the version LuaContent::Content runs
    proc,      \* per thread: where MsgProcess is, its id, what InitLua has read
    lost,      \* history, per thread: ids dropped by a failed reload
    due        \* history, per thread and context: the version it must run

vars == <<version, free, reload, loaded, proc, lost, due>>

None == 0
Contexts == 1..Quantity
Versions == 0..MaxVersion
Pcs == {"idle", "taken", "init", "loaded", "run"}
Procs == [pc : Pcs, id : Contexts \cup {None}, read : Versions]

TypeOK ==
    /\ version \in Versions
    /\ free \in [Threads -> Seq(Contexts)]
    /\ reload \in [Threads -> [Contexts -> BOOLEAN]]
    /\ loaded \in [Threads -> [Contexts -> Versions]]
    /\ proc \in [Threads -> Procs]
    /\ lost \in [Threads -> SUBSET Contexts]
    /\ due \in [Threads -> [Contexts -> Versions]]

\* Initialize: every context is loaded and put into the queue.
Init ==
    /\ version = 0
    /\ free = [t \in Threads |-> [c \in Contexts |-> c]]
    /\ reload = [t \in Threads |-> [c \in Contexts |-> FALSE]]
    /\ loaded = [t \in Threads |-> [c \in Contexts |-> 0]]
    /\ proc = [t \in Threads |-> [pc |-> "idle", id |-> None, read |-> 0]]
    /\ lost = [t \in Threads |-> {}]
    /\ due = [t \in Threads |-> [c \in Contexts |-> 0]]

-----------------------------------------------------------------------------
\* The script files are changed.
EditScripts ==
    /\ version < MaxVersion /\ version' = version + 1
    /\ UNCHANGED <<free, reload, loaded, proc, lost, due>>

\* Mutant: the id is read from the queue and not removed.
Take_FrontOnly(t) ==
    /\ proc[t].pc = "idle" /\ free[t] # <<>>
    /\ proc' = [proc EXCEPT ![t] = [@ EXCEPT !.pc = "taken", !.id = Head(free[t])]]
    /\ UNCHANGED <<version, free, reload, loaded, lost, due>>

\* GetFreeLuaContext.  An empty queue is waited for in vain, for only this
\* thread puts ids into it, and the request is answered "server is busy now".
Take(t) ==
    /\ proc[t].pc = "idle" /\ free[t] # <<>>
    /\ proc' = [proc EXCEPT ![t] = [@ EXCEPT !.pc = "taken", !.id = Head(free[t])]]
    /\ free' = [free EXCEPT ![t] = Tail(@)]
    /\ UNCHANGED <<version, reload, loaded, lost, due>>

\* Mutant: the flag is cleared before the scripts are loaded.
CheckReload_ClearsFirst(t) ==
    /\ proc[t].pc = "taken"
    /\ proc' = [proc EXCEPT ![t].pc = IF reload[t][proc[t].id] THEN "init" ELSE "run"]
    /\ reload' = [reload EXCEPT ![t][proc[t].id] = FALSE]
    /\ UNCHANGED <<version, free, loaded, lost, due>>

\* The flag is looked at.
CheckReload(t) ==
    /\ proc[t].pc = "taken"
    /\ proc' = [proc EXCEPT ![t].pc = IF reload[t][proc[t].id] THEN "init" ELSE "run"]
    /\ UNCHANGED <<version, free, reload, loaded, lost, due>>

\* Mutant: what was read from the files before is used again.
InitLua_Cached(t) ==
    /\ proc[t].pc = "init"
    /\ proc' = [proc EXCEPT ![t].pc = "loaded"]
    /\ UNCHANGED <<version, free, reload, loaded, lost, due>>

\* InitLua reads the files ...
InitLua(t) ==
    /\ proc[t].pc = "init"
    /\ proc' = [proc EXCEPT ![t] = [@ EXCEPT !.pc = "loaded", !.read = version]]
    /\ UNCHANGED <<version, free, reload, loaded, lost, due>>

\* ... or fails, and the request is answered with an error at once.
InitLuaFails(t) ==
    /\ MayFail
    /\ proc[t].pc = "init"
    /\ proc' = [proc EXCEPT ![t] = [@ EXCEPT !.pc = "idle", !.id = None]]
    /\ lost' = [lost EXCEPT ![t] = @ \cup {proc[t].id}]
    /\ UNCHANGED <<version, free, reload, loaded, due>>

\* The new environment replaces the old one and the flag is cleared.
Replace(t) ==
    /\ proc[t].pc = "loaded"
    /\ loaded' = [loaded EXCEPT ![t][proc[t].id] = proc[t].read]
    /\ reload' = [reload EXCEPT ![t][proc[t].id] = FALSE]
    /\ proc' = [proc EXCEPT ![t].pc = "run"]
    /\ UNCHANGED <<version, free, lost, due>>

\* Is context c of thread u between the reading of the files and the clearing
\* of the flag?  A flag set then is cleared unseen.
Replacing(u, c) == proc[u].pc = "loaded" /\ proc[u].id = c

\* The script function that thread t runs calls ReloadScript, which flags the
\* contexts of every thread one after the other: here context c of thread u.
ReloadScript(t, u, c) ==
    /\ proc[t].pc = "run"
    /\ reload' = [reload EXCEPT ![u][c] = TRUE]
    /\ due' = [due EXCEPT ![u][c] = IF Replacing(u, c) THEN @ ELSE version]
    /\ UNCHANGED <<version, free, loaded, proc, lost>>

\* The script function has returned, or loading or running has thrown: the id
\* goes back to the queue.
GiveBack(t) ==
    /\ proc[t].pc = "run" \/ (MayFail /\ proc[t].pc = "init")
    /\ free' = [free EXCEPT ![t] = Append(@, proc[t].id)]
    /\ proc' = [proc EXCEPT ![t] = [@ EXCEPT !.pc = "idle", !.id = None]]
    /\ UNCHANGED <<version, reload, loaded, lost, due>>

Step(t) ==
    \/ Take(t) \/ CheckReload(t) \/ InitLua(t) \/ InitLuaFails(t)
    \/ Replace(t) \/ GiveBack(t)
    \/ \E u \in Threads, c \in Contexts : ReloadScript(t, u, c)

Next == EditScripts \/ \E t \in Threads : Step(t)

Spec == Init /\ [][Next]_vars

-----------------------------------------------------------------------------
(* Properties. *)

InUse(t) == IF proc[t].pc = "idle" THEN {} ELSE {proc[t].id}
FreeIds(t) == {free[t][i] : i \in 1..Len(free[t])}

\* Every context of a pool is waiting in the queue exactly once, or is used by
\* the thread, or was dropped by a failed reload: no id is handed out twice
\* (GetFreeLuaContext and FreeLuaContext).
PoolOK(t) ==
    /\ \A i, j \in 1..Len(free[t]) : free[t][i] = free[t][j] => i = j
    /\ FreeIds(t) \cup InUse(t) \cup lost[t] = Contexts
    /\ FreeIds(t) \cap InUse(t) = {}
    /\ (FreeIds(t) \cup InUse(t)) \cap lost[t] = {}

ContextsAccounted == \A t \in Threads : PoolOK(t)

\* A context that runs older scripts than a call of ReloadScript asked of it
\* carries its flag, so that its next use loads them.  (The calls whose flag
\* arrives while the context is being replaced are not in "due": Replace
\* clears their flag unseen.)
StaleIsFlagged ==
    \A t \in Threads, c \in Contexts : loaded[t][c] >= due[t][c] \/ reload[t][c]

-----------------------------------------------------------------------------
\* The inductive strengthening of both invariants: while the scripts are being
\* loaded the flag is set, and what has been read is not older than what is due.
LoadingOK(t) ==
    /\ proc[t].pc # "idle" => proc[t].id \in Contexts
    /\ proc[t].pc \in {"init", "loaded"} => reload[t][proc[t].id]
    /\ proc[t].pc = "loaded" => proc[t].read >= due[t][proc[t].id]

IInv ==
    /\ TypeOK
    /\ ContextsAccounted
    /\ StaleIsFlagged
    /\ \A t \in Threads : LoadingOK(t)
    /\ \A t \in Threads, c \in Contexts : due[t][c] <= version
=============================================================================
