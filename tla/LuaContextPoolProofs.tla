------------------------ MODULE LuaContextPoolProofs ------------------------
(***************************************************************************)
(* Proofs for LuaContextPool: for any number of process threads, contexts  *)
(* and edits of the scripts, no context is handed out twice and a context  *)
(* with stale scripts is flagged.  IInv is inductive; every lemma about an *)
(* action shows how it preserves the parts of IInv.                        *)
(***************************************************************************)
EXTENDS LuaContextPool, TLAPS

\* The constants, as the provers need them.
LEMMA Constants ==
    /\ Quantity \in Nat /\ Quantity >= 1
    /\ MaxVersion \in Nat
    /\ Contexts \subseteq Nat /\ None \notin Contexts
    /\ Versions \subseteq Nat /\ 0 \in Versions
BY QuantityAssumption, MaxVersionAssumption DEF Contexts, None, Versions

\* At the start every context is in the queue and no script is stale.
LEMMA InitIInv == Init => IInv
<1> SUFFICES ASSUME Init PROVE IInv
    OBVIOUS
<1>1. TypeOK
  <2>1. free \in [Threads -> Seq(Contexts)]
    <3>1. [c \in Contexts |-> c] \in Seq(Contexts)
        BY Constants DEF Contexts
    <3> QED BY <3>1 DEF Init
  <2>2. [pc |-> "idle", id |-> None, read |-> 0] \in Procs
      BY Constants DEF Procs, Pcs
  <2>3. proc \in [Threads -> Procs]
      BY <2>2 DEF Init
  <2> QED BY <2>1, <2>3, Constants DEF Init, TypeOK
<1>2. ASSUME NEW t \in Threads PROVE PoolOK(t)
  <2>1. free[t] = [c \in 1..Quantity |-> c] /\ Len(free[t]) = Quantity
      BY Constants DEF Init, Contexts
  <2>2. FreeIds(t) = Contexts
      BY <2>1, Constants DEF FreeIds, Contexts
  <2>3. InUse(t) = {} /\ lost[t] = {}
      BY DEF Init, InUse
  <2> QED BY <2>1, <2>2, <2>3 DEF PoolOK
<1>3. ASSUME NEW t \in Threads PROVE LoadingOK(t)
    BY DEF Init, LoadingOK
<1>4. StaleIsFlagged /\ \A t \in Threads, c \in Contexts : due[t][c] <= version
    BY DEF Init, StaleIsFlagged
<1> QED BY <1>1, <1>2, <1>3, <1>4 DEF IInv, ContextsAccounted

\* What the pool of a thread consists of is untouched by the steps of others.
LEMMA PoolFrame ==
    ASSUME NEW t \in Threads, PoolOK(t),
           free'[t] = free[t], lost'[t] = lost[t],
           InUse(t)' = InUse(t)
    PROVE  PoolOK(t)'
BY DEF PoolOK, FreeIds

\* Taking the head of the queue moves one id from the queue into use.
LEMMA TakeStep ==
    ASSUME IInv, NEW t \in Threads, Take(t)
    PROVE  IInv'
<1> DEFINE q == free[t]
<1>1. q \in Seq(Contexts) /\ q # <<>> /\ Len(q) \in Nat /\ Len(q) >= 1
    BY DEF IInv, TypeOK, Take
<1>2. /\ Head(q) = q[1] /\ Head(q) \in Contexts
      /\ Tail(q) \in Seq(Contexts) /\ Len(Tail(q)) = Len(q) - 1
      /\ \A i \in 1..Len(Tail(q)) : Tail(q)[i] = q[i + 1]
    BY <1>1
<1>3. TypeOK'
  <2>0. proc[t] \in Procs
      BY DEF IInv, TypeOK
  <2>1. [[proc[t] EXCEPT !.pc = "taken"] EXCEPT !.id = Head(q)] \in Procs
      BY <1>2, <2>0 DEF Procs, Pcs
  <2>2. proc' \in [Threads -> Procs]
      BY <2>1 DEF IInv, TypeOK, Take
  <2>3. free' \in [Threads -> Seq(Contexts)]
      BY <1>2 DEF IInv, TypeOK, Take
  <2> QED BY <2>2, <2>3 DEF IInv, TypeOK, Take
<1>4. proc'[t].pc = "taken" /\ proc'[t].id = Head(q) /\ proc[t].pc = "idle"
    BY DEF IInv, TypeOK, Take, Procs
<1>5. ASSUME NEW u \in Threads PROVE PoolOK(u)'
  <2>1. CASE u # t
      BY <2>1, PoolFrame DEF IInv, TypeOK, ContextsAccounted, Take, InUse
  <2>2. CASE u = t
    <3>1. PoolOK(t) /\ InUse(t) = {}
        BY <1>4 DEF IInv, ContextsAccounted, InUse
    <3>2. free'[t] = Tail(q) /\ lost'[t] = lost[t] /\ InUse(t)' = {Head(q)}
        BY <1>4 DEF IInv, TypeOK, Take, InUse
    <3>3. FreeIds(t) = FreeIds(t)' \cup {Head(q)}
      <4>1. FreeIds(t)' = {q[i + 1] : i \in 1..(Len(q) - 1)}
          BY <1>2, <3>2 DEF FreeIds
      <4>2. ASSUME NEW i \in 1..Len(q) PROVE q[i] \in FreeIds(t)' \cup {Head(q)}
        <5>1. CASE i = 1 BY <5>1, <1>2
        <5>2. CASE i # 1
          <6>1. i - 1 \in 1..(Len(q) - 1) /\ q[(i - 1) + 1] = q[i]
              BY <5>2, <1>1
          <6> QED BY <6>1, <4>1
        <5> QED BY <5>1, <5>2
      <4>3. ASSUME NEW i \in 1..(Len(q) - 1) PROVE q[i + 1] \in FreeIds(t)
          BY <1>1 DEF FreeIds
      <4>4. Head(q) \in FreeIds(t)
          BY <1>1, <1>2 DEF FreeIds
      <4> QED BY <4>1, <4>2, <4>3, <4>4 DEF FreeIds
    <3>4. Head(q) \notin FreeIds(t)'
      <4>1. ASSUME NEW i \in 1..Len(Tail(q)) PROVE Tail(q)[i] # Head(q)
          BY <1>1, <1>2, <3>1 DEF PoolOK
      <4> QED BY <4>1, <3>2 DEF FreeIds
    <3>5. \A i, j \in 1..Len(free'[t]) : free'[t][i] = free'[t][j] => i = j
        BY <1>1, <1>2, <3>1, <3>2 DEF PoolOK
    <3> QED BY <2>2, <3>1, <3>2, <3>3, <3>4, <3>5 DEF PoolOK
  <2> QED BY <2>1, <2>2
<1>6. ASSUME NEW u \in Threads PROVE LoadingOK(u)'
    BY <1>2, <1>4 DEF IInv, TypeOK, Take, LoadingOK
<1>7. StaleIsFlagged' /\ \A u \in Threads, c \in Contexts : due'[u][c] <= version'
    BY DEF IInv, Take, StaleIsFlagged
<1> QED BY <1>3, <1>5, <1>6, <1>7 DEF IInv, ContextsAccounted

\* Putting the id back moves it from use to the end of the queue.
LEMMA GiveBackStep ==
    ASSUME IInv, NEW t \in Threads, GiveBack(t)
    PROVE  IInv'
<1> DEFINE q == free[t]
           x == proc[t].id
<1>0. proc[t] \in Procs /\ proc[t].pc # "idle" /\ x \in Contexts
    BY DEF IInv, TypeOK, LoadingOK, GiveBack
<1>1. q \in Seq(Contexts) /\ Len(q) \in Nat
    BY DEF IInv, TypeOK
<1>2. /\ Append(q, x) \in Seq(Contexts) /\ Len(Append(q, x)) = Len(q) + 1
      /\ \A i \in 1..Len(q) : Append(q, x)[i] = q[i]
      /\ Append(q, x)[Len(q) + 1] = x
    BY <1>0, <1>1
<1>3. TypeOK'
  <2>1. [[proc[t] EXCEPT !.pc = "idle"] EXCEPT !.id = None] \in Procs
      BY <1>0 DEF Procs, Pcs
  <2>2. proc' \in [Threads -> Procs]
      BY <2>1 DEF IInv, TypeOK, GiveBack
  <2>3. free' \in [Threads -> Seq(Contexts)]
      BY <1>2 DEF IInv, TypeOK, GiveBack
  <2> QED BY <2>2, <2>3 DEF IInv, TypeOK, GiveBack
<1>4. proc'[t].pc = "idle"
    BY <1>0 DEF IInv, TypeOK, GiveBack, Procs
<1>5. ASSUME NEW u \in Threads PROVE PoolOK(u)'
  <2>1. CASE u # t
      BY <2>1, PoolFrame DEF IInv, TypeOK, ContextsAccounted, GiveBack, InUse
  <2>2. CASE u = t
    <3>1. PoolOK(t) /\ InUse(t) = {x}
        BY <1>0 DEF IInv, ContextsAccounted, InUse
    <3>2. free'[t] = Append(q, x) /\ lost'[t] = lost[t] /\ InUse(t)' = {}
        BY <1>4 DEF IInv, TypeOK, GiveBack, InUse
    <3>3. FreeIds(t)' = FreeIds(t) \cup {x}
      <4>1. ASSUME NEW i \in 1..(Len(q) + 1)
            PROVE  Append(q, x)[i] \in FreeIds(t) \cup {x}
        <5>1. CASE i = Len(q) + 1 BY <5>1, <1>2
        <5>2. CASE i \in 1..Len(q) BY <5>2, <1>2 DEF FreeIds
        <5> QED BY <5>1, <5>2, <1>1
      <4>2. ASSUME NEW i \in 1..Len(q) PROVE q[i] \in FreeIds(t)'
        <5>1. i \in 1..Len(free'[t]) /\ free'[t][i] = q[i]
            BY <1>1, <1>2, <3>2
        <5> QED BY <5>1 DEF FreeIds
      <4>3. x \in FreeIds(t)'
        <5>1. Len(q) + 1 \in 1..Len(free'[t]) /\ free'[t][Len(q) + 1] = x
            BY <1>1, <1>2, <3>2
        <5> QED BY <5>1 DEF FreeIds
      <4>4. FreeIds(t)' \subseteq FreeIds(t) \cup {x}
          BY <4>1, <3>2, <1>2 DEF FreeIds
      <4>5. FreeIds(t) \subseteq FreeIds(t)'
          BY <4>2 DEF FreeIds
      <4> QED BY <4>3, <4>4, <4>5
    <3>4. x \notin FreeIds(t)
        BY <3>1 DEF PoolOK
    <3>5. \A i, j \in 1..Len(free'[t]) : free'[t][i] = free'[t][j] => i = j
      <4>1. \A i \in 1..Len(q) : q[i] # x
          BY <3>4 DEF FreeIds
      <4>2. \A i, j \in 1..Len(q) : q[i] = q[j] => i = j
          BY <3>1 DEF PoolOK
      <4>3. ASSUME NEW i \in 1..(Len(q) + 1), NEW j \in 1..(Len(q) + 1),
                   Append(q, x)[i] = Append(q, x)[j]
            PROVE  i = j
          BY <1>1, <1>2, <4>1, <4>2, <4>3
      <4> QED BY <4>3, <3>2, <1>2
    <3> QED BY <2>2, <3>1, <3>2, <3>3, <3>4, <3>5 DEF PoolOK
  <2> QED BY <2>1, <2>2
<1>6. ASSUME NEW u \in Threads PROVE LoadingOK(u)'
    BY <1>4 DEF IInv, TypeOK, GiveBack, LoadingOK
<1>7. StaleIsFlagged' /\ \A u \in Threads, c \in Contexts : due'[u][c] <= version'
    BY DEF IInv, GiveBack, StaleIsFlagged
<1> QED BY <1>3, <1>5, <1>6, <1>7 DEF IInv, ContextsAccounted

\* A failed reload moves the id from use to the lost ones.
LEMMA InitLuaFailsStep ==
    ASSUME IInv, NEW t \in Threads, InitLuaFails(t)
    PROVE  IInv'
<1>0. proc[t] \in Procs /\ proc[t].pc # "idle" /\ proc[t].id \in Contexts
    BY DEF IInv, TypeOK, LoadingOK, InitLuaFails
<1>1. TypeOK'
  <2>1. [[proc[t] EXCEPT !.pc = "idle"] EXCEPT !.id = None] \in Procs
      BY <1>0 DEF Procs, Pcs
  <2>2. proc' \in [Threads -> Procs]
      BY <2>1 DEF IInv, TypeOK, InitLuaFails
  <2>3. lost' \in [Threads -> SUBSET Contexts]
      BY <1>0 DEF IInv, TypeOK, InitLuaFails
  <2> QED BY <2>2, <2>3 DEF IInv, TypeOK, InitLuaFails
<1>2. proc'[t].pc = "idle"
    BY <1>0 DEF IInv, TypeOK, InitLuaFails, Procs
<1>3. ASSUME NEW u \in Threads PROVE PoolOK(u)'
  <2>1. CASE u # t
      BY <2>1, PoolFrame DEF IInv, TypeOK, ContextsAccounted, InitLuaFails, InUse
  <2>2. CASE u = t
    <3>1. PoolOK(t) /\ InUse(t) = {proc[t].id}
        BY <1>0 DEF IInv, ContextsAccounted, InUse
    <3>2. /\ free'[t] = free[t] /\ InUse(t)' = {}
          /\ lost'[t] = lost[t] \cup {proc[t].id}
        BY <1>2 DEF IInv, TypeOK, InitLuaFails, InUse
    <3>3. FreeIds(t)' = FreeIds(t)
        BY <3>2 DEF FreeIds
    <3> QED BY <2>2, <3>1, <3>2, <3>3 DEF PoolOK
  <2> QED BY <2>1, <2>2
<1>4. ASSUME NEW u \in Threads PROVE LoadingOK(u)'
    BY <1>2 DEF IInv, TypeOK, InitLuaFails, LoadingOK
<1>5. StaleIsFlagged' /\ \A u \in Threads, c \in Contexts : due'[u][c] <= version'
    BY DEF IInv, InitLuaFails, StaleIsFlagged
<1> QED BY <1>1, <1>3, <1>4, <1>5 DEF IInv, ContextsAccounted

\* The look at the flag: only a flagged context is going to be loaded.
LEMMA CheckReloadStep ==
    ASSUME IInv, NEW t \in Threads, CheckReload(t)
    PROVE  IInv'
<1>0. proc[t] \in Procs /\ proc[t].pc = "taken" /\ proc[t].id \in Contexts
    BY DEF IInv, TypeOK, LoadingOK, CheckReload
<1>1. /\ proc' = [proc EXCEPT ![t] = [@ EXCEPT !.pc = proc'[t].pc]]
      /\ proc'[t].pc = IF reload[t][proc[t].id] THEN "init" ELSE "run"
      /\ proc'[t].id = proc[t].id
    BY <1>0 DEF IInv, TypeOK, CheckReload, Procs
<1>2. TypeOK'
  <2>1. [proc[t] EXCEPT !.pc = proc'[t].pc] \in Procs
      BY <1>0, <1>1 DEF Procs, Pcs
  <2>2. proc' \in [Threads -> Procs]
      BY <1>1, <2>1 DEF IInv, TypeOK
  <2> QED BY <2>2 DEF IInv, TypeOK, CheckReload
<1>3. ASSUME NEW u \in Threads PROVE PoolOK(u)'
  <2>1. InUse(u)' = InUse(u)
    <3>1. CASE u = t
        BY <3>1, <1>0, <1>1 DEF InUse
    <3>2. CASE u # t
        BY <3>2, <1>1 DEF IInv, TypeOK, InUse
    <3> QED BY <3>1, <3>2
  <2> QED BY <2>1, PoolFrame DEF IInv, ContextsAccounted, CheckReload
<1>4. ASSUME NEW u \in Threads PROVE LoadingOK(u)'
  <2>1. CASE u # t BY <2>1 DEF IInv, TypeOK, CheckReload, LoadingOK
  <2>2. CASE u = t
    <3>1. proc'[t].pc = "init" => reload[t][proc[t].id]
        BY <1>1
    <3> QED BY <2>2, <3>1, <1>0, <1>1 DEF LoadingOK, CheckReload
  <2> QED BY <2>1, <2>2
<1>5. StaleIsFlagged' /\ \A u \in Threads, c \in Contexts : due'[u][c] <= version'
    BY DEF IInv, CheckReload, StaleIsFlagged
<1> QED BY <1>2, <1>3, <1>4, <1>5 DEF IInv, ContextsAccounted

\* Reading the files: nothing due is newer than they are.
LEMMA InitLuaStep ==
    ASSUME IInv, NEW t \in Threads, InitLua(t)
    PROVE  IInv'
<1>0. proc[t] \in Procs /\ proc[t].pc = "init" /\ proc[t].id \in Contexts
    BY DEF IInv, TypeOK, LoadingOK, InitLua
<1>1. TypeOK'
  <2>1. [[proc[t] EXCEPT !.pc = "loaded"] EXCEPT !.read = version] \in Procs
      BY <1>0 DEF IInv, TypeOK, Procs, Pcs
  <2>2. proc' \in [Threads -> Procs]
      BY <2>1 DEF IInv, TypeOK, InitLua
  <2> QED BY <2>2 DEF IInv, TypeOK, InitLua
<1>2. proc'[t].pc = "loaded" /\ proc'[t].id = proc[t].id /\ proc'[t].read = version
    BY <1>0 DEF IInv, TypeOK, InitLua, Procs
<1>3. ASSUME NEW u \in Threads PROVE PoolOK(u)'
  <2>1. InUse(u)' = InUse(u)
      BY <1>0, <1>2 DEF IInv, TypeOK, InitLua, InUse
  <2> QED BY <2>1, PoolFrame DEF IInv, ContextsAccounted, InitLua
<1>4. ASSUME NEW u \in Threads PROVE LoadingOK(u)'
  <2>1. CASE u # t BY <2>1 DEF IInv, TypeOK, InitLua, LoadingOK
  <2>2. CASE u = t
    <3>1. reload[t][proc[t].id] /\ version >= due[t][proc[t].id]
      <4>1. reload[t][proc[t].id]
          BY <1>0 DEF IInv, LoadingOK
      <4>2. due[t][proc[t].id] <= version
          BY <1>0 DEF IInv
      <4>3. due[t][proc[t].id] \in Versions /\ version \in Versions
          BY <1>0 DEF IInv, TypeOK
      <4> QED BY <4>1, <4>2, <4>3, Constants
    <3> QED BY <2>2, <3>1, <1>0, <1>2 DEF LoadingOK, InitLua
  <2> QED BY <2>1, <2>2
<1>5. StaleIsFlagged' /\ \A u \in Threads, c \in Contexts : due'[u][c] <= version'
    BY DEF IInv, InitLua, StaleIsFlagged
<1> QED BY <1>1, <1>3, <1>4, <1>5 DEF IInv, ContextsAccounted

\* Clearing the flag is right because what was read is as new as what is due.
LEMMA ReplaceStep ==
    ASSUME IInv, NEW t \in Threads, Replace(t)
    PROVE  IInv'
<1>0. proc[t] \in Procs /\ proc[t].pc = "loaded" /\ proc[t].id \in Contexts
    BY DEF IInv, TypeOK, LoadingOK, Replace
<1>1. TypeOK'
  <2>1. [proc[t] EXCEPT !.pc = "run"] \in Procs /\ proc[t].read \in Versions
      BY <1>0 DEF Procs, Pcs
  <2>2. proc' \in [Threads -> Procs]
      BY <2>1 DEF IInv, TypeOK, Replace
  <2>3. loaded' \in [Threads -> [Contexts -> Versions]]
      BY <2>1 DEF IInv, TypeOK, Replace
  <2>4. reload' \in [Threads -> [Contexts -> BOOLEAN]]
      BY DEF IInv, TypeOK, Replace
  <2> QED BY <2>2, <2>3, <2>4 DEF IInv, TypeOK, Replace
<1>2. proc'[t].pc = "run" /\ proc'[t].id = proc[t].id
    BY <1>0 DEF IInv, TypeOK, Replace, Procs
<1>3. ASSUME NEW u \in Threads PROVE PoolOK(u)'
  <2>1. InUse(u)' = InUse(u)
      BY <1>0, <1>2 DEF IInv, TypeOK, Replace, InUse
  <2> QED BY <2>1, PoolFrame DEF IInv, ContextsAccounted, Replace
<1>4. ASSUME NEW u \in Threads PROVE LoadingOK(u)'
    BY <1>0, <1>2 DEF IInv, TypeOK, Replace, LoadingOK
<1>5. StaleIsFlagged'
  <2> SUFFICES ASSUME NEW u \in Threads, NEW c \in Contexts
               PROVE  loaded'[u][c] >= due'[u][c] \/ reload'[u][c]
      BY DEF StaleIsFlagged
  <2>1. due' = due
      BY DEF Replace
  <2>2. CASE u = t /\ c = proc[t].id
    <3>1. loaded'[t][c] = proc[t].read
        BY <2>2, <1>0 DEF IInv, TypeOK, Replace
    <3>2. proc[t].read >= due[t][c]
        BY <2>2, <1>0 DEF IInv, LoadingOK
    <3> QED BY <2>1, <2>2, <3>1, <3>2
  <2>3. CASE u # t \/ c # proc[t].id
    <3>1. loaded'[u][c] = loaded[u][c] /\ reload'[u][c] = reload[u][c]
        BY <2>3, <1>0 DEF IInv, TypeOK, Replace
    <3> QED BY <2>1, <3>1 DEF IInv, StaleIsFlagged
  <2> QED BY <2>2, <2>3
<1>6. \A u \in Threads, c \in Contexts : due'[u][c] <= version'
    BY DEF IInv, Replace
<1> QED BY <1>1, <1>3, <1>4, <1>5, <1>6 DEF IInv, ContextsAccounted

\* A flag that is set covers what becomes due with it.
LEMMA ReloadScriptStep ==
    ASSUME IInv, NEW t \in Threads, NEW v \in Threads, NEW d \in Contexts,
           ReloadScript(t, v, d)
    PROVE  IInv'
<1>1. TypeOK'
  <2>1. reload' \in [Threads -> [Contexts -> BOOLEAN]]
      BY DEF IInv, TypeOK, ReloadScript
  <2>2. due' \in [Threads -> [Contexts -> Versions]]
      BY DEF IInv, TypeOK, ReloadScript
  <2> QED BY <2>1, <2>2 DEF IInv, TypeOK, ReloadScript
<1>2. ASSUME NEW u \in Threads PROVE PoolOK(u)'
    BY PoolFrame DEF IInv, ContextsAccounted, ReloadScript, InUse
<1>3. \A u \in Threads, c \in Contexts :
        /\ reload[u][c] => reload'[u][c]
        /\ due'[u][c] = due[u][c] \/ (due'[u][c] = version /\ reload'[u][c]
                                      /\ ~Replacing(u, c))
    BY DEF IInv, TypeOK, ReloadScript
<1>4. ASSUME NEW u \in Threads PROVE LoadingOK(u)'
  <2>1. proc' = proc
      BY DEF ReloadScript
  <2>2. proc[u].pc = "loaded" => due'[u][proc[u].id] = due[u][proc[u].id]
      BY <1>3 DEF IInv, LoadingOK, Replacing
  <2> QED BY <1>3, <2>1, <2>2 DEF IInv, LoadingOK
<1>5. StaleIsFlagged'
    BY <1>3 DEF IInv, ReloadScript, StaleIsFlagged
<1>6. \A u \in Threads, c \in Contexts : due'[u][c] <= version'
  <2>1. version' = version /\ version \in Nat /\ version <= version
      BY Constants DEF IInv, TypeOK, ReloadScript
  <2> QED BY <1>3, <2>1 DEF IInv
<1> QED BY <1>1, <1>2, <1>4, <1>5, <1>6 DEF IInv, ContextsAccounted

\* New files make nothing due that was not.
LEMMA EditScriptsStep == IInv /\ EditScripts => IInv'
<1> SUFFICES ASSUME IInv, EditScripts PROVE IInv'
    OBVIOUS
<1>1. TypeOK'
  <2>1. version' \in Versions
      BY Constants DEF IInv, TypeOK, EditScripts, Versions
  <2> QED BY <2>1 DEF IInv, TypeOK, EditScripts
<1>2. ASSUME NEW u \in Threads PROVE PoolOK(u)' /\ LoadingOK(u)'
  <2>1. PoolOK(u)'
      BY PoolFrame DEF IInv, ContextsAccounted, EditScripts, InUse
  <2>2. LoadingOK(u)'
      BY DEF IInv, EditScripts, LoadingOK
  <2> QED BY <2>1, <2>2
<1>3. StaleIsFlagged'
    BY DEF IInv, EditScripts, StaleIsFlagged
<1>4. ASSUME NEW u \in Threads, NEW c \in Contexts PROVE due'[u][c] <= version'
  <2>1. due[u][c] \in Versions /\ version \in Versions
      BY DEF IInv, TypeOK
  <2>2. due[u][c] <= version
      BY DEF IInv
  <2>3. due' = due /\ version' = version + 1
      BY DEF EditScripts
  <2>4. due[u][c] \in Nat /\ version \in Nat
      BY <2>1, Constants
  <2> QED BY <2>2, <2>3, <2>4
<1> QED BY <1>1, <1>2, <1>3, <1>4 DEF IInv, ContextsAccounted

\* Nothing changes in a stuttering step.
LEMMA Stutter == IInv /\ UNCHANGED vars => IInv'
<1> SUFFICES ASSUME IInv, UNCHANGED vars PROVE IInv'
    OBVIOUS
<1>1. TypeOK' BY DEF IInv, TypeOK, vars
<1>2. ASSUME NEW u \in Threads PROVE PoolOK(u)'
    BY PoolFrame DEF IInv, ContextsAccounted, vars, InUse
<1>3. ASSUME NEW u \in Threads PROVE LoadingOK(u)'
    BY DEF IInv, LoadingOK, vars
<1>4. StaleIsFlagged' /\ \A u \in Threads, c \in Contexts : due'[u][c] <= version'
    BY DEF IInv, StaleIsFlagged, vars
<1> QED BY <1>1, <1>2, <1>3, <1>4 DEF IInv, ContextsAccounted

\* The inductive invariant: the queue, the context in use and the lost ones part
\* the contexts of each thread, and what is being loaded keeps its flag.
THEOREM PoolInvariant == Spec => []IInv
<1>1. IInv /\ [Next]_vars => IInv'
  <2> SUFFICES ASSUME IInv, Next PROVE IInv'
      BY Stutter
  <2>1. CASE EditScripts BY <2>1, EditScriptsStep
  <2>2. ASSUME NEW t \in Threads, Step(t) PROVE IInv'
    <3>1. CASE Take(t) BY <3>1, TakeStep
    <3>2. CASE CheckReload(t) BY <3>2, CheckReloadStep
    <3>3. CASE InitLua(t) BY <3>3, InitLuaStep
    <3>4. CASE InitLuaFails(t) BY <3>4, InitLuaFailsStep
    <3>5. CASE Replace(t) BY <3>5, ReplaceStep
    <3>6. CASE GiveBack(t) BY <3>6, GiveBackStep
    <3>7. ASSUME NEW u \in Threads, NEW c \in Contexts, ReloadScript(t, u, c)
          PROVE  IInv'
        BY <3>7, ReloadScriptStep
    <3> QED BY <2>2, <3>1, <3>2, <3>3, <3>4, <3>5, <3>6, <3>7 DEF Step
  <2> QED BY <2>1, <2>2 DEF Next
<1> QED BY InitIInv, <1>1, PTL DEF Spec

\* However many threads, contexts and failed reloads: a context is never in the
\* queue twice, nor in the queue and in use (GetFreeLuaContext, FreeLuaContext).
THEOREM PoolAccounting == Spec => []ContextsAccounted
<1>1. IInv => ContextsAccounted
    BY DEF IInv
<1> QED BY <1>1, PoolInvariant, PTL

\* However the calls of ReloadScript interleave with the reloading itself, a
\* context with scripts older than what is due keeps its flag (MsgProcess).
THEOREM ReloadIsRemembered == Spec => []StaleIsFlagged
<1>1. IInv => StaleIsFlagged
    BY DEF IInv
<1> QED BY <1>1, PoolInvariant, PTL
=============================================================================
