-------------------------- MODULE ServiceLifecycle --------------------------
(***************************************************************************)
(* Start, run, restart and stop of one service process (src/src/main.cpp,  *)
(* base_service.cpp, the message queue of ControlHub.cpp and the process   *)
(* threads of NetworkHub.cpp).                                             *)
(*                                                                         *)
(* The main thread initializes the service and then waits in Run().  It    *)
(* learns of a stop or of a restart only from m_emStatus and m_oExitResult,*)
(* which the handlers of two messages write.  The messages are queued in   *)
(* the control hub by process threads (a control event of the network, a   *)
(* failed environment), by the listening thread and by the SIGINT handler, *)
(* and are handled by the hub's own threads while the main thread may      *)
(* still be initializing.                                                  *)
(***************************************************************************)
EXTENDS Naturals, FiniteSets, Sequences, SequencesExt

CONSTANTS
    Settings,   \* the settings to start under: the work threads of the control
                \* hub (mqthreadquantity), and what may ask for a stop or a
                \* restart before Run() waits
    Workers,    \* process threads of the network hub
    MaxEvents   \* bound: control events received from the network

ASSUME MaxEventsAssumption == MaxEvents \in Nat
ASSUME SettingsAssumption ==
    \A s \in Settings :
        /\ DOMAIN s = {"hubThreads", "early"} /\ IsFiniteSet(s.hubThreads)
        /\ s.early \subseteq {"environment", "listen", "control event", "sigint"}

VARIABLES
    setting,       \* the setting of this start, which no step changes
    main,          \* where the main thread is
    status,        \* CSloongBaseService::m_emStatus
    exitResult,    \* m_oExitResult
    hubStatus,     \* CControlHub::m_emStatus
    netStatus,     \* CNetworkHub::m_emStatus
    msgs,          \* m_oMsgList
    stopHandlers,  \* m_oMsgHandlerList[ProgramStop]
    restartable,   \* is the ProgramRestart handler registered?
    hub,           \* per hub thread: where it is and the handlers left to call
    worker,        \* per process thread
    listener,      \* the listening thread of CEpollEx
    sigint,        \* the SIGINT handler
    events,        \* control events received so far
    closed         \* how often the module was dlclose'd

mainVars == <<main, exitResult>>
sourceVars == <<worker, listener, sigint, events>>
handlerVars == <<stopHandlers, restartable>>
vars == <<setting, main, status, exitResult, hubStatus, netStatus, msgs, stopHandlers,
          restartable, hub, worker, listener, sigint, events, closed>>

HubThreads == setting.hubThreads
RunStatus == {"Created", "Running", "Exit"}
InitStages == {"hub", "handlers", "epoll", "network", "node"}
Handlers == {"base", "net"}
HubPcs == {"idle", "pop", "call", "mark", "finish", "gone"}

TypeOK ==
    /\ setting \in Settings
    /\ main \in InitStages \cup {"run", "begin", "loop", "ended"}
    /\ status \in RunStatus /\ hubStatus \in RunStatus /\ netStatus \in RunStatus
    /\ exitResult \in {"Succeed", "Retry"}
    /\ msgs \in Seq({"Start", "Stop", "Restart"})
    /\ stopHandlers \in Seq(Handlers) /\ Len(stopHandlers) <= 4
    /\ restartable \in BOOLEAN
    /\ hub \in [HubThreads -> [pc : HubPcs, todo : Seq(Handlers)]]
    /\ worker \in [Workers -> {"none", "created", "loop", "gone"}]
    /\ listener \in {"none", "starting", "listening", "gone"}
    /\ sigint \in {"none", "posted", "write", "done"}
    /\ events \in 0..MaxEvents
    /\ closed \in Nat

Init ==
    /\ setting \in Settings
    /\ main = "hub" /\ exitResult = "Succeed"
    /\ status = "Created" /\ hubStatus = "Created" /\ netStatus = "Created"
    /\ msgs = <<>> /\ stopHandlers = <<>> /\ restartable = FALSE
    /\ hub = [h \in HubThreads |-> [pc |-> "idle", todo |-> <<>>]]
    /\ worker = [w \in Workers |-> "none"]
    /\ listener = "none" /\ sigint = "none"
    /\ events = 0 /\ closed = 0

-----------------------------------------------------------------------------
(* The main thread. *)

\* m_iC->Initialize: the hub's threads leave their wait for Created.  In a
\* second round it starts threads again; one that had ended stands for the
\* new one.
InitHub ==
    /\ main = "hub" /\ main' = "handlers"
    /\ hubStatus' = "Running"
    /\ hub' = [h \in HubThreads |->
                 IF hub[h].pc = "gone" THEN [hub[h] EXCEPT !.pc = "idle"] ELSE hub[h]]
    /\ UNCHANGED <<status, exitResult, netStatus, msgs, handlerVars, sourceVars, closed>>

\* The base service registers its handlers, after the module is initialized
\* and before the network hub is.
InitHandlers ==
    /\ main = "handlers" /\ main' = "epoll"
    /\ stopHandlers' = Append(stopHandlers, "base")
    /\ restartable' = TRUE
    /\ UNCHANGED <<status, exitResult, hubStatus, netStatus, msgs, hub, sourceVars, closed>>

\* CEpollEx::Initialize starts the listening thread at once.
InitEpoll ==
    /\ main = "epoll" /\ main' = "network"
    /\ listener' = IF listener = "listening" THEN listener ELSE "starting"
    /\ UNCHANGED <<status, exitResult, hubStatus, netStatus, msgs, handlerVars, hub,
                   worker, sigint, events, closed>>

\* The rest of CNetworkHub::Initialize: its handlers, its process threads,
\* Running.  In a second round, too, a thread that had ended stands for a new
\* one.
InitNetwork ==
    /\ main = "network" /\ main' = "node"
    /\ stopHandlers' = Append(stopHandlers, "net")
    /\ worker' = [w \in Workers |-> IF worker[w] = "loop" THEN "loop" ELSE "created"]
    /\ netStatus' = "Running"
    /\ UNCHANGED <<status, exitResult, hubStatus, msgs, restartable, hub, listener,
                   sigint, events, closed>>

\* The node is registered at the manager and Initialize succeeds.
InitNode ==
    /\ main = "node" /\ main' = "run"
    /\ UNCHANGED <<status, exitResult, hubStatus, netStatus, msgs, handlerVars, hub,
                   sourceVars, closed>>

\* A step of Initialize fails (no manager, no module, bad configuration,
\* cancelled): main returns -5.
InitFails ==
    /\ main \in InitStages /\ main' = "ended"
    /\ UNCHANGED <<status, exitResult, hubStatus, netStatus, msgs, handlerVars, hub,
                   sourceVars, closed>>

\* Mutant: Run() does not look at the status first.
RunCheck_NoTest ==
    /\ main = "run"
    /\ main' = "begin" /\ msgs' = Append(msgs, "Start")
    /\ UNCHANGED <<status, exitResult, hubStatus, netStatus, handlerVars, hub,
                   sourceVars, closed>>

\* Run(): the test of m_emStatus, and ProgramStart posted if it is passed.
RunCheck ==
    /\ main = "run"
    /\ IF status = "Created"
         THEN main' = "begin" /\ msgs' = Append(msgs, "Start")
         ELSE main' = "ended" /\ UNCHANGED msgs
    /\ UNCHANGED <<status, exitResult, hubStatus, netStatus, handlerVars, hub,
                   sourceVars, closed>>

\* m_emStatus = Running, without a second look.
RunBegin ==
    /\ main = "begin" /\ main' = "loop"
    /\ status' = "Running"
    /\ UNCHANGED <<exitResult, hubStatus, netStatus, msgs, handlerVars, hub, sourceVars, closed>>

\* The wait loop ends on Exit only.  The wait has a timeout, so a missed
\* notification delays this step and no more.  On Retry main initializes the
\* same instance again, which resets m_oExitResult and nothing else.
RunReturn ==
    /\ main = "loop" /\ status = "Exit"
    /\ main' = IF exitResult = "Retry" THEN "hub" ELSE "ended"
    /\ exitResult' = "Succeed"
    /\ UNCHANGED <<status, hubStatus, netStatus, msgs, handlerVars, hub, sourceVars, closed>>

MainStep ==
    InitHub \/ InitHandlers \/ InitEpoll \/ InitNetwork \/ InitNode \/ InitFails
    \/ RunCheck \/ RunBegin \/ RunReturn

-----------------------------------------------------------------------------
(* Those who post messages. *)

Post(m) == msgs' = Append(msgs, m)

\* An end is asked for this cause once Run() waits, or earlier if the setting
\* has it so.
MayAsk(cause) == main = "loop" \/ cause \in setting.early

\* A process thread creates its module environment...
EnvCreated(w) ==
    /\ worker[w] = "created" /\ netStatus # "Created"
    /\ worker' = [worker EXCEPT ![w] = "loop"]
    /\ UNCHANGED <<mainVars, status, hubStatus, netStatus, msgs, handlerVars, hub,
                   listener, sigint, events, closed>>

\* ... or fails to, asks the program to stop and ends.
EnvFails(w) ==
    /\ MayAsk("environment")
    /\ worker[w] = "created" /\ netStatus # "Created"
    /\ worker' = [worker EXCEPT ![w] = "gone"]
    /\ Post("Stop")
    /\ UNCHANGED <<mainVars, status, hubStatus, netStatus, handlerVars, hub,
                   listener, sigint, events, closed>>

\* A control event package is processed.
ControlEvent(w, m) ==
    /\ MayAsk("control event")
    /\ worker[w] = "loop" /\ netStatus # "Exit"
    /\ events < MaxEvents /\ events' = events + 1
    /\ Post(m)
    /\ UNCHANGED <<mainVars, status, hubStatus, netStatus, handlerVars, hub,
                   worker, listener, sigint, closed>>

WorkerEnds(w) ==
    /\ worker[w] = "loop" /\ netStatus = "Exit"
    /\ worker' = [worker EXCEPT ![w] = "gone"]
    /\ UNCHANGED <<mainVars, status, hubStatus, netStatus, msgs, handlerVars, hub,
                   listener, sigint, events, closed>>

\* The listening thread opens its socket, or asks the program to stop.
Listens ==
    /\ listener = "starting" /\ listener' = "listening"
    /\ UNCHANGED <<mainVars, status, hubStatus, netStatus, msgs, handlerVars, hub,
                   worker, sigint, events, closed>>

ListenFails ==
    /\ MayAsk("listen")
    /\ listener = "starting" /\ listener' = "gone"
    /\ Post("Stop")
    /\ UNCHANGED <<mainVars, status, hubStatus, netStatus, handlerVars, hub,
                   worker, sigint, events, closed>>

\* Stop(), called by the SIGINT handler: the message is posted first, then
\* m_emStatus is read and, if it was Created, written.
SigintPost ==
    /\ MayAsk("sigint")
    /\ sigint = "none" /\ sigint' = "posted"
    /\ Post("Stop")
    /\ UNCHANGED <<mainVars, status, hubStatus, netStatus, handlerVars, hub,
                   worker, listener, events, closed>>

SigintRead ==
    /\ sigint = "posted"
    /\ sigint' = IF status = "Created" THEN "write" ELSE "done"
    /\ UNCHANGED <<mainVars, status, hubStatus, netStatus, msgs, handlerVars, hub,
                   worker, listener, events, closed>>

SigintWrite ==
    /\ sigint = "write" /\ sigint' = "done"
    /\ status' = "Exit"
    /\ UNCHANGED <<mainVars, hubStatus, netStatus, msgs, handlerVars, hub,
                   worker, listener, events, closed>>

WorkerStep(w) ==
    \/ EnvCreated(w) \/ EnvFails(w) \/ WorkerEnds(w)
    \/ \E m \in {"Stop", "Restart"} : ControlEvent(w, m)

-----------------------------------------------------------------------------
(* The hub's threads. *)

\* The test of the hub's status that precedes every look at the queue.
HubPoll(h) ==
    /\ hub[h].pc = "idle" /\ hubStatus # "Created"
    /\ IF hubStatus = "Exit"
         THEN hub' = [hub EXCEPT ![h].pc = "gone"]
         ELSE msgs # <<>> /\ hub' = [hub EXCEPT ![h].pc = "pop"]
    /\ UNCHANGED <<mainVars, status, hubStatus, netStatus, msgs, handlerVars, sourceVars, closed>>

\* TryMovePop finds nothing: another thread was faster.
HubMiss(h) ==
    /\ hub[h].pc = "pop" /\ msgs = <<>>
    /\ hub' = [hub EXCEPT ![h].pc = "idle"]
    /\ UNCHANGED <<mainVars, status, hubStatus, netStatus, msgs, handlerVars, sourceVars, closed>>

Popped(h, m) == hub[h].pc = "pop" /\ msgs # <<>> /\ Head(msgs) = m /\ msgs' = Tail(msgs)

\* CallMessage of ProgramStart; its handlers leave this state alone.
HandleStart(h) ==
    /\ Popped(h, "Start")
    /\ hub' = [hub EXCEPT ![h].pc = "idle"]
    /\ UNCHANGED <<mainVars, status, hubStatus, netStatus, handlerVars, sourceVars, closed>>

\* OnProgramRestartEventHandler, if it is registered by now.
HandleRestart(h) ==
    /\ Popped(h, "Restart")
    /\ hub' = [hub EXCEPT ![h].pc = "idle"]
    /\ exitResult' = IF restartable THEN "Retry" ELSE exitResult
    /\ UNCHANGED <<main, status, hubStatus, netStatus, handlerVars, sourceVars, closed>>

\* Mutant: the handler registered last is called alone.
DispatchStop_OneHandler(h) ==
    /\ Popped(h, "Stop")
    /\ hub' = [hub EXCEPT ![h] = [pc |-> "call",
                 todo |-> IF stopHandlers = <<>> THEN <<>> ELSE <<Last(stopHandlers)>>]]
    /\ UNCHANGED <<mainVars, status, hubStatus, netStatus, handlerVars, sourceVars, closed>>

\* CallMessage of ProgramStop copies the handlers registered by now and calls
\* them in the order of their registration.
DispatchStop(h) ==
    /\ Popped(h, "Stop")
    /\ hub' = [hub EXCEPT ![h] = [pc |-> "call", todo |-> stopHandlers]]
    /\ UNCHANGED <<mainVars, status, hubStatus, netStatus, handlerVars, sourceVars, closed>>

HandlersDone(h) ==
    /\ hub[h].pc = "call" /\ hub[h].todo = <<>>
    /\ hub' = [hub EXCEPT ![h].pc = "idle"]
    /\ UNCHANGED <<mainVars, status, hubStatus, netStatus, msgs, handlerVars, sourceVars, closed>>

Calling(h, f) == hub[h].pc = "call" /\ hub[h].todo # <<>> /\ Head(hub[h].todo) = f
NextHandler(h) == [pc |-> "call", todo |-> Tail(hub[h].todo)]

\* OnProgramStopEventHandler, first its test: a service already at Exit is
\* left alone.
StopCheck(h) ==
    /\ Calling(h, "base")
    /\ hub' = IF status = "Exit" THEN [hub EXCEPT ![h] = NextHandler(h)]
              ELSE [hub EXCEPT ![h].pc = "mark"]
    /\ UNCHANGED <<mainVars, status, hubStatus, netStatus, msgs, handlerVars, sourceVars, closed>>

\* Mutant: the service is not marked as stopped.
StopMark_NotMarked(h) ==
    /\ hub[h].pc = "mark"
    /\ hub' = [hub EXCEPT ![h].pc = "finish"]
    /\ UNCHANGED <<mainVars, status, hubStatus, netStatus, msgs, handlerVars, sourceVars, closed>>

StopMark(h) ==
    /\ hub[h].pc = "mark"
    /\ status' = "Exit"
    /\ hub' = [hub EXCEPT ![h].pc = "finish"]
    /\ UNCHANGED <<mainVars, hubStatus, netStatus, msgs, handlerVars, sourceVars, closed>>

\* Mutant: the hub goes on after the stop.
StopFinish_HubGoesOn(h) ==
    /\ hub[h].pc = "finish"
    /\ closed' = closed + 1
    /\ hub' = [hub EXCEPT ![h] = NextHandler(h)]
    /\ UNCHANGED <<mainVars, status, hubStatus, netStatus, msgs, handlerVars, sourceVars>>

\* The hub leaves its loop and the module library is closed.
StopFinish(h) ==
    /\ hub[h].pc = "finish"
    /\ hubStatus' = "Exit"
    /\ closed' = closed + 1
    /\ hub' = [hub EXCEPT ![h] = NextHandler(h)]
    /\ UNCHANGED <<mainVars, status, netStatus, msgs, handlerVars, sourceVars>>

\* CNetworkHub::Exit.
NetExit(h) ==
    /\ Calling(h, "net")
    /\ netStatus' = "Exit"
    /\ hub' = [hub EXCEPT ![h] = NextHandler(h)]
    /\ UNCHANGED <<mainVars, status, hubStatus, msgs, handlerVars, sourceVars, closed>>

HubStep(h) ==
    \/ HubPoll(h) \/ HubMiss(h) \/ HandleStart(h) \/ HandleRestart(h)
    \/ DispatchStop(h) \/ HandlersDone(h) \/ StopCheck(h) \/ StopMark(h)
    \/ StopFinish(h) \/ NetExit(h)

\* When main has returned the process and its threads are gone.
Next ==
    /\ main # "ended" /\ UNCHANGED setting
    /\ \/ MainStep
       \/ \E w \in Workers : WorkerStep(w)
       \/ Listens \/ ListenFails
       \/ SigintPost \/ SigintRead \/ SigintWrite
       \/ \E h \in HubThreads : HubStep(h)

Spec == Init /\ [][Next]_vars

\* Every thread that can run does: none of them waits without a timeout.
Alive == main # "ended" /\ UNCHANGED setting
AllHubThreads == UNION {s.hubThreads : s \in Settings}

FairSpec ==
    /\ Spec
    /\ WF_vars(Alive /\ MainStep)
    /\ WF_vars(Alive /\ (SigintRead \/ SigintWrite))
    /\ \A h \in AllHubThreads : WF_vars(Alive /\ h \in HubThreads /\ HubStep(h))

-----------------------------------------------------------------------------
(* Properties.  TypeOK also says that the handlers are registered by two     *)
(* rounds of Initialize at most.                                             *)

\* Is everything that ends the service asked for only once Run() waits?
Calm == setting.early = {}

\* A service that Run() believes to be running has its message hub and its
\* network running: OnProgramStop marks the service before it ends them.
ServingMeansUp ==
    Calm /\ main = "loop" /\ status = "Running" =>
        hubStatus = "Running" /\ netStatus = "Running"

\* With one hub thread the module library is closed at most once, however many
\* stops are asked for and whenever they arrive (OnProgramStopEventHandler).
ModuleClosedOnce == Cardinality(HubThreads) = 1 => closed <= 1

\* A stop that is asked for while Run() waits makes Run() return.
StopEndsRun ==
    (Calm /\ main = "loop" /\ Contains(msgs, "Stop")) ~> (main # "loop")

\* A service found at Exit before Run() is entered never serves: the program
\* ends (the test at the head of Run()).
CancelledStartEnds ==
    (status = "Exit" /\ main \in InitStages \cup {"run"}) ~> (main = "ended")

-----------------------------------------------------------------------------
(* What makes ServingMeansUp and ModuleClosedOnce inductive. *)

\* The service will not run any more: main has returned, or the status is Exit
\* and Run() is not about to overwrite it.
Over == main = "ended" \/ (status = "Exit" /\ main # "begin")

StatusByStage ==
    /\ main \in InitStages \cup {"run", "begin"} => status # "Running"
    /\ main = "loop" => status # "Created"

\* One round of Initialize registers the stop handlers; a second one adds the
\* same again, for a service that will not run.
Base == <<"base">>
Net == <<"net">>
Round == <<"base", "net">>
RoundAndBase == <<"base", "net", "base">>
TwoRounds == <<"base", "net", "base", "net">>

HandlersByStage ==
    /\ main \in {"hub", "handlers"} =>
         stopHandlers = <<>> \/ (stopHandlers = Round /\ Over)
    /\ main \in {"epoll", "network"} => stopHandlers \in {Base, RoundAndBase}
    /\ main \in {"node", "run"} => stopHandlers \in {Round, TwoRounds}
    /\ main \in {"begin", "loop"} => stopHandlers = Round
    /\ stopHandlers \in {<<>>, Base, Round, RoundAndBase, TwoRounds}
    /\ ~Over => stopHandlers \in {<<>>, Base, Round}

\* A thread is in the stop handler of the base service, and calls it once per
\* message while the service may still run.
CallsByRound ==
    \A h \in HubThreads :
        /\ hub[h].pc \in {"mark", "finish"} => hub[h].todo # <<>>
        /\ ~Over => hub[h].todo \in {<<>>, Base, Net, Round}
        /\ ~Over /\ hub[h].pc \in {"mark", "finish"} => hub[h].todo \in {Base, Round}

\* A calm start is not disturbed, and a service that runs has all its parts.
CalmStart ==
    Calm /\ status = "Created" =>
        /\ main # "loop" /\ sigint = "none" /\ msgs \in Seq({"Start"})
        /\ hubStatus # "Exit" /\ netStatus # "Exit"
        /\ main \in (InitStages \ {"hub"}) \cup {"run", "begin"} => hubStatus = "Running"
        /\ main \in {"node", "run", "begin"} => netStatus = "Running"
        /\ \A h \in HubThreads : hub[h].pc \in {"idle", "pop"} /\ hub[h].todo = <<>>

CalmRun ==
    Calm /\ status = "Running" =>
        /\ main = "loop" /\ hubStatus = "Running" /\ netStatus = "Running"
        /\ \A h \in HubThreads :
             /\ hub[h].pc # "finish"
             /\ hub[h].pc \in {"call", "mark"} => hub[h].todo = Round

CalmSignal == Calm => sigint # "write" /\ (main = "begin" => status = "Created")

\* The only thread of the hub closes the module, and does not come to the stop
\* handler again: the status stays Exit, or the hub has ended and Run() entered
\* after it.
ClosesOnce ==
    \A h \in HubThreads : HubThreads = {h} =>
        /\ closed <= 1
        /\ hub[h].pc \in {"mark", "finish"} => closed = 0
        /\ hub[h].pc = "finish" => Over \/ main \in {"begin", "loop"}
        /\ closed = 1 =>
             \/ Over
             \/ /\ main \in {"begin", "loop"} /\ hubStatus = "Exit"
                /\ hub[h].pc \notin {"pop", "mark", "finish"}
                /\ hub[h].todo \in {<<>>, Net}

IInv ==
    /\ TypeOK /\ StatusByStage /\ HandlersByStage /\ CallsByRound
    /\ CalmStart /\ CalmRun /\ CalmSignal /\ ClosesOnce
=============================================================================
