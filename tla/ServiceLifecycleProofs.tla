------------------------ MODULE ServiceLifecycleProofs ------------------------
(***************************************************************************)
(* Type correctness and the two safety properties of ServiceLifecycle, for *)
(* every number of hub threads and of process threads and every setting of *)
(* what may end the service early.  IInv relates how far the main thread   *)
(* is to the status, to the handlers registered and to what each thread of *)
(* the control hub has left to call.                                       *)
(***************************************************************************)
EXTENDS ServiceLifecycle, FiniteSetTheorems, SequenceTheorems, TLAPS

(* The sequences of handlers that occur.                                   *)

LEMMA Registered ==
    /\ Append(<<>>, "base") = Base /\ Append(Base, "net") = Round
    /\ Append(Round, "base") = RoundAndBase /\ Append(RoundAndBase, "net") = TwoRounds
<1> USE DEF Handlers
<1>1. /\ <<>> \in Seq(Handlers) /\ Base \in Seq(Handlers) /\ Round \in Seq(Handlers)
      /\ RoundAndBase \in Seq(Handlers) /\ TwoRounds \in Seq(Handlers)
    BY DEF Base, Round, RoundAndBase, TwoRounds
<1>2. \A s \in Seq(Handlers), t \in Seq(Handlers), e \in Handlers :
          /\ Len(t) = Len(s) + 1 /\ t[Len(s) + 1] = e
          /\ \A i \in 1..Len(s) : t[i] = s[i]
          => Append(s, e) = t
  <2> SUFFICES ASSUME NEW s \in Seq(Handlers), NEW t \in Seq(Handlers), NEW e \in Handlers,
                      Len(t) = Len(s) + 1, t[Len(s) + 1] = e,
                      \A i \in 1..Len(s) : t[i] = s[i]
               PROVE  Append(s, e) = t
      OBVIOUS
  <2>1. /\ Append(s, e) \in Seq(Handlers) /\ Len(Append(s, e)) = Len(s) + 1
        /\ Append(s, e)[Len(s) + 1] = e /\ \A i \in 1..Len(s) : Append(s, e)[i] = s[i]
      BY AppendProperties
  <2>2. \A i \in 1..Len(t) : i \in 1..Len(s) \/ i = Len(s) + 1
      BY LenProperties
  <2>3. \A i \in 1..Len(t) : Append(s, e)[i] = t[i]
      BY <2>1, <2>2
  <2> QED BY <2>1, <2>3, SeqEqual
<1>3. Append(<<>>, "base") = Base
  <2>1. /\ Len(Base) = Len(<<>>) + 1 /\ Base[Len(<<>>) + 1] = "base"
        /\ \A i \in 1..Len(<<>>) : Base[i] = <<>>[i]
      BY DEF Base
  <2> QED BY <1>1, <1>2, <2>1
<1>4. Append(Base, "net") = Round
  <2>1. /\ Len(Round) = Len(Base) + 1 /\ Round[Len(Base) + 1] = "net"
        /\ \A i \in 1..Len(Base) : Round[i] = Base[i]
      BY DEF Base, Round
  <2> QED BY <1>1, <1>2, <2>1
<1>5. Append(Round, "base") = RoundAndBase
  <2>1. /\ Len(RoundAndBase) = Len(Round) + 1 /\ RoundAndBase[Len(Round) + 1] = "base"
        /\ \A i \in 1..Len(Round) : RoundAndBase[i] = Round[i]
      BY DEF Round, RoundAndBase
  <2> QED BY <1>1, <1>2, <2>1
<1>6. Append(RoundAndBase, "net") = TwoRounds
  <2>1. /\ Len(TwoRounds) = Len(RoundAndBase) + 1 /\ TwoRounds[Len(RoundAndBase) + 1] = "net"
        /\ \A i \in 1..Len(RoundAndBase) : TwoRounds[i] = RoundAndBase[i]
      BY DEF RoundAndBase, TwoRounds
  <2> QED BY <1>1, <1>2, <2>1
<1> QED BY <1>3, <1>4, <1>5, <1>6

LEMMA Sequences ==
    /\ Head(Base) = "base" /\ Head(Round) = "base" /\ Head(Net) = "net"
    /\ Tail(Base) = <<>> /\ Tail(Round) = Net /\ Tail(Net) = <<>>
    /\ Base # <<>> /\ Net # <<>> /\ Round # <<>>
    /\ RoundAndBase \notin {<<>>, Base, Round} /\ TwoRounds \notin {<<>>, Base, Round}
    /\ \A s \in {<<>>, Base, Net, Round, RoundAndBase, TwoRounds} :
          s \in Seq(Handlers) /\ Len(s) <= 4
<1> USE DEF Base, Net, Round, RoundAndBase, TwoRounds, Handlers
<1>1. Head(Base) = "base" /\ Head(Round) = "base" /\ Head(Net) = "net"
    OBVIOUS
<1>2. Tail(Base) = <<>> /\ Tail(Round) = Net /\ Tail(Net) = <<>>
    OBVIOUS
<1>3. /\ Base # <<>> /\ Net # <<>> /\ Round # <<>>
      /\ RoundAndBase \notin {<<>>, Base, Round} /\ TwoRounds \notin {<<>>, Base, Round}
    OBVIOUS
<1>4. /\ <<>> \in Seq(Handlers) /\ Base \in Seq(Handlers) /\ Net \in Seq(Handlers)
      /\ Round \in Seq(Handlers) /\ RoundAndBase \in Seq(Handlers) /\ TwoRounds \in Seq(Handlers)
    OBVIOUS
<1>5. /\ Len(<<>>) <= 4 /\ Len(Base) <= 4 /\ Len(Net) <= 4 /\ Len(Round) <= 4
      /\ Len(RoundAndBase) <= 4 /\ Len(TwoRounds) <= 4
    OBVIOUS
<1> HIDE DEF Base, Net, Round, RoundAndBase, TwoRounds
<1> QED BY <1>1, <1>2, <1>3, <1>4, <1>5

LEMMA Posted ==
    /\ \A u \in Seq({"Start", "Stop", "Restart"}) :
          /\ \A m \in {"Start", "Stop", "Restart"} :
                Append(u, m) \in Seq({"Start", "Stop", "Restart"})
          /\ u # <<>> => Tail(u) \in Seq({"Start", "Stop", "Restart"})
    /\ \A u \in Seq({"Start"}) :
          /\ Append(u, "Start") \in Seq({"Start"})
          /\ u # <<>> => Tail(u) \in Seq({"Start"}) /\ Head(u) = "Start"
OBVIOUS

LEMMA HandlersLeft ==
    \A u \in Seq(Handlers) : u # <<>> => Tail(u) \in Seq(Handlers)
OBVIOUS

(* A thread of the hub goes to pc with todo left to call.                  *)
Moves(h, pc, todo) ==
    /\ hub' \in [HubThreads -> [pc : HubPcs, todo : Seq(Handlers)]]
    /\ hub'[h].pc = pc /\ hub'[h].todo = todo
    /\ \A g \in HubThreads : g # h => hub'[g] = hub[g]

LEMMA HubSet ==
    ASSUME TypeOK, NEW h \in HubThreads, NEW pc \in HubPcs, NEW todo \in Seq(Handlers),
           hub' = [hub EXCEPT ![h] = [pc |-> pc, todo |-> todo]]
    PROVE  Moves(h, pc, todo)
<1>1. hub \in [HubThreads -> [pc : HubPcs, todo : Seq(Handlers)]]
    BY DEF TypeOK
<1> QED BY <1>1 DEF Moves

LEMMA HubGoes ==
    ASSUME TypeOK, NEW h \in HubThreads, NEW pc \in HubPcs,
           hub' = [hub EXCEPT ![h].pc = pc]
    PROVE  Moves(h, pc, hub[h].todo)
<1>1. hub \in [HubThreads -> [pc : HubPcs, todo : Seq(Handlers)]]
    BY DEF TypeOK
<1>2. PICK r \in [pc : HubPcs, todo : Seq(Handlers)] : r = hub[h]
    BY <1>1
<1>3. /\ [r EXCEPT !.pc = pc] \in [pc : HubPcs, todo : Seq(Handlers)]
      /\ [r EXCEPT !.pc = pc].pc = pc /\ [r EXCEPT !.pc = pc].todo = r.todo
    BY <1>2
<1>4. hub' = [hub EXCEPT ![h] = [r EXCEPT !.pc = pc]]
    BY <1>2
<1> QED BY <1>1, <1>2, <1>3, <1>4 DEF Moves

(* The main thread.                                                        *)

LEMMA InitHubStep ==
    ASSUME IInv, UNCHANGED setting, main # "ended", InitHub
    PROVE  IInv'
<1> USE DEF InitHub, mainVars, sourceVars, handlerVars, HubThreads, Over, Calm, InitStages
<1>1. TypeOK'
    BY Sequences, Registered, Posted DEF IInv, TypeOK, RunStatus, HubPcs, HandlersByStage
<1>2. StatusByStage'
    BY DEF IInv, StatusByStage
<1>3. HandlersByStage'
    BY Registered, Sequences DEF IInv, HandlersByStage, StatusByStage
<1>4. CallsByRound'
    BY DEF IInv, CallsByRound
<1>5. CalmStart'
    BY Posted DEF IInv, CalmStart, StatusByStage
<1>6. CalmRun'
    BY DEF IInv, CalmRun, CalmStart, CalmSignal
<1>7. CalmSignal'
    BY DEF IInv, CalmSignal, CalmStart, StatusByStage
<1>8. ClosesOnce'
    BY DEF IInv, ClosesOnce, StatusByStage
<1> QED BY <1>1, <1>2, <1>3, <1>4, <1>5, <1>6, <1>7, <1>8 DEF IInv

LEMMA InitHandlersStep ==
    ASSUME IInv, UNCHANGED setting, main # "ended", InitHandlers
    PROVE  IInv'
<1> USE DEF InitHandlers, mainVars, sourceVars, handlerVars, HubThreads, Over, Calm, InitStages
<1>1. TypeOK'
    BY Sequences, Registered, Posted DEF IInv, TypeOK, RunStatus, HubPcs, HandlersByStage
<1>2. StatusByStage'
    BY DEF IInv, StatusByStage
<1>3. HandlersByStage'
    BY Registered, Sequences DEF IInv, HandlersByStage, StatusByStage
<1>4. CallsByRound'
    BY DEF IInv, CallsByRound
<1>5. CalmStart'
    BY Posted DEF IInv, CalmStart, StatusByStage
<1>6. CalmRun'
    BY DEF IInv, CalmRun, CalmStart, CalmSignal
<1>7. CalmSignal'
    BY DEF IInv, CalmSignal, CalmStart, StatusByStage
<1>8. ClosesOnce'
    BY DEF IInv, ClosesOnce, StatusByStage
<1> QED BY <1>1, <1>2, <1>3, <1>4, <1>5, <1>6, <1>7, <1>8 DEF IInv

LEMMA InitEpollStep ==
    ASSUME IInv, UNCHANGED setting, main # "ended", InitEpoll
    PROVE  IInv'
<1> USE DEF InitEpoll, mainVars, sourceVars, handlerVars, HubThreads, Over, Calm, InitStages
<1>1. TypeOK'
    BY Sequences, Registered, Posted DEF IInv, TypeOK, RunStatus, HubPcs, HandlersByStage
<1>2. StatusByStage'
    BY DEF IInv, StatusByStage
<1>3. HandlersByStage'
    BY Registered, Sequences DEF IInv, HandlersByStage, StatusByStage
<1>4. CallsByRound'
    BY DEF IInv, CallsByRound
<1>5. CalmStart'
    BY Posted DEF IInv, CalmStart, StatusByStage
<1>6. CalmRun'
    BY DEF IInv, CalmRun, CalmStart, CalmSignal
<1>7. CalmSignal'
    BY DEF IInv, CalmSignal, CalmStart, StatusByStage
<1>8. ClosesOnce'
    BY DEF IInv, ClosesOnce, StatusByStage
<1> QED BY <1>1, <1>2, <1>3, <1>4, <1>5, <1>6, <1>7, <1>8 DEF IInv

LEMMA InitNetworkStep ==
    ASSUME IInv, UNCHANGED setting, main # "ended", InitNetwork
    PROVE  IInv'
<1> USE DEF InitNetwork, mainVars, sourceVars, handlerVars, HubThreads, Over, Calm, InitStages
<1>1. TypeOK'
    BY Sequences, Registered, Posted DEF IInv, TypeOK, RunStatus, HubPcs, HandlersByStage
<1>2. StatusByStage'
    BY DEF IInv, StatusByStage
<1>3. HandlersByStage'
    BY Registered, Sequences DEF IInv, HandlersByStage, StatusByStage
<1>4. CallsByRound'
    BY DEF IInv, CallsByRound
<1>5. CalmStart'
    BY Posted DEF IInv, CalmStart, StatusByStage
<1>6. CalmRun'
    BY DEF IInv, CalmRun, CalmStart, CalmSignal
<1>7. CalmSignal'
    BY DEF IInv, CalmSignal, CalmStart, StatusByStage
<1>8. ClosesOnce'
    BY DEF IInv, ClosesOnce, StatusByStage
<1> QED BY <1>1, <1>2, <1>3, <1>4, <1>5, <1>6, <1>7, <1>8 DEF IInv

LEMMA InitNodeStep ==
    ASSUME IInv, UNCHANGED setting, main # "ended", InitNode
    PROVE  IInv'
<1> USE DEF InitNode, mainVars, sourceVars, handlerVars, HubThreads, Over, Calm, InitStages
<1>1. TypeOK'
    BY Sequences, Registered, Posted DEF IInv, TypeOK, RunStatus, HubPcs, HandlersByStage
<1>2. StatusByStage'
    BY DEF IInv, StatusByStage
<1>3. HandlersByStage'
    BY Registered, Sequences DEF IInv, HandlersByStage, StatusByStage
<1>4. CallsByRound'
    BY DEF IInv, CallsByRound
<1>5. CalmStart'
    BY Posted DEF IInv, CalmStart, StatusByStage
<1>6. CalmRun'
    BY DEF IInv, CalmRun, CalmStart, CalmSignal
<1>7. CalmSignal'
    BY DEF IInv, CalmSignal, CalmStart, StatusByStage
<1>8. ClosesOnce'
    BY DEF IInv, ClosesOnce, StatusByStage
<1> QED BY <1>1, <1>2, <1>3, <1>4, <1>5, <1>6, <1>7, <1>8 DEF IInv

LEMMA InitFailsStep ==
    ASSUME IInv, UNCHANGED setting, main # "ended", InitFails
    PROVE  IInv'
<1> USE DEF InitFails, mainVars, sourceVars, handlerVars, HubThreads, Over, Calm, InitStages
<1>1. TypeOK'
    BY Sequences, Registered, Posted DEF IInv, TypeOK, RunStatus, HubPcs, HandlersByStage
<1>2. StatusByStage'
    BY DEF IInv, StatusByStage
<1>3. HandlersByStage'
    BY Registered, Sequences DEF IInv, HandlersByStage, StatusByStage
<1>4. CallsByRound'
    BY DEF IInv, CallsByRound
<1>5. CalmStart'
    BY Posted DEF IInv, CalmStart, StatusByStage
<1>6. CalmRun'
    BY DEF IInv, CalmRun, CalmStart, CalmSignal
<1>7. CalmSignal'
    BY DEF IInv, CalmSignal, CalmStart, StatusByStage
<1>8. ClosesOnce'
    BY DEF IInv, ClosesOnce, StatusByStage
<1> QED BY <1>1, <1>2, <1>3, <1>4, <1>5, <1>6, <1>7, <1>8 DEF IInv

LEMMA RunCheckStep ==
    ASSUME IInv, UNCHANGED setting, main # "ended", RunCheck
    PROVE  IInv'
<1> USE DEF RunCheck, mainVars, sourceVars, handlerVars, HubThreads, Over, Calm, InitStages
<1>1. TypeOK'
    BY Sequences, Registered, Posted DEF IInv, TypeOK, RunStatus, HubPcs, HandlersByStage
<1>2. StatusByStage'
    BY DEF IInv, StatusByStage
<1>3. HandlersByStage'
    BY Registered, Sequences DEF IInv, HandlersByStage, StatusByStage
<1>4. CallsByRound'
    BY DEF IInv, CallsByRound
<1>5. CalmStart'
    BY Posted DEF IInv, CalmStart, StatusByStage
<1>6. CalmRun'
    BY DEF IInv, CalmRun, CalmStart, CalmSignal
<1>7. CalmSignal'
    BY DEF IInv, CalmSignal, CalmStart, StatusByStage
<1>8. ClosesOnce'
    BY DEF IInv, ClosesOnce, StatusByStage
<1> QED BY <1>1, <1>2, <1>3, <1>4, <1>5, <1>6, <1>7, <1>8 DEF IInv

LEMMA RunBeginStep ==
    ASSUME IInv, UNCHANGED setting, main # "ended", RunBegin
    PROVE  IInv'
<1> USE DEF RunBegin, mainVars, sourceVars, handlerVars, HubThreads, Over, Calm, InitStages
<1>1. TypeOK'
    BY Sequences, Registered, Posted DEF IInv, TypeOK, RunStatus, HubPcs, HandlersByStage
<1>2. StatusByStage'
    BY DEF IInv, StatusByStage
<1>3. HandlersByStage'
    BY Registered, Sequences DEF IInv, HandlersByStage, StatusByStage
<1>4. CallsByRound'
    BY DEF IInv, CallsByRound
<1>5. CalmStart'
    BY Posted DEF IInv, CalmStart, StatusByStage
<1>6. CalmRun'
    BY DEF IInv, CalmRun, CalmStart, CalmSignal
<1>7. CalmSignal'
    BY DEF IInv, CalmSignal, CalmStart, StatusByStage
<1>8. ClosesOnce'
    BY DEF IInv, ClosesOnce, StatusByStage
<1> QED BY <1>1, <1>2, <1>3, <1>4, <1>5, <1>6, <1>7, <1>8 DEF IInv

LEMMA RunReturnStep ==
    ASSUME IInv, UNCHANGED setting, main # "ended", RunReturn
    PROVE  IInv'
<1> USE DEF RunReturn, mainVars, sourceVars, handlerVars, HubThreads, Over, Calm, InitStages
<1>1. TypeOK'
    BY Sequences, Registered, Posted DEF IInv, TypeOK, RunStatus, HubPcs, HandlersByStage
<1>2. StatusByStage'
    BY DEF IInv, StatusByStage
<1>3. HandlersByStage'
    BY Registered, Sequences DEF IInv, HandlersByStage, StatusByStage
<1>4. CallsByRound'
    BY DEF IInv, CallsByRound
<1>5. CalmStart'
    BY Posted DEF IInv, CalmStart, StatusByStage
<1>6. CalmRun'
    BY DEF IInv, CalmRun, CalmStart, CalmSignal
<1>7. CalmSignal'
    BY DEF IInv, CalmSignal, CalmStart, StatusByStage
<1>8. ClosesOnce'
    BY DEF IInv, ClosesOnce, StatusByStage
<1> QED BY <1>1, <1>2, <1>3, <1>4, <1>5, <1>6, <1>7, <1>8 DEF IInv

(* Those who post messages leave alone what the invariant is about, but the *)
(* messages; in a calm start they wait until Run() does.                    *)

LEMMA SourcesFrame ==
    ASSUME IInv, TypeOK', Calm => sigint' # "write",
           UNCHANGED <<setting, main, status, hubStatus, netStatus, stopHandlers, hub, closed>>,
           UNCHANGED <<msgs, sigint>> \/ main = "loop" \/ ~Calm \/ sigint # "none"
    PROVE  IInv'
<1> USE DEF HubThreads, Over, Calm, InitStages
<1>1. StatusByStage' /\ HandlersByStage'
    BY DEF IInv, StatusByStage, HandlersByStage
<1>2. CallsByRound'
    BY DEF IInv, CallsByRound
<1>3. CalmStart'
    BY DEF IInv, CalmStart, StatusByStage
<1>4. CalmRun' /\ CalmSignal'
    BY DEF IInv, CalmRun, CalmSignal
<1>5. ClosesOnce'
    BY DEF IInv, ClosesOnce
<1> QED BY <1>1, <1>2, <1>3, <1>4, <1>5 DEF IInv

LEMMA AnyWorkerStep ==
    ASSUME IInv, UNCHANGED setting, NEW w \in Workers, WorkerStep(w)
    PROVE  IInv'
<1> USE DEF mainVars, handlerVars, Post, HubThreads
<1>1. CASE EnvCreated(w)
    BY <1>1, SourcesFrame DEF EnvCreated, IInv, TypeOK, CalmSignal
<1>2. CASE EnvFails(w)
  <2>1. TypeOK'
      BY <1>2, Posted DEF EnvFails, IInv, TypeOK
  <2> QED BY <1>2, <2>1, SourcesFrame DEF EnvFails, MayAsk, Calm, IInv, CalmSignal
<1>3. CASE WorkerEnds(w)
    BY <1>3, SourcesFrame DEF WorkerEnds, IInv, TypeOK, CalmSignal
<1>4. ASSUME NEW m \in {"Stop", "Restart"}, ControlEvent(w, m)
      PROVE  IInv'
  <2>1. msgs' \in Seq({"Start", "Stop", "Restart"})
      BY <1>4, Posted DEF ControlEvent, IInv, TypeOK
  <2>2. events' \in 0..MaxEvents
    <3>1. events \in 0..MaxEvents
        BY DEF IInv, TypeOK
    <3>2. events < MaxEvents /\ events' = events + 1
        BY <1>4 DEF ControlEvent
    <3> QED BY <3>1, <3>2, MaxEventsAssumption
  <2>3. TypeOK'
      BY <1>4, <2>1, <2>2 DEF ControlEvent, IInv, TypeOK
  <2> QED BY <1>4, <2>3, SourcesFrame DEF ControlEvent, MayAsk, Calm, IInv, CalmSignal
<1> QED BY <1>1, <1>2, <1>3, <1>4 DEF WorkerStep

LEMMA ListenerStep ==
    ASSUME IInv, UNCHANGED setting, Listens \/ ListenFails
    PROVE  IInv'
<1> USE DEF mainVars, handlerVars, Post, HubThreads
<1>1. CASE Listens
    BY <1>1, SourcesFrame DEF Listens, IInv, TypeOK, CalmSignal
<1>2. CASE ListenFails
  <2>1. TypeOK'
      BY <1>2, Posted DEF ListenFails, IInv, TypeOK
  <2> QED BY <1>2, <2>1, SourcesFrame DEF ListenFails, MayAsk, Calm, IInv, CalmSignal
<1> QED BY <1>1, <1>2

LEMMA SigintStep ==
    ASSUME IInv, UNCHANGED setting, main # "ended", SigintPost \/ SigintRead
    PROVE  IInv'
<1> USE DEF mainVars, handlerVars, Post, HubThreads
<1>1. CASE SigintPost
  <2>1. TypeOK'
      BY <1>1, Posted DEF SigintPost, IInv, TypeOK
  <2> QED BY <1>1, <2>1, SourcesFrame DEF SigintPost, MayAsk, Calm, IInv, CalmSignal
<1>2. CASE SigintRead
  <2>1. TypeOK'
      BY <1>2 DEF SigintRead, IInv, TypeOK
  <2>2. Calm => sigint' # "write"
      BY <1>2 DEF SigintRead, IInv, CalmStart
  <2> QED BY <1>2, <2>1, <2>2, SourcesFrame DEF SigintRead
<1> QED BY <1>1, <1>2

LEMMA SigintWriteStep ==
    ASSUME IInv, UNCHANGED setting, main # "ended", SigintWrite
    PROVE  IInv'
<1> USE DEF SigintWrite, mainVars, sourceVars, handlerVars, HubThreads, Over, Calm, InitStages
<1>1. TypeOK'
    BY Sequences, Registered, Posted DEF IInv, TypeOK, RunStatus, HubPcs, HandlersByStage
<1>2. StatusByStage'
    BY DEF IInv, StatusByStage
<1>3. HandlersByStage'
    BY DEF IInv, HandlersByStage, StatusByStage
<1>4. CallsByRound'
    BY DEF IInv, CallsByRound
<1>5. CalmStart'
    BY DEF IInv, CalmStart, StatusByStage
<1>6. CalmRun'
    BY DEF IInv, CalmRun, CalmStart, CalmSignal
<1>7. CalmSignal'
    BY DEF IInv, CalmSignal, CalmStart, StatusByStage
<1>8. ClosesOnce'
    BY DEF IInv, ClosesOnce, StatusByStage
<1> QED BY <1>1, <1>2, <1>3, <1>4, <1>5, <1>6, <1>7, <1>8 DEF IInv

(* The threads of the control hub.                                         *)

LEMMA HubPollStep ==
    ASSUME IInv, UNCHANGED setting, main # "ended", NEW h \in HubThreads, HubPoll(h)
    PROVE  IInv'
<1>0. /\ hub[h].pc = "idle" /\ hubStatus # "Created"
      /\ \/ hubStatus = "Exit" /\ Moves(h, "gone", hub[h].todo)
         \/ hubStatus # "Exit" /\ Moves(h, "pop", hub[h].todo)
      /\ UNCHANGED <<setting, main, status, exitResult, hubStatus, netStatus, msgs,
                      stopHandlers, restartable, worker, listener, sigint, events, closed>>
  <2>1. hub[h].pc = "idle" /\ hubStatus # "Created" /\ "gone" \in HubPcs /\ "pop" \in HubPcs
      BY DEF HubPoll, HubPcs
  <2>2. CASE hubStatus = "Exit"
    <3>1. hub' = [hub EXCEPT ![h].pc = "gone"]
        BY <2>2 DEF HubPoll
    <3> QED BY <2>1, <2>2, <3>1, HubGoes DEF HubPoll, IInv, mainVars, handlerVars, sourceVars
  <2>3. CASE hubStatus # "Exit"
    <3>1. hub' = [hub EXCEPT ![h].pc = "pop"]
        BY <2>3 DEF HubPoll
    <3> QED BY <2>1, <2>3, <3>1, HubGoes DEF HubPoll, IInv, mainVars, handlerVars, sourceVars
  <2> QED BY <2>2, <2>3
<1>a. /\ HubThreads' = HubThreads /\ Calm' = Calm /\ Over' = Over
      /\ \A g \in HubThreads : g # h => hub'[g] = hub[g]
    BY <1>0 DEF HubThreads, Calm, Over, Moves
<1>1. TypeOK'
    BY <1>0, <1>a DEF IInv, TypeOK, RunStatus, Moves
<1>2. StatusByStage'
    BY <1>0, <1>a DEF IInv, StatusByStage
<1>3. HandlersByStage'
    BY <1>0, <1>a DEF IInv, HandlersByStage
<1>4. CallsByRound'
    BY <1>0, <1>a DEF IInv, CallsByRound, Moves
<1>5. CalmStart'
    BY <1>0, <1>a DEF IInv, CalmStart, Moves
<1>6. CalmRun'
    BY <1>0, <1>a DEF IInv, CalmRun, Moves
<1>7. CalmSignal'
    BY <1>0, <1>a DEF IInv, CalmSignal
<1>8. ClosesOnce'
    BY <1>0, <1>a DEF IInv, ClosesOnce, Moves
<1> QED BY <1>1, <1>2, <1>3, <1>4, <1>5, <1>6, <1>7, <1>8 DEF IInv

LEMMA HubMissStep ==
    ASSUME IInv, UNCHANGED setting, main # "ended", NEW h \in HubThreads, HubMiss(h)
    PROVE  IInv'
<1>0. /\ hub[h].pc = "pop"
      /\ Moves(h, "idle", hub[h].todo)
      /\ UNCHANGED <<setting, main, status, exitResult, hubStatus, netStatus, msgs,
                      stopHandlers, restartable, worker, listener, sigint, events, closed>>
    BY HubGoes DEF HubMiss, IInv, HubPcs, mainVars, handlerVars, sourceVars
<1>a. /\ HubThreads' = HubThreads /\ Calm' = Calm /\ Over' = Over
      /\ \A g \in HubThreads : g # h => hub'[g] = hub[g]
    BY <1>0 DEF HubThreads, Calm, Over, Moves
<1>1. TypeOK'
    BY <1>0, <1>a DEF IInv, TypeOK, RunStatus, Moves
<1>2. StatusByStage'
    BY <1>0, <1>a DEF IInv, StatusByStage
<1>3. HandlersByStage'
    BY <1>0, <1>a DEF IInv, HandlersByStage
<1>4. CallsByRound'
    BY <1>0, <1>a DEF IInv, CallsByRound, Moves
<1>5. CalmStart'
    BY <1>0, <1>a DEF IInv, CalmStart, Moves
<1>6. CalmRun'
    BY <1>0, <1>a DEF IInv, CalmRun, Moves
<1>7. CalmSignal'
    BY <1>0, <1>a DEF IInv, CalmSignal
<1>8. ClosesOnce'
    BY <1>0, <1>a DEF IInv, ClosesOnce, Moves
<1> QED BY <1>1, <1>2, <1>3, <1>4, <1>5, <1>6, <1>7, <1>8 DEF IInv

LEMMA HandleStartStep ==
    ASSUME IInv, UNCHANGED setting, main # "ended", NEW h \in HubThreads, HandleStart(h)
    PROVE  IInv'
<1>0. /\ hub[h].pc = "pop"
      /\ msgs # <<>> /\ msgs' = Tail(msgs)
      /\ Moves(h, "idle", hub[h].todo)
      /\ UNCHANGED <<setting, main, status, exitResult, hubStatus, netStatus,
                      stopHandlers, restartable, worker, listener, sigint, events, closed>>
    BY HubGoes DEF HandleStart, Popped, IInv, HubPcs, mainVars, handlerVars, sourceVars
<1>a. /\ HubThreads' = HubThreads /\ Calm' = Calm /\ Over' = Over
      /\ \A g \in HubThreads : g # h => hub'[g] = hub[g]
    BY <1>0 DEF HubThreads, Calm, Over, Moves
<1>1. TypeOK'
    BY <1>0, <1>a DEF IInv, TypeOK, RunStatus, Moves
<1>2. StatusByStage'
    BY <1>0, <1>a DEF IInv, StatusByStage
<1>3. HandlersByStage'
    BY <1>0, <1>a DEF IInv, HandlersByStage
<1>4. CallsByRound'
    BY <1>0, <1>a DEF IInv, CallsByRound, Moves
<1>5. CalmStart'
    BY <1>0, <1>a, Posted DEF IInv, CalmStart, Moves
<1>6. CalmRun'
    BY <1>0, <1>a DEF IInv, CalmRun, Moves
<1>7. CalmSignal'
    BY <1>0, <1>a DEF IInv, CalmSignal
<1>8. ClosesOnce'
    BY <1>0, <1>a DEF IInv, ClosesOnce, Moves
<1> QED BY <1>1, <1>2, <1>3, <1>4, <1>5, <1>6, <1>7, <1>8 DEF IInv

LEMMA HandleRestartStep ==
    ASSUME IInv, UNCHANGED setting, main # "ended", NEW h \in HubThreads, HandleRestart(h)
    PROVE  IInv'
<1>0. /\ hub[h].pc = "pop"
      /\ msgs # <<>> /\ msgs' = Tail(msgs)
      /\ exitResult' \in {"Retry", exitResult}
      /\ Moves(h, "idle", hub[h].todo)
      /\ UNCHANGED <<setting, main, status, hubStatus, netStatus, stopHandlers,
                      restartable, worker, listener, sigint, events, closed>>
    BY HubGoes DEF HandleRestart, Popped, IInv, HubPcs, mainVars, handlerVars, sourceVars
<1>a. /\ HubThreads' = HubThreads /\ Calm' = Calm /\ Over' = Over
      /\ \A g \in HubThreads : g # h => hub'[g] = hub[g]
    BY <1>0 DEF HubThreads, Calm, Over, Moves
<1>1. TypeOK'
    BY <1>0, <1>a DEF IInv, TypeOK, RunStatus, Moves
<1>2. StatusByStage'
    BY <1>0, <1>a DEF IInv, StatusByStage
<1>3. HandlersByStage'
    BY <1>0, <1>a DEF IInv, HandlersByStage
<1>4. CallsByRound'
    BY <1>0, <1>a DEF IInv, CallsByRound, Moves
<1>5. CalmStart'
    BY <1>0, <1>a, Posted DEF IInv, CalmStart, Moves
<1>6. CalmRun'
    BY <1>0, <1>a DEF IInv, CalmRun, Moves
<1>7. CalmSignal'
    BY <1>0, <1>a DEF IInv, CalmSignal
<1>8. ClosesOnce'
    BY <1>0, <1>a DEF IInv, ClosesOnce, Moves
<1> QED BY <1>1, <1>2, <1>3, <1>4, <1>5, <1>6, <1>7, <1>8 DEF IInv

LEMMA DispatchStopStep ==
    ASSUME IInv, UNCHANGED setting, main # "ended", NEW h \in HubThreads, DispatchStop(h)
    PROVE  IInv'
<1>0. /\ hub[h].pc = "pop"
      /\ msgs # <<>> /\ Head(msgs) = "Stop" /\ msgs' = Tail(msgs)
      /\ Moves(h, "call", stopHandlers)
      /\ UNCHANGED <<setting, main, status, exitResult, hubStatus, netStatus,
                      stopHandlers, restartable, worker, listener, sigint, events, closed>>
    BY HubSet DEF DispatchStop, Popped, IInv, TypeOK, HubPcs, mainVars, handlerVars, sourceVars
<1>a. /\ HubThreads' = HubThreads /\ Calm' = Calm /\ Over' = Over
      /\ \A g \in HubThreads : g # h => hub'[g] = hub[g]
    BY <1>0 DEF HubThreads, Calm, Over, Moves
<1>1. TypeOK'
    BY <1>0, <1>a DEF IInv, TypeOK, RunStatus, Moves
<1>2. StatusByStage'
    BY <1>0, <1>a DEF IInv, StatusByStage
<1>3. HandlersByStage'
    BY <1>0, <1>a DEF IInv, HandlersByStage
<1>4. CallsByRound'
    BY <1>0, <1>a DEF IInv, CallsByRound, HandlersByStage, Moves
<1>5. CalmStart'
    BY <1>0, <1>a, Posted DEF IInv, CalmStart
<1>6. CalmRun'
    BY <1>0, <1>a DEF IInv, CalmRun, HandlersByStage, Moves
<1>7. CalmSignal'
    BY <1>0, <1>a DEF IInv, CalmSignal
<1>8. ClosesOnce'
    BY <1>0, <1>a DEF IInv, ClosesOnce, Moves
<1> QED BY <1>1, <1>2, <1>3, <1>4, <1>5, <1>6, <1>7, <1>8 DEF IInv

LEMMA HandlersDoneStep ==
    ASSUME IInv, UNCHANGED setting, main # "ended", NEW h \in HubThreads, HandlersDone(h)
    PROVE  IInv'
<1>0. /\ hub[h].pc = "call" /\ hub[h].todo = <<>>
      /\ Moves(h, "idle", <<>>)
      /\ UNCHANGED <<setting, main, status, exitResult, hubStatus, netStatus, msgs,
                      stopHandlers, restartable, worker, listener, sigint, events, closed>>
    BY HubGoes DEF HandlersDone, IInv, HubPcs, mainVars, handlerVars, sourceVars
<1>a. /\ HubThreads' = HubThreads /\ Calm' = Calm /\ Over' = Over
      /\ \A g \in HubThreads : g # h => hub'[g] = hub[g]
    BY <1>0 DEF HubThreads, Calm, Over, Moves
<1>1. TypeOK'
    BY <1>0, <1>a DEF IInv, TypeOK, RunStatus, Moves
<1>2. StatusByStage'
    BY <1>0, <1>a DEF IInv, StatusByStage
<1>3. HandlersByStage'
    BY <1>0, <1>a DEF IInv, HandlersByStage
<1>4. CallsByRound'
    BY <1>0, <1>a DEF IInv, CallsByRound, Moves
<1>5. CalmStart'
    BY <1>0, <1>a DEF IInv, CalmStart, Moves
<1>6. CalmRun'
    BY <1>0, <1>a DEF IInv, CalmRun, Moves
<1>7. CalmSignal'
    BY <1>0, <1>a DEF IInv, CalmSignal
<1>8. ClosesOnce'
    BY <1>0, <1>a DEF IInv, ClosesOnce, Moves
<1> QED BY <1>1, <1>2, <1>3, <1>4, <1>5, <1>6, <1>7, <1>8 DEF IInv

LEMMA StopCheckStep ==
    ASSUME IInv, UNCHANGED setting, main # "ended", NEW h \in HubThreads, StopCheck(h)
    PROVE  IInv'
<1>0. /\ hub[h].pc = "call" /\ hub[h].todo # <<>> /\ Head(hub[h].todo) = "base"
      /\ \/ status = "Exit" /\ Moves(h, "call", Tail(hub[h].todo))
         \/ status # "Exit" /\ Moves(h, "mark", hub[h].todo)
      /\ UNCHANGED <<setting, main, status, exitResult, hubStatus, netStatus, msgs,
                      stopHandlers, restartable, worker, listener, sigint, events, closed>>
  <2>1. hub[h].todo \in Seq(Handlers) /\ "call" \in HubPcs /\ "mark" \in HubPcs
      BY DEF IInv, TypeOK, HubPcs
  <2>2. hub[h].todo # <<>> => Tail(hub[h].todo) \in Seq(Handlers)
      BY <2>1, HandlersLeft
  <2>3. CASE status = "Exit"
      BY <2>1, <2>2, <2>3, HubSet DEF StopCheck, Calling, NextHandler, IInv, mainVars, handlerVars, sourceVars
  <2>4. CASE status # "Exit"
    <3>1. hub' = [hub EXCEPT ![h].pc = "mark"]
        BY <2>4 DEF StopCheck
    <3> QED BY <2>1, <2>4, <3>1, HubGoes DEF StopCheck, Calling, IInv, mainVars, handlerVars, sourceVars
  <2> QED BY <2>3, <2>4
<1>a. /\ HubThreads' = HubThreads /\ Calm' = Calm /\ Over' = Over
      /\ \A g \in HubThreads : g # h => hub'[g] = hub[g]
    BY <1>0 DEF HubThreads, Calm, Over, Moves
<1>1. TypeOK'
    BY <1>0, <1>a DEF IInv, TypeOK, RunStatus, Moves
<1>2. StatusByStage'
    BY <1>0, <1>a DEF IInv, StatusByStage
<1>3. HandlersByStage'
    BY <1>0, <1>a DEF IInv, HandlersByStage
<1>4. CallsByRound'
    BY <1>0, <1>a, Sequences DEF IInv, CallsByRound, Moves
<1>5. CalmStart'
    BY <1>0, <1>a DEF IInv, CalmStart, Moves
<1>6. CalmRun'
    BY <1>0, <1>a DEF IInv, CalmRun, Moves
<1>7. CalmSignal'
    BY <1>0, <1>a DEF IInv, CalmSignal
<1>8. ClosesOnce'
  <2>1. SUFFICES ASSUME HubThreads = {h} PROVE ClosesOnce'
      BY <1>a DEF ClosesOnce
  <2>2. hub[h].todo \notin {<<>>, Net}
      BY <1>0, Sequences
  <2>3. closed <= 1 /\ closed \in Nat /\ (closed = 1 => Over)
      BY <2>1, <2>2 DEF IInv, TypeOK, ClosesOnce
  <2>4. Over => status = "Exit"
      BY DEF Over
  <2> QED BY <1>0, <1>a, <2>1, <2>3, <2>4 DEF ClosesOnce, Moves
<1> QED BY <1>1, <1>2, <1>3, <1>4, <1>5, <1>6, <1>7, <1>8 DEF IInv

LEMMA StopMarkStep ==
    ASSUME IInv, UNCHANGED setting, main # "ended", NEW h \in HubThreads, StopMark(h)
    PROVE  IInv'
<1>0. /\ hub[h].pc = "mark" /\ status' = "Exit"
      /\ Moves(h, "finish", hub[h].todo)
      /\ UNCHANGED <<setting, main, exitResult, hubStatus, netStatus, msgs,
                      stopHandlers, restartable, worker, listener, sigint, events, closed>>
    BY HubGoes DEF StopMark, IInv, HubPcs, mainVars, handlerVars, sourceVars
<1>a. /\ HubThreads' = HubThreads /\ Calm' = Calm
      /\ (Over => Over') /\ (main # "begin" => Over')
      /\ \A g \in HubThreads : g # h => hub'[g] = hub[g]
    BY <1>0 DEF HubThreads, Calm, Over, Moves
<1>1. TypeOK'
    BY <1>0, <1>a DEF IInv, TypeOK, RunStatus, Moves
<1>2. StatusByStage'
    BY <1>0, <1>a DEF IInv, StatusByStage
<1>3. HandlersByStage'
    BY <1>0, <1>a DEF IInv, HandlersByStage
<1>4. CallsByRound'
    BY <1>0, <1>a DEF IInv, CallsByRound, Moves
<1>5. CalmStart'
    BY <1>0, <1>a DEF IInv, CalmStart, Moves
<1>6. CalmRun'
    BY <1>0, <1>a DEF IInv, CalmRun, Moves
<1>7. CalmSignal'
    BY <1>0, <1>a DEF IInv, CalmSignal, CalmStart
<1>8. ClosesOnce'
    BY <1>0, <1>a DEF IInv, ClosesOnce, Moves
<1> QED BY <1>1, <1>2, <1>3, <1>4, <1>5, <1>6, <1>7, <1>8 DEF IInv

LEMMA StopFinishStep ==
    ASSUME IInv, UNCHANGED setting, main # "ended", NEW h \in HubThreads, StopFinish(h)
    PROVE  IInv'
<1>0. /\ hub[h].pc = "finish" /\ hub[h].todo # <<>>
      /\ hubStatus' = "Exit" /\ closed' = closed + 1
      /\ Moves(h, "call", Tail(hub[h].todo))
      /\ UNCHANGED <<setting, main, status, exitResult, netStatus, msgs, stopHandlers,
                      restartable, worker, listener, sigint, events>>
  <2>1. hub[h].todo \in Seq(Handlers) /\ "call" \in HubPcs
      BY DEF IInv, TypeOK, HubPcs
  <2>2. hub[h].pc = "finish" /\ hub[h].todo # <<>>
      BY DEF StopFinish, IInv, CallsByRound
  <2>3. Tail(hub[h].todo) \in Seq(Handlers)
      BY <2>1, <2>2, HandlersLeft
  <2> QED BY <2>1, <2>2, <2>3, HubSet DEF StopFinish, NextHandler, IInv, mainVars, handlerVars, sourceVars
<1>a. /\ HubThreads' = HubThreads /\ Calm' = Calm /\ Over' = Over
      /\ \A g \in HubThreads : g # h => hub'[g] = hub[g]
    BY <1>0 DEF HubThreads, Calm, Over, Moves
<1>1. TypeOK'
    BY <1>0, <1>a DEF IInv, TypeOK, RunStatus, Moves
<1>2. StatusByStage'
    BY <1>0, <1>a DEF IInv, StatusByStage
<1>3. HandlersByStage'
    BY <1>0, <1>a DEF IInv, HandlersByStage
<1>4. CallsByRound'
    BY <1>0, <1>a, Sequences DEF IInv, CallsByRound, Moves
<1>5. CalmStart'
    BY <1>0, <1>a DEF IInv, CalmStart, Moves
<1>6. CalmRun'
    BY <1>0, <1>a DEF IInv, CalmRun, Moves
<1>7. CalmSignal'
    BY <1>0, <1>a DEF IInv, CalmSignal
<1>8. ClosesOnce'
  <2>1. SUFFICES ASSUME HubThreads = {h} PROVE ClosesOnce'
      BY <1>a DEF ClosesOnce
  <2>2. closed' = 1 /\ (Over \/ main \in {"begin", "loop"})
      BY <1>0, <2>1 DEF IInv, ClosesOnce
  <2>3. ~Over => hub'[h].todo \in {<<>>, Net}
      BY <1>0, Sequences DEF IInv, CallsByRound, Moves
  <2>4. hub'[h].pc = "call" /\ hubStatus' = "Exit" /\ UNCHANGED main
      BY <1>0 DEF Moves
  <2> QED BY <1>a, <2>1, <2>2, <2>3, <2>4 DEF ClosesOnce
<1> QED BY <1>1, <1>2, <1>3, <1>4, <1>5, <1>6, <1>7, <1>8 DEF IInv

LEMMA NetExitStep ==
    ASSUME IInv, UNCHANGED setting, main # "ended", NEW h \in HubThreads, NetExit(h)
    PROVE  IInv'
<1>0. /\ hub[h].pc = "call" /\ hub[h].todo # <<>> /\ Head(hub[h].todo) = "net"
      /\ netStatus' = "Exit"
      /\ Moves(h, "call", Tail(hub[h].todo))
      /\ UNCHANGED <<setting, main, status, exitResult, hubStatus, msgs, stopHandlers,
                      restartable, worker, listener, sigint, events, closed>>
  <2>1. hub[h].todo \in Seq(Handlers) /\ "call" \in HubPcs
      BY DEF IInv, TypeOK, HubPcs
  <2>2. hub[h].todo # <<>> => Tail(hub[h].todo) \in Seq(Handlers)
      BY <2>1, HandlersLeft
  <2> QED BY <2>1, <2>2, HubSet DEF NetExit, Calling, NextHandler, IInv, mainVars, handlerVars, sourceVars
<1>a. /\ HubThreads' = HubThreads /\ Calm' = Calm /\ Over' = Over
      /\ \A g \in HubThreads : g # h => hub'[g] = hub[g]
    BY <1>0 DEF HubThreads, Calm, Over, Moves
<1>1. TypeOK'
    BY <1>0, <1>a DEF IInv, TypeOK, RunStatus, Moves
<1>2. StatusByStage'
    BY <1>0, <1>a DEF IInv, StatusByStage
<1>3. HandlersByStage'
    BY <1>0, <1>a DEF IInv, HandlersByStage
<1>4. CallsByRound'
    BY <1>0, <1>a, Sequences DEF IInv, CallsByRound, Moves
<1>5. CalmStart'
    BY <1>0, <1>a DEF IInv, CalmStart, Moves
<1>6. CalmRun'
    BY <1>0, <1>a, Sequences DEF IInv, CalmRun, Moves
<1>7. CalmSignal'
    BY <1>0, <1>a DEF IInv, CalmSignal
<1>8. ClosesOnce'
    BY <1>0, <1>a, Sequences DEF IInv, ClosesOnce, Moves
<1> QED BY <1>1, <1>2, <1>3, <1>4, <1>5, <1>6, <1>7, <1>8 DEF IInv

-----------------------------------------------------------------------------
LEMMA InitStep == Init => IInv
<1> SUFFICES ASSUME Init PROVE IInv
    OBVIOUS
<1> USE DEF Init, HubThreads, InitStages
<1>1. TypeOK
  <2>1. <<>> \in Seq({"Start", "Stop", "Restart"}) /\ <<>> \in Seq(Handlers) /\ Len(<<>>) <= 4
      OBVIOUS
  <2>2. hub \in [HubThreads -> [pc : HubPcs, todo : Seq(Handlers)]]
      BY <2>1 DEF HubPcs
  <2>3. worker \in [Workers -> {"none", "created", "loop", "gone"}]
      OBVIOUS
  <2>4. events \in 0..MaxEvents
      BY MaxEventsAssumption
  <2> HIDE DEF HubThreads
  <2> QED BY <2>1, <2>2, <2>3, <2>4 DEF TypeOK, RunStatus
<1>2. StatusByStage /\ HandlersByStage /\ CallsByRound
    BY DEF StatusByStage, HandlersByStage, CallsByRound, Over
<1>3. CalmStart /\ CalmRun /\ CalmSignal /\ ClosesOnce
    BY DEF CalmStart, CalmRun, CalmSignal, ClosesOnce
<1> QED BY <1>1, <1>2, <1>3 DEF IInv

LEMMA AnyHubStep ==
    ASSUME IInv, UNCHANGED setting, main # "ended", NEW h \in HubThreads, HubStep(h)
    PROVE  IInv'
BY HubPollStep, HubMissStep, HandleStartStep, HandleRestartStep, DispatchStopStep,
   HandlersDoneStep, StopCheckStep, StopMarkStep, StopFinishStep, NetExitStep DEF HubStep

LEMMA NextStep == IInv /\ [Next]_vars => IInv'
<1> SUFFICES ASSUME IInv, [Next]_vars PROVE IInv'
    OBVIOUS
<1>1. CASE Next
  <2>1. main # "ended" /\ UNCHANGED setting
      BY <1>1 DEF Next
  <2>2. CASE MainStep
      BY <2>1, <2>2, InitHubStep, InitHandlersStep, InitEpollStep, InitNetworkStep, InitNodeStep,
         InitFailsStep, RunCheckStep, RunBeginStep, RunReturnStep DEF MainStep
  <2>3. CASE \E w \in Workers : WorkerStep(w)
      BY <2>1, <2>3, AnyWorkerStep
  <2>4. CASE Listens \/ ListenFails
      BY <2>1, <2>4, ListenerStep
  <2>5. CASE SigintPost \/ SigintRead
      BY <2>1, <2>5, SigintStep
  <2>6. CASE SigintWrite
      BY <2>1, <2>6, SigintWriteStep
  <2>7. CASE \E h \in HubThreads : HubStep(h)
      BY <2>1, <2>7, AnyHubStep
  <2> QED BY <1>1, <2>2, <2>3, <2>4, <2>5, <2>6, <2>7 DEF Next
<1>2. CASE UNCHANGED vars
  <2>1. TypeOK' /\ StatusByStage' /\ HandlersByStage' /\ CallsByRound'
      BY <1>2 DEF vars, IInv, TypeOK, StatusByStage, HandlersByStage, CallsByRound, Over, HubThreads
  <2>2. CalmStart' /\ CalmRun' /\ CalmSignal' /\ ClosesOnce'
      BY <1>2 DEF vars, IInv, CalmStart, CalmRun, CalmSignal, ClosesOnce, Calm, Over, HubThreads
  <2> QED BY <2>1, <2>2 DEF IInv
<1> QED BY <1>1, <1>2

\* The inductive invariant holds in every reachable state: how far Initialize
\* and Run() are determines the handlers registered, and these what a thread of
\* the hub has left to call.
THEOREM LifecycleInvariant == Spec => []IInv
<1>1. Init => IInv
    BY InitStep
<1>2. IInv /\ [Next]_vars => IInv'
    BY NextStep
<1> QED BY <1>1, <1>2, PTL DEF Spec

\* A service that Run() believes to be running, with no stop asked for before,
\* has its message hub and its network running (OnProgramStopEventHandler marks
\* the service before it ends them).
THEOREM ServingServiceIsUp == Spec => []ServingMeansUp
<1>1. IInv => ServingMeansUp
    BY DEF IInv, CalmRun, ServingMeansUp
<1> QED BY <1>1, LifecycleInvariant, PTL

\* With one thread in the hub the module library is closed at most once,
\* however many stops are asked for and in whatever stage of the service.
THEOREM ModuleIsClosedOnce == Spec => []ModuleClosedOnce
<1>1. IInv => ModuleClosedOnce
  <2> SUFFICES ASSUME IInv, Cardinality(HubThreads) = 1 PROVE closed <= 1
      BY DEF ModuleClosedOnce
  <2>1. IsFiniteSet(HubThreads)
      BY SettingsAssumption DEF IInv, TypeOK, HubThreads
  <2>2. PICK h : HubThreads = {h}
      BY <2>1, FS_Singleton
  <2> QED BY <2>2 DEF IInv, ClosesOnce
<1> QED BY <1>1, LifecycleInvariant, PTL
=============================================================================
