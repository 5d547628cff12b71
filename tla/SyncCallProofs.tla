--------------------------- MODULE SyncCallProofs ---------------------------
(* Proofs about SyncCall, for every number of callers and of calls: a       *)
(* response finds the call that waits for it, and a call returns the whole  *)
(* answer to its own request or "Timeout". The invariant IInv of SyncCall   *)
(* is inductive; there is one lemma per action, with a step per part.       *)
(*                                                                          *)
(* The ids of the calls come from the generator of module Snowflake, whose  *)
(* theorems follow at the end: ids increase and do not run ahead of the     *)
(* clock, for every number of threads, width of the sequence field and      *)
(* course of the clock.                                                     *)
EXTENDS SyncCall, Snowflake, TLAPS

(* A caller that is in a call has an id for it. *)
LEMMA CurrentCall ==
  ASSUME IInv, NEW c \in Callers, pc[c] # "idle"
  PROVE  cur[c] \in Calls
  BY SyncCallAssumption DEF IInv, TypeOK, IdsAreOwn, Calls

(* Nothing is in use before a call begins. *)
LEMMA InitStep == Init => IInv
<1> SUFFICES ASSUME Init PROVE IInv
  OBVIOUS
<1> USE DEF Init, Calls
<1>1. TypeOK
  BY SyncCallAssumption DEF TypeOK, Pcs
<1>2. IdsAreOwn
  BY SyncCallAssumption DEF IdsAreOwn
<1>3. SentMeansSaved
  BY DEF SentMeansSaved
<1>4. NotifiedMeansAnswered
  BY DEF NotifiedMeansAnswered
<1>5. ResponsesFindTheirCall /\ OutcomeIsOwn
  BY DEF ResponsesFindTheirCall, OutcomeIsOwn
<1> QED
  BY <1>1, <1>2, <1>3, <1>4, <1>5 DEF IInv

(* The id is new, so nothing is known of it. *)
LEMMA BeginStep ==
  ASSUME IInv, NEW c \in Callers, Begin(c)
  PROVE  IInv'
<1> USE DEF TypeOK, Calls, Pcs, Begin, Goto
<1>1. TypeOK'
  BY SyncCallAssumption DEF IInv, IdsAreOwn
<1>2. IdsAreOwn'
  BY SyncCallAssumption DEF IInv, IdsAreOwn
<1>3. SentMeansSaved'
  BY SyncCallAssumption DEF IInv, IdsAreOwn, SentMeansSaved
<1>4. NotifiedMeansAnswered'
  BY DEF IInv, IdsAreOwn, SentMeansSaved, NotifiedMeansAnswered
<1>5. ResponsesFindTheirCall'
  BY DEF IInv, ResponsesFindTheirCall
<1>6. OutcomeIsOwn'
  BY DEF IInv, IdsAreOwn, NotifiedMeansAnswered, OutcomeIsOwn
<1> QED
  BY <1>1, <1>2, <1>3, <1>4, <1>5, <1>6 DEF IInv

(* A request without a callback is plain from the beginning. *)
LEMMA PostStep ==
  ASSUME IInv, NEW c \in Callers, Post(c)
  PROVE  IInv'
<1> USE DEF TypeOK, Calls, Pcs, Post
<1>1. TypeOK'
  BY SyncCallAssumption DEF IInv, IdsAreOwn
<1>2. IdsAreOwn'
  BY SyncCallAssumption DEF IInv, IdsAreOwn
<1>3. SentMeansSaved'
  BY DEF IInv, IdsAreOwn, SentMeansSaved
<1>4. NotifiedMeansAnswered'
  BY DEF IInv, IdsAreOwn, SentMeansSaved, NotifiedMeansAnswered
<1>5. ResponsesFindTheirCall'
  BY DEF IInv, ResponsesFindTheirCall
<1>6. OutcomeIsOwn'
  BY DEF IInv, IdsAreOwn, NotifiedMeansAnswered, OutcomeIsOwn
<1> QED
  BY <1>1, <1>2, <1>3, <1>4, <1>5, <1>6 DEF IInv

(* What is saved was not sent yet, and no response took it. *)
LEMMA RegisterStep ==
  ASSUME IInv, NEW c \in Callers, Register(c)
  PROVE  IInv'
<1> USE DEF TypeOK, Calls, Pcs, Register, Goto
<1>0. cur[c] \in Calls
  BY CurrentCall
<1>1. TypeOK'
  BY <1>0, SyncCallAssumption DEF IInv
<1>2. IdsAreOwn'
  BY SyncCallAssumption DEF IInv, IdsAreOwn
<1>3. SentMeansSaved'
  <2>1. CASE up
    <3>1. task[cur[c]] = "none" /\ cur[c] \notin requests \cup responses
      BY DEF IInv, SentMeansSaved
    <3> QED
      BY <1>0, <2>1, <3>1 DEF IInv, SentMeansSaved
  <2>2. CASE ~up
    BY <2>2 DEF IInv, SentMeansSaved
  <2> QED
    BY <2>1, <2>2
<1>4. NotifiedMeansAnswered'
  BY DEF IInv, IdsAreOwn, SentMeansSaved, NotifiedMeansAnswered
<1>5. ResponsesFindTheirCall'
  BY DEF IInv, ResponsesFindTheirCall
<1>6. OutcomeIsOwn'
  BY DEF IInv, IdsAreOwn, NotifiedMeansAnswered, OutcomeIsOwn
<1> QED
  BY <1>1, <1>2, <1>3, <1>4, <1>5, <1>6 DEF IInv

(* The request goes out when its call is saved, and the call of another   *)
(* caller is another one.                                                 *)
LEMMA SendStep ==
  ASSUME IInv, NEW c \in Callers, Send(c)
  PROVE  IInv'
<1> USE DEF TypeOK, Calls, Pcs, Send, Goto
<1>0. cur[c] \in Calls
  BY CurrentCall
<1>1. TypeOK'
  BY <1>0, SyncCallAssumption DEF IInv
<1>2. IdsAreOwn'
  BY SyncCallAssumption DEF IInv, IdsAreOwn
<1>3. SentMeansSaved'
  <2>1. cur[c] \in temp /\ cur[c] \notin requests \cup responses
    BY DEF IInv, SentMeansSaved
  <2>2. \A d \in Callers \ {c} : pc[d] # "idle" => cur[d] # cur[c]
    BY <1>0, SyncCallAssumption DEF IInv, IdsAreOwn
  <2> QED
    BY <1>0, <2>1, <2>2 DEF IInv, SentMeansSaved
<1>4. NotifiedMeansAnswered'
  BY DEF IInv, IdsAreOwn, SentMeansSaved, NotifiedMeansAnswered
<1>5. ResponsesFindTheirCall'
  BY DEF IInv, ResponsesFindTheirCall
<1>6. OutcomeIsOwn'
  BY DEF IInv, IdsAreOwn, NotifiedMeansAnswered, OutcomeIsOwn
<1> QED
  BY <1>1, <1>2, <1>3, <1>4, <1>5, <1>6 DEF IInv

(* Waiting changes the place of the caller only. *)
LEMMA WaitStep ==
  ASSUME IInv, NEW c \in Callers, Wait(c)
  PROVE  IInv'
<1> USE DEF TypeOK, Calls, Pcs, Wait, Goto
<1>1. TypeOK'
  BY SyncCallAssumption DEF IInv, IdsAreOwn
<1>2. IdsAreOwn'
  BY SyncCallAssumption DEF IInv, IdsAreOwn
<1>3. SentMeansSaved'
  BY DEF IInv, IdsAreOwn, SentMeansSaved
<1>4. NotifiedMeansAnswered'
  BY DEF IInv, IdsAreOwn, SentMeansSaved, NotifiedMeansAnswered
<1>5. ResponsesFindTheirCall'
  BY DEF IInv, ResponsesFindTheirCall
<1>6. OutcomeIsOwn'
  BY DEF IInv, IdsAreOwn, NotifiedMeansAnswered, OutcomeIsOwn
<1> QED
  BY <1>1, <1>2, <1>3, <1>4, <1>5, <1>6 DEF IInv

(* A notified caller finds the whole answer. *)
LEMMA WakeStep ==
  ASSUME IInv, NEW c \in Callers, Wake(c)
  PROVE  IInv'
<1> USE DEF TypeOK, Calls, Pcs, Wake, Return, Goto
<1>1. TypeOK'
  BY SyncCallAssumption DEF IInv, IdsAreOwn
<1>2. IdsAreOwn'
  BY SyncCallAssumption DEF IInv, IdsAreOwn
<1>3. SentMeansSaved'
  BY DEF IInv, IdsAreOwn, SentMeansSaved
<1>4. NotifiedMeansAnswered'
  BY DEF IInv, IdsAreOwn, SentMeansSaved, NotifiedMeansAnswered
<1>5. ResponsesFindTheirCall'
  BY DEF IInv, ResponsesFindTheirCall
<1>6. OutcomeIsOwn'
  BY DEF IInv, IdsAreOwn, NotifiedMeansAnswered, OutcomeIsOwn
<1> QED
  BY <1>1, <1>2, <1>3, <1>4, <1>5, <1>6 DEF IInv

(* A call that times out stays saved: its response still finds it. *)
LEMMA TimeoutStep ==
  ASSUME IInv, NEW c \in Callers, Timeout(c)
  PROVE  IInv'
<1> USE DEF TypeOK, Calls, Pcs, Timeout, Return, Goto
<1>1. TypeOK'
  BY SyncCallAssumption DEF IInv, IdsAreOwn
<1>2. IdsAreOwn'
  BY SyncCallAssumption DEF IInv, IdsAreOwn
<1>3. SentMeansSaved'
  BY DEF IInv, IdsAreOwn, SentMeansSaved
<1>4. NotifiedMeansAnswered'
  BY DEF IInv, IdsAreOwn, SentMeansSaved, NotifiedMeansAnswered
<1>5. ResponsesFindTheirCall'
  BY DEF IInv, ResponsesFindTheirCall
<1>6. OutcomeIsOwn'
  BY DEF IInv, IdsAreOwn, NotifiedMeansAnswered, OutcomeIsOwn
<1> QED
  BY <1>1, <1>2, <1>3, <1>4, <1>5, <1>6 DEF IInv

(* A wait that ends for no reason is the one case that shows less. *)
LEMMA WakeSpuriouslyStep ==
  ASSUME IInv, NEW c \in Callers, WakeSpuriously(c)
  PROVE  IInv'
<1> USE DEF TypeOK, Calls, Pcs, WakeSpuriously, Return, Goto
<1>0. cur[c] \in Calls
  BY CurrentCall
<1>1. TypeOK'
  <2>1. outcome' \in [Calls -> {"none", "Timeout", "invalid", "half", "answer"}]
    BY <1>0 DEF IInv
  <2>2. cur' \in [Callers -> 0 .. MaxCalls] /\ pc' \in [Callers -> Pcs]
    BY SyncCallAssumption DEF IInv
  <2> QED
    BY <1>0, <2>1, <2>2 DEF IInv
<1>2. IdsAreOwn'
  BY SyncCallAssumption DEF IInv, IdsAreOwn
<1>3. SentMeansSaved'
  BY DEF IInv, IdsAreOwn, SentMeansSaved
<1>4. NotifiedMeansAnswered'
  BY DEF IInv, IdsAreOwn, SentMeansSaved, NotifiedMeansAnswered
<1>5. ResponsesFindTheirCall'
  BY DEF IInv, ResponsesFindTheirCall
<1>6. OutcomeIsOwn'
  BY DEF IInv, IdsAreOwn, NotifiedMeansAnswered, OutcomeIsOwn
<1> QED
  BY <1>1, <1>2, <1>3, <1>4, <1>5, <1>6 DEF IInv

(* The response is on its way instead of the request. *)
LEMMA ServeStep ==
  ASSUME IInv, NEW r \in Calls, Serve(r)
  PROVE  IInv'
<1> USE DEF TypeOK, Calls, Pcs, Serve
<1>1. TypeOK'
  BY SyncCallAssumption DEF IInv, IdsAreOwn
<1>2. IdsAreOwn'
  BY SyncCallAssumption DEF IInv, IdsAreOwn
<1>3. SentMeansSaved'
  BY DEF IInv, IdsAreOwn, SentMeansSaved
<1>4. NotifiedMeansAnswered'
  BY DEF IInv, IdsAreOwn, SentMeansSaved, NotifiedMeansAnswered
<1>5. ResponsesFindTheirCall'
  BY DEF IInv, ResponsesFindTheirCall
<1>6. OutcomeIsOwn'
  BY DEF IInv, IdsAreOwn, NotifiedMeansAnswered, OutcomeIsOwn
<1> QED
  BY <1>1, <1>2, <1>3, <1>4, <1>5, <1>6 DEF IInv

(* A response that finds no call is one to a plain request. *)
LEMMA OnResponseStep ==
  ASSUME IInv, NEW r \in Calls, OnResponse(r)
  PROVE  IInv'
<1> USE DEF TypeOK, Calls, Pcs, OnResponse
<1>0. r \in plain \cup temp /\ r \notin requests
  BY DEF IInv, SentMeansSaved
<1>1. TypeOK'
  BY SyncCallAssumption DEF IInv, IdsAreOwn
<1>2. IdsAreOwn'
  BY SyncCallAssumption DEF IInv, IdsAreOwn
<1>3. SentMeansSaved'
  <2>1. \A c \in Callers : pc[c] \in {"called", "registered"} => cur[c] # r
    BY DEF IInv, SentMeansSaved
  <2>2. requests' = requests /\ responses' = responses \ {r} /\ temp' = temp \ {r}
    OBVIOUS
  <2>3. \A q \in Calls : q # r => task'[q] = task[q]
    BY DEF IInv
  <2>4. \A q \in temp' : task'[q] = "none"
    BY <2>2, <2>3 DEF IInv, SentMeansSaved
  <2>5. \A c \in Callers : pc[c] = "called" => task'[cur[c]] = "none"
    BY <2>1, <2>3, CurrentCall DEF IInv, SentMeansSaved
  <2> QED
    BY <1>0, <2>1, <2>2, <2>4, <2>5 DEF IInv, SentMeansSaved
<1>4. NotifiedMeansAnswered'
  <2>1. r \in temp => task[r] = "none"
    BY DEF IInv, SentMeansSaved
  <2>2. \A c \in notified : cur[c] \in Calls /\ task'[cur[c]] = "done"
    BY <2>1, CurrentCall DEF IInv, NotifiedMeansAnswered
  <2>3. \A q \in Calls : task'[q] \in {"content", "done"} => shared[q] = "answer"
    BY <2>1 DEF IInv, NotifiedMeansAnswered
  <2> QED
    BY <2>2, <2>3 DEF IInv, NotifiedMeansAnswered
<1>5. ResponsesFindTheirCall'
  BY <1>0 DEF IInv, ResponsesFindTheirCall
<1>6. OutcomeIsOwn'
  BY DEF IInv, IdsAreOwn, NotifiedMeansAnswered, OutcomeIsOwn
<1> QED
  BY <1>1, <1>2, <1>3, <1>4, <1>5, <1>6 DEF IInv

(* Nobody was notified of a call whose answer is only begun. *)
LEMMA SetResultStep ==
  ASSUME IInv, NEW r \in Calls, SetResult(r)
  PROVE  IInv'
<1> USE DEF TypeOK, Calls, Pcs, SetResult
<1>1. TypeOK'
  BY SyncCallAssumption DEF IInv, IdsAreOwn
<1>2. IdsAreOwn'
  BY SyncCallAssumption DEF IInv, IdsAreOwn
<1>3. SentMeansSaved'
  BY DEF IInv, IdsAreOwn, SentMeansSaved
<1>4. NotifiedMeansAnswered'
  BY DEF IInv, IdsAreOwn, SentMeansSaved, NotifiedMeansAnswered
<1>5. ResponsesFindTheirCall'
  BY DEF IInv, ResponsesFindTheirCall
<1>6. OutcomeIsOwn'
  BY DEF IInv, IdsAreOwn, NotifiedMeansAnswered, OutcomeIsOwn
<1> QED
  BY <1>1, <1>2, <1>3, <1>4, <1>5, <1>6 DEF IInv

(* The answer is complete. *)
LEMMA SetContentStep ==
  ASSUME IInv, NEW r \in Calls, SetContent(r)
  PROVE  IInv'
<1> USE DEF TypeOK, Calls, Pcs, SetContent
<1>1. TypeOK'
  BY SyncCallAssumption DEF IInv, IdsAreOwn
<1>2. IdsAreOwn'
  BY SyncCallAssumption DEF IInv, IdsAreOwn
<1>3. SentMeansSaved'
  BY DEF IInv, IdsAreOwn, SentMeansSaved
<1>4. NotifiedMeansAnswered'
  BY DEF IInv, IdsAreOwn, SentMeansSaved, NotifiedMeansAnswered
<1>5. ResponsesFindTheirCall'
  BY DEF IInv, ResponsesFindTheirCall
<1>6. OutcomeIsOwn'
  BY DEF IInv, IdsAreOwn, NotifiedMeansAnswered, OutcomeIsOwn
<1> QED
  BY <1>1, <1>2, <1>3, <1>4, <1>5, <1>6 DEF IInv

(* Only the caller that waits for this call is notified. *)
LEMMA NotifyOneStep ==
  ASSUME IInv, NEW r \in Calls, NotifyOne(r)
  PROVE  IInv'
<1> USE DEF TypeOK, Calls, Pcs, NotifyOne
<1>1. TypeOK'
  BY SyncCallAssumption DEF IInv, IdsAreOwn
<1>2. IdsAreOwn'
  BY SyncCallAssumption DEF IInv, IdsAreOwn
<1>3. SentMeansSaved'
  BY DEF IInv, IdsAreOwn, SentMeansSaved
<1>4. NotifiedMeansAnswered'
  BY DEF IInv, IdsAreOwn, SentMeansSaved, NotifiedMeansAnswered
<1>5. ResponsesFindTheirCall'
  BY DEF IInv, ResponsesFindTheirCall
<1>6. OutcomeIsOwn'
  BY DEF IInv, IdsAreOwn, NotifiedMeansAnswered, OutcomeIsOwn
<1> QED
  BY <1>1, <1>2, <1>3, <1>4, <1>5, <1>6 DEF IInv

(* The break loses requests and responses, and no saved call. *)
LEMMA BreakStep ==
  ASSUME IInv, Break
  PROVE  IInv'
<1> USE DEF TypeOK, Calls, Pcs, Break
<1>1. TypeOK'
  BY SyncCallAssumption DEF IInv, IdsAreOwn
<1>2. IdsAreOwn'
  BY SyncCallAssumption DEF IInv, IdsAreOwn
<1>3. SentMeansSaved'
  BY DEF IInv, IdsAreOwn, SentMeansSaved
<1>4. NotifiedMeansAnswered'
  BY DEF IInv, IdsAreOwn, SentMeansSaved, NotifiedMeansAnswered
<1>5. ResponsesFindTheirCall'
  BY DEF IInv, ResponsesFindTheirCall
<1>6. OutcomeIsOwn'
  BY DEF IInv, IdsAreOwn, NotifiedMeansAnswered, OutcomeIsOwn
<1> QED
  BY <1>1, <1>2, <1>3, <1>4, <1>5, <1>6 DEF IInv

(* A step in which nothing happens. *)
LEMMA StutterStep ==
  ASSUME IInv, UNCHANGED vars
  PROVE  IInv'
<1>1. TypeOK' /\ IdsAreOwn' /\ SentMeansSaved'
  BY DEF IInv, TypeOK, IdsAreOwn, SentMeansSaved, vars
<1>2. NotifiedMeansAnswered' /\ ResponsesFindTheirCall' /\ OutcomeIsOwn'
  BY DEF IInv, NotifiedMeansAnswered, ResponsesFindTheirCall, OutcomeIsOwn, vars
<1> QED
  BY <1>1, <1>2 DEF IInv

(* The ids in use are those of calls that began, a request under way is     *)
(* saved until its response comes, and nobody is notified before the answer *)
(* is complete (SendPackage.hpp:55-81, NetworkHub.cpp:152-163, 511-533).    *)
THEOREM CallInvariant == Spec => []IInv
<1>1. Init => IInv
  BY InitStep
<1>2. IInv /\ [Next]_vars => IInv'
  <2> SUFFICES ASSUME IInv, [Next]_vars PROVE IInv'
    OBVIOUS
  <2>1. ASSUME NEW c \in Callers, CallerStep(c) PROVE IInv'
    BY <2>1, BeginStep, PostStep, RegisterStep, SendStep, WaitStep, WakeStep,
       TimeoutStep, WakeSpuriouslyStep DEF CallerStep
  <2>2. ASSUME NEW r \in Calls, CallStep(r) PROVE IInv'
    BY <2>2, ServeStep, OnResponseStep, SetResultStep, SetContentStep, NotifyOneStep
       DEF CallStep
  <2>3. CASE Break
    BY <2>3, BreakStep
  <2>4. CASE UNCHANGED vars
    BY <2>4, StutterStep
  <2> QED
    BY <2>1, <2>2, <2>3, <2>4 DEF Next
<1> QED
  BY <1>1, <1>2, PTL DEF Spec

(* A response always finds the call that waits for it, so only the answers  *)
(* to requests without a callback reach the module (NetworkHub.cpp:511).    *)
THEOREM ResponseFindsCall == Spec => []ResponsesFindTheirCall
  BY CallInvariant, PTL DEF IInv

(* A call never returns half of an answer, or the answer of another call,   *)
(* unless its wait ended for no reason (SendPackage.hpp:55-81).             *)
THEOREM CallReturnsItsOwn == Spec => []OutcomeIsOwn
  BY CallInvariant, PTL DEF IInv

-----------------------------------------------------------------------------
(* The generator of the ids. *)

\* A later millisecond outweighs any sequence number: what makes shifting the
\* timestamp above the sequence bits order the ids by time.
LEMMA IdMonotone ==
    ASSUME NEW a \in Int, NEW b \in Int, a < b
    PROVE  Id(a + 1, 0) <= Id(b, 0)
<1> DEFINE S == SequenceSize
           d == b - (a + 1)
<1>1. S \in Int /\ S >= 1
  BY SnowflakeAssumption DEF SequenceSize
<1>2. d \in Int /\ d >= 0
  OBVIOUS
<1>3. d * S >= 0
  BY <1>1, <1>2
<1>4. (b - Twepoch) * S = (a + 1 - Twepoch) * S + d * S
  BY <1>1, SnowflakeAssumption
<1>5. QED
  BY <1>1, <1>3, <1>4, SnowflakeAssumption DEF Id

\* Ids of a millisecond are below the first id of the next one.
LEMMA IdWithinMillis ==
    ASSUME NEW a \in Int, NEW s \in 0 .. SequenceMask
    PROVE  /\ Id(a, s) \in Int
           /\ Id(a, s) = Id(a, 0) + s
           /\ Id(a, s) < Id(a + 1, 0)
<1> DEFINE S == SequenceSize
<1>1. S \in Int /\ S >= 1 /\ s < S
  BY SnowflakeAssumption DEF SequenceSize
<1>2. (a + 1 - Twepoch) * S = (a - Twepoch) * S + S
  BY <1>1, SnowflakeAssumption
<1>3. (a - Twepoch) * S \in Int
  BY <1>1, SnowflakeAssumption
<1>4. QED
  BY <1>1, <1>2, <1>3, SnowflakeAssumption DEF Id

\* Returning an id above everything issued keeps the order.
LEMMA ReturnKeepsOrder ==
    ASSUME GeneratorInv,
           NEW ts \in Int, NEW s \in 0 .. SequenceMask, ReturnId(ts, s),
           ts \in StartMillis .. clock,
           \A i \in 1 .. Len(issued) : issued[i] < Id(ts, s)
    PROVE  GeneratorInv'
<1> DEFINE id == Id(ts, s)
<1>1. id \in Int /\ id < Id(ts + 1, 0)
  BY IdWithinMillis
<1>2. /\ issued \in Seq(Int) /\ issued' = Append(issued, id)
      /\ clock' = clock /\ last_timestamp' = ts /\ sequence' = s
      /\ lock' = NoThread
  BY DEF GeneratorInv, GeneratorTypeOK, ReturnId
<1> HIDE DEF id
<1>3. /\ issued' \in Seq(Int)
      /\ Len(issued') = Len(issued) + 1
      /\ \A i \in 1 .. Len(issued) : issued'[i] = issued[i]
      /\ issued'[Len(issued) + 1] = id
  BY <1>1, <1>2
<1>4. GeneratorTypeOK'
  BY <1>2, <1>3 DEF GeneratorInv, GeneratorTypeOK
<1>5. IdsStrictlyIncrease'
  <2> SUFFICES ASSUME NEW i \in 1 .. Len(issued'), NEW j \in 1 .. Len(issued'),
                      i < j
               PROVE  issued'[i] < issued'[j]
    BY DEF IdsStrictlyIncrease
  <2>1. i \in 1 .. Len(issued)
    BY <1>2, <1>3
  <2>2. CASE j = Len(issued) + 1
    BY <1>3, <2>1, <2>2 DEF id
  <2>3. CASE j # Len(issued) + 1
    <3>1. j \in 1 .. Len(issued)
      BY <1>2, <1>3, <2>3
    <3>2. QED
      BY <1>3, <2>1, <3>1 DEF GeneratorInv, IdsStrictlyIncrease
  <2>4. QED
    BY <2>2, <2>3
<1>6. ASSUME NEW i \in 1 .. Len(issued')
      PROVE  issued'[i] <= id
  <2>1. CASE i = Len(issued) + 1
    BY <1>1, <1>3, <2>1
  <2>2. CASE i # Len(issued) + 1
    <3>1. i \in 1 .. Len(issued)
      BY <1>2, <1>3, <2>2
    <3>2. issued[i] \in Int /\ issued[i] < id
      BY <1>2, <3>1 DEF id
    <3>3. QED
      BY <1>1, <1>3, <3>1, <3>2
  <2>3. QED
    BY <2>1, <2>2
<1>7. Id(ts + 1, 0)' = Id(ts + 1, 0) /\ Id(ts + 1, 0) \in Int
  <2>1. 0 \in 0 .. SequenceMask /\ ts + 1 \in Int
    BY SnowflakeAssumption
  <2>2. QED
    BY <2>1, IdWithinMillis
<1>8. ASSUME NEW i \in 1 .. Len(issued')
      PROVE  /\ issued'[i] < Id(last_timestamp' + 1, 0)
             /\ issued'[i] <= Id(last_timestamp', sequence')
  <2>1. issued'[i] \in Int
    BY <1>3
  <2>2. QED
    BY <1>1, <1>2, <1>6, <1>7, <2>1 DEF id
<1>9. last_timestamp' # Never
  BY <1>2, SnowflakeAssumption DEF Never
<1>10. lock' = NoThread
  BY <1>2
<1>11. QED
  BY <1>4, <1>5, <1>8, <1>9, <1>10 DEF GeneratorInv

(* The generator's invariant, with its type correctness: everything issued  *)
(* lies before the first id of the next millisecond (snowflake.h, nextid).  *)
THEOREM GeneratorInvariant == GeneratorSpec => []GeneratorInv
<1> USE SnowflakeAssumption
<1>1. GeneratorInit => GeneratorInv
  BY DEF GeneratorInit, GeneratorInv, GeneratorTypeOK, IdsStrictlyIncrease, Never
<1>2. GeneratorInv /\ [GeneratorNext]_generatorVars => GeneratorInv'
  <2> SUFFICES ASSUME GeneratorInv, [GeneratorNext]_generatorVars
               PROVE  GeneratorInv'
    OBVIOUS
  <2>1. /\ clock \in StartMillis .. MaxMillis /\ clock \in Int
        /\ sequence \in 0 .. SequenceMask
        /\ issued \in Seq(Int)
        /\ 0 \in 0 .. SequenceMask
    BY DEF GeneratorInv, GeneratorTypeOK
  <2>2. CASE Tick
    BY <2>1, <2>2 DEF GeneratorInv, GeneratorTypeOK, IdsStrictlyIncrease, Tick, Id, SequenceSize
  <2>3. ASSUME NEW t \in Threads, NextIdNewMillis(t)
        PROVE  GeneratorInv'
    <3>1. \A i \in 1 .. Len(issued) : issued[i] < Id(clock, 0)
      <4> SUFFICES ASSUME NEW i \in 1 .. Len(issued)
                   PROVE  issued[i] < Id(clock, 0)
        OBVIOUS
      <4>1. last_timestamp \in Int /\ last_timestamp < clock
        BY <2>1, <2>3 DEF NextIdNewMillis, GeneratorInv, GeneratorTypeOK
      <4>2. Id(last_timestamp + 1, 0) <= Id(clock, 0)
        BY <2>1, <4>1, IdMonotone
      <4>3. issued[i] < Id(last_timestamp + 1, 0) /\ issued[i] \in Int
        BY <2>1 DEF GeneratorInv
      <4>4. last_timestamp + 1 \in Int
        BY <4>1
      <4>5. Id(last_timestamp + 1, 0) \in Int /\ Id(clock, 0) \in Int
        BY <2>1, <4>4, IdWithinMillis
      <4>6. QED
        BY <4>2, <4>3, <4>5
    <3>2. QED
      BY <2>1, <2>3, <3>1, ReturnKeepsOrder DEF NextIdNewMillis
  <2>4. ASSUME NEW t \in Threads, NextIdSameMillis(t)
        PROVE  GeneratorInv'
    <3>1. /\ NextSequence = sequence + 1
          /\ NextSequence \in 0 .. SequenceMask
      BY <2>1, <2>4 DEF NextIdSameMillis, NextSequence, SequenceSize
    <3>2. \A i \in 1 .. Len(issued) : issued[i] < Id(clock, NextSequence)
      <4> SUFFICES ASSUME NEW i \in 1 .. Len(issued)
                   PROVE  issued[i] < Id(clock, NextSequence)
        OBVIOUS
      <4>1. issued[i] <= Id(clock, sequence) /\ issued[i] \in Int
        BY <2>1, <2>4 DEF NextIdSameMillis, GeneratorInv
      <4>2. /\ Id(clock, sequence) = Id(clock, 0) + sequence
            /\ Id(clock, NextSequence) = Id(clock, 0) + NextSequence
            /\ Id(clock, 0) \in Int
        BY <2>1, <3>1, IdWithinMillis
      <4>3. QED
        BY <2>1, <3>1, <4>1, <4>2
    <3>3. ReturnId(clock, NextSequence) /\ clock \in StartMillis .. clock
      BY <2>1, <2>4 DEF NextIdSameMillis
    <3>4. QED
      BY <2>1, <3>1, <3>2, <3>3, ReturnKeepsOrder
  <2>5. ASSUME NEW t \in Threads, NextIdExhausted(t)
        PROVE  GeneratorInv'
    BY <2>1, <2>5 DEF NextIdExhausted, GeneratorInv, GeneratorTypeOK, IdsStrictlyIncrease, Id, SequenceSize
  <2>6. ASSUME NEW t \in Threads, WaitNextMillis(t)
        PROVE  GeneratorInv'
    <3>1. \A i \in 1 .. Len(issued) : issued[i] < Id(clock, sequence)
      <4> SUFFICES ASSUME NEW i \in 1 .. Len(issued)
                   PROVE  issued[i] < Id(clock, sequence)
        OBVIOUS
      <4>1. last_timestamp \in Int /\ last_timestamp < clock /\ sequence = 0
        BY <2>1, <2>6 DEF WaitNextMillis, GeneratorInv, GeneratorTypeOK, Never
      <4>2. Id(last_timestamp + 1, 0) <= Id(clock, 0)
        BY <2>1, <4>1, IdMonotone
      <4>3. issued[i] < Id(last_timestamp + 1, 0) /\ issued[i] \in Int
        BY <2>1 DEF GeneratorInv
      <4>4. last_timestamp + 1 \in Int
        BY <4>1
      <4>5. Id(last_timestamp + 1, 0) \in Int /\ Id(clock, 0) \in Int
        BY <2>1, <4>4, IdWithinMillis
      <4>6. QED
        BY <4>1, <4>2, <4>3, <4>5
    <3>2. ReturnId(clock, sequence) /\ clock \in StartMillis .. clock
      BY <2>1, <2>6 DEF WaitNextMillis
    <3>3. QED
      BY <2>1, <3>1, <3>2, ReturnKeepsOrder
  <2>7. CASE UNCHANGED generatorVars
    BY <2>7 DEF generatorVars, GeneratorInv, GeneratorTypeOK, IdsStrictlyIncrease, Id, SequenceSize
  <2>8. QED
    BY <2>2, <2>3, <2>4, <2>5, <2>6, <2>7 DEF GeneratorNext, nextid
<1>3. QED
  BY <1>1, <1>2, PTL DEF GeneratorSpec

(* No id is handed out twice and none goes back, whichever threads ask      *)
(* (snowflake.h, nextid and wait_next_millis).                              *)
THEOREM IdsIncrease == GeneratorSpec => []IdsStrictlyIncrease
<1>1. GeneratorInv => IdsStrictlyIncrease
  BY DEF GeneratorInv
<1>2. QED
  BY <1>1, GeneratorInvariant, PTL

(* Ids stay below those of any later millisecond: a caller that waits takes *)
(* the time of the clock (snowflake.h, wait_next_millis).                   *)
THEOREM IdsBoundedByClock == GeneratorSpec => []IdsNotFromTheFuture
<1>1. GeneratorInv => IdsNotFromTheFuture
  <2> SUFFICES ASSUME GeneratorInv, NEW i \in 1 .. Len(issued)
               PROVE  issued[i] < Id(clock + 1, 0)
    BY DEF IdsNotFromTheFuture
  <2>1. /\ last_timestamp \in Int /\ clock \in Int
        /\ last_timestamp < clock + 1
        /\ last_timestamp + 1 \in Int /\ clock + 1 \in Int
        /\ 0 \in 0 .. SequenceMask
    BY SnowflakeAssumption DEF GeneratorInv, GeneratorTypeOK, Never
  <2>2. Id(last_timestamp + 1, 0) <= Id(clock + 1, 0)
    BY <2>1, IdMonotone
  <2>3. Id(last_timestamp + 1, 0) \in Int /\ Id(clock + 1, 0) \in Int
    BY <2>1, IdWithinMillis
  <2>4. issued[i] < Id(last_timestamp + 1, 0) /\ issued[i] \in Int
    BY DEF GeneratorInv, GeneratorTypeOK
  <2>5. QED
    BY <2>2, <2>3, <2>4
<1>2. QED
  BY <1>1, GeneratorInvariant, PTL
=============================================================================
