------------------------------ MODULE SyncCall ------------------------------
(* A request over one connection and its response (SendPackageEvent,        *)
(* NetworkHub, the temporary data of ControlHub): the caller saves itself   *)
(* under the id of the request, sends it and waits with a time limit; an    *)
(* epoll thread finds the saved event and has the thread pool call it.      *)
(*                                                                          *)
(* The peer answers a request once, or not at all. The connection may       *)
(* break; a new one has another hash and other callers.                     *)
EXTENDS Integers

CONSTANTS
    Callers,        \* threads that call SyncCall
    MaxCalls        \* bound: calls made

ASSUME SyncCallAssumption == MaxCalls \in Nat

VARIABLES
    last,       \* the ids 1 .. last were given to calls
    pc,         \* of a caller
    cur,        \* the call it is in, 0: none
    up,         \* the session is in m_mapConnectIDToSession
    temp,       \* m_oTempDataList: the calls saved under their id
    requests,   \* requests on their way or at the peer
    responses,  \* responses on their way
    task,       \* of the thread pool: what it has done of the callback
    shared,     \* *result and *response_str of a call
    notified,   \* waiting callers whose condition variable was notified
    outcome,    \* what SyncCall returned
    plain,      \* requests sent without a callback
    passed,     \* responses that found no call and went to the module
    spurious    \* history: calls whose wait ended for no reason

vars == <<last, pc, cur, up, temp, requests, responses, task, shared, notified, outcome,
          plain, passed, spurious>>

Calls == 1 .. MaxCalls
Pcs == {"idle", "called", "registered", "sent", "waiting"}

TypeOK ==
    /\ last \in 0 .. MaxCalls
    /\ pc \in [Callers -> Pcs]
    /\ cur \in [Callers -> 0 .. MaxCalls]
    /\ up \in BOOLEAN
    /\ temp \subseteq Calls /\ requests \subseteq Calls /\ responses \subseteq Calls
    /\ task \in [Calls -> {"none", "queued", "result", "content", "done"}]
    /\ shared \in [Calls -> {"invalid", "half", "answer"}]
    /\ notified \subseteq Callers
    /\ outcome \in [Calls -> {"none", "Timeout", "invalid", "half", "answer"}]
    /\ plain \subseteq Calls /\ passed \subseteq Calls /\ spurious \subseteq Calls

Init ==
    /\ last = 0
    /\ pc = [c \in Callers |-> "idle"]
    /\ cur = [c \in Callers |-> 0]
    /\ up = TRUE
    /\ temp = {} /\ requests = {} /\ responses = {}
    /\ task = [r \in Calls |-> "none"]
    /\ shared = [r \in Calls |-> "invalid"]
    /\ notified = {}
    /\ outcome = [r \in Calls |-> "none"]
    /\ plain = {} /\ passed = {} /\ spurious = {}

---------------------------------------------------------------------------
(* The caller. *)

Goto(c, next) == pc' = [pc EXCEPT ![c] = next]

(* SetRequest takes the id, SyncCall makes the shared state. *)
Begin(c) ==
    /\ pc[c] = "idle" /\ last < MaxCalls
    /\ last' = last + 1
    /\ cur' = [cur EXCEPT ![c] = last + 1]
    /\ Goto(c, "called")
    /\ UNCHANGED <<up, temp, requests, responses, task, shared, notified, outcome, plain, passed,
                   spurious>>

(* A request whose answer the module will handle, as the gateway's are.     *)
Post(c) ==
    /\ pc[c] = "idle" /\ last < MaxCalls
    /\ last' = last + 1
    /\ plain' = plain \cup {last + 1}
    /\ requests' = IF up THEN requests \cup {last + 1} ELSE requests
    /\ UNCHANGED <<pc, cur, up, temp, responses, task, shared, notified, outcome, passed,
                   spurious>>

(* Mutant: the event is not saved. *)
Register_NotSaved(c) ==
    /\ pc[c] = "called"
    /\ Goto(c, "registered")
    /\ UNCHANGED <<last, cur, up, temp, requests, responses, task, shared, notified, outcome,
                   plain, passed, spurious>>

(* SendPackageEventHandler: without a session nothing is saved or sent, and *)
(* the caller is not told.                                                  *)
Register(c) ==
    /\ pc[c] = "called"
    /\ \/ up /\ temp' = temp \cup {cur[c]} /\ Goto(c, "registered")
       \/ ~up /\ Goto(c, "sent") /\ UNCHANGED temp
    /\ UNCHANGED <<last, cur, up, requests, responses, task, shared, notified, outcome, plain, passed,
                   spurious>>

(* AddMessageToSendList, which looks for the session again. *)
Send(c) ==
    /\ pc[c] = "registered"
    /\ requests' = IF up THEN requests \cup {cur[c]} ELSE requests
    /\ Goto(c, "sent")
    /\ UNCHANGED <<last, cur, up, temp, responses, task, shared, notified, outcome, plain, passed,
                   spurious>>

(* A notification that came before is not remembered. *)
Wait(c) ==
    /\ pc[c] = "sent"
    /\ Goto(c, "waiting")
    /\ UNCHANGED <<last, cur, up, temp, requests, responses, task, shared, notified, outcome,
                   plain, passed, spurious>>

(* Mutant: the notification of a call that timed out stays. *)
Return_StillNotified(c, result) ==
    /\ outcome' = [outcome EXCEPT ![cur[c]] = result]
    /\ cur' = [cur EXCEPT ![c] = 0]
    /\ UNCHANGED notified
    /\ Goto(c, "idle")

Return(c, result) ==
    /\ outcome' = [outcome EXCEPT ![cur[c]] = result]
    /\ cur' = [cur EXCEPT ![c] = 0]
    /\ notified' = notified \ {c}
    /\ Goto(c, "idle")

Wake(c) ==
    /\ pc[c] = "waiting" /\ c \in notified
    /\ Return(c, shared[cur[c]])
    /\ UNCHANGED <<last, up, temp, requests, responses, task, shared, plain, passed, spurious>>

(* Mutant: the wait has no limit. *)
Timeout_Never(c) == FALSE /\ UNCHANGED vars

(* The event stays saved, and its callback may still run. *)
Timeout(c) ==
    /\ pc[c] = "waiting" /\ c \notin notified
    /\ Return(c, "Timeout")
    /\ UNCHANGED <<last, up, temp, requests, responses, task, shared, plain, passed, spurious>>

(* The condition variable is waited for without a predicate. *)
WakeSpuriously(c) ==
    /\ pc[c] = "waiting" /\ c \notin notified
    /\ Return(c, shared[cur[c]])
    /\ spurious' = spurious \cup {cur[c]}
    /\ UNCHANGED <<last, up, temp, requests, responses, task, shared, plain, passed>>

---------------------------------------------------------------------------
(* The peer and the connection. *)

Serve(r) ==
    /\ r \in requests
    /\ requests' = requests \ {r}
    /\ responses' = responses \cup {r}
    /\ UNCHANGED <<last, pc, cur, up, temp, task, shared, notified, outcome, plain, passed, spurious>>

Break ==
    /\ up
    /\ up' = FALSE
    /\ requests' = {} /\ responses' = {}
    /\ UNCHANGED <<last, pc, cur, temp, task, shared, notified, outcome, plain, passed, spurious>>

---------------------------------------------------------------------------
(* OnDataCanReceive of the hub takes the saved event, and the thread pool   *)
(* calls its callback: two assignments and a notification.                  *)

OnResponse(r) ==
    /\ r \in responses
    /\ responses' = responses \ {r}
    /\ \/ /\ r \in temp
          /\ temp' = temp \ {r}
          /\ task' = [task EXCEPT ![r] = "queued"]
          /\ UNCHANGED passed
       \/ /\ r \notin temp
          /\ passed' = passed \cup {r}
          /\ UNCHANGED <<temp, task>>
    /\ UNCHANGED <<last, pc, cur, up, requests, shared, notified, outcome, plain, spurious>>

SetResult(r) ==
    /\ task[r] = "queued"
    /\ task' = [task EXCEPT ![r] = "result"]
    /\ shared' = [shared EXCEPT ![r] = "half"]
    /\ UNCHANGED <<last, pc, cur, up, temp, requests, responses, notified, outcome, plain, passed,
                   spurious>>

SetContent(r) ==
    /\ task[r] = "result"
    /\ task' = [task EXCEPT ![r] = "content"]
    /\ shared' = [shared EXCEPT ![r] = "answer"]
    /\ UNCHANGED <<last, pc, cur, up, temp, requests, responses, notified, outcome, plain, passed,
                   spurious>>

(* Mutant: the calls share their condition variable. *)
NotifyOne_Shared(r) ==
    /\ task[r] = "content"
    /\ task' = [task EXCEPT ![r] = "done"]
    /\ notified' = notified \cup {c \in Callers : pc[c] = "waiting"}
    /\ UNCHANGED <<last, pc, cur, up, temp, requests, responses, shared, outcome, plain, passed, spurious>>

NotifyOne(r) ==
    /\ task[r] = "content"
    /\ task' = [task EXCEPT ![r] = "done"]
    /\ notified' = notified \cup {c \in Callers : pc[c] = "waiting" /\ cur[c] = r}
    /\ UNCHANGED <<last, pc, cur, up, temp, requests, responses, shared, outcome, plain, passed, spurious>>

CallerStep(c) ==
    \/ Begin(c) \/ Post(c) \/ Register(c) \/ Send(c) \/ Wait(c)
    \/ Wake(c) \/ Timeout(c) \/ WakeSpuriously(c)

CallStep(r) ==
    \/ Serve(r) \/ OnResponse(r) \/ SetResult(r) \/ SetContent(r) \/ NotifyOne(r)

Next ==
    \/ \E c \in Callers : CallerStep(c)
    \/ \E r \in Calls : CallStep(r)
    \/ Break

Spec == Init /\ [][Next]_vars

(* A thread in a call goes on, and its time runs out. Nothing is assumed of *)
(* the peer, of the thread pool or of the connection.                       *)
FairSpec ==
    /\ Spec
    /\ \A c \in Callers :
         WF_vars(Register(c) \/ Send(c) \/ Wait(c) \/ Wake(c) \/ Timeout(c))

---------------------------------------------------------------------------
(* A response always finds the call that waits for it, however late or      *)
(* early it is: only the answers to requests without a callback go to the   *)
(* module's own response handler.                                           *)
ResponsesFindTheirCall == passed \subseteq plain

(* A call returns the whole answer to its own request or "Timeout", also    *)
(* when the answers of calls that timed out come during later calls of the  *)
(* same thread; only a wait that ends for no reason shows something else.   *)
OutcomeIsOwn ==
    \A r \in Calls : outcome[r] \in {"invalid", "half"} => r \in spurious

(* The invariant of the proof, in parts. Ids are given once: a call has its *)
(* own, none is in use before it is given, and plain requests have others.  *)
IdsAreOwn ==
    /\ \A c \in Callers : /\ cur[c] <= last
                          /\ cur[c] = 0 <=> pc[c] = "idle"
                          /\ cur[c] \notin plain
    /\ \A c, d \in Callers : cur[c] = cur[d] /\ cur[c] # 0 => c = d
    /\ \A r \in Calls : last < r =>
         r \notin temp \cup requests \cup responses \cup plain /\ task[r] = "none"

(* A request under way is saved until its response takes the call.          *)
SentMeansSaved ==
    /\ requests \cap responses = {}
    /\ \A r \in requests \cup responses : r \in plain \cup temp
    /\ \A c \in Callers : /\ pc[c] = "registered" => cur[c] \in temp
                          /\ pc[c] \in {"called", "registered"} =>
                               cur[c] \notin requests \cup responses
                          /\ pc[c] = "called" => task[cur[c]] = "none"
    /\ \A r \in temp : task[r] = "none"

(* A caller is notified of its own call, when its answer is complete.       *)
NotifiedMeansAnswered ==
    /\ \A c \in notified : pc[c] = "waiting" /\ task[cur[c]] = "done"
    /\ \A r \in Calls : task[r] \in {"content", "done"} => shared[r] = "answer"

IInv ==
    /\ TypeOK
    /\ IdsAreOwn
    /\ SentMeansSaved
    /\ NotifiedMeansAnswered
    /\ ResponsesFindTheirCall
    /\ OutcomeIsOwn

(* Every call returns, whatever becomes of the connection, of the request   *)
(* and of the answer.                                                       *)
CallsReturn == \A c \in Callers : pc[c] # "idle" ~> pc[c] = "idle"
=============================================================================
