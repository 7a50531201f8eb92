------------------------------- MODULE ResPool -------------------------------
(***************************************************************************)
(* A resource pool of the gateway (gx/gxrespool.py) on its three gxqueues  *)
(* (gx/gxqueue.py), as a DestConnPool (gx/gxdestconn.py) uses it.          *)
(*                                                                         *)
(* A pool owns a bounded queue of free resources, a queue of requests and  *)
(* a queue of privileged requests.  One monitor thread takes a resource,   *)
(* then a request, and starts a worker thread that runs the request on the *)
(* resource; the worker releases the resource.  Callers add requests, an   *)
(* administrator assigns an operation ("clean") to be done once on every   *)
(* resource, and the shutdown stops the monitor with dummy entries.        *)
(*                                                                         *)
(* The interpreter switches threads between bytecodes, so an action reads  *)
(* or writes the shared state at one point of the code; what a thread      *)
(* reads and uses later is in pc, monRes, monReq, work and tmp.  A worker  *)
(* is named by the resource it runs on.  Strings put in a queue to wake    *)
(* the monitor are all the value Dummy: the code tests their type only.    *)
(***************************************************************************)
EXTENDS Naturals, Sequences, FiniteSets

CONSTANTS Resources,            \* the resources buildAllResources creates
          Requests,             \* requests the callers may add
          PrivRequests,         \* privileged ("kill") requests workers may add
          MaxRequests,          \* bound of requestsQueue, 0 for none
          PrivMax,              \* bound of privRequestsQueue
          MaxOps,               \* bound on accepted assignOperation calls
          MaxRefusals,          \* bound on refused assignOperation calls
          ReleaseOutcomes,      \* what releaseResource may find or build
          HasShutdownResources, \* does the pool class define that method?
          Monitor, Dummy, None

MaxRes == Cardinality(Resources)

Outcomes == {"sane", "rebuilt", "gone"}

ASSUME PoolAssumption ==
  /\ IsFiniteSet(Resources) /\ Resources # {}
  /\ MaxRequests \in Nat /\ PrivMax \in Nat /\ MaxOps \in Nat /\ MaxRefusals \in Nat
  /\ ReleaseOutcomes \subseteq Outcomes
  /\ HasShutdownResources \in BOOLEAN
  /\ Requests \cap PrivRequests = {}
  /\ Monitor \notin Resources
  /\ Dummy \notin Resources \cup Requests \cup PrivRequests
  /\ None \notin Resources \cup Requests \cup PrivRequests \cup {Dummy}

VARIABLES
  resourcesQueue,           \* free resources; Dummy and None only at shutdown
  resQOpen,                 \* b_openGet and b_openPut of that queue
  requestsQueue,
  privRequestsQueue,
  b_open, b_stopThread,     \* isOpen() is b_open and not b_stopThread
  operationToDo,            \* is there an operation to do?
  ctrResDone,
  tStampOperation,          \* number of assignOperation stamps so far
  tStampLastOper,           \* resource -> stamp in force at its last operation
  b_processingPrivRequest,  \* resource -> flag
  pc,                       \* control point of the monitor and of each worker
  tmp,                      \* ctrResDone as each thread read it
  monRes, monReq,           \* locals res and request of processOneRequest
  monRet,                   \* where the monitor goes after a release
  work,                     \* resource -> the request its worker runs
  kill,                     \* resource -> the kill request its worker queues
  stage,                    \* request -> where it is
  admin,                    \* control point of the assignOperation call
  opsAccepted, opsRefused,
  stopper, stopCtr,         \* control point and loop index of the shutdown
  stopItem,                 \* what its loop got out of resourcesQueue
  overtaken,                \* history: normal requests started while a
                            \* privileged request was queued
  startedAfterStop          \* history: requests started after b_stopThread

queues == <<resourcesQueue, resQOpen, requestsQueue, privRequestsQueue>>
flags  == <<b_open, b_stopThread>>
opvars == <<operationToDo, ctrResDone, tStampOperation, tStampLastOper, tmp>>
monvars == <<monRes, monReq, monRet>>
adminvars == <<admin, opsAccepted, opsRefused>>
stopvars == <<stopper, stopCtr, stopItem>>
history == <<overtaken, startedAfterStop>>
vars == <<queues, flags, opvars, monvars, adminvars, stopvars, history,
          b_processingPrivRequest, pc, work, kill, stage>>

-----------------------------------------------------------------------------
AllRequests == Requests \cup PrivRequests
Threads     == Resources \cup {Monitor}
ResItems    == Resources \cup {Dummy, None}

\* The resource thread t holds while it releases it.
Held(t) == IF t = Monitor THEN monRes ELSE t

\* gxqueue.put on a queue with a bound of max entries, 0 for none, finds room.
HasRoom(queue, max) == max = 0 \/ Len(queue) < max

\* gxqueue.put(item, block=0): a full queue drops the item (returns -2).
PutNoWait(queue, item, max) == IF HasRoom(queue, max) THEN Append(queue, item) ELSE queue

Goto(t, label) == pc' = [pc EXCEPT ![t] = label]

Stage(q, s) == stage' = [stage EXCEPT ![q] = s]

Init ==
  /\ \E order \in [1..MaxRes -> Resources] :
       /\ \A i, j \in 1..MaxRes : order[i] = order[j] => i = j
       /\ resourcesQueue = order
  /\ resQOpen = TRUE
  /\ requestsQueue = <<>> /\ privRequestsQueue = <<>>
  /\ b_open = TRUE /\ b_stopThread = FALSE
  /\ operationToDo = FALSE /\ ctrResDone = 0 /\ tStampOperation = 0
  /\ tStampLastOper = [r \in Resources |-> 0]
  /\ b_processingPrivRequest = [r \in Resources |-> FALSE]
  /\ pc = [t \in Threads |-> IF t = Monitor THEN "loop" ELSE "idle"]
  /\ tmp = [t \in Threads |-> 0]
  /\ monRes = None /\ monReq = None /\ monRet = "loop"
  /\ work = [r \in Resources |-> None]
  /\ kill = [r \in Resources |-> None]
  /\ stage = [q \in AllRequests |-> "new"]
  /\ admin = "idle" /\ opsAccepted = 0 /\ opsRefused = 0
  /\ stopper = "idle" /\ stopCtr = 0 /\ stopItem = None
  /\ overtaken = [p \in PrivRequests |-> 0]
  /\ startedAfterStop = 0

-----------------------------------------------------------------------------
(* Callers: isOpen(), then addRequest(). *)

IsOpen(q) ==
  /\ stage[q] = "new"
  /\ Stage(q, IF b_open /\ ~b_stopThread THEN "adding" ELSE "rejected")
  /\ UNCHANGED <<queues, flags, opvars, monvars, adminvars, stopvars, history,
                 b_processingPrivRequest, pc, work, kill>>

AddRequestCheckStop(q) ==
  /\ stage[q] = "adding"
  /\ Stage(q, IF b_stopThread THEN "rejected" ELSE "checked")
  /\ UNCHANGED <<queues, flags, opvars, monvars, adminvars, stopvars, history,
                 b_processingPrivRequest, pc, work, kill>>

AddRequestCheckFull(q) ==
  /\ stage[q] = "checked"
  /\ Stage(q, IF HasRoom(requestsQueue, MaxRequests) THEN "putting" ELSE "rejected")
  /\ UNCHANGED <<queues, flags, opvars, monvars, adminvars, stopvars, history,
                 b_processingPrivRequest, pc, work, kill>>

\* The put blocks: the queue may have filled up since it was checked.
AddRequestPut(q) ==
  /\ stage[q] = "putting"
  /\ HasRoom(requestsQueue, MaxRequests)
  /\ requestsQueue' = Append(requestsQueue, q)
  /\ Stage(q, "queued")
  /\ UNCHANGED <<resourcesQueue, resQOpen, privRequestsQueue, flags, opvars, monvars,
                 adminvars, stopvars, history, b_processingPrivRequest, pc, work, kill>>

\* "gate open|close <dest>": the operator changes b_open.  Once the shutdown has
\* begun b_open is not read without b_stopThread: its value no longer matters.
AssignOpenStatus(open) ==
  /\ stopper = "idle"
  /\ b_open' = open
  /\ UNCHANGED <<queues, b_stopThread, opvars, monvars, adminvars, stopvars, history,
                 b_processingPrivRequest, pc, work, kill, stage>>

-----------------------------------------------------------------------------
(* The monitor thread: runThread() and processOneRequest(). *)

MonitorUnchanged == UNCHANGED <<flags, opvars, adminvars, stopvars, kill>>

MonitorLoop ==
  /\ pc[Monitor] = "loop"
  /\ Goto(Monitor, IF b_stopThread THEN "down" ELSE "getRes")
  /\ UNCHANGED <<queues, monvars, history, b_processingPrivRequest, work, stage>>
  /\ MonitorUnchanged

\* gxqueue.get(): None when closed, else it blocks until there is an item.
BlockingGetRes ==
  IF resQOpen
  THEN /\ resourcesQueue # <<>>
       /\ monRes' = Head(resourcesQueue)
       /\ resourcesQueue' = Tail(resourcesQueue)
  ELSE /\ monRes' = None
       /\ UNCHANGED resourcesQueue

MonitorGetRes ==
  /\ pc[Monitor] = "getRes"
  /\ BlockingGetRes
  /\ Goto(Monitor, "checkStop")
  /\ UNCHANGED <<resQOpen, requestsQueue, privRequestsQueue, monReq, monRet, history,
                 b_processingPrivRequest, work, stage>>
  /\ MonitorUnchanged

\* Mutant: the normal queue is looked at before the privileged one.
MutNormalFirst ==
  /\ pc[Monitor] = "checkStop"
  /\ Goto(Monitor, IF b_stopThread THEN "putBack"
                   ELSE IF requestsQueue # <<>> THEN "getReq" ELSE "getPriv")
  /\ UNCHANGED <<queues, monvars, history, b_processingPrivRequest, work, stage>>
  /\ MonitorUnchanged

MonitorCheckStop ==
  /\ pc[Monitor] = "checkStop"
  /\ Goto(Monitor, IF b_stopThread THEN "putBack" ELSE "getPriv")
  /\ UNCHANGED <<queues, monvars, history, b_processingPrivRequest, work, stage>>
  /\ MonitorUnchanged

\* resourcesQueue.put(res): refused when closed, else it blocks while full.
MonitorPutBack ==
  /\ pc[Monitor] = "putBack"
  /\ IF resQOpen
     THEN /\ HasRoom(resourcesQueue, MaxRes)
          /\ resourcesQueue' = Append(resourcesQueue, monRes)
     ELSE UNCHANGED resourcesQueue
  /\ monRes' = None
  /\ Goto(Monitor, "loop")
  /\ UNCHANGED <<resQOpen, requestsQueue, privRequestsQueue, monReq, monRet, history,
                 b_processingPrivRequest, work, stage>>
  /\ MonitorUnchanged

MonitorTakePriv ==
  /\ pc[Monitor] = "getPriv"
  /\ privRequestsQueue # <<>>
  /\ monReq' = Head(privRequestsQueue)
  /\ privRequestsQueue' = Tail(privRequestsQueue)
  /\ Stage(Head(privRequestsQueue), "taken")
  /\ b_processingPrivRequest' = [b_processingPrivRequest EXCEPT ![monRes] = TRUE]
  /\ Goto(Monitor, "spawn")
  /\ UNCHANGED <<resourcesQueue, resQOpen, requestsQueue, monRes, monRet, history, work>>
  /\ MonitorUnchanged

MonitorNoPriv ==
  /\ pc[Monitor] = "getPriv"
  /\ privRequestsQueue = <<>>
  /\ Goto(Monitor, "getReq")
  /\ UNCHANGED <<queues, monvars, history, b_processingPrivRequest, work, stage>>
  /\ MonitorUnchanged

\* Mutant: the request is read but not removed.
MutPeekRequest ==
  /\ pc[Monitor] = "getReq"
  /\ requestsQueue # <<>>
  /\ monReq' = Head(requestsQueue)
  /\ stage' = IF Head(requestsQueue) = Dummy THEN stage
              ELSE [stage EXCEPT ![Head(requestsQueue)] = "taken"]
  /\ Goto(Monitor, "checkStop2")
  /\ UNCHANGED <<queues, monRes, monRet, history, b_processingPrivRequest, work>>
  /\ MonitorUnchanged

MonitorGetRequest ==
  /\ pc[Monitor] = "getReq"
  /\ requestsQueue # <<>>
  /\ monReq' = Head(requestsQueue)
  /\ requestsQueue' = Tail(requestsQueue)
  /\ stage' = IF Head(requestsQueue) = Dummy THEN stage
              ELSE [stage EXCEPT ![Head(requestsQueue)] = "taken"]
  /\ Goto(Monitor, "checkStop2")
  /\ UNCHANGED <<resourcesQueue, resQOpen, privRequestsQueue, monRes, monRet, history,
                 b_processingPrivRequest, work>>
  /\ MonitorUnchanged

\* The monitor gives up a request: nothing answers it.
DropMonReq ==
  /\ stage' = IF monReq \in AllRequests THEN [stage EXCEPT ![monReq] = "dropped"] ELSE stage
  /\ monReq' = None
  /\ monRes' = None

\* When the pool is stopping, neither the request nor the resource is put back.
MonitorCheckStop2 ==
  /\ pc[Monitor] = "checkStop2"
  /\ IF b_stopThread
     THEN DropMonReq /\ Goto(Monitor, "loop")
     ELSE Goto(Monitor, "oper") /\ UNCHANGED <<stage, monReq, monRes>>
  /\ UNCHANGED <<queues, monRet, history, b_processingPrivRequest, work>>
  /\ MonitorUnchanged

\* Mutant: the time stamps are not compared.
MutOperationIsDue(r) == operationToDo

\* res.tStampLastOper < pool.tStampOperation, of an operation still to do.
OperationIsDue(r) == operationToDo /\ tStampLastOper[r] < tStampOperation

\* while operationToDo and res and res.tStampLastOper < tStampOperation.  A
\* string has no tStampLastOper: the exception ends the thread.
MonitorOper ==
  /\ pc[Monitor] = "oper"
  /\ \/ /\ monRes = Dummy /\ operationToDo
        /\ DropMonReq
        /\ Goto(Monitor, "down")
        /\ UNCHANGED monRet
     \/ /\ monRes \in Resources /\ OperationIsDue(monRes)
        /\ Goto(Monitor, "ext")
        /\ monRet' = "operGet"
        /\ UNCHANGED <<stage, monReq, monRes>>
     \/ /\ monRes = Dummy => ~operationToDo
        /\ monRes \in Resources => ~OperationIsDue(monRes)
        /\ Goto(Monitor, IF monRes = None THEN "getRes2" ELSE "assign")
        /\ UNCHANGED <<stage, monReq, monRes, monRet>>
  /\ UNCHANGED <<queues, history, b_processingPrivRequest, work>>
  /\ MonitorUnchanged

\* resourcesQueue.get(block=0) in the inner loop.
MonitorOperGet ==
  /\ pc[Monitor] = "operGet"
  /\ resQOpen /\ resourcesQueue # <<>>
  /\ monRes' = Head(resourcesQueue)
  /\ resourcesQueue' = Tail(resourcesQueue)
  /\ Goto(Monitor, IF Head(resourcesQueue) = None THEN "operGet" ELSE "oper")
  /\ UNCHANGED <<resQOpen, requestsQueue, privRequestsQueue, monReq, monRet, history,
                 b_processingPrivRequest, work, stage>>
  /\ MonitorUnchanged

\* Five empty gets, one millisecond apart: the inner loop gives up.
MonitorOperGiveUp ==
  /\ pc[Monitor] = "operGet"
  /\ resQOpen => resourcesQueue = <<>>
  /\ Goto(Monitor, "oper")
  /\ UNCHANGED <<queues, monvars, history, b_processingPrivRequest, work, stage>>
  /\ MonitorUnchanged

MonitorGetRes2 ==
  /\ pc[Monitor] = "getRes2"
  /\ BlockingGetRes
  /\ Goto(Monitor, "assign")
  /\ UNCHANGED <<resQOpen, requestsQueue, privRequestsQueue, monReq, monRet, history,
                 b_processingPrivRequest, work, stage>>
  /\ MonitorUnchanged

\* Mutant: the flag that the previous request left is not reset.
MutFlagKept ==
  /\ pc[Monitor] = "assign"
  /\ Goto(Monitor, IF monRes \in Resources THEN "spawn" ELSE "down")
  /\ IF monRes \in Resources THEN UNCHANGED <<stage, monReq, monRes>> ELSE DropMonReq
  /\ UNCHANGED <<queues, monRet, history, work, b_processingPrivRequest>>
  /\ MonitorUnchanged

\* res.b_processingPrivRequest = 0, which raises on a string or on None and
\* ends the thread.
MonitorAssign ==
  /\ pc[Monitor] = "assign"
  /\ IF monRes \in Resources
     THEN /\ b_processingPrivRequest' = [b_processingPrivRequest EXCEPT ![monRes] = FALSE]
          /\ Goto(Monitor, "spawn")
          /\ UNCHANGED <<stage, monReq, monRes>>
     ELSE /\ DropMonReq
          /\ Goto(Monitor, "down")
          /\ UNCHANGED b_processingPrivRequest
  /\ UNCHANGED <<queues, monRet, history, work>>
  /\ MonitorUnchanged

\* spawnRequestThread() with a dummy request: release the resource, do nothing.
SpawnDummy ==
  /\ pc[Monitor] = "spawn"
  /\ monReq = Dummy
  /\ monReq' = None
  /\ monRet' = "loop"
  /\ Goto(Monitor, "release")
  /\ UNCHANGED <<queues, monRes, history, b_processingPrivRequest, work, stage>>
  /\ MonitorUnchanged

\* Mutant: having started a worker, the monitor goes on with the next free
\* resource and does not test b_stopThread again.
MutSpawnInBatch ==
  /\ pc[Monitor] = "spawn"
  /\ monReq # Dummy
  /\ work' = [work EXCEPT ![monRes] = monReq]
  /\ Stage(monReq, "running")
  /\ monReq' = None
  /\ IF resourcesQueue # <<>> /\ Head(resourcesQueue) \in Resources
     THEN /\ monRes' = Head(resourcesQueue)
          /\ resourcesQueue' = Tail(resourcesQueue)
          /\ pc' = [pc EXCEPT ![Monitor] = "getPriv", ![monRes] = "run"]
     ELSE /\ monRes' = None
          /\ pc' = [pc EXCEPT ![Monitor] = "loop", ![monRes] = "run"]
          /\ UNCHANGED resourcesQueue
  /\ startedAfterStop' = IF b_stopThread THEN startedAfterStop + 1 ELSE startedAfterStop
  /\ UNCHANGED <<resQOpen, requestsQueue, privRequestsQueue, overtaken, monRet,
                 b_processingPrivRequest>>
  /\ MonitorUnchanged

\* res.processRequest(request) starts the worker thread.
SpawnRequestThread ==
  /\ pc[Monitor] = "spawn"
  /\ monReq # Dummy
  /\ work' = [work EXCEPT ![monRes] = monReq]
  /\ Stage(monReq, "running")
  /\ pc' = [pc EXCEPT ![Monitor] = "loop", ![monRes] = "run"]
  /\ monRes' = None /\ monReq' = None
  /\ overtaken' = [p \in PrivRequests |->
       IF monReq \in Requests /\ stage[p] = "queued" THEN overtaken[p] + 1 ELSE overtaken[p]]
  /\ startedAfterStop' = IF b_stopThread THEN startedAfterStop + 1 ELSE startedAfterStop
  /\ UNCHANGED <<queues, monRet, b_processingPrivRequest>>
  /\ MonitorUnchanged

\* Mutant: processRequest() raises after the worker has started, and the
\* monitor releases the resource all the same.
MutReleaseTwice ==
  /\ pc[Monitor] = "spawn"
  /\ monReq # Dummy
  /\ monRet' = "failed"
  /\ work' = [work EXCEPT ![monRes] = monReq]
  /\ pc' = [pc EXCEPT ![Monitor] = "release", ![monRes] = "run"]
  /\ UNCHANGED <<queues, monRes, monReq, history, b_processingPrivRequest, stage>>
  /\ MonitorUnchanged

\* Mutant: the resource of a request that fails to start is not released.
MutFailKeepsResource ==
  /\ pc[Monitor] = "spawn"
  /\ monReq # Dummy
  /\ monRes' = None
  /\ Goto(Monitor, "failed")
  /\ UNCHANGED <<queues, monReq, monRet, history, b_processingPrivRequest, work, stage>>
  /\ MonitorUnchanged

\* processRequest() raises: the resource is released and then the client is
\* put back in the poll list, with no reply.
SpawnFails ==
  /\ pc[Monitor] = "spawn"
  /\ monReq # Dummy
  /\ monRet' = "failed"
  /\ Goto(Monitor, "release")
  /\ UNCHANGED <<queues, monRes, monReq, history, b_processingPrivRequest, work, stage>>
  /\ MonitorUnchanged

RequestFailed ==
  /\ pc[Monitor] = "failed"
  /\ Stage(monReq, "failed")
  /\ monReq' = None
  /\ Goto(Monitor, "loop")
  /\ UNCHANGED <<queues, monRes, monRet, history, b_processingPrivRequest, work>>
  /\ MonitorUnchanged

-----------------------------------------------------------------------------
(* releaseResource() and putResInQueueExt(), by a worker or by the monitor. *)

ReleaseUnchanged == UNCHANGED <<flags, adminvars, stopvars, history>>

\* The resource is still good, or a new one takes its place (created now, so
\* no operation is due on it), or createNewResource() fails and it is gone.
ReleaseResource(t, outcome) ==
  /\ pc[t] = "release"
  /\ stage' = IF t # Monitor THEN [stage EXCEPT ![work[t]] = "done"] ELSE stage
  /\ work'  = IF t # Monitor THEN [work EXCEPT ![t] = None] ELSE work
  /\ tStampLastOper' = IF outcome = "rebuilt"
                       THEN [tStampLastOper EXCEPT ![Held(t)] = tStampOperation]
                       ELSE tStampLastOper
  /\ b_processingPrivRequest' = IF outcome = "rebuilt"
                       THEN [b_processingPrivRequest EXCEPT ![Held(t)] = FALSE]
                       ELSE b_processingPrivRequest
  /\ IF outcome = "gone"
     THEN /\ pc' = IF t = Monitor THEN [pc EXCEPT ![t] = monRet, ![monRes] = "gone"]
                                  ELSE [pc EXCEPT ![t] = "gone"]
          /\ monRes' = IF t = Monitor THEN None ELSE monRes
     ELSE /\ Goto(t, "ext")
          /\ UNCHANGED monRes
  /\ UNCHANGED <<queues, operationToDo, ctrResDone, tStampOperation, tmp, monReq, monRet, kill>>
  /\ ReleaseUnchanged

PutResInQueueExt(t) ==
  /\ pc[t] = "ext"
  /\ Goto(t, IF OperationIsDue(Held(t)) THEN "doOper" ELSE "put")
  /\ UNCHANGED <<queues, opvars, monvars, b_processingPrivRequest, work, kill, stage>>
  /\ ReleaseUnchanged

\* doOperation_Protected(res), res.tStampLastOper = now, and the read of
\* ctrResDone in ctrResDone = ctrResDone + 1.
DoOperation(t) ==
  /\ pc[t] = "doOper"
  /\ tStampLastOper' = [tStampLastOper EXCEPT ![Held(t)] = tStampOperation]
  /\ tmp' = [tmp EXCEPT ![t] = ctrResDone]
  /\ Goto(t, "count")
  /\ UNCHANGED <<queues, operationToDo, ctrResDone, tStampOperation, monvars,
                 b_processingPrivRequest, work, kill, stage>>
  /\ ReleaseUnchanged

CountResDone(t) ==
  /\ pc[t] = "count"
  /\ ctrResDone' = tmp[t] + 1
  /\ Goto(t, "testDone")
  /\ UNCHANGED <<queues, operationToDo, tStampOperation, tStampLastOper, tmp, monvars,
                 b_processingPrivRequest, work, kill, stage>>
  /\ ReleaseUnchanged

TestAllDone(t) ==
  /\ pc[t] = "testDone"
  /\ Goto(t, IF ctrResDone >= MaxRes THEN "clear" ELSE "put")
  /\ UNCHANGED <<queues, opvars, monvars, b_processingPrivRequest, work, kill, stage>>
  /\ ReleaseUnchanged

OperationCompleted(t) ==
  /\ pc[t] = "clear"
  /\ operationToDo' = FALSE
  /\ Goto(t, "put")
  /\ UNCHANGED <<queues, ctrResDone, tStampOperation, tStampLastOper, tmp, monvars,
                 b_processingPrivRequest, work, kill, stage>>
  /\ ReleaseUnchanged

\* resourcesQueue.put(res): refused when closed, else it blocks while full.
PutResource(t) ==
  /\ pc[t] = "put"
  /\ IF resQOpen
     THEN /\ HasRoom(resourcesQueue, MaxRes)
          /\ resourcesQueue' = Append(resourcesQueue, Held(t))
     ELSE UNCHANGED resourcesQueue
  /\ Goto(t, IF t = Monitor THEN monRet ELSE "idle")
  /\ monRes' = IF t = Monitor THEN None ELSE monRes
  /\ UNCHANGED <<resQOpen, requestsQueue, privRequestsQueue, opvars, monReq, monRet,
                 b_processingPrivRequest, work, kill, stage>>
  /\ ReleaseUnchanged

-----------------------------------------------------------------------------
(* Worker threads: the request runs, and may have to kill the peer process. *)

WorkerUnchanged == UNCHANGED <<flags, opvars, monvars, adminvars, stopvars, history,
                               b_processingPrivRequest, work>>

WorkerEnds(r) ==
  /\ pc[r] = "run"
  /\ Goto(r, "release")
  /\ UNCHANGED <<queues, kill, stage>>
  /\ WorkerUnchanged

\* assignOutcomeOfUse(b_dirty=1, b_kill=1) on a resource that is not
\* processing a privileged request: queueRPCtoCleanUpPeerResource().
WorkerKills(r, p) ==
  /\ pc[r] = "run"
  /\ ~b_processingPrivRequest[r]
  /\ stage[p] = "new"
  /\ kill' = [kill EXCEPT ![r] = p]
  /\ Stage(p, "adding")
  /\ Goto(r, "addPriv")
  /\ UNCHANGED queues
  /\ WorkerUnchanged

\* addPrivRequest(): the stop and the full tests; its answer is ignored.
AddPrivRequestCheck(r) ==
  /\ pc[r] = "addPriv"
  /\ IF b_stopThread \/ ~HasRoom(privRequestsQueue, PrivMax)
     THEN Stage(kill[r], "rejected") /\ Goto(r, "release")
     ELSE UNCHANGED stage /\ Goto(r, "putPriv")
  /\ UNCHANGED <<queues, kill>>
  /\ WorkerUnchanged

AddPrivRequestPut(r) ==
  /\ pc[r] = "putPriv"
  /\ HasRoom(privRequestsQueue, PrivMax)
  /\ privRequestsQueue' = Append(privRequestsQueue, kill[r])
  /\ Stage(kill[r], "queued")
  /\ Goto(r, "kick")
  /\ UNCHANGED <<resourcesQueue, resQOpen, requestsQueue, kill>>
  /\ WorkerUnchanged

\* Mutants: the dummy goes to the queue of the privileged requests, or to that
\* of the resources; there is none; the request at hand is queued again with it.
MutKickPrivQueue(r) ==
  /\ pc[r] = "kick"
  /\ privRequestsQueue' = PutNoWait(privRequestsQueue, Dummy, PrivMax)
  /\ Goto(r, "release")
  /\ UNCHANGED <<resourcesQueue, resQOpen, requestsQueue, kill, stage>>
  /\ WorkerUnchanged

MutKickResQueue(r) ==
  /\ pc[r] = "kick"
  /\ resourcesQueue' = PutNoWait(resourcesQueue, Dummy, MaxRes)
  /\ Goto(r, "release")
  /\ UNCHANGED <<resQOpen, requestsQueue, privRequestsQueue, kill, stage>>
  /\ WorkerUnchanged

MutNoKick(r) ==
  /\ pc[r] = "kick"
  /\ Goto(r, "release")
  /\ UNCHANGED <<queues, kill, stage>>
  /\ WorkerUnchanged

MutKickRetries(r) ==
  /\ pc[r] = "kick"
  /\ requestsQueue' = PutNoWait(requestsQueue, work[r], MaxRequests)
  /\ Goto(r, "release")
  /\ UNCHANGED <<resourcesQueue, resQOpen, privRequestsQueue, kill, stage>>
  /\ WorkerUnchanged

\* A dummy request unblocks the monitor.
AddPrivRequestKick(r) ==
  /\ pc[r] = "kick"
  /\ requestsQueue' = PutNoWait(requestsQueue, Dummy, MaxRequests)
  /\ Goto(r, "release")
  /\ UNCHANGED <<resourcesQueue, resQOpen, privRequestsQueue, kill, stage>>
  /\ WorkerUnchanged

-----------------------------------------------------------------------------
(* assignOperation(), by the thread that runs the operator's "clean". *)

AdminUnchanged == UNCHANGED <<flags, monvars, stopvars, history, tStampLastOper, tmp,
                              b_processingPrivRequest, pc, work, kill, stage>>

AssignOperation(b_force) ==
  /\ admin = "idle"
  /\ IF operationToDo /\ ~b_force /\ ctrResDone < MaxRes
     THEN /\ opsRefused < MaxRefusals
          /\ opsRefused' = opsRefused + 1
          /\ UNCHANGED <<admin, opsAccepted>>
     ELSE /\ opsAccepted < MaxOps
          /\ opsAccepted' = opsAccepted + 1
          /\ admin' = "reset"
          /\ UNCHANGED opsRefused
  /\ UNCHANGED <<queues, operationToDo, ctrResDone, tStampOperation>>
  /\ AdminUnchanged

AssignOperationReset ==
  /\ admin = "reset"
  /\ ctrResDone' = 0
  /\ admin' = "oper"
  /\ UNCHANGED <<queues, operationToDo, tStampOperation, opsAccepted, opsRefused>>
  /\ AdminUnchanged

AssignOperationOper ==
  /\ admin = "oper"
  /\ operationToDo' = TRUE
  /\ admin' = "stamp"
  /\ UNCHANGED <<queues, ctrResDone, tStampOperation, opsAccepted, opsRefused>>
  /\ AdminUnchanged

AssignOperationStamp ==
  /\ admin = "stamp"
  /\ tStampOperation' = tStampOperation + 1
  /\ admin' = "kick"
  /\ UNCHANGED <<queues, operationToDo, ctrResDone, opsAccepted, opsRefused>>
  /\ AdminUnchanged

AssignOperationKick ==
  /\ admin = "kick"
  /\ requestsQueue' = PutNoWait(requestsQueue, Dummy, MaxRequests)
  /\ admin' = "idle"
  /\ UNCHANGED <<resourcesQueue, resQOpen, privRequestsQueue, operationToDo, ctrResDone,
                 tStampOperation, opsAccepted, opsRefused>>
  /\ AdminUnchanged

-----------------------------------------------------------------------------
(* StopAllResPools(): assignStopThreadFlagAsTrue(), then shutdownResources(). *)

StopUnchanged == UNCHANGED <<opvars, monvars, adminvars, history,
                             b_processingPrivRequest, pc, work, kill, stage>>

AssignStopThreadFlag ==
  /\ stopper = "idle"
  /\ b_open' = FALSE /\ b_stopThread' = TRUE
  /\ stopper' = "dummyReq"
  /\ UNCHANGED <<queues, stopCtr, stopItem>>
  /\ StopUnchanged

StopPutDummyRequest ==
  /\ stopper = "dummyReq"
  /\ requestsQueue' = PutNoWait(requestsQueue, Dummy, MaxRequests)
  /\ stopper' = "dummyRes"
  /\ UNCHANGED <<resourcesQueue, resQOpen, privRequestsQueue, flags, stopCtr, stopItem>>
  /\ StopUnchanged

StopPutDummyResource ==
  /\ stopper = "dummyRes"
  /\ resourcesQueue' = PutNoWait(resourcesQueue, Dummy, MaxRes)
  /\ stopper' = IF HasShutdownResources THEN "drain" ELSE "end"
  /\ UNCHANGED <<resQOpen, requestsQueue, privRequestsQueue, flags, stopCtr, stopItem>>
  /\ StopUnchanged

\* The body of the loop: get_nowait(), closeConn(), then a put that does not
\* block.  An empty queue gives None, and None is put in it.
ShutdownGet ==
  /\ stopper = "drain"
  /\ stopCtr < MaxRes
  /\ stopItem' = IF resourcesQueue = <<>> THEN None ELSE Head(resourcesQueue)
  /\ resourcesQueue' = IF resourcesQueue = <<>> THEN <<>> ELSE Tail(resourcesQueue)
  /\ stopper' = "put"
  /\ UNCHANGED <<resQOpen, requestsQueue, privRequestsQueue, flags, stopCtr>>
  /\ StopUnchanged

ShutdownPut ==
  /\ stopper = "put"
  /\ resourcesQueue' = PutNoWait(resourcesQueue, stopItem, MaxRes)
  /\ stopItem' = None
  /\ stopper' = "drain"
  /\ stopCtr' = stopCtr + 1
  /\ UNCHANGED <<resQOpen, requestsQueue, privRequestsQueue, flags>>
  /\ StopUnchanged

ShutdownClose ==
  /\ stopper = "drain"
  /\ stopCtr = MaxRes
  /\ resQOpen' = FALSE
  /\ stopper' = "end"
  /\ UNCHANGED <<resourcesQueue, requestsQueue, privRequestsQueue, flags, stopCtr, stopItem>>
  /\ StopUnchanged

-----------------------------------------------------------------------------
MonitorStep ==
  \/ MonitorLoop \/ MonitorGetRes \/ MonitorCheckStop \/ MonitorPutBack
  \/ MonitorTakePriv \/ MonitorNoPriv \/ MonitorGetRequest \/ MonitorCheckStop2
  \/ MonitorOper \/ MonitorOperGet \/ MonitorOperGiveUp \/ MonitorGetRes2
  \/ MonitorAssign \/ SpawnDummy \/ SpawnRequestThread \/ SpawnFails \/ RequestFailed

ReleaseStep(t) ==
  \/ \E outcome \in ReleaseOutcomes : ReleaseResource(t, outcome)
  \/ PutResInQueueExt(t) \/ DoOperation(t) \/ CountResDone(t) \/ TestAllDone(t)
  \/ OperationCompleted(t) \/ PutResource(t)

WorkerStep(r) ==
  \/ WorkerEnds(r)
  \/ \E p \in PrivRequests : WorkerKills(r, p)
  \/ AddPrivRequestCheck(r) \/ AddPrivRequestPut(r) \/ AddPrivRequestKick(r)

CallerStep(q) ==
  IsOpen(q) \/ AddRequestCheckStop(q) \/ AddRequestCheckFull(q) \/ AddRequestPut(q)

AdminStep ==
  \/ \E b_force \in BOOLEAN : AssignOperation(b_force)
  \/ AssignOperationReset \/ AssignOperationOper \/ AssignOperationStamp
  \/ AssignOperationKick

StopStep ==
  \/ AssignStopThreadFlag \/ StopPutDummyRequest \/ StopPutDummyResource
  \/ ShutdownGet \/ ShutdownPut \/ ShutdownClose

Next ==
  \/ MonitorStep
  \/ \E t \in Threads : ReleaseStep(t)
  \/ \E r \in Resources : WorkerStep(r)
  \/ \E q \in Requests : CallerStep(q)
  \/ \E open \in BOOLEAN : AssignOpenStatus(open)
  \/ AdminStep
  \/ StopStep

Spec == Init /\ [][Next]_vars

\* Threads the interpreter schedules keep running; a worker's request ends
\* because its sockets have timeouts.  Callers, the administrator, kills and
\* the stop come from outside and owe nothing, but finish what they began.
Fairness ==
  /\ WF_vars(MonitorStep \/ ReleaseStep(Monitor))
  /\ \A r \in Resources :
       WF_vars(ReleaseStep(r) \/ WorkerEnds(r) \/ AddPrivRequestCheck(r)
               \/ AddPrivRequestPut(r) \/ AddPrivRequestKick(r))
  /\ \A q \in Requests :
       WF_vars(AddRequestCheckStop(q) \/ AddRequestCheckFull(q) \/ AddRequestPut(q))
  /\ WF_vars(AssignOperationReset \/ AssignOperationOper \/ AssignOperationStamp
             \/ AssignOperationKick)
  /\ WF_vars(StopPutDummyRequest \/ StopPutDummyResource \/ ShutdownGet
             \/ ShutdownPut \/ ShutdownClose)

FairSpec == Spec /\ Fairness

-----------------------------------------------------------------------------
(* Properties. *)

MonitorLabels == {"loop", "getRes", "checkStop", "putBack", "getPriv", "getReq",
                  "checkStop2", "oper", "operGet", "getRes2", "assign", "spawn",
                  "failed", "down"}
ReleaseLabels == {"release", "ext", "doOper", "count", "testDone", "clear", "put"}
WorkerLabels  == {"idle", "run", "addPriv", "putPriv", "kick", "gone"}

Stages == {"new", "adding", "checked", "putting", "queued", "taken", "running",
           "done", "rejected", "dropped", "failed"}

QueuesTyped ==
  /\ resourcesQueue \in Seq(ResItems)
  /\ resQOpen \in BOOLEAN
  /\ requestsQueue \in Seq(Requests \cup {Dummy})
  /\ privRequestsQueue \in Seq(PrivRequests)

ThreadsTyped ==
  /\ pc \in [Threads -> MonitorLabels \cup ReleaseLabels \cup WorkerLabels]
  /\ pc[Monitor] \in MonitorLabels \cup ReleaseLabels
  /\ \A r \in Resources : pc[r] \in ReleaseLabels \cup WorkerLabels

LocalsTyped ==
  /\ monRes \in ResItems
  /\ monReq \in AllRequests \cup {Dummy, None}
  /\ monRet \in {"loop", "operGet", "failed"}
  /\ work \in [Resources -> AllRequests \cup {None}]
  /\ kill \in [Resources -> PrivRequests \cup {None}]
  /\ b_processingPrivRequest \in [Resources -> BOOLEAN]

StagesTyped == stage \in [AllRequests -> Stages]

OperationTyped ==
  /\ b_open \in BOOLEAN /\ b_stopThread \in BOOLEAN
  /\ operationToDo \in BOOLEAN
  /\ ctrResDone \in Nat /\ tStampOperation \in Nat
  /\ tStampLastOper \in [Resources -> Nat]
  /\ tmp \in [Threads -> Nat]
  /\ admin \in {"idle", "reset", "oper", "stamp", "kick"}
  /\ opsAccepted \in Nat /\ opsRefused \in Nat

StopTyped ==
  /\ stopper \in {"idle", "dummyReq", "dummyRes", "drain", "put", "end"}
  /\ stopCtr \in 0..MaxRes
  /\ stopItem \in ResItems
  /\ overtaken \in [PrivRequests -> Nat]
  /\ startedAfterStop \in Nat

\* Every variable has its type; in particular the monitor is never at a control
\* point of a worker, nor a worker at one of the monitor.
TypeOK == /\ QueuesTyped /\ ThreadsTyped /\ LocalsTyped
          /\ StagesTyped /\ OperationTyped /\ StopTyped

In(item, queue)   == \E i \in 1..Len(queue) : queue[i] = item
Once(item, queue) == \A i, j \in 1..Len(queue) : queue[i] = item /\ queue[j] = item => i = j

\* No resource is in two hands: it is in the queue at most once, and neither
\* the monitor, nor a worker, nor the shutdown holds it while it is there, nor
\* do two of them hold it.  Two workers on one DestConn would interleave their
\* RPCs on one socket.
ResourceExclusive ==
  \A r \in Resources :
    /\ Once(r, resourcesQueue)
    /\ In(r, resourcesQueue) => pc[r] = "idle" /\ monRes # r /\ stopItem # r
    /\ monRes = r => pc[r] = "idle" /\ stopItem # r
    /\ stopItem = r => pc[r] = "idle"

\* Until the pool is stopped no resource leaks: whatever failed, it is free,
\* held by the monitor or by its worker, or createNewResource() failed.
NoResourceLeak ==
  ~b_stopThread =>
    \A r \in Resources : In(r, resourcesQueue) \/ monRes = r \/ pc[r] # "idle"

\* Until the pool is stopped a thread that releases a resource never blocks in
\* resourcesQueue.put(): the bound of the queue is the number of resources.
ReleaseNeverBlocks ==
  ~b_stopThread => \A t \in Threads : pc[t] = "put" => Len(resourcesQueue) < MaxRes

InOnePlace(q) ==
  /\ stage[q] = "queued" <=> In(q, requestsQueue) \/ In(q, privRequestsQueue)
  /\ Once(q, requestsQueue) /\ Once(q, privRequestsQueue)
  /\ stage[q] = "taken" <=> monReq = q
  /\ stage[q] = "running" <=> \E r \in Resources : work[r] = q
  /\ \A r, s \in Resources : work[r] = q /\ work[s] = q => r = s

\* A request is where its stage says, once: added requests are neither lost
\* nor processed twice.
RequestInOnePlace == \A q \in AllRequests : InOnePlace(q)

\* At most one normal request starts while a privileged one waits: the one the
\* monitor was already about to take when the privileged one was queued.
PrivOvertakenOnce == \A p \in PrivRequests : overtaken[p] <= 1

\* A resource is marked as processing a privileged request exactly when its
\* worker runs one, whatever it ran before: a kill never queues a kill.
PrivFlagTellsRequest ==
  \A r \in Resources :
    pc[r] = "run" => (b_processingPrivRequest[r] <=> work[r] \in PrivRequests)

\* When the only operation assigned is declared completed, it has been done on
\* every resource, also on those that were in use when it was assigned: however
\* counts are lost, ctrResDone never tells more than what was done.
OperationReachesAll ==
  opsAccepted = 1 /\ tStampOperation = 1 /\ ~operationToDo =>
    \A r \in Resources : tStampLastOper[r] = 1

\* Once b_stopThread is set, at most the request the monitor is about to start
\* is started.
StopStartsAtMostOne == startedAfterStop <= 1

\* assignOperation() refuses, saying that the previous operation is not
\* completed, only while some resource is still to be done or counted.
RefusalIsTruthful ==
  [][opsRefused' # opsRefused =>
       \/ \E r \in Resources : tStampLastOper[r] < tStampOperation
       \/ \E t \in Threads : pc[t] \in {"count", "testDone", "clear"}
       \/ admin # "idle"]_vars

\* A queued request is started, unless its start fails, the pool stops or every
\* resource is gone; the kick makes that true of privileged requests too.  (There
\* are finitely many requests, each added once: that none is waiting comes again
\* and again is that each of them is started.)
RequestServed ==
  []<>(\/ \A q \in AllRequests : stage[q] \notin {"queued", "taken", "dropped"}
       \/ b_stopThread
       \/ \A r \in Resources : pc[r] = "gone")

\* The monitor thread exits once b_stopThread is set.
MonitorExits == b_stopThread ~> pc[Monitor] = "down"

-----------------------------------------------------------------------------
(* The pool implements what it promises. *)

PhaseOf(s) ==
  CASE s \in {"new", "adding", "checked", "putting"} -> "outside"
    [] s \in {"queued", "taken"} -> "waiting"
    [] s = "running" -> "running"
    [] s \in {"done", "failed"} -> "ended"
    [] s = "rejected" -> "refused"
    [] s = "dropped" -> "dropped"

AllocOf(r) == IF pc[r] = "gone" THEN Dummy ELSE work[r]

Abstract == INSTANCE ResAllocator
  WITH Free    <- None,
       Gone    <- Dummy,
       alloc   <- [r \in Resources |-> AllocOf(r)],
       phase   <- [q \in AllRequests |-> PhaseOf(stage[q])],
       stopped <- b_stopThread

\* Every behaviour of the pool is one of the allocator's: a request runs at most
\* once, alone on its resource, and is dropped only after a stop.
ImplementsAllocator == Abstract!ASpec
=============================================================================
