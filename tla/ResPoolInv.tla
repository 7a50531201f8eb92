----------------------------- MODULE ResPoolInv -----------------------------
(***************************************************************************)
(* The inductive invariant of ResPool: what the safety properties need to  *)
(* be proved by induction on the steps.  TLC checks it on an instance,     *)
(* ResPoolProofs proves it.                                                *)
(***************************************************************************)
EXTENDS ResPool

\* Until a stop only resources are in the queue, and it is open; the shutdown
\* has begun exactly when b_stopThread is set.
StopShape ==
  /\ \A x \in ResItems : In(x, resourcesQueue) => x \in Resources \/ b_stopThread
  /\ resQOpen \/ b_stopThread
  /\ stopper # "idle" <=> b_stopThread
  /\ IF stopper = "put" THEN stopCtr < MaxRes ELSE stopItem = None

\* Where the monitor surely has a resource, where it surely has none, and where
\* it has one unless the pool is stopping.
MonResShape ==
  /\ pc[Monitor] \in {"getPriv", "getReq", "checkStop2", "spawn"} \cup ReleaseLabels
       => monRes \in Resources
  /\ pc[Monitor] \in {"loop", "getRes", "operGet", "getRes2", "failed", "down"}
       => monRes = None
  /\ pc[Monitor] \in {"checkStop", "putBack", "assign"} => monRes \in Resources \/ b_stopThread
  /\ pc[Monitor] = "oper" => monRes \in Resources \cup {None} \/ b_stopThread

\* Which request the monitor has in hand: none before it gets one, and never a
\* privileged one on the path of the normal requests.
MonReqShape ==
  /\ pc[Monitor] \in {"loop", "getRes", "checkStop", "putBack", "getPriv", "getReq", "down"}
       => monReq = None
  /\ pc[Monitor] \in {"checkStop2", "oper", "operGet", "getRes2", "assign"}
       => monReq \in Requests \cup {Dummy}
  /\ pc[Monitor] = "spawn" => monReq \in AllRequests \cup {Dummy}
  /\ pc[Monitor] = "failed" => monReq \in AllRequests
  /\ pc[Monitor] \in ReleaseLabels =>
       /\ monRet = "loop" => monReq = None
       /\ monRet = "operGet" => monReq \in Requests \cup {Dummy}
       /\ monRet = "failed" => monReq \in AllRequests

Shape == StopShape /\ MonResShape /\ MonReqShape

\* A worker that is about to queue a kill request has one of its own, which is
\* not in the queue yet.
Killing(r) == pc[r] \in {"addPriv", "putPriv"}

KillShape ==
  \A r \in Resources : Killing(r) =>
    /\ kill[r] \in PrivRequests
    /\ stage[kill[r]] = "adding"
    /\ \A s \in Resources : Killing(s) /\ kill[s] = kill[r] => s = r

\* A worker has a request until it begins to release its resource.
WorkShape ==
  \A r \in Resources :
    pc[r] \in {"run", "addPriv", "putPriv", "kick", "release"} <=> work[r] # None

\* A privileged request that a normal one has overtaken waits for a monitor
\* that will look at privRequestsQueue before it starts a normal request again.
MonitorLooksFirst ==
  \/ pc[Monitor] \in {"loop", "getRes", "checkStop", "putBack", "getPriv", "down"}
  \/ monReq \in PrivRequests

OvertakenShape ==
  \A p \in PrivRequests :
    /\ stage[p] \in {"new", "adding"} => overtaken[p] = 0
    /\ overtaken[p] <= 1
    /\ stage[p] = "queued" /\ overtaken[p] # 0 => MonitorLooksFirst

\* The flag of the resource the monitor is about to start a worker on, too,
\* tells whether the request is a privileged one.
FlagShape ==
  /\ PrivFlagTellsRequest
  /\ pc[Monitor] = "spawn" => (b_processingPrivRequest[monRes] <=> monReq \in PrivRequests)

\* After it has started one request since the stop, the monitor is on its way out.
StartedShape ==
  startedAfterStop # 0 =>
    startedAfterStop = 1 /\ b_stopThread /\ pc[Monitor] \in {"loop", "down"}

\* The resources the first operation was done on, or that are newer than it.
Stamped == {r \in Resources : tStampLastOper[r] = 1}

\* Where a thread does an operation and counts it.
OperLabels == {"doOper", "count", "testDone", "clear"}

\* Until the first operation is stamped it is due on no resource.
BeforeShape ==
  /\ opsAccepted = 0 => admin = "idle"
  /\ tStampOperation = IF opsAccepted = 0 \/ admin \in {"reset", "oper", "stamp"} THEN 0 ELSE 1
  /\ tStampOperation = 0 =>
       /\ operationToDo <=> admin = "stamp"
       /\ ctrResDone = 0
       /\ \A r \in Resources : tStampLastOper[r] = 0
       /\ \A t \in Threads : pc[t] \notin OperLabels

\* After that ctrResDone counts stamped resources, each once, though it may
\* miss some: a thread that is about to count has stamped one that was not in
\* the number it read.
CountShape ==
  tStampOperation = 1 =>
    /\ \A r \in Resources : tStampLastOper[r] \in {0, 1}
    /\ ctrResDone <= Cardinality(Stamped)
    /\ \A t \in Threads :
         /\ pc[t] = "doOper" => Held(t) \notin Stamped
         /\ pc[t] = "count" => tmp[t] + 1 <= Cardinality(Stamped)
         /\ pc[t] = "clear" => Stamped = Resources
    /\ operationToDo \/ Stamped = Resources

OperShape == opsAccepted <= 1 => BeforeShape /\ CountShape

IInv ==
  /\ TypeOK /\ Shape /\ ResourceExclusive /\ NoResourceLeak
  /\ WorkShape /\ KillShape /\ RequestInOnePlace
  /\ OvertakenShape /\ FlagShape /\ StartedShape /\ OperShape
=============================================================================
