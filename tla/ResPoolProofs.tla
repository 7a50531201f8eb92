---------------------------- MODULE ResPoolProofs ----------------------------
(***************************************************************************)
(* The invariants of ResPool, proved for every pool: any number of         *)
(* resources and requests, any bounds, any outcome of a release.           *)
(***************************************************************************)
EXTENDS ResPoolInv, SequenceTheorems, FiniteSetTheorems, TLAPS

-----------------------------------------------------------------------------
(* The two ends of a queue. *)

\* Getting the head of a queue leaves the rest, in order.
LEMMA GetFacts ==
  ASSUME NEW S, NEW s \in Seq(S), s # <<>>
  PROVE  /\ Head(s) \in S /\ Head(s) = s[1]
         /\ Tail(s) \in Seq(S) /\ Len(Tail(s)) = Len(s) - 1 /\ Len(s) \in Nat \ {0}
         /\ \A i \in 1..Len(Tail(s)) : Tail(s)[i] = s[i + 1] /\ i + 1 \in 1..Len(s)
  BY HeadTailProperties, EmptySeq, LenProperties

\* What is in a queue after a get: what was, except a head that occurred once.
LEMMA GetKeeps ==
  ASSUME NEW S, NEW s \in Seq(S), s # <<>>, NEW x
  PROVE  /\ In(Head(s), s)
         /\ In(x, Tail(s)) => In(x, s)
         /\ In(x, s) => x = Head(s) \/ In(x, Tail(s))
         /\ Once(x, s) => Once(x, Tail(s)) /\ ~(x = Head(s) /\ In(x, Tail(s)))
  <1>1. In(Head(s), s)
    BY GetFacts DEF In
  <1>2. In(x, Tail(s)) => In(x, s)
    BY GetFacts DEF In
  <1>3. ASSUME In(x, s), x # Head(s) PROVE In(x, Tail(s))
    <2>1. PICK i \in 1..Len(s) : s[i] = x
      BY <1>3 DEF In
    <2>2. i - 1 \in 1..Len(Tail(s)) /\ Tail(s)[i - 1] = s[(i - 1) + 1] /\ (i - 1) + 1 = i
      BY <2>1, <1>3, GetFacts
    <2>3. QED BY <2>1, <2>2 DEF In
  <1>4. ASSUME Once(x, s) PROVE Once(x, Tail(s))
    <2>1. SUFFICES ASSUME NEW i \in 1..Len(Tail(s)), NEW j \in 1..Len(Tail(s)),
                          Tail(s)[i] = x, Tail(s)[j] = x
                   PROVE  i = j
      BY DEF Once
    <2>2. /\ i + 1 \in 1..Len(s) /\ s[i + 1] = x
          /\ j + 1 \in 1..Len(s) /\ s[j + 1] = x
      BY <2>1, GetFacts
    <2>3. i + 1 = j + 1
      BY <2>2, <1>4 DEF Once
    <2>4. QED BY <2>3
  <1>5. ASSUME Once(x, s), x = Head(s), In(x, Tail(s)) PROVE FALSE
    <2>1. PICK i \in 1..Len(Tail(s)) : Tail(s)[i] = x
      BY <1>5 DEF In
    <2>2. i + 1 \in 1..Len(s) /\ s[i + 1] = x /\ 1 \in 1..Len(s) /\ s[1] = x
      BY <2>1, <1>5, GetFacts
    <2>3. i + 1 = 1
      BY <2>2, <1>5 DEF Once
    <2>4. QED BY <2>3
  <1>6. QED BY <1>1, <1>2, <1>3, <1>4, <1>5

\* A put adds its item at the end.
LEMMA PutFacts ==
  ASSUME NEW S, NEW s \in Seq(S), NEW e \in S
  PROVE  /\ Append(s, e) \in Seq(S) /\ Len(s) \in Nat /\ Len(Append(s, e)) = Len(s) + 1
         /\ \A i \in 1..Len(s) : Append(s, e)[i] = s[i]
         /\ Append(s, e)[Len(s) + 1] = e
  OBVIOUS

LEMMA PutKeeps ==
  ASSUME NEW S, NEW s \in Seq(S), NEW e \in S, NEW x
  PROVE  /\ In(x, Append(s, e)) <=> In(x, s) \/ x = e
         /\ Once(x, s) /\ (x = e => ~In(x, s)) => Once(x, Append(s, e))
  <1>1. In(x, Append(s, e)) => In(x, s) \/ x = e
    BY PutFacts DEF In
  <1>2. In(x, s) => In(x, Append(s, e))
    BY PutFacts DEF In
  <1>3. In(e, Append(s, e))
    <2>1. Len(s) + 1 \in 1..Len(Append(s, e)) BY PutFacts
    <2>2. QED BY <2>1, PutFacts DEF In
  <1>4. ASSUME Once(x, s), x = e => ~In(x, s) PROVE Once(x, Append(s, e))
    <2>1. SUFFICES ASSUME NEW i \in 1..Len(Append(s, e)), NEW j \in 1..Len(Append(s, e)),
                          Append(s, e)[i] = x, Append(s, e)[j] = x
                   PROVE  i = j
      BY DEF Once
    <2>2. i \in 1..Len(s) \/ i = Len(s) + 1 BY PutFacts
    <2>3. j \in 1..Len(s) \/ j = Len(s) + 1 BY PutFacts
    <2>4. CASE x = e
      BY <2>1, <2>2, <2>3, <2>4, <1>4, PutFacts DEF In
    <2>5. CASE x # e
      BY <2>1, <2>2, <2>3, <2>5, <1>4, PutFacts DEF Once
    <2>6. QED BY <2>4, <2>5
  <1>5. QED BY <1>1, <1>2, <1>3, <1>4

\* The same of a put that may find the queue full.
LEMMA PutNoWaitKeeps ==
  ASSUME NEW S, NEW s \in Seq(S), NEW e \in S, NEW max, NEW x
  PROVE  /\ PutNoWait(s, e, max) \in Seq(S)
         /\ In(x, PutNoWait(s, e, max)) => In(x, s) \/ x = e
         /\ In(x, s) => In(x, PutNoWait(s, e, max))
         /\ Once(x, s) /\ (x = e => ~In(x, s)) => Once(x, PutNoWait(s, e, max))
  BY PutKeeps DEF PutNoWait

-----------------------------------------------------------------------------
(* Type correctness. *)

LEMMA MonitorGoto ==
  ASSUME ThreadsTyped, NEW l \in MonitorLabels \cup ReleaseLabels, Goto(Monitor, l)
  PROVE  ThreadsTyped'
  BY PoolAssumption DEF ThreadsTyped, Goto, Threads

LEMMA WorkerGoto ==
  ASSUME ThreadsTyped, NEW r \in Resources, NEW l \in ReleaseLabels \cup WorkerLabels, Goto(r, l)
  PROVE  ThreadsTyped'
  BY PoolAssumption DEF ThreadsTyped, Goto, Threads

LEMMA StageType ==
  ASSUME StagesTyped, NEW q, NEW s \in Stages, stage' = stage \/ Stage(q, s)
  PROVE  StagesTyped'
  BY DEF StagesTyped, Stage

LEMMA TypeMonitor ==
  ASSUME TypeOK, Shape, MonitorStep
  PROVE  TypeOK'
  <1> USE DEF TypeOK, MonitorUnchanged, queues, flags, opvars, monvars, adminvars, stopvars, history
  <1>1. ThreadsTyped'
    <2>1. CASE \E l \in MonitorLabels \cup ReleaseLabels : Goto(Monitor, l)
      BY <2>1, MonitorGoto
    <2>2. CASE SpawnRequestThread
      BY <2>2, PoolAssumption
         DEF SpawnRequestThread, ThreadsTyped, Threads, Shape, MonResShape,
             MonitorLabels, ReleaseLabels, WorkerLabels
    <2>3. CASE \/ MonitorLoop \/ MonitorGetRes \/ MonitorCheckStop \/ MonitorPutBack
               \/ MonitorTakePriv \/ MonitorNoPriv \/ MonitorGetRequest \/ MonitorCheckStop2
      <3>1. \E l \in MonitorLabels \cup ReleaseLabels : Goto(Monitor, l)
        BY <2>3 DEF MonitorLoop, MonitorGetRes, MonitorCheckStop, MonitorPutBack,
           MonitorTakePriv, MonitorNoPriv, MonitorGetRequest, MonitorCheckStop2, MonitorLabels
      <3>2. QED BY <3>1, <2>1
    <2>4. CASE \/ MonitorOper \/ MonitorOperGet \/ MonitorOperGiveUp \/ MonitorGetRes2
               \/ MonitorAssign \/ SpawnDummy \/ SpawnFails \/ RequestFailed
      <3>1. \E l \in MonitorLabels \cup ReleaseLabels : Goto(Monitor, l)
        BY <2>4 DEF MonitorOper, MonitorOperGet, MonitorOperGiveUp, MonitorGetRes2,
           MonitorAssign, SpawnDummy, SpawnFails, RequestFailed, MonitorLabels, ReleaseLabels
      <3>2. QED BY <3>1, <2>1
    <2>5. QED BY <2>2, <2>3, <2>4 DEF MonitorStep
  <1>2. StagesTyped'
    <2>1. \E q : \E s \in Stages : stage' = stage \/ Stage(q, s)
      BY DEF MonitorStep, MonitorLoop, MonitorGetRes, MonitorCheckStop, MonitorPutBack,
         MonitorTakePriv, MonitorNoPriv, MonitorGetRequest, MonitorCheckStop2,
         MonitorOper, MonitorOperGet, MonitorOperGiveUp, MonitorGetRes2,
         MonitorAssign, SpawnDummy, SpawnRequestThread, SpawnFails, RequestFailed,
         DropMonReq, Stage, Stages
    <2>2. QED BY <2>1, StageType
  <1>3. QueuesTyped' /\ monRes' \in ResItems /\ monReq' \in AllRequests \cup {Dummy, None}
    <2> USE DEF QueuesTyped, LocalsTyped
    <2>1. None \in ResItems
      BY DEF ResItems
    <2>2. resourcesQueue # <<>> => /\ Head(resourcesQueue) \in ResItems
                                   /\ Tail(resourcesQueue) \in Seq(ResItems)
      BY GetFacts
    <2>3. CASE MonitorGetRes  BY <2>1, <2>2, <2>3 DEF MonitorGetRes, BlockingGetRes
    <2>4. CASE MonitorGetRes2 BY <2>1, <2>2, <2>4 DEF MonitorGetRes2, BlockingGetRes
    <2>5. CASE MonitorOperGet BY <2>2, <2>5 DEF MonitorOperGet
    <2>6. CASE MonitorPutBack
      <3>1. Append(resourcesQueue, monRes) \in Seq(ResItems)
        BY PutFacts
      <3>2. QED BY <2>1, <2>6, <3>1 DEF MonitorPutBack
    <2>7. CASE MonitorTakePriv
      BY <2>7, GetFacts DEF MonitorTakePriv, AllRequests
    <2>8. CASE MonitorGetRequest
      BY <2>8, GetFacts DEF MonitorGetRequest, AllRequests
    <2>9. CASE \/ MonitorLoop \/ MonitorCheckStop \/ MonitorNoPriv \/ MonitorCheckStop2
               \/ MonitorOper \/ MonitorOperGiveUp \/ MonitorAssign
               \/ SpawnDummy \/ SpawnRequestThread \/ SpawnFails \/ RequestFailed
      BY <2>1, <2>9 DEF MonitorLoop, MonitorCheckStop, MonitorNoPriv, MonitorCheckStop2,
         MonitorOper, MonitorOperGiveUp, MonitorAssign, DropMonReq,
         SpawnDummy, SpawnRequestThread, SpawnFails, RequestFailed
    <2>10. QED BY <2>3, <2>4, <2>5, <2>6, <2>7, <2>8, <2>9 DEF MonitorStep
  <1>4. LocalsTyped'
    <2>1. monRet' \in {"loop", "operGet", "failed"}
      BY DEF LocalsTyped, MonitorStep, MonitorLoop, MonitorGetRes, MonitorCheckStop, MonitorPutBack,
         MonitorTakePriv, MonitorNoPriv, MonitorGetRequest, MonitorCheckStop2,
         MonitorOper, MonitorOperGet, MonitorOperGiveUp, MonitorGetRes2,
         MonitorAssign, SpawnDummy, SpawnRequestThread, SpawnFails, RequestFailed
    <2>2. /\ work' \in [Resources -> AllRequests \cup {None}]
          /\ kill' \in [Resources -> PrivRequests \cup {None}]
          /\ b_processingPrivRequest' \in [Resources -> BOOLEAN]
      BY DEF LocalsTyped, MonitorStep, MonitorLoop, MonitorGetRes, MonitorCheckStop, MonitorPutBack,
         MonitorTakePriv, MonitorNoPriv, MonitorGetRequest, MonitorCheckStop2,
         MonitorOper, MonitorOperGet, MonitorOperGiveUp, MonitorGetRes2,
         MonitorAssign, SpawnDummy, SpawnRequestThread, SpawnFails, RequestFailed
    <2>3. QED BY <1>3, <2>1, <2>2 DEF LocalsTyped, ResItems
  <1>5. OperationTyped' /\ StopTyped'
    <2>1. UNCHANGED <<flags, opvars, adminvars, stopvars>>
      BY DEF MonitorStep, MonitorLoop, MonitorGetRes, MonitorCheckStop, MonitorPutBack,
         MonitorTakePriv, MonitorNoPriv, MonitorGetRequest, MonitorCheckStop2,
         MonitorOper, MonitorOperGet, MonitorOperGiveUp, MonitorGetRes2,
         MonitorAssign, SpawnDummy, SpawnRequestThread, SpawnFails, RequestFailed
    <2>2. overtaken' \in [PrivRequests -> Nat] /\ startedAfterStop' \in Nat
      BY DEF StopTyped, MonitorStep, MonitorLoop, MonitorGetRes, MonitorCheckStop, MonitorPutBack,
         MonitorTakePriv, MonitorNoPriv, MonitorGetRequest, MonitorCheckStop2,
         MonitorOper, MonitorOperGet, MonitorOperGiveUp, MonitorGetRes2,
         MonitorAssign, SpawnDummy, SpawnRequestThread, SpawnFails, RequestFailed
    <2>3. QED BY <2>1, <2>2 DEF OperationTyped, StopTyped
  <1>6. QED BY <1>1, <1>2, <1>3, <1>4, <1>5

LEMMA HeldType ==
  ASSUME TypeOK, Shape, NEW t \in Threads, pc[t] \in ReleaseLabels
  PROVE  Held(t) \in Resources
  BY DEF Held, Shape, MonResShape, Threads

LEMMA TypeRelease ==
  ASSUME TypeOK, Shape, NEW t \in Threads, ReleaseStep(t)
  PROVE  TypeOK'
  <1> USE DEF TypeOK, ReleaseUnchanged, queues, flags, opvars, monvars, adminvars, stopvars, history
  <1>1. pc[t] \in ReleaseLabels
    BY DEF ReleaseStep, ReleaseResource, PutResInQueueExt, DoOperation, CountResDone,
       TestAllDone, OperationCompleted, PutResource, ReleaseLabels
  <1>2. Held(t) \in Resources /\ (t = Monitor => monRes \in Resources)
    BY <1>1, HeldType DEF Held
  <1>3. ThreadsTyped'
    <2>1. CASE \E l \in ReleaseLabels : Goto(t, l)
      BY <2>1, MonitorGoto, WorkerGoto DEF Threads
    <2>2. CASE \E outcome \in ReleaseOutcomes : ReleaseResource(t, outcome)
      BY <1>2, <2>1, <2>2, PoolAssumption
         DEF ReleaseResource, ThreadsTyped, LocalsTyped, Threads, Goto,
             MonitorLabels, ReleaseLabels, WorkerLabels
    <2>3. CASE PutResource(t)
      BY <2>3, MonitorGoto, WorkerGoto
         DEF PutResource, Threads, LocalsTyped, MonitorLabels, WorkerLabels
    <2>4. CASE \/ PutResInQueueExt(t) \/ DoOperation(t) \/ CountResDone(t)
               \/ TestAllDone(t) \/ OperationCompleted(t)
      BY <2>1, <2>4 DEF PutResInQueueExt, DoOperation, CountResDone, TestAllDone,
         OperationCompleted, ReleaseLabels
    <2>5. QED BY <2>2, <2>3, <2>4 DEF ReleaseStep
  <1>4. StagesTyped'
    BY DEF ReleaseStep, ReleaseResource, PutResInQueueExt, DoOperation, CountResDone,
       TestAllDone, OperationCompleted, PutResource, StagesTyped, Stages
  <1>5. LocalsTyped'
    <2>1. None \in ResItems
      BY DEF ResItems
    <2>2. QED
      BY <2>1 DEF ReleaseStep, ReleaseResource, PutResInQueueExt, DoOperation, CountResDone,
       TestAllDone, OperationCompleted, PutResource, LocalsTyped
  <1>6. QueuesTyped'
    <2>1. Append(resourcesQueue, Held(t)) \in Seq(ResItems)
      BY <1>2, PutFacts DEF QueuesTyped, ResItems
    <2>2. QED
      BY <2>1 DEF ReleaseStep, ReleaseResource, PutResInQueueExt, DoOperation, CountResDone,
       TestAllDone, OperationCompleted, PutResource, QueuesTyped
  <1>7. OperationTyped' /\ StopTyped'
    <2>1. CASE \E outcome \in ReleaseOutcomes : ReleaseResource(t, outcome)
      BY <1>2, <2>1 DEF ReleaseResource, OperationTyped, StopTyped
    <2>2. CASE DoOperation(t)
      BY <1>2, <2>2 DEF DoOperation, OperationTyped, StopTyped
    <2>3. CASE CountResDone(t)
      BY <2>3 DEF CountResDone, OperationTyped, StopTyped
    <2>4. CASE \/ PutResInQueueExt(t) \/ TestAllDone(t) \/ OperationCompleted(t)
               \/ PutResource(t)
      BY <2>4, ZenonT(60) DEF PutResInQueueExt, TestAllDone, OperationCompleted, PutResource,
         OperationTyped, StopTyped
    <2>5. QED BY <2>1, <2>2, <2>3, <2>4 DEF ReleaseStep
  <1>8. QED BY <1>3, <1>4, <1>5, <1>6, <1>7

LEMMA TypeWorker ==
  ASSUME TypeOK, NEW r \in Resources, WorkerStep(r),
         pc[r] \in {"addPriv", "putPriv"} => kill[r] \in PrivRequests
  PROVE  TypeOK'
  <1> USE DEF TypeOK, WorkerUnchanged, queues, flags, opvars, monvars, adminvars, stopvars, history
  <1>1. ThreadsTyped'
    <2>1. \E l \in ReleaseLabels \cup WorkerLabels : Goto(r, l)
      BY DEF WorkerStep, WorkerEnds, WorkerKills, AddPrivRequestCheck,
         AddPrivRequestPut, AddPrivRequestKick, ReleaseLabels, WorkerLabels
    <2>2. QED BY <2>1, WorkerGoto
  <1>2. StagesTyped' /\ LocalsTyped'
    BY DEF WorkerStep, WorkerEnds, WorkerKills, AddPrivRequestCheck,
       AddPrivRequestPut, AddPrivRequestKick, Stage, StagesTyped, Stages, LocalsTyped
  <1>3. QueuesTyped'
    <2>1. pc[r] = "putPriv" => Append(privRequestsQueue, kill[r]) \in Seq(PrivRequests)
      BY DEF QueuesTyped
    <2>2. PutNoWait(requestsQueue, Dummy, MaxRequests) \in Seq(Requests \cup {Dummy})
      BY PutNoWaitKeeps DEF QueuesTyped
    <2>3. QED
      BY <2>1, <2>2 DEF WorkerStep, WorkerEnds, WorkerKills, AddPrivRequestCheck,
         AddPrivRequestPut, AddPrivRequestKick, QueuesTyped
  <1>4. OperationTyped' /\ StopTyped'
    BY SMTT(40) DEF WorkerStep, WorkerEnds, WorkerKills, AddPrivRequestCheck,
       AddPrivRequestPut, AddPrivRequestKick, OperationTyped, StopTyped
  <1>5. QED BY <1>1, <1>2, <1>3, <1>4

LEMMA TypeOutside ==
  ASSUME TypeOK, Shape,
         \/ \E q \in Requests : CallerStep(q)
         \/ \E open \in BOOLEAN : AssignOpenStatus(open)
         \/ AdminStep
         \/ StopStep
  PROVE  TypeOK'
  <1> USE DEF TypeOK, AdminUnchanged, StopUnchanged,
          queues, flags, opvars, monvars, adminvars, stopvars, history
  <1>1. CASE \E q \in Requests : CallerStep(q)
    <2>1. PICK q \in Requests : CallerStep(q)
      BY <1>1
    <2>2. StagesTyped'
      BY <2>1 DEF CallerStep, IsOpen, AddRequestCheckStop, AddRequestCheckFull, AddRequestPut,
         Stage, StagesTyped, Stages
    <2>3. QueuesTyped'
      <3>1. Append(requestsQueue, q) \in Seq(Requests \cup {Dummy})
        BY DEF QueuesTyped
      <3>2. QED
        BY <2>1, <3>1 DEF CallerStep, IsOpen, AddRequestCheckStop, AddRequestCheckFull,
           AddRequestPut, QueuesTyped
    <2>4. QED
      BY <2>1, <2>2, <2>3 DEF CallerStep, IsOpen, AddRequestCheckStop, AddRequestCheckFull,
         AddRequestPut, ThreadsTyped, LocalsTyped, OperationTyped, StopTyped
  <1>2. CASE \E open \in BOOLEAN : AssignOpenStatus(open)
    BY <1>2 DEF AssignOpenStatus, QueuesTyped, ThreadsTyped, LocalsTyped, StagesTyped,
       OperationTyped, StopTyped
  <1>3. PutNoWait(requestsQueue, Dummy, MaxRequests) \in Seq(Requests \cup {Dummy})
    BY PutNoWaitKeeps DEF QueuesTyped
  <1>4. CASE AdminStep
    <2>1. QueuesTyped'
      BY <1>3, <1>4 DEF AdminStep, AssignOperation, AssignOperationReset, AssignOperationOper,
         AssignOperationStamp, AssignOperationKick, QueuesTyped
    <2>2. OperationTyped'
      <3>1. CASE \E b_force \in BOOLEAN : AssignOperation(b_force)
        BY <3>1 DEF AssignOperation, OperationTyped
      <3>2. CASE AssignOperationReset BY <3>2 DEF AssignOperationReset, OperationTyped
      <3>3. CASE AssignOperationOper  BY <3>3 DEF AssignOperationOper, OperationTyped
      <3>4. CASE AssignOperationStamp BY <3>4 DEF AssignOperationStamp, OperationTyped
      <3>5. CASE AssignOperationKick  BY <3>5 DEF AssignOperationKick, OperationTyped
      <3>6. QED BY <1>4, <3>1, <3>2, <3>3, <3>4, <3>5 DEF AdminStep
    <2>3. QED
      BY <1>4, <2>1, <2>2 DEF AdminStep, AssignOperation, AssignOperationReset,
         AssignOperationOper, AssignOperationStamp, AssignOperationKick,
         ThreadsTyped, LocalsTyped, StagesTyped, StopTyped
  <1>5. CASE StopStep
    <2>1. QueuesTyped' /\ stopItem' \in ResItems
      <3>1. /\ None \in ResItems
            /\ PutNoWait(resourcesQueue, Dummy, MaxRes) \in Seq(ResItems)
            /\ PutNoWait(resourcesQueue, stopItem, MaxRes) \in Seq(ResItems)
        BY PutNoWaitKeeps DEF QueuesTyped, StopTyped, ResItems
      <3>2. resourcesQueue # <<>> => /\ Head(resourcesQueue) \in ResItems
                                     /\ Tail(resourcesQueue) \in Seq(ResItems)
        BY GetFacts DEF QueuesTyped
      <3>3. QED
        BY <1>3, <1>5, <3>1, <3>2 DEF StopStep, AssignStopThreadFlag, StopPutDummyRequest,
           StopPutDummyResource, ShutdownGet, ShutdownPut, ShutdownClose, QueuesTyped, StopTyped
    <2>2. StopTyped'
      <3>1. MaxRes \in Nat
        BY PoolAssumption, FS_CardinalityType DEF MaxRes
      <3>2. stopCtr' \in 0..MaxRes
        BY <1>5, <3>1 DEF StopStep, AssignStopThreadFlag, StopPutDummyRequest,
           StopPutDummyResource, ShutdownGet, ShutdownPut, ShutdownClose, StopTyped,
           Shape, StopShape
      <3>3. stopper' \in {"idle", "dummyReq", "dummyRes", "drain", "put", "end"}
        BY <1>5 DEF StopStep, AssignStopThreadFlag, StopPutDummyRequest,
           StopPutDummyResource, ShutdownGet, ShutdownPut, ShutdownClose, StopTyped
      <3>4. UNCHANGED history
        BY <1>5 DEF StopStep, AssignStopThreadFlag, StopPutDummyRequest,
           StopPutDummyResource, ShutdownGet, ShutdownPut, ShutdownClose
      <3>5. QED
        BY <2>1, <3>2, <3>3, <3>4 DEF StopTyped
    <2>3. QED
      BY <1>5, <2>1, <2>2, ZenonT(60) DEF StopStep, AssignStopThreadFlag, StopPutDummyRequest,
         StopPutDummyResource, ShutdownGet, ShutdownPut, ShutdownClose,
         ThreadsTyped, LocalsTyped, StagesTyped, OperationTyped
  <1>6. QED BY <1>1, <1>2, <1>4, <1>5

-----------------------------------------------------------------------------
(* What the threads hold: the shape of the reachable states. *)

\* A step of one thread moves that thread alone.
LEMMA GotoMoves ==
  ASSUME ThreadsTyped, NEW t \in Threads, NEW l, Goto(t, l)
  PROVE  pc'[t] = l /\ \A u \in Threads : u # t => pc'[u] = pc[u]
  BY DEF ThreadsTyped, Goto

\* What the queue of resources loses or gains at its two ends.
LEMMA ResQueueGet ==
  ASSUME TypeOK, StopShape, resourcesQueue # <<>>
  PROVE  /\ Head(resourcesQueue) \in ResItems /\ In(Head(resourcesQueue), resourcesQueue)
         /\ Head(resourcesQueue) \in Resources \/ b_stopThread
         /\ \A x \in ResItems :
              /\ In(x, Tail(resourcesQueue)) => In(x, resourcesQueue)
              /\ In(x, resourcesQueue) => x = Head(resourcesQueue) \/ In(x, Tail(resourcesQueue))
              /\ Once(x, resourcesQueue) => /\ Once(x, Tail(resourcesQueue))
                                            /\ ~(x = Head(resourcesQueue) /\ In(x, Tail(resourcesQueue)))
  <1>1. resourcesQueue \in Seq(ResItems)
    BY DEF TypeOK, QueuesTyped
  <1>2. Head(resourcesQueue) \in ResItems /\ In(Head(resourcesQueue), resourcesQueue)
    BY <1>1, GetFacts, GetKeeps
  <1>3. Head(resourcesQueue) \in Resources \/ b_stopThread
    BY <1>2 DEF StopShape
  <1>4. QED BY <1>1, <1>2, <1>3, GetKeeps

LEMMA ResQueuePut ==
  ASSUME TypeOK, NEW e \in ResItems
  PROVE  \A x \in ResItems :
           /\ In(x, Append(resourcesQueue, e)) <=> In(x, resourcesQueue) \/ x = e
           /\ Once(x, resourcesQueue) /\ (x = e => ~In(x, resourcesQueue))
                => Once(x, Append(resourcesQueue, e))
  BY PutKeeps DEF TypeOK, QueuesTyped

LEMMA MonitorStopShape ==
  ASSUME TypeOK, Shape, MonitorStep
  PROVE  StopShape'
  <1> USE DEF MonitorUnchanged, queues, flags, stopvars, Shape
  <1>1. UNCHANGED <<flags, stopvars, resQOpen>>
    BY DEF MonitorStep, MonitorLoop, MonitorGetRes, MonitorCheckStop, MonitorPutBack,
         MonitorTakePriv, MonitorNoPriv, MonitorGetRequest, MonitorCheckStop2,
         MonitorOper, MonitorOperGet, MonitorOperGiveUp, MonitorGetRes2,
         MonitorAssign, SpawnDummy, SpawnRequestThread, SpawnFails, RequestFailed
  <1>2. \A x \in ResItems : In(x, resourcesQueue') => In(x, resourcesQueue) \/ x \in Resources \/ b_stopThread
    <2>1. CASE UNCHANGED resourcesQueue
      BY <2>1
    <2>2. CASE resourcesQueue # <<>> /\ resourcesQueue' = Tail(resourcesQueue)
      BY <2>2, ResQueueGet
    <2>3. CASE MonitorPutBack
      BY <2>3, <2>1, ResQueuePut DEF MonitorPutBack, MonResShape, TypeOK, LocalsTyped
    <2>4. QED
      BY <2>1, <2>2, <2>3 DEF MonitorStep, MonitorLoop, MonitorGetRes, MonitorCheckStop,
         MonitorTakePriv, MonitorNoPriv, MonitorGetRequest, MonitorCheckStop2,
         MonitorOper, MonitorOperGet, MonitorOperGiveUp, MonitorGetRes2, BlockingGetRes,
         MonitorAssign, SpawnDummy, SpawnRequestThread, SpawnFails, RequestFailed
  <1>3. QED BY <1>1, <1>2 DEF StopShape

LEMMA MonitorResShape ==
  ASSUME TypeOK, Shape, MonitorStep
  PROVE  MonResShape'
  <1> USE DEF MonitorUnchanged, monvars, flags, Shape, MonResShape, ReleaseLabels
  <1>1. ThreadsTyped /\ Monitor \in Threads
    BY DEF TypeOK, Threads
  <1>2. CASE \/ MonitorLoop \/ MonitorCheckStop \/ MonitorPutBack \/ MonitorTakePriv
             \/ MonitorNoPriv \/ MonitorGetRequest
    BY <1>1, <1>2, GotoMoves
       DEF MonitorLoop, MonitorCheckStop, MonitorPutBack, MonitorTakePriv, MonitorNoPriv,
           MonitorGetRequest
  <1>3. CASE \/ MonitorCheckStop2 \/ MonitorOper \/ MonitorOperGiveUp \/ MonitorAssign
    BY <1>1, <1>3, GotoMoves
       DEF MonitorCheckStop2, MonitorOper, MonitorOperGiveUp, MonitorAssign, DropMonReq
  <1>4. CASE \/ MonitorGetRes \/ MonitorOperGet \/ MonitorGetRes2
    BY <1>1, <1>4, GotoMoves, ResQueueGet
       DEF MonitorGetRes, MonitorOperGet, MonitorGetRes2, BlockingGetRes, StopShape
  <1>5. CASE SpawnRequestThread
    BY <1>1, <1>5, PoolAssumption DEF SpawnRequestThread, ThreadsTyped, Threads
  <1>6. CASE SpawnDummy \/ SpawnFails \/ RequestFailed
    BY <1>1, <1>6, GotoMoves DEF SpawnDummy, SpawnFails, RequestFailed
  <1>7. QED BY <1>2, <1>3, <1>4, <1>5, <1>6 DEF MonitorStep

LEMMA MonitorReqShape ==
  ASSUME TypeOK, Shape, MonitorStep
  PROVE  MonReqShape'
  <1> USE DEF MonitorUnchanged, monvars, Shape, MonReqShape, ReleaseLabels
  <1>1. ThreadsTyped /\ Monitor \in Threads
    BY DEF TypeOK, Threads
  <1>2. CASE \/ MonitorLoop \/ MonitorGetRes \/ MonitorCheckStop \/ MonitorPutBack
             \/ MonitorNoPriv \/ MonitorCheckStop2
    BY <1>1, <1>2, GotoMoves
       DEF MonitorLoop, MonitorGetRes, MonitorCheckStop, MonitorPutBack, MonitorNoPriv,
           MonitorCheckStop2, DropMonReq
  <1>3. CASE MonitorTakePriv
    BY <1>1, <1>3, GotoMoves, GetFacts
       DEF MonitorTakePriv, TypeOK, QueuesTyped, AllRequests
  <1>4. CASE MonitorGetRequest
    BY <1>1, <1>4, GotoMoves, GetFacts DEF MonitorGetRequest, TypeOK, QueuesTyped
  <1>5. CASE \/ MonitorOper \/ MonitorOperGiveUp \/ MonitorAssign \/ MonitorOperGet
             \/ MonitorGetRes2
    BY <1>1, <1>5, GotoMoves
       DEF MonitorOper, MonitorOperGiveUp, MonitorAssign, MonitorOperGet, MonitorGetRes2,
           DropMonReq, AllRequests
  <1>6. CASE SpawnRequestThread
    BY <1>1, <1>6, PoolAssumption
       DEF SpawnRequestThread, ThreadsTyped, Threads, MonResShape
  <1>7. CASE SpawnDummy \/ SpawnFails \/ RequestFailed
    BY <1>1, <1>7, GotoMoves DEF SpawnDummy, SpawnFails, RequestFailed
  <1>8. QED BY <1>2, <1>3, <1>4, <1>5, <1>6, <1>7 DEF MonitorStep

LEMMA ReleaseShape ==
  ASSUME TypeOK, Shape, NEW t \in Threads, ReleaseStep(t)
  PROVE  Shape'
  <1> USE DEF ReleaseUnchanged, queues, flags, monvars, stopvars, Shape
  <1>1. ThreadsTyped /\ pc[t] \in ReleaseLabels
    BY DEF ReleaseStep, ReleaseResource, PutResInQueueExt, DoOperation, CountResDone,
       TestAllDone, OperationCompleted, PutResource, ReleaseLabels, TypeOK
  <1>2. Held(t) \in Resources
    BY <1>1, HeldType
  <1>3. StopShape'
    <2>1. UNCHANGED <<flags, stopvars, resQOpen>>
      BY DEF ReleaseStep, ReleaseResource, PutResInQueueExt, DoOperation, CountResDone,
         TestAllDone, OperationCompleted, PutResource
    <2>2. \A x \in ResItems : In(x, resourcesQueue') => In(x, resourcesQueue) \/ x \in Resources
      BY <1>2, ResQueuePut DEF ReleaseStep, ReleaseResource, PutResInQueueExt, DoOperation,
         CountResDone, TestAllDone, OperationCompleted, PutResource, ResItems
    <2>3. QED BY <2>1, <2>2 DEF StopShape
  <1>4. CASE t # Monitor
    <2>1. pc'[Monitor] = pc[Monitor] /\ UNCHANGED <<monvars, b_stopThread>>
      BY <1>1, <1>4, GotoMoves DEF ReleaseStep, ReleaseResource, PutResInQueueExt, DoOperation,
         CountResDone, TestAllDone, OperationCompleted, PutResource, ThreadsTyped, Threads
    <2>2. QED BY <1>3, <2>1 DEF MonResShape, MonReqShape
  <1>5. CASE t = Monitor
    <2>1. monRes \in Resources /\ UNCHANGED <<monReq, monRet, b_stopThread>>
      BY <1>2, <1>5 DEF Held, ReleaseStep, ReleaseResource, PutResInQueueExt, DoOperation,
         CountResDone, TestAllDone, OperationCompleted, PutResource
    <2>2. \/ pc'[Monitor] \in ReleaseLabels /\ monRes' = monRes
          \/ pc'[Monitor] = monRet /\ monRes' = None
      BY <1>1, <1>5, <2>1, GotoMoves, PoolAssumption
         DEF ReleaseStep, ReleaseResource, PutResInQueueExt, DoOperation, CountResDone,
             TestAllDone, OperationCompleted, PutResource, ThreadsTyped, Threads, ReleaseLabels
    <2>3. monRet \in {"loop", "operGet", "failed"}
      BY DEF TypeOK, LocalsTyped
    <2>4. MonResShape'
      BY <2>1, <2>2, <2>3 DEF MonResShape, ReleaseLabels
    <2>5. MonReqShape'
      BY <1>1, <1>5, <2>1, <2>2, <2>3 DEF MonReqShape, ReleaseLabels
    <2>6. QED BY <1>3, <2>4, <2>5
  <1>6. QED BY <1>4, <1>5

LEMMA WorkerShape ==
  ASSUME TypeOK, Shape, NEW r \in Resources, WorkerStep(r)
  PROVE  Shape'
  <1>1. UNCHANGED <<resourcesQueue, resQOpen, flags, monvars, stopvars>>
    BY DEF WorkerStep, WorkerEnds, WorkerKills, AddPrivRequestCheck, AddPrivRequestPut,
       AddPrivRequestKick, WorkerUnchanged, queues
  <1>2. \E l : Goto(r, l)
    BY DEF WorkerStep, WorkerEnds, WorkerKills, AddPrivRequestCheck, AddPrivRequestPut,
       AddPrivRequestKick
  <1>3. pc'[Monitor] = pc[Monitor]
    BY <1>2, GotoMoves, PoolAssumption DEF TypeOK, Threads
  <1>4. QED
    BY <1>1, <1>3 DEF Shape, StopShape, MonResShape, MonReqShape, flags, monvars, stopvars

LEMMA OutsideShape ==
  ASSUME TypeOK, Shape,
         \/ \E q \in Requests : CallerStep(q)
         \/ \E open \in BOOLEAN : AssignOpenStatus(open)
         \/ AdminStep
         \/ StopStep
  PROVE  Shape'
  <1> USE DEF queues, flags, monvars, stopvars, Shape
  <1>1. UNCHANGED <<monvars, pc>>
    BY DEF CallerStep, IsOpen, AddRequestCheckStop, AddRequestCheckFull, AddRequestPut,
       AssignOpenStatus, AdminStep, AssignOperation, AssignOperationReset, AssignOperationOper,
       AssignOperationStamp, AssignOperationKick, StopStep, AssignStopThreadFlag,
       StopPutDummyRequest, StopPutDummyResource, ShutdownGet, ShutdownPut, ShutdownClose,
       AdminUnchanged, StopUnchanged
  <1>2. b_stopThread => b_stopThread'
    BY DEF CallerStep, IsOpen, AddRequestCheckStop, AddRequestCheckFull, AddRequestPut,
       AssignOpenStatus, AdminStep, AssignOperation, AssignOperationReset, AssignOperationOper,
       AssignOperationStamp, AssignOperationKick, StopStep, AssignStopThreadFlag,
       StopPutDummyRequest, StopPutDummyResource, ShutdownGet, ShutdownPut, ShutdownClose,
       AdminUnchanged
  <1>3. MonResShape' /\ MonReqShape'
    BY <1>1, <1>2 DEF MonResShape, MonReqShape
  <1>4. ASSUME StopStep PROVE StopShape'
    <2>1. stopper' # "idle" /\ b_stopThread'
      BY <1>4 DEF StopStep, AssignStopThreadFlag, StopPutDummyRequest, StopPutDummyResource,
         ShutdownGet, ShutdownPut, ShutdownClose, StopShape
    <2>2. IF stopper' = "put" THEN stopCtr' < MaxRes ELSE stopItem' = None
      BY <1>4 DEF StopStep, AssignStopThreadFlag, StopPutDummyRequest, StopPutDummyResource,
         ShutdownGet, ShutdownPut, ShutdownClose, StopShape
    <2>3. QED BY <2>1, <2>2 DEF StopShape
  <1>5. ASSUME ~StopStep PROVE StopShape'
    <2>1. UNCHANGED <<resourcesQueue, resQOpen, b_stopThread, stopvars>>
      BY <1>5 DEF CallerStep, IsOpen, AddRequestCheckStop, AddRequestCheckFull, AddRequestPut,
         AssignOpenStatus, AdminStep, AssignOperation, AssignOperationReset,
         AssignOperationOper, AssignOperationStamp, AssignOperationKick, AdminUnchanged
    <2>2. QED BY <2>1 DEF StopShape
  <1>6. QED BY <1>3, <1>4, <1>5

-----------------------------------------------------------------------------
(* One step leaves every resource in at most one hand, and in one until a stop. *)

LEMMA MonitorExclusive ==
  ASSUME TypeOK, Shape, ResourceExclusive, MonitorStep
  PROVE  ResourceExclusive'
  <1> USE DEF MonitorUnchanged, queues, monvars, stopvars
  <1>1. ThreadsTyped /\ Monitor \in Threads /\ None \notin Resources /\ Monitor \notin Resources
    BY PoolAssumption DEF TypeOK, Threads
  <1>2. UNCHANGED stopItem
    BY DEF MonitorStep, MonitorLoop, MonitorGetRes, MonitorCheckStop, MonitorPutBack,
       MonitorTakePriv, MonitorNoPriv, MonitorGetRequest, MonitorCheckStop2,
       MonitorOper, MonitorOperGet, MonitorOperGiveUp, MonitorGetRes2,
       MonitorAssign, SpawnDummy, SpawnRequestThread, SpawnFails, RequestFailed
  <1>3. SUFFICES ASSUME NEW r \in Resources
                 PROVE  /\ Once(r, resourcesQueue')
                        /\ In(r, resourcesQueue') => pc'[r] = "idle" /\ monRes' # r /\ stopItem' # r
                        /\ monRes' = r => pc'[r] = "idle" /\ stopItem' # r
                        /\ stopItem' = r => pc'[r] = "idle"
    BY DEF ResourceExclusive, In, Once
  <1>4. /\ Once(r, resourcesQueue)
        /\ In(r, resourcesQueue) => pc[r] = "idle" /\ monRes # r /\ stopItem # r
        /\ monRes = r => pc[r] = "idle" /\ stopItem # r
        /\ stopItem = r => pc[r] = "idle"
    BY DEF ResourceExclusive
  <1>5. r \in ResItems
    BY DEF ResItems
  <1>6. CASE MonitorGetRes \/ MonitorOperGet \/ MonitorGetRes2
    <2>1. pc'[r] = pc[r] /\ monRes = None
      BY <1>1, <1>6, GotoMoves
         DEF MonitorGetRes, MonitorOperGet, MonitorGetRes2, Threads, Shape, MonResShape
    <2>2. CASE /\ resourcesQueue # <<>> /\ monRes' = Head(resourcesQueue)
               /\ resourcesQueue' = Tail(resourcesQueue)
      BY <1>2, <1>4, <1>5, <2>1, <2>2, ResQueueGet DEF Shape
    <2>3. CASE monRes' = None /\ UNCHANGED resourcesQueue
      BY <1>1, <1>2, <1>4, <2>1, <2>3
    <2>4. QED
      BY <1>6, <2>2, <2>3 DEF MonitorGetRes, MonitorOperGet, MonitorGetRes2, BlockingGetRes
  <1>7. CASE MonitorPutBack
    <2>1. pc'[r] = pc[r] /\ monRes' = None
      BY <1>1, <1>7, GotoMoves DEF MonitorPutBack, Threads
    <2>2. CASE resourcesQueue' = Append(resourcesQueue, monRes)
      BY <1>1, <1>2, <1>4, <1>5, <2>1, <2>2, ResQueuePut DEF TypeOK, LocalsTyped
    <2>3. CASE UNCHANGED resourcesQueue
      BY <1>1, <1>2, <1>4, <2>1, <2>3
    <2>4. QED BY <1>7, <2>2, <2>3 DEF MonitorPutBack
  <1>8. CASE SpawnRequestThread
    <2>1. UNCHANGED resourcesQueue /\ monRes' = None
      BY <1>8 DEF SpawnRequestThread
    <2>2. monRes # r => pc'[r] = pc[r]
      BY <1>1, <1>8 DEF SpawnRequestThread, ThreadsTyped, Threads
    <2>3. QED BY <1>1, <1>2, <1>4, <2>1, <2>2
  <1>9. CASE \/ MonitorLoop \/ MonitorCheckStop \/ MonitorTakePriv \/ MonitorNoPriv
             \/ MonitorGetRequest \/ MonitorCheckStop2 \/ MonitorOper \/ MonitorOperGiveUp
             \/ MonitorAssign \/ SpawnDummy \/ SpawnFails \/ RequestFailed
    <2>1. UNCHANGED resourcesQueue /\ (monRes' = None \/ UNCHANGED monRes)
      BY <1>9 DEF MonitorLoop, MonitorCheckStop, MonitorTakePriv, MonitorNoPriv,
         MonitorGetRequest, MonitorCheckStop2, MonitorOper, MonitorOperGiveUp,
         MonitorAssign, SpawnDummy, SpawnFails, RequestFailed, DropMonReq
    <2>2. \E l : Goto(Monitor, l)
      BY <1>9 DEF MonitorLoop, MonitorCheckStop, MonitorTakePriv, MonitorNoPriv,
         MonitorGetRequest, MonitorCheckStop2, MonitorOper, MonitorOperGiveUp,
         MonitorAssign, SpawnDummy, SpawnFails, RequestFailed
    <2>3. pc'[r] = pc[r]
      BY <1>1, <2>2, GotoMoves DEF Threads
    <2>4. QED BY <1>1, <1>2, <1>4, <2>1, <2>3
  <1>10. QED BY <1>6, <1>7, <1>8, <1>9 DEF MonitorStep

LEMMA ReleaseExclusive ==
  ASSUME TypeOK, Shape, ResourceExclusive, NEW t \in Threads, ReleaseStep(t)
  PROVE  ResourceExclusive'
  <1> USE DEF ReleaseUnchanged, queues, monvars, stopvars
  <1>1. ThreadsTyped /\ pc[t] \in ReleaseLabels
    BY DEF ReleaseStep, ReleaseResource, PutResInQueueExt, DoOperation, CountResDone,
       TestAllDone, OperationCompleted, PutResource, ReleaseLabels, TypeOK
  <1>2. Held(t) \in Resources /\ None \notin Resources /\ Monitor \notin Resources
    BY <1>1, HeldType, PoolAssumption
  <1>3. SUFFICES ASSUME NEW r \in Resources
                 PROVE  /\ Once(r, resourcesQueue')
                        /\ In(r, resourcesQueue') => pc'[r] = "idle" /\ monRes' # r /\ stopItem' # r
                        /\ monRes' = r => pc'[r] = "idle" /\ stopItem' # r
                        /\ stopItem' = r => pc'[r] = "idle"
    BY DEF ResourceExclusive, In, Once
  <1>4. /\ Once(r, resourcesQueue)
        /\ In(r, resourcesQueue) => pc[r] = "idle" /\ monRes # r /\ stopItem # r
        /\ monRes = r => pc[r] = "idle" /\ stopItem # r
        /\ stopItem = r => pc[r] = "idle"
    BY DEF ResourceExclusive
  <1>5. UNCHANGED stopItem /\ "idle" \notin ReleaseLabels /\ r \in ResItems
    BY DEF ReleaseStep, ReleaseResource, PutResInQueueExt, DoOperation, CountResDone,
       TestAllDone, OperationCompleted, PutResource, ReleaseLabels, ResItems
  <1>6. CASE \E outcome \in ReleaseOutcomes : ReleaseResource(t, outcome)
    <2>1. UNCHANGED resourcesQueue /\ (monRes' = monRes \/ monRes' = None)
      BY <1>6 DEF ReleaseResource
    <2>2. CASE t = Monitor
      <3>1. \/ pc'[r] = pc[r]
            \/ r = monRes /\ monRes' = None
        BY <1>1, <1>2, <1>6, <2>2 DEF ReleaseResource, Goto, ThreadsTyped, Threads, Held
      <3>2. QED BY <1>2, <1>4, <1>5, <2>1, <3>1
    <2>3. CASE t # Monitor
      <3>1. (r # t => pc'[r] = pc[r]) /\ (r = t => pc[r] # "idle")
        BY <1>1, <1>5, <1>6, <2>3 DEF ReleaseResource, Goto, ThreadsTyped, Threads
      <3>2. QED BY <1>2, <1>4, <1>5, <2>1, <3>1
    <2>4. QED BY <2>2, <2>3
  <1>7. CASE PutResource(t)
    <2>1. /\ \/ UNCHANGED resourcesQueue
             \/ resourcesQueue' = Append(resourcesQueue, Held(t))
          /\ IF t = Monitor THEN monRes' = None ELSE UNCHANGED monRes
      BY <1>7 DEF PutResource
    <2>2. CASE t = Monitor
      <3>1. pc'[r] = pc[r] /\ Held(t) = monRes
        BY <1>1, <1>2, <1>7, <2>2, GotoMoves DEF PutResource, Threads, Held
      <3>2. monRes \in ResItems
        BY DEF TypeOK, LocalsTyped
      <3>3. CASE UNCHANGED resourcesQueue
        BY <1>2, <1>4, <1>5, <2>1, <2>2, <3>1, <3>3
      <3>4. CASE resourcesQueue' = Append(resourcesQueue, monRes)
        BY <1>2, <1>4, <1>5, <2>1, <2>2, <3>1, <3>2, <3>4, ResQueuePut
      <3>5. QED BY <2>1, <3>1, <3>3, <3>4
    <2>3. CASE t # Monitor
      <3>1. /\ IF r = t THEN pc[r] # "idle" /\ pc'[r] = "idle" ELSE pc'[r] = pc[r]
            /\ Held(t) = t /\ t \in ResItems
        BY <1>1, <1>5, <1>7, <2>3, GotoMoves DEF PutResource, Threads, Held, ResItems
      <3>2. QED BY <1>2, <1>4, <1>5, <2>1, <2>3, <3>1, ResQueuePut
    <2>4. QED BY <2>2, <2>3
  <1>8. CASE \/ PutResInQueueExt(t) \/ DoOperation(t) \/ CountResDone(t) \/ TestAllDone(t)
             \/ OperationCompleted(t)
    <2>1. UNCHANGED <<resourcesQueue, monRes>> /\ \E l \in ReleaseLabels : Goto(t, l)
      BY <1>8 DEF PutResInQueueExt, DoOperation, CountResDone, TestAllDone, OperationCompleted,
         ReleaseLabels
    <2>2. IF r = t THEN pc[r] # "idle" /\ pc'[r] # "idle" ELSE pc'[r] = pc[r]
      BY <1>1, <1>5, <2>1, GotoMoves DEF Threads
    <2>3. QED BY <1>4, <1>5, <2>1, <2>2
  <1>9. QED BY <1>6, <1>7, <1>8 DEF ReleaseStep

LEMMA WorkerExclusive ==
  ASSUME TypeOK, ResourceExclusive, NEW t \in Resources, WorkerStep(t)
  PROVE  ResourceExclusive'
  <1>1. UNCHANGED <<resourcesQueue, monRes, stopItem>>
    BY DEF WorkerStep, WorkerEnds, WorkerKills, AddPrivRequestCheck, AddPrivRequestPut,
       AddPrivRequestKick, WorkerUnchanged, queues, monvars, stopvars
  <1>2. pc[t] # "idle" /\ \E l : l # "idle" /\ Goto(t, l)
    BY DEF WorkerStep, WorkerEnds, WorkerKills, AddPrivRequestCheck, AddPrivRequestPut,
       AddPrivRequestKick
  <1>3. \A r \in Resources : pc'[r] = "idle" <=> pc[r] = "idle"
    BY <1>2, GotoMoves DEF TypeOK, Threads
  <1>4. QED BY <1>1, <1>3 DEF ResourceExclusive

LEMMA OutsideExclusive ==
  ASSUME TypeOK, Shape, ResourceExclusive,
         \/ \E q \in Requests : CallerStep(q)
         \/ \E open \in BOOLEAN : AssignOpenStatus(open)
         \/ AdminStep
         \/ StopStep
  PROVE  ResourceExclusive'
  <1> USE DEF queues, monvars, stopvars
  <1>1. UNCHANGED <<monRes, pc>>
    BY DEF CallerStep, IsOpen, AddRequestCheckStop, AddRequestCheckFull, AddRequestPut,
       AssignOpenStatus, AdminStep, AssignOperation, AssignOperationReset, AssignOperationOper,
       AssignOperationStamp, AssignOperationKick, StopStep, AssignStopThreadFlag,
       StopPutDummyRequest, StopPutDummyResource, ShutdownGet, ShutdownPut, ShutdownClose,
       AdminUnchanged, StopUnchanged
  <1>2. CASE ~(StopPutDummyResource \/ ShutdownGet \/ ShutdownPut)
    <2>1. UNCHANGED <<resourcesQueue, stopItem>>
      BY <1>2 DEF CallerStep, IsOpen, AddRequestCheckStop, AddRequestCheckFull, AddRequestPut,
         AssignOpenStatus, AdminStep, AssignOperation, AssignOperationReset,
         AssignOperationOper, AssignOperationStamp, AssignOperationKick, AdminUnchanged,
         StopStep, AssignStopThreadFlag, StopPutDummyRequest, ShutdownClose
    <2>2. QED BY <1>1, <2>1 DEF ResourceExclusive
  <1>3. ASSUME NEW r \in Resources, StopPutDummyResource \/ ShutdownGet \/ ShutdownPut
        PROVE  /\ Once(r, resourcesQueue')
               /\ In(r, resourcesQueue') => pc[r] = "idle" /\ monRes # r /\ stopItem' # r
               /\ monRes = r => pc[r] = "idle" /\ stopItem' # r
               /\ stopItem' = r => pc[r] = "idle"
    <2>1. /\ Once(r, resourcesQueue)
          /\ In(r, resourcesQueue) => pc[r] = "idle" /\ monRes # r /\ stopItem # r
          /\ monRes = r => pc[r] = "idle" /\ stopItem # r
          /\ stopItem = r => pc[r] = "idle"
      BY DEF ResourceExclusive
    <2>2. /\ r \in ResItems /\ Dummy \in ResItems /\ stopItem \in ResItems /\ r # Dummy /\ r # None
          /\ resourcesQueue \in Seq(ResItems)
      BY PoolAssumption DEF ResItems, TypeOK, StopTyped, QueuesTyped
    <2>3. CASE StopPutDummyResource
      BY <2>1, <2>2, <2>3, PutNoWaitKeeps DEF StopPutDummyResource
    <2>4. CASE ShutdownPut
      BY <2>1, <2>2, <2>4, PutNoWaitKeeps DEF ShutdownPut
    <2>5. CASE ShutdownGet
      <3>1. CASE resourcesQueue = <<>>
        <4>1. UNCHANGED resourcesQueue /\ stopItem' = None
          BY <2>5, <3>1 DEF ShutdownGet
        <4>2. QED BY <2>1, <2>2, <4>1
      <3>2. CASE resourcesQueue # <<>>
        <4>1. stopItem' = Head(resourcesQueue) /\ resourcesQueue' = Tail(resourcesQueue)
          BY <2>5, <3>2 DEF ShutdownGet
        <4>2. /\ In(Head(resourcesQueue), resourcesQueue)
              /\ In(r, Tail(resourcesQueue)) => In(r, resourcesQueue)
              /\ Once(r, Tail(resourcesQueue))
              /\ ~(r = Head(resourcesQueue) /\ In(r, Tail(resourcesQueue)))
          BY <2>1, <2>2, <3>2, ResQueueGet DEF Shape
        <4>3. stopItem = None
          BY <2>5 DEF ShutdownGet, Shape, StopShape
        <4>4. QED BY <2>1, <4>1, <4>2, <4>3
      <3>3. QED BY <3>1, <3>2
    <2>6. QED BY <1>3, <2>3, <2>4, <2>5
  <1>4. CASE StopPutDummyResource \/ ShutdownGet \/ ShutdownPut
    BY <1>1, <1>3, <1>4 DEF ResourceExclusive, In, Once
  <1>5. QED BY <1>2, <1>4

\* Until a stop the monitor gives up a resource only to a worker or to the queue,
\* and a worker only to the queue, or because it is gone.
LEMMA LeakStep ==
  ASSUME TypeOK, Shape, ResourceExclusive, NoResourceLeak, Next
  PROVE  NoResourceLeak'
  <1> USE DEF queues, monvars, flags
  <1>1. SUFFICES ASSUME ~b_stopThread', NEW r \in Resources
                 PROVE  In(r, resourcesQueue') \/ monRes' = r \/ pc'[r] # "idle"
    BY DEF NoResourceLeak, In
  <1>2. ThreadsTyped /\ Monitor \in Threads /\ Monitor \notin Resources /\ None \notin Resources
        /\ Dummy \notin Resources /\ r \in ResItems
    BY PoolAssumption DEF TypeOK, Threads, ResItems
  <1>3. CASE MonitorStep
    <2>1. ~b_stopThread
      BY <1>1, <1>3 DEF MonitorUnchanged, MonitorStep, MonitorLoop, MonitorGetRes, MonitorCheckStop,
         MonitorPutBack, MonitorTakePriv, MonitorNoPriv, MonitorGetRequest, MonitorCheckStop2,
         MonitorOper, MonitorOperGet, MonitorOperGiveUp, MonitorGetRes2,
         MonitorAssign, SpawnDummy, SpawnRequestThread, SpawnFails, RequestFailed
    <2>2. In(r, resourcesQueue) \/ monRes = r \/ pc[r] # "idle"
      BY <2>1 DEF NoResourceLeak
    <2>3. CASE MonitorGetRes \/ MonitorOperGet \/ MonitorGetRes2
      <3>1. /\ pc'[r] = pc[r] /\ monRes = None /\ resQOpen /\ resourcesQueue # <<>>
            /\ monRes' = Head(resourcesQueue) /\ resourcesQueue' = Tail(resourcesQueue)
        BY <1>2, <2>1, <2>3, GotoMoves
           DEF MonitorGetRes, MonitorOperGet, MonitorGetRes2, BlockingGetRes, Threads,
               Shape, MonResShape, StopShape
      <3>2. QED BY <1>2, <2>2, <3>1, ResQueueGet DEF Shape
    <2>4. CASE MonitorPutBack
      <3>1. /\ pc'[r] = pc[r] /\ resQOpen /\ resourcesQueue' = Append(resourcesQueue, monRes)
        BY <1>2, <2>1, <2>4, GotoMoves DEF MonitorPutBack, Threads, Shape, StopShape
      <3>2. QED BY <1>2, <2>2, <3>1, ResQueuePut DEF TypeOK, LocalsTyped
    <2>5. CASE SpawnRequestThread
      BY <1>2, <2>2, <2>5 DEF SpawnRequestThread, ThreadsTyped, Threads
    <2>6. CASE \/ MonitorLoop \/ MonitorCheckStop \/ MonitorTakePriv \/ MonitorNoPriv
               \/ MonitorGetRequest \/ MonitorCheckStop2 \/ MonitorOper \/ MonitorOperGiveUp
               \/ MonitorAssign \/ SpawnDummy \/ SpawnFails \/ RequestFailed
      <3>1. UNCHANGED resourcesQueue /\ (monRes = r => monRes' = r)
        BY <1>2, <2>1, <2>6 DEF Shape, MonResShape, MonitorLoop, MonitorCheckStop, MonitorTakePriv, MonitorNoPriv,
           MonitorGetRequest, MonitorCheckStop2, MonitorOper, MonitorOperGiveUp,
           MonitorAssign, SpawnDummy, SpawnFails, RequestFailed, DropMonReq
      <3>2. \E l : Goto(Monitor, l)
        BY <2>6 DEF MonitorLoop, MonitorCheckStop, MonitorTakePriv, MonitorNoPriv,
           MonitorGetRequest, MonitorCheckStop2, MonitorOper, MonitorOperGiveUp,
           MonitorAssign, SpawnDummy, SpawnFails, RequestFailed
      <3>3. pc'[r] = pc[r]
        BY <1>2, <3>2, GotoMoves DEF Threads
      <3>4. QED BY <2>2, <3>1, <3>3
    <2>7. QED BY <1>3, <2>3, <2>4, <2>5, <2>6 DEF MonitorStep
  <1>4. CASE \E t \in Threads : ReleaseStep(t)
    <2>1. PICK t \in Threads : ReleaseStep(t)
      BY <1>4
    <2>2. /\ pc[t] \in ReleaseLabels /\ ~b_stopThread
      BY <1>1, <2>1 DEF ReleaseUnchanged, ReleaseStep, ReleaseResource, PutResInQueueExt,
         DoOperation, CountResDone, TestAllDone, OperationCompleted, PutResource, ReleaseLabels
    <2>3. /\ In(r, resourcesQueue) \/ monRes = r \/ pc[r] # "idle"
          /\ Held(t) \in Resources /\ resQOpen
      BY <2>2, HeldType DEF NoResourceLeak, Shape, StopShape
    <2>4. CASE PutResource(t)
      <3>1. resourcesQueue' = Append(resourcesQueue, Held(t))
        BY <2>3, <2>4 DEF PutResource
      <3>2. In(r, resourcesQueue') <=> In(r, resourcesQueue) \/ r = Held(t)
        BY <1>2, <2>3, <3>1, ResQueuePut DEF ResItems
      <3>3. r # Held(t) => pc'[r] = pc[r] /\ (monRes = r => monRes' = r)
        BY <1>2, <2>4, GotoMoves DEF PutResource, Threads, Held
      <3>4. QED BY <2>3, <3>2, <3>3
    <2>5. CASE \E outcome \in ReleaseOutcomes : ReleaseResource(t, outcome)
      <3>1. UNCHANGED resourcesQueue
        BY <2>5 DEF ReleaseResource
      <3>2. \/ pc'[r] = pc[r] /\ monRes' = monRes
            \/ pc'[r] # "idle"
            \/ pc'[r] = pc[r] /\ r # monRes
        BY <1>2, <2>5 DEF ReleaseResource, Goto, ThreadsTyped, Threads
      <3>3. QED BY <2>3, <3>1, <3>2
    <2>6. CASE \/ PutResInQueueExt(t) \/ DoOperation(t) \/ CountResDone(t) \/ TestAllDone(t)
               \/ OperationCompleted(t)
      <3>1. UNCHANGED <<resourcesQueue, monRes>> /\ \E l \in ReleaseLabels : Goto(t, l)
        BY <2>6 DEF PutResInQueueExt, DoOperation, CountResDone, TestAllDone,
           OperationCompleted, ReleaseLabels
      <3>2. pc'[r] = pc[r] \/ pc'[r] # "idle"
        BY <1>2, <3>1, GotoMoves DEF Threads, ReleaseLabels
      <3>3. QED BY <2>3, <3>1, <3>2
    <2>7. QED BY <2>1, <2>4, <2>5, <2>6 DEF ReleaseStep
  <1>5. CASE \E w \in Resources : WorkerStep(w)
    <2>1. PICK w \in Resources : WorkerStep(w)
      BY <1>5
    <2>2. UNCHANGED <<resourcesQueue, monRes, b_stopThread>>
      BY <2>1 DEF WorkerStep, WorkerEnds, WorkerKills, AddPrivRequestCheck, AddPrivRequestPut,
         AddPrivRequestKick, WorkerUnchanged
    <2>3. \E l : l # "idle" /\ Goto(w, l)
      BY <2>1 DEF WorkerStep, WorkerEnds, WorkerKills, AddPrivRequestCheck, AddPrivRequestPut,
         AddPrivRequestKick
    <2>4. pc'[r] = pc[r] \/ pc'[r] # "idle"
      BY <1>2, <2>3, GotoMoves DEF Threads
    <2>5. QED BY <1>1, <2>2, <2>4 DEF NoResourceLeak
  <1>6. CASE \/ \E q \in Requests : CallerStep(q)
             \/ \E open \in BOOLEAN : AssignOpenStatus(open)
             \/ AdminStep
    <2>1. UNCHANGED <<resourcesQueue, monRes, pc, b_stopThread>>
      BY <1>6 DEF CallerStep, IsOpen, AddRequestCheckStop, AddRequestCheckFull, AddRequestPut,
         AssignOpenStatus, AdminStep, AssignOperation, AssignOperationReset,
         AssignOperationOper, AssignOperationStamp, AssignOperationKick, AdminUnchanged
    <2>2. QED BY <1>1, <2>1 DEF NoResourceLeak
  <1>7. CASE StopStep
    BY <1>1, <1>7 DEF StopStep, AssignStopThreadFlag, StopPutDummyRequest, StopPutDummyResource,
       ShutdownGet, ShutdownPut, ShutdownClose, Shape, StopShape
  <1>8. QED BY <1>3, <1>4, <1>5, <1>6, <1>7 DEF Next

-----------------------------------------------------------------------------
(* The kill requests: one worker each, overtaken at most once. *)

\* Which requests can be in which queue.
LEMMA WhoIsQueued ==
  ASSUME TypeOK, NEW q
  PROVE  /\ In(q, requestsQueue) => q \in Requests \cup {Dummy}
         /\ In(q, privRequestsQueue) => q \in PrivRequests
  <1>1. \A i \in 1..Len(requestsQueue) : requestsQueue[i] \in Requests \cup {Dummy}
    BY ElementOfSeq DEF TypeOK, QueuesTyped
  <1>2. \A i \in 1..Len(privRequestsQueue) : privRequestsQueue[i] \in PrivRequests
    BY ElementOfSeq DEF TypeOK, QueuesTyped
  <1>3. QED BY <1>1, <1>2 DEF In

\* Nothing moves a request.
LEMMA PlaceFrame ==
  ASSUME RequestInOnePlace, UNCHANGED <<stage, requestsQueue, privRequestsQueue, monReq, work>>
  PROVE  RequestInOnePlace'
  BY DEF RequestInOnePlace, InOnePlace

\* A dummy request moves none.
LEMMA PlaceDummy ==
  ASSUME TypeOK, RequestInOnePlace, UNCHANGED <<stage, privRequestsQueue, monReq, work>>,
         requestsQueue' = PutNoWait(requestsQueue, Dummy, MaxRequests)
  PROVE  RequestInOnePlace'
  <1>1. SUFFICES ASSUME NEW q \in AllRequests
                 PROVE  InOnePlace(q)'
    BY DEF RequestInOnePlace
  <1>2. InOnePlace(q) /\ q # Dummy /\ requestsQueue \in Seq(Requests \cup {Dummy})
    BY PoolAssumption DEF RequestInOnePlace, AllRequests, TypeOK, QueuesTyped
  <1>3. /\ In(q, requestsQueue') <=> In(q, requestsQueue)
        /\ Once(q, requestsQueue')
    BY <1>2, PutNoWaitKeeps DEF InOnePlace
  <1>4. QED BY <1>2, <1>3 DEF InOnePlace

\* The monitor gives its request up.
LEMMA PlaceDrop ==
  ASSUME TypeOK, RequestInOnePlace, UNCHANGED <<requestsQueue, privRequestsQueue, work>>,
         NEW s \in {"dropped", "failed"}, monReq' = None,
         stage' = IF monReq \in AllRequests THEN [stage EXCEPT ![monReq] = s] ELSE stage
  PROVE  RequestInOnePlace'
  <1>1. SUFFICES ASSUME NEW q \in AllRequests
                 PROVE  InOnePlace(q)'
    BY DEF RequestInOnePlace
  <1>2. InOnePlace(q) /\ q # None
    BY PoolAssumption DEF RequestInOnePlace, AllRequests
  <1>3. stage'[q] = IF monReq = q THEN s ELSE stage[q]
    BY DEF TypeOK, StagesTyped
  <1>4. QED BY <1>2, <1>3 DEF InOnePlace

LEMMA MonitorPlaces ==
  ASSUME TypeOK, Shape, RequestInOnePlace, ResourceExclusive, WorkShape, MonitorStep
  PROVE  RequestInOnePlace'
  <1> USE DEF queues, monvars
  <1>1. CASE \/ MonitorLoop \/ MonitorGetRes \/ MonitorCheckStop \/ MonitorPutBack
             \/ MonitorNoPriv \/ MonitorOperGet \/ MonitorOperGiveUp \/ MonitorGetRes2
             \/ SpawnFails
    BY <1>1, PlaceFrame DEF MonitorLoop, MonitorGetRes, MonitorCheckStop, MonitorPutBack,
       MonitorNoPriv, MonitorOperGet, MonitorOperGiveUp, MonitorGetRes2, SpawnFails
  <1>2. CASE MonitorCheckStop2 \/ MonitorOper \/ MonitorAssign
    <2>1. CASE DropMonReq
      BY <1>2, <2>1, PlaceDrop DEF MonitorCheckStop2, MonitorOper, MonitorAssign, DropMonReq
    <2>2. CASE UNCHANGED <<stage, monReq>>
      BY <1>2, <2>2, PlaceFrame DEF MonitorCheckStop2, MonitorOper, MonitorAssign
    <2>3. QED BY <1>2, <2>1, <2>2 DEF MonitorCheckStop2, MonitorOper, MonitorAssign
  <1>3. CASE RequestFailed
    <2>1. monReq \in AllRequests
      BY <1>3 DEF RequestFailed, Shape, MonReqShape
    <2>2. QED BY <1>3, <2>1, PlaceDrop DEF RequestFailed, Stage
  <1>4. CASE SpawnDummy
    BY <1>4, PlaceDrop, PoolAssumption DEF SpawnDummy, AllRequests
  <1>5. CASE MonitorTakePriv
    <2>1. SUFFICES ASSUME NEW q \in AllRequests
                   PROVE  InOnePlace(q)'
      BY DEF RequestInOnePlace
    <2>2. /\ InOnePlace(q) /\ q # None /\ privRequestsQueue # <<>>
          /\ privRequestsQueue \in Seq(PrivRequests) /\ monReq = None
          /\ UNCHANGED <<requestsQueue, work>>
      BY <1>5, PoolAssumption DEF RequestInOnePlace, AllRequests, TypeOK, QueuesTyped,
         MonitorTakePriv, Shape, MonReqShape
    <2> DEFINE p == Head(privRequestsQueue)
    <2>3. /\ p \in PrivRequests /\ monReq' = p /\ privRequestsQueue' = Tail(privRequestsQueue)
          /\ stage'[q] = IF q = p THEN "taken" ELSE stage[q]
      BY <1>5, <2>2, GetFacts DEF MonitorTakePriv, Stage, TypeOK, StagesTyped
    <2>4. /\ In(p, privRequestsQueue) /\ ~In(p, requestsQueue)
          /\ Once(q, Tail(privRequestsQueue))
          /\ In(q, Tail(privRequestsQueue)) <=> In(q, privRequestsQueue) /\ q # p
      BY <2>2, <2>3, GetKeeps, WhoIsQueued, PoolAssumption DEF InOnePlace
    <2>5. QED BY <2>2, <2>3, <2>4 DEF InOnePlace
  <1>6. CASE MonitorGetRequest
    <2>1. SUFFICES ASSUME NEW q \in AllRequests
                   PROVE  InOnePlace(q)'
      BY DEF RequestInOnePlace
    <2>2. /\ InOnePlace(q) /\ q # None /\ q # Dummy /\ requestsQueue # <<>>
          /\ requestsQueue \in Seq(Requests \cup {Dummy}) /\ monReq = None
          /\ UNCHANGED <<privRequestsQueue, work>>
      BY <1>6, PoolAssumption DEF RequestInOnePlace, AllRequests, TypeOK, QueuesTyped,
         MonitorGetRequest, Shape, MonReqShape
    <2> DEFINE p == Head(requestsQueue)
    <2>3. /\ p \in Requests \cup {Dummy} /\ monReq' = p /\ requestsQueue' = Tail(requestsQueue)
          /\ stage'[q] = IF q = p THEN "taken" ELSE stage[q]
      BY <1>6, <2>2, GetFacts DEF MonitorGetRequest, TypeOK, StagesTyped
    <2>4. /\ In(p, requestsQueue) /\ (q = p => ~In(q, privRequestsQueue))
          /\ Once(q, Tail(requestsQueue))
          /\ In(q, Tail(requestsQueue)) <=> In(q, requestsQueue) /\ q # p
      BY <2>2, <2>3, GetKeeps, WhoIsQueued, PoolAssumption DEF InOnePlace
    <2>5. QED BY <2>2, <2>3, <2>4 DEF InOnePlace
  <1>7. CASE SpawnRequestThread
    <2>1. SUFFICES ASSUME NEW q \in AllRequests
                   PROVE  InOnePlace(q)'
      BY DEF RequestInOnePlace
    <2>2. /\ InOnePlace(q) /\ q # None /\ UNCHANGED <<requestsQueue, privRequestsQueue>>
          /\ monReq' = None /\ monReq \in AllRequests
          /\ stage'[q] = IF q = monReq THEN "running" ELSE stage[q]
      BY <1>7, PoolAssumption DEF RequestInOnePlace, AllRequests, SpawnRequestThread, Shape,
         MonReqShape, Stage, TypeOK, StagesTyped
    <2>3. /\ monRes \in Resources /\ work[monRes] = None
          /\ \A r \in Resources : work'[r] = IF r = monRes THEN monReq ELSE work[r]
      BY <1>7 DEF SpawnRequestThread, Shape, MonResShape, ResourceExclusive, WorkShape,
         TypeOK, LocalsTyped
    <2>4. QED BY <2>2, <2>3 DEF InOnePlace
  <1>8. QED
    BY <1>1, <1>2, <1>3, <1>4, <1>5, <1>6, <1>7 DEF MonitorStep

LEMMA ReleasePlaces ==
  ASSUME TypeOK, Shape, RequestInOnePlace, WorkShape, NEW t \in Threads, ReleaseStep(t)
  PROVE  RequestInOnePlace'
  <1> USE DEF queues, monvars
  <1>1. CASE ~\E outcome \in ReleaseOutcomes : ReleaseResource(t, outcome)
    BY <1>1, PlaceFrame DEF ReleaseStep, PutResInQueueExt, DoOperation, CountResDone,
       TestAllDone, OperationCompleted, PutResource
  <1>2. CASE \E outcome \in ReleaseOutcomes : ReleaseResource(t, outcome)
    <2>1. CASE t = Monitor
      BY <1>2, <2>1, PlaceFrame DEF ReleaseResource
    <2>2. CASE t # Monitor
      <3>1. SUFFICES ASSUME NEW q \in AllRequests
                     PROVE  InOnePlace(q)'
        BY DEF RequestInOnePlace
      <3>2. /\ InOnePlace(q) /\ q # None /\ t \in Resources
            /\ UNCHANGED <<requestsQueue, privRequestsQueue, monReq>>
        BY <1>2, <2>2, PoolAssumption DEF RequestInOnePlace, ReleaseResource, Threads, AllRequests
      <3>3. /\ work[t] \in AllRequests /\ stage'[q] = IF q = work[t] THEN "done" ELSE stage[q]
            /\ \A r \in Resources : work'[r] = IF r = t THEN None ELSE work[r]
        BY <1>2, <2>2, <3>2 DEF ReleaseResource, WorkShape, TypeOK, LocalsTyped, StagesTyped
      <3>4. QED BY <3>2, <3>3 DEF InOnePlace
    <2>3. QED BY <2>1, <2>2
  <1>3. QED BY <1>1, <1>2

LEMMA WorkerPlaces ==
  ASSUME TypeOK, RequestInOnePlace, KillShape, NEW r \in Resources, WorkerStep(r)
  PROVE  RequestInOnePlace'
  <1> USE DEF queues, monvars, WorkerUnchanged
  <1>1. CASE WorkerEnds(r)
    BY <1>1, PlaceFrame DEF WorkerEnds
  <1>2. CASE AddPrivRequestKick(r)
    BY <1>2, PlaceDummy DEF AddPrivRequestKick
  <1>3. CASE \/ \E p \in PrivRequests : WorkerKills(r, p)
             \/ AddPrivRequestCheck(r)
    <2>1. SUFFICES ASSUME NEW q \in AllRequests
                   PROVE  InOnePlace(q)'
      BY DEF RequestInOnePlace
    <2>2. /\ InOnePlace(q)
          /\ UNCHANGED <<requestsQueue, privRequestsQueue, monReq, work>>
      BY <1>3 DEF RequestInOnePlace, WorkerKills, AddPrivRequestCheck
    <2>3. \/ stage'[q] = stage[q]
          \/ stage[q] \in {"new", "adding"} /\ stage'[q] \in {"adding", "rejected"}
      BY <1>3 DEF WorkerKills, AddPrivRequestCheck, Stage, TypeOK, StagesTyped, KillShape, Killing
    <2>4. QED BY <2>2, <2>3 DEF InOnePlace
  <1>4. CASE AddPrivRequestPut(r)
    <2>1. SUFFICES ASSUME NEW q \in AllRequests
                   PROVE  InOnePlace(q)'
      BY DEF RequestInOnePlace
    <2> DEFINE p == kill[r]
    <2>2. /\ InOnePlace(q) /\ p \in PrivRequests /\ stage[p] = "adding"
          /\ UNCHANGED <<requestsQueue, monReq, work>>
          /\ privRequestsQueue' = Append(privRequestsQueue, p)
          /\ privRequestsQueue \in Seq(PrivRequests)
          /\ stage'[q] = IF q = p THEN "queued" ELSE stage[q]
      BY <1>4 DEF RequestInOnePlace, AddPrivRequestPut, KillShape, Killing, Stage,
         TypeOK, StagesTyped, QueuesTyped
    <2>3. q = p => ~In(q, privRequestsQueue)
      BY <2>2 DEF InOnePlace
    <2>4. /\ In(q, privRequestsQueue') <=> In(q, privRequestsQueue) \/ q = p
          /\ Once(q, privRequestsQueue')
      BY <2>2, <2>3, PutKeeps DEF InOnePlace
    <2>5. QED BY <2>2, <2>3, <2>4 DEF InOnePlace
  <1>5. QED BY <1>1, <1>2, <1>3, <1>4 DEF WorkerStep

LEMMA OutsidePlaces ==
  ASSUME TypeOK, RequestInOnePlace,
         \/ \E q \in Requests : CallerStep(q)
         \/ \E open \in BOOLEAN : AssignOpenStatus(open)
         \/ AdminStep
         \/ StopStep
  PROVE  RequestInOnePlace'
  <1> USE DEF queues, monvars, AdminUnchanged, StopUnchanged
  <1>1. CASE \/ \E open \in BOOLEAN : AssignOpenStatus(open)
             \/ AdminStep \/ StopStep
    <2>1. CASE UNCHANGED requestsQueue
      <3>1. UNCHANGED <<stage, privRequestsQueue, monReq, work>>
        BY <1>1 DEF AssignOpenStatus, AdminStep, AssignOperation, AssignOperationReset,
           AssignOperationOper, AssignOperationStamp, AssignOperationKick, StopStep,
           AssignStopThreadFlag, StopPutDummyRequest, StopPutDummyResource, ShutdownGet,
           ShutdownPut, ShutdownClose
      <3>2. QED BY <2>1, <3>1, PlaceFrame
    <2>2. CASE AssignOperationKick \/ StopPutDummyRequest
      BY <2>2, PlaceDummy DEF AssignOperationKick, StopPutDummyRequest
    <2>3. QED
      BY <1>1, <2>1, <2>2 DEF AssignOpenStatus, AdminStep, AssignOperation,
         AssignOperationReset, AssignOperationOper, AssignOperationStamp, StopStep,
         AssignStopThreadFlag, StopPutDummyResource, ShutdownGet, ShutdownPut, ShutdownClose
  <1>2. ASSUME NEW c \in Requests, CallerStep(c)
        PROVE  RequestInOnePlace'
    <2>1. SUFFICES ASSUME NEW q \in AllRequests
                   PROVE  InOnePlace(q)'
      BY DEF RequestInOnePlace
    <2>2. CASE IsOpen(c) \/ AddRequestCheckStop(c) \/ AddRequestCheckFull(c)
      <3>1. /\ InOnePlace(q)
            /\ UNCHANGED <<requestsQueue, privRequestsQueue, monReq, work>>
        BY <2>2 DEF RequestInOnePlace, IsOpen, AddRequestCheckStop, AddRequestCheckFull
      <3>2. \/ stage'[q] = stage[q]
            \/ /\ stage[q] \in {"new", "adding", "checked"}
               /\ stage'[q] \in {"adding", "checked", "putting", "rejected"}
        BY <2>2 DEF IsOpen, AddRequestCheckStop, AddRequestCheckFull, Stage, TypeOK, StagesTyped
      <3>3. QED BY <3>1, <3>2 DEF InOnePlace
    <2>3. CASE AddRequestPut(c)
      <3>1. /\ InOnePlace(q) /\ q # Dummy /\ stage[c] = "putting"
            /\ UNCHANGED <<privRequestsQueue, monReq, work>>
            /\ requestsQueue' = Append(requestsQueue, c)
            /\ requestsQueue \in Seq(Requests \cup {Dummy})
            /\ stage'[q] = IF q = c THEN "queued" ELSE stage[q]
        BY <2>3, PoolAssumption DEF RequestInOnePlace, AddRequestPut, Stage, AllRequests,
           TypeOK, StagesTyped, QueuesTyped
      <3>2. q = c => ~In(q, requestsQueue)
        BY <3>1 DEF InOnePlace
      <3>3. /\ In(q, requestsQueue') <=> In(q, requestsQueue) \/ q = c
            /\ Once(q, requestsQueue')
        BY <3>1, <3>2, PutKeeps DEF InOnePlace
      <3>4. QED BY <3>1, <3>2, <3>3 DEF InOnePlace
    <2>4. QED BY <1>2, <2>2, <2>3 DEF CallerStep
  <1>3. QED BY <1>1, <1>2

-----------------------------------------------------------------------------
(* The workers: each has a request while it runs, and a kill of its own. *)

LEMMA MonitorWork ==
  ASSUME TypeOK, Shape, RequestInOnePlace, ResourceExclusive, WorkShape, KillShape, MonitorStep
  PROVE  WorkShape' /\ KillShape'
  <1>1. ThreadsTyped /\ Monitor \in Threads /\ Monitor \notin Resources /\ Resources \subseteq Threads
    BY PoolAssumption DEF TypeOK, Threads
  <1>2. UNCHANGED kill
    BY DEF MonitorUnchanged, MonitorStep, MonitorLoop, MonitorGetRes, MonitorCheckStop,
       MonitorPutBack, MonitorTakePriv, MonitorNoPriv, MonitorGetRequest, MonitorCheckStop2,
       MonitorOper, MonitorOperGet, MonitorOperGiveUp, MonitorGetRes2,
       MonitorAssign, SpawnDummy, SpawnRequestThread, SpawnFails, RequestFailed
  <1>3. WorkShape' /\ \A r \in Resources : Killing(r)' => Killing(r)
    <2>1. CASE SpawnRequestThread
      <3>1. monReq # None /\ monRes \in Resources
        BY <2>1, PoolAssumption
           DEF SpawnRequestThread, Shape, MonReqShape, MonResShape, AllRequests
      <3>2. \A r \in Resources :
              IF r = monRes THEN pc'[r] = "run" /\ work'[r] = monReq
                            ELSE pc'[r] = pc[r] /\ work'[r] = work[r]
        BY <1>1, <2>1, <3>1 DEF SpawnRequestThread, ThreadsTyped, TypeOK, LocalsTyped
      <3>3. QED BY <3>1, <3>2 DEF WorkShape, Killing
    <2>2. CASE UNCHANGED work /\ \E l : Goto(Monitor, l)
      <3>1. \A r \in Resources : pc'[r] = pc[r]
        BY <1>1, <2>2, GotoMoves
      <3>2. QED BY <2>2, <3>1 DEF WorkShape, Killing
    <2>3. QED
      BY <2>1, <2>2 DEF MonitorStep, MonitorLoop, MonitorGetRes, MonitorCheckStop,
         MonitorPutBack, MonitorTakePriv, MonitorNoPriv, MonitorGetRequest, MonitorCheckStop2,
         MonitorOper, MonitorOperGet, MonitorOperGiveUp, MonitorGetRes2,
         MonitorAssign, SpawnDummy, SpawnFails, RequestFailed
  <1>4. \A p \in PrivRequests : stage[p] = "adding" => stage'[p] = "adding"
    <2>1. \/ UNCHANGED stage
          \/ /\ monReq \in AllRequests
             /\ \E s : stage' = [stage EXCEPT ![monReq] = s]
          \/ /\ requestsQueue # <<>>
             /\ \E s : stage' = [stage EXCEPT ![Head(requestsQueue)] = s]
          \/ /\ privRequestsQueue # <<>>
             /\ \E s : stage' = [stage EXCEPT ![Head(privRequestsQueue)] = s]
      BY DEF MonitorStep, MonitorLoop, MonitorGetRes, MonitorCheckStop,
         MonitorPutBack, MonitorTakePriv, MonitorNoPriv, MonitorGetRequest, MonitorCheckStop2,
         MonitorOper, MonitorOperGet, MonitorOperGiveUp, MonitorGetRes2, DropMonReq, Stage,
         MonitorAssign, SpawnDummy, SpawnRequestThread, SpawnFails, RequestFailed,
         Shape, MonReqShape
    <2>2. monReq \in AllRequests => stage[monReq] = "taken"
      BY DEF RequestInOnePlace, InOnePlace
    <2>3. ASSUME requestsQueue # <<>>, Head(requestsQueue) \in AllRequests
          PROVE  stage[Head(requestsQueue)] = "queued"
      BY <2>3, GetKeeps DEF RequestInOnePlace, InOnePlace, TypeOK, QueuesTyped
    <2>4. ASSUME privRequestsQueue # <<>>, Head(privRequestsQueue) \in AllRequests
          PROVE  stage[Head(privRequestsQueue)] = "queued"
      BY <2>4, GetKeeps DEF RequestInOnePlace, InOnePlace, TypeOK, QueuesTyped
    <2>5. QED
      BY <2>1, <2>2, <2>3, <2>4 DEF TypeOK, StagesTyped, AllRequests
  <1>5. QED BY <1>2, <1>3, <1>4 DEF KillShape, Killing

LEMMA ReleaseWork ==
  ASSUME TypeOK, Shape, RequestInOnePlace, ResourceExclusive, WorkShape, KillShape,
         NEW t \in Threads, ReleaseStep(t)
  PROVE  WorkShape' /\ KillShape'
  <1>1. ThreadsTyped /\ Monitor \in Threads /\ Monitor \notin Resources /\ Resources \subseteq Threads
    BY PoolAssumption DEF TypeOK, Threads
  <1>2. UNCHANGED kill /\ pc[t] \in ReleaseLabels /\ Held(t) \in Resources
    <2>1. UNCHANGED kill /\ pc[t] \in ReleaseLabels
      BY DEF ReleaseStep, ReleaseResource, PutResInQueueExt, DoOperation, CountResDone,
         TestAllDone, OperationCompleted, PutResource, ReleaseLabels
    <2>2. QED BY <2>1, HeldType
  <1>3. CASE \E outcome \in ReleaseOutcomes : ReleaseResource(t, outcome)
    <2>1. \A r \in Resources :
            IF r = t THEN pc[r] = "release" /\ pc'[r] \in {"gone", "ext"} /\ work'[r] = None
            ELSE /\ work'[r] = work[r]
                 /\ pc'[r] = pc[r] \/ (t = Monitor /\ r = monRes /\ pc'[r] = "gone")
      BY <1>1, <1>3 DEF ReleaseResource, Goto, ThreadsTyped, TypeOK, LocalsTyped
    <2>2. t = Monitor => pc[monRes] = "idle"
      BY <1>2 DEF Held, ResourceExclusive
    <2>3. WorkShape' /\ \A r \in Resources : Killing(r)' => Killing(r)
      BY <1>1, <2>1, <2>2 DEF WorkShape, Killing
    <2>4. \A p \in PrivRequests : stage[p] = "adding" => stage'[p] = "adding"
      <3>1. t # Monitor => /\ work[t] \in AllRequests /\ stage[work[t]] = "running"
                           /\ stage' = [stage EXCEPT ![work[t]] = "done"]
        BY <1>3 DEF ReleaseResource, WorkShape, RequestInOnePlace, InOnePlace, Threads,
           TypeOK, LocalsTyped
      <3>2. t = Monitor => UNCHANGED stage
        BY <1>3 DEF ReleaseResource
      <3>3. QED BY <3>1, <3>2 DEF TypeOK, StagesTyped, AllRequests
    <2>5. QED BY <1>2, <2>3, <2>4 DEF KillShape, Killing
  <1>4. CASE \/ PutResInQueueExt(t) \/ DoOperation(t) \/ CountResDone(t) \/ TestAllDone(t)
             \/ OperationCompleted(t) \/ PutResource(t)
    <2>1. /\ UNCHANGED <<work, stage>> /\ pc[t] # "release"
          /\ \E l : Goto(t, l) /\ (t # Monitor => l \in (ReleaseLabels \ {"release"}) \cup {"idle"})
      BY <1>4 DEF PutResInQueueExt, DoOperation, CountResDone, TestAllDone, OperationCompleted,
         PutResource, ReleaseLabels
    <2>2. \A r \in Resources :
            IF r = t THEN pc[r] \in ReleaseLabels \ {"release"}
                          /\ pc'[r] \in (ReleaseLabels \ {"release"}) \cup {"idle"}
            ELSE pc'[r] = pc[r]
      BY <1>1, <1>2, <2>1, GotoMoves
    <2>3. WorkShape' /\ \A r \in Resources : Killing(r)' => Killing(r)
      BY <2>1, <2>2 DEF WorkShape, Killing, ReleaseLabels
    <2>4. QED BY <1>2, <2>1, <2>3 DEF KillShape, Killing
  <1>5. QED BY <1>3, <1>4 DEF ReleaseStep

LEMMA WorkerWork ==
  ASSUME TypeOK, WorkShape, KillShape, NEW w \in Resources, WorkerStep(w)
  PROVE  WorkShape' /\ KillShape'
  <1> USE DEF WorkerUnchanged
  <1>1. ThreadsTyped /\ Resources \subseteq Threads
    BY DEF TypeOK, Threads
  <1>2. WorkShape'
    <2>1. /\ UNCHANGED work /\ pc[w] \in {"run", "addPriv", "putPriv", "kick"}
          /\ \E l \in {"addPriv", "putPriv", "kick", "release"} : Goto(w, l)
      BY DEF WorkerStep, WorkerEnds, WorkerKills, AddPrivRequestCheck, AddPrivRequestPut,
         AddPrivRequestKick
    <2>2. \A r \in Resources :
            IF r = w THEN pc'[r] \in {"addPriv", "putPriv", "kick", "release"}
                     ELSE pc'[r] = pc[r]
      BY <1>1, <2>1, GotoMoves
    <2>3. QED BY <2>1, <2>2 DEF WorkShape
  <1>3. SUFFICES ASSUME NEW r \in Resources, Killing(r)'
                 PROVE  /\ kill'[r] \in PrivRequests
                        /\ stage'[kill'[r]] = "adding"
                        /\ \A s \in Resources : Killing(s)' /\ kill'[s] = kill'[r] => s = r
    BY <1>2 DEF KillShape, Killing
  <1>4. \A s \in Resources : Killing(s) =>
          /\ kill[s] \in PrivRequests
          /\ stage[kill[s]] = "adding"
          /\ \A u \in Resources : Killing(u) /\ kill[u] = kill[s] => u = s
    BY DEF KillShape
  <1>5. CASE WorkerEnds(w) \/ AddPrivRequestKick(w)
    <2>1. /\ UNCHANGED <<kill, stage>>
          /\ \A s \in Resources : Killing(s)' => Killing(s)
      BY <1>1, <1>5, GotoMoves DEF WorkerEnds, AddPrivRequestKick, Killing
    <2>2. QED BY <1>3, <1>4, <2>1
  <1>6. CASE \E p \in PrivRequests : WorkerKills(w, p)
    <2>1. PICK p \in PrivRequests : WorkerKills(w, p)
      BY <1>6
    <2>2. /\ stage[p] = "new" /\ stage'[p] = "adding" /\ kill'[w] = p
          /\ \A q \in PrivRequests \ {p} : stage'[q] = stage[q]
          /\ \A s \in Resources \ {w} : kill'[s] = kill[s] /\ (Killing(s)' <=> Killing(s))
      BY <1>1, <2>1, GotoMoves
         DEF WorkerKills, Stage, TypeOK, StagesTyped, LocalsTyped, AllRequests, Killing
    <2>3. QED BY <1>3, <1>4, <2>2
  <1>7. CASE AddPrivRequestCheck(w) \/ AddPrivRequestPut(w)
    <2>1. Killing(w) /\ UNCHANGED kill
      BY <1>7 DEF AddPrivRequestCheck, AddPrivRequestPut, Killing
    <2>2. /\ \A s \in Resources \ {w} : Killing(s)' <=> Killing(s)
          /\ Killing(w)' => UNCHANGED stage
          /\ \A q \in PrivRequests : q # kill[w] => stage'[q] = stage[q]
      BY <1>1, <1>4, <1>7, <2>1, GotoMoves
         DEF AddPrivRequestCheck, AddPrivRequestPut, Stage, TypeOK, StagesTyped,
             AllRequests, Killing
    <2>3. QED BY <1>3, <1>4, <2>1, <2>2
  <1>8. QED BY <1>5, <1>6, <1>7 DEF WorkerStep

LEMMA OutsideWork ==
  ASSUME TypeOK, WorkShape, KillShape,
         \/ \E q \in Requests : CallerStep(q)
         \/ \E open \in BOOLEAN : AssignOpenStatus(open)
         \/ AdminStep
         \/ StopStep
  PROVE  WorkShape' /\ KillShape'
  <1>1. UNCHANGED <<pc, work, kill>>
    BY DEF CallerStep, IsOpen, AddRequestCheckStop, AddRequestCheckFull, AddRequestPut,
       AssignOpenStatus, AdminStep, AssignOperation, AssignOperationReset, AssignOperationOper,
       AssignOperationStamp, AssignOperationKick, StopStep, AssignStopThreadFlag,
       StopPutDummyRequest, StopPutDummyResource, ShutdownGet, ShutdownPut, ShutdownClose,
       AdminUnchanged, StopUnchanged
  <1>2. \A p \in PrivRequests : stage'[p] = stage[p]
    <2>1. \/ UNCHANGED stage
          \/ \E q \in Requests : \E s : stage' = [stage EXCEPT ![q] = s]
      BY DEF CallerStep, IsOpen, AddRequestCheckStop, AddRequestCheckFull, AddRequestPut,
         AssignOpenStatus, AdminStep, AssignOperation, AssignOperationReset,
         AssignOperationOper, AssignOperationStamp, AssignOperationKick, StopStep,
         AssignStopThreadFlag, StopPutDummyRequest, StopPutDummyResource, ShutdownGet,
         ShutdownPut, ShutdownClose, AdminUnchanged, StopUnchanged, Stage
    <2>2. QED BY <2>1, PoolAssumption DEF TypeOK, StagesTyped, AllRequests
  <1>3. QED BY <1>1, <1>2 DEF WorkShape, KillShape, Killing

-----------------------------------------------------------------------------
(* The history of the starts: overtaken requests, starts after the stop. *)

LEMMA MonitorOvertaken ==
  ASSUME TypeOK, Shape, RequestInOnePlace, OvertakenShape, MonitorStep
  PROVE  OvertakenShape'
  <1>1. ThreadsTyped /\ Monitor \in Threads /\ Monitor \notin Resources /\ PrivRequests \subseteq AllRequests
    BY PoolAssumption DEF TypeOK, Threads, AllRequests
  <1>2. SUFFICES ASSUME NEW p \in PrivRequests
                 PROVE  /\ stage'[p] \in {"new", "adding"} => overtaken'[p] = 0
                        /\ overtaken'[p] <= 1
                        /\ stage'[p] = "queued" /\ overtaken'[p] # 0 => MonitorLooksFirst'
    BY DEF OvertakenShape
  <1>3. /\ stage[p] \in {"new", "adding"} => overtaken[p] = 0
        /\ overtaken[p] <= 1 /\ overtaken[p] \in Nat
        /\ stage[p] = "queued" /\ overtaken[p] # 0 => MonitorLooksFirst
    BY DEF OvertakenShape, TypeOK, StopTyped
  <1>4. stage'[p] = stage[p] \/ stage'[p] \in {"taken", "running", "dropped", "failed"}
    BY <1>1 DEF MonitorStep, MonitorLoop, MonitorGetRes, MonitorCheckStop,
       MonitorPutBack, MonitorTakePriv, MonitorNoPriv, MonitorGetRequest, MonitorCheckStop2,
       MonitorOper, MonitorOperGet, MonitorOperGiveUp, MonitorGetRes2, DropMonReq, Stage,
       MonitorAssign, SpawnDummy, SpawnRequestThread, SpawnFails, RequestFailed,
       TypeOK, StagesTyped
  <1>5. CASE SpawnRequestThread
    <2>1. /\ pc'[Monitor] = "loop" /\ pc[Monitor] = "spawn"
          /\ overtaken'[p] = IF monReq \in Requests /\ stage[p] = "queued"
                             THEN overtaken[p] + 1 ELSE overtaken[p]
      BY <1>1, <1>5 DEF SpawnRequestThread, Shape, MonResShape, ThreadsTyped
    <2>2. monReq \in Requests /\ stage[p] = "queued" => overtaken[p] = 0
      BY <1>3, <2>1, PoolAssumption DEF MonitorLooksFirst
    <2>3. stage[p] = "queued" => stage'[p] \notin {"new", "adding"}
      BY <1>4
    <2>4. QED BY <1>3, <1>4, <2>1, <2>2, <2>3 DEF MonitorLooksFirst
  <1>6. ASSUME UNCHANGED overtaken,
               stage[p] = "queued" /\ stage'[p] = "queued" /\ MonitorLooksFirst => MonitorLooksFirst'
        PROVE  /\ stage'[p] \in {"new", "adding"} => overtaken'[p] = 0
               /\ overtaken'[p] <= 1
               /\ stage'[p] = "queued" /\ overtaken'[p] # 0 => MonitorLooksFirst'
    BY <1>3, <1>4, <1>6
  <1>7. CASE \/ MonitorLoop \/ MonitorGetRes \/ MonitorCheckStop \/ MonitorPutBack
             \/ MonitorTakePriv \/ MonitorNoPriv
    <2>1. UNCHANGED overtaken
      BY <1>7 DEF MonitorLoop, MonitorGetRes, MonitorCheckStop, MonitorPutBack,
         MonitorTakePriv, MonitorNoPriv, history
    <2>2. ASSUME stage[p] = "queued", stage'[p] = "queued", MonitorLooksFirst
          PROVE  MonitorLooksFirst'
      <3>1. CASE MonitorNoPriv
        <4>1. In(p, privRequestsQueue)
          BY <1>1, <2>2, WhoIsQueued, PoolAssumption DEF RequestInOnePlace, InOnePlace
        <4>2. privRequestsQueue # <<>>
          BY <4>1 DEF In
        <4>3. QED BY <3>1, <4>2 DEF MonitorNoPriv
      <3>2. CASE MonitorTakePriv
        BY <3>2, GetFacts DEF MonitorTakePriv, MonitorLooksFirst, TypeOK, QueuesTyped
      <3>3. CASE \/ MonitorLoop \/ MonitorGetRes \/ MonitorCheckStop \/ MonitorPutBack
        BY <1>1, <3>3, GotoMoves DEF MonitorLoop, MonitorGetRes, MonitorCheckStop,
           MonitorPutBack, MonitorLooksFirst
      <3>4. QED BY <1>7, <3>1, <3>2, <3>3
    <2>3. QED BY <1>6, <2>1, <2>2
  <1>8. CASE \/ MonitorGetRequest \/ MonitorCheckStop2 \/ MonitorOper \/ MonitorOperGet
             \/ MonitorOperGiveUp \/ MonitorGetRes2 \/ MonitorAssign \/ SpawnDummy
    <2>1. UNCHANGED overtaken
      BY <1>8 DEF MonitorGetRequest, MonitorCheckStop2, MonitorOper, MonitorOperGet,
         MonitorOperGiveUp, MonitorGetRes2, MonitorAssign, SpawnDummy, history
    <2>2. ~MonitorLooksFirst
      BY <1>8, PoolAssumption
         DEF MonitorGetRequest, MonitorCheckStop2, MonitorOper, MonitorOperGet,
             MonitorOperGiveUp, MonitorGetRes2, MonitorAssign, SpawnDummy,
             MonitorLooksFirst, Shape, MonReqShape
    <2>3. QED BY <1>6, <2>1, <2>2
  <1>9. CASE SpawnFails \/ RequestFailed
    <2>1. UNCHANGED overtaken
      BY <1>9 DEF SpawnFails, RequestFailed, history
    <2>2. MonitorLooksFirst => MonitorLooksFirst'
      BY <1>1, <1>9, GotoMoves DEF SpawnFails, RequestFailed, MonitorLooksFirst
    <2>3. QED BY <1>6, <2>1, <2>2
  <1>10. QED BY <1>5, <1>7, <1>8, <1>9 DEF MonitorStep

LEMMA OthersOvertaken ==
  ASSUME TypeOK, Shape, WorkShape, KillShape, RequestInOnePlace, OvertakenShape,
         Next, ~MonitorStep
  PROVE  OvertakenShape'
  <1>1. ThreadsTyped /\ Monitor \in Threads /\ Monitor \notin Resources /\ PrivRequests \subseteq AllRequests
    BY PoolAssumption DEF TypeOK, Threads, AllRequests
  <1>2. SUFFICES ASSUME NEW p \in PrivRequests
                 PROVE  /\ stage'[p] \in {"new", "adding"} => overtaken'[p] = 0
                        /\ overtaken'[p] <= 1
                        /\ stage'[p] = "queued" /\ overtaken'[p] # 0 => MonitorLooksFirst'
    BY DEF OvertakenShape
  <1>3. /\ stage[p] \in {"new", "adding"} => overtaken[p] = 0
        /\ overtaken[p] <= 1
        /\ stage[p] = "queued" /\ overtaken[p] # 0 => MonitorLooksFirst
    BY DEF OvertakenShape
  <1>4. CASE \E t \in Threads : ReleaseStep(t)
    <2>1. PICK t \in Threads : ReleaseStep(t)
      BY <1>4
    <2>2. UNCHANGED overtaken /\ pc[t] \in ReleaseLabels /\ UNCHANGED monReq
      BY <2>1 DEF ReleaseUnchanged, history, ReleaseStep, ReleaseResource, PutResInQueueExt,
         DoOperation, CountResDone, TestAllDone, OperationCompleted, PutResource,
         ReleaseLabels, monvars
    <2>3. stage'[p] = stage[p] \/ stage'[p] = "done"
      BY <1>1, <2>1 DEF ReleaseStep, ReleaseResource, PutResInQueueExt,
         DoOperation, CountResDone, TestAllDone, OperationCompleted, PutResource,
         TypeOK, StagesTyped
    <2>4. MonitorLooksFirst => MonitorLooksFirst'
      <3>1. CASE t = Monitor
        BY <2>2, <3>1 DEF MonitorLooksFirst, ReleaseLabels
      <3>2. CASE t # Monitor
        <4>1. pc'[Monitor] = pc[Monitor]
          BY <1>1, <2>1, <3>2, GotoMoves DEF ReleaseStep, ReleaseResource, PutResInQueueExt,
             DoOperation, CountResDone, TestAllDone, OperationCompleted, PutResource,
             ThreadsTyped
        <4>2. QED BY <2>2, <4>1 DEF MonitorLooksFirst
      <3>3. QED BY <3>1, <3>2
    <2>5. QED BY <1>3, <2>2, <2>3, <2>4
  <1>5. CASE \E w \in Resources : WorkerStep(w)
    <2>1. PICK w \in Resources : WorkerStep(w)
      BY <1>5
    <2>2. UNCHANGED <<overtaken, monReq>> /\ \E l : Goto(w, l)
      BY <2>1 DEF WorkerUnchanged, history, monvars, WorkerStep, WorkerEnds, WorkerKills,
         AddPrivRequestCheck, AddPrivRequestPut, AddPrivRequestKick
    <2>3. pc'[Monitor] = pc[Monitor]
      BY <1>1, <2>2, GotoMoves DEF Threads
    <2>4. \/ stage'[p] = stage[p]
          \/ stage[p] \in {"new", "adding"}
      BY <1>1, <2>1 DEF WorkerStep, WorkerEnds, WorkerKills, AddPrivRequestCheck,
         AddPrivRequestPut, AddPrivRequestKick, Stage, TypeOK, StagesTyped, KillShape, Killing
    <2>5. QED BY <1>3, <2>2, <2>3, <2>4 DEF MonitorLooksFirst
  <1>6. CASE \/ \E q \in Requests : CallerStep(q)
             \/ \E open \in BOOLEAN : AssignOpenStatus(open)
             \/ AdminStep
             \/ StopStep
    <2>1. UNCHANGED <<overtaken, monReq, pc>>
      BY <1>6 DEF CallerStep, IsOpen, AddRequestCheckStop, AddRequestCheckFull, AddRequestPut,
         AssignOpenStatus, AdminStep, AssignOperation, AssignOperationReset,
         AssignOperationOper, AssignOperationStamp, AssignOperationKick, StopStep,
         AssignStopThreadFlag, StopPutDummyRequest, StopPutDummyResource, ShutdownGet,
         ShutdownPut, ShutdownClose, AdminUnchanged, StopUnchanged, history, monvars
    <2>2. \/ UNCHANGED stage
          \/ \E q \in Requests : \E s : stage' = [stage EXCEPT ![q] = s]
      BY <1>6 DEF CallerStep, IsOpen, AddRequestCheckStop, AddRequestCheckFull, AddRequestPut,
         AssignOpenStatus, AdminStep, AssignOperation, AssignOperationReset,
         AssignOperationOper, AssignOperationStamp, AssignOperationKick, StopStep,
         AssignStopThreadFlag, StopPutDummyRequest, StopPutDummyResource, ShutdownGet,
         ShutdownPut, ShutdownClose, AdminUnchanged, StopUnchanged, Stage
    <2>3. stage'[p] = stage[p]
      BY <1>1, <2>2, PoolAssumption DEF TypeOK, StagesTyped
    <2>4. QED BY <1>3, <2>1, <2>3 DEF MonitorLooksFirst
  <1>7. QED BY <1>4, <1>5, <1>6 DEF Next

LEMMA StartedStep ==
  ASSUME TypeOK, Shape, StartedShape, Next
  PROVE  StartedShape'
  <1>1. ThreadsTyped /\ Monitor \in Threads /\ Monitor \notin Resources /\ startedAfterStop \in Nat
    BY PoolAssumption DEF TypeOK, StopTyped, Threads
  <1>2. CASE SpawnRequestThread
    <2>1. /\ pc'[Monitor] = "loop" /\ pc[Monitor] = "spawn" /\ UNCHANGED b_stopThread
          /\ startedAfterStop' = IF b_stopThread THEN startedAfterStop + 1 ELSE startedAfterStop
      BY <1>1, <1>2 DEF SpawnRequestThread, MonitorUnchanged, flags, Shape, MonResShape, ThreadsTyped
    <2>2. startedAfterStop = 0
      BY <2>1 DEF StartedShape
    <2>3. QED BY <1>1, <2>1, <2>2 DEF StartedShape
  <1>3. ASSUME ~SpawnRequestThread
        PROVE  UNCHANGED startedAfterStop /\ (b_stopThread => b_stopThread')
    <2>1. CASE MonitorStep
      BY <1>3, <2>1 DEF MonitorUnchanged, MonitorStep, MonitorLoop, MonitorGetRes, MonitorCheckStop,
         MonitorPutBack, MonitorTakePriv, MonitorNoPriv, MonitorGetRequest, MonitorCheckStop2,
         MonitorOper, MonitorOperGet, MonitorOperGiveUp, MonitorGetRes2,
         MonitorAssign, SpawnDummy, SpawnFails, RequestFailed, history, flags
    <2>2. CASE \E t \in Threads : ReleaseStep(t)
      BY <2>2 DEF ReleaseUnchanged, ReleaseStep, ReleaseResource, PutResInQueueExt,
         DoOperation, CountResDone, TestAllDone, OperationCompleted, PutResource, history, flags
    <2>3. CASE \E w \in Resources : WorkerStep(w)
      BY <2>3 DEF WorkerUnchanged, WorkerStep, WorkerEnds, WorkerKills, AddPrivRequestCheck,
         AddPrivRequestPut, AddPrivRequestKick, history, flags
    <2>4. CASE \/ \E q \in Requests : CallerStep(q)
               \/ \E open \in BOOLEAN : AssignOpenStatus(open)
               \/ AdminStep
               \/ StopStep
      BY <2>4 DEF CallerStep, IsOpen, AddRequestCheckStop, AddRequestCheckFull, AddRequestPut,
         AssignOpenStatus, AdminStep, AssignOperation, AssignOperationReset,
         AssignOperationOper, AssignOperationStamp, AssignOperationKick, StopStep,
         AssignStopThreadFlag, StopPutDummyRequest, StopPutDummyResource, ShutdownGet,
         ShutdownPut, ShutdownClose, AdminUnchanged, StopUnchanged, history, flags
    <2>5. QED BY <2>1, <2>2, <2>3, <2>4 DEF Next
  <1>4. ASSUME ~SpawnRequestThread, b_stopThread, pc[Monitor] \in {"loop", "down"}
        PROVE  pc'[Monitor] \in {"loop", "down"}
    <2>1. CASE MonitorStep
      <3>1. MonitorLoop
        BY <1>4, <2>1 DEF MonitorStep, MonitorGetRes, MonitorCheckStop,
           MonitorPutBack, MonitorTakePriv, MonitorNoPriv, MonitorGetRequest, MonitorCheckStop2,
           MonitorOper, MonitorOperGet, MonitorOperGiveUp, MonitorGetRes2,
           MonitorAssign, SpawnDummy, SpawnFails, RequestFailed
      <3>2. QED BY <1>1, <1>4, <3>1, GotoMoves DEF MonitorLoop
    <2>2. CASE \E t \in Threads : ReleaseStep(t)
      <3>1. PICK t \in Threads : ReleaseStep(t)
        BY <2>2
      <3>2. pc[t] \in ReleaseLabels
        BY <3>1 DEF ReleaseStep, ReleaseResource, PutResInQueueExt,
           DoOperation, CountResDone, TestAllDone, OperationCompleted, PutResource, ReleaseLabels
      <3>3. t # Monitor
        BY <1>4, <3>2 DEF ReleaseLabels
      <3>4. pc'[Monitor] = pc[Monitor]
        BY <1>1, <3>1, <3>3, GotoMoves DEF ReleaseStep, ReleaseResource, PutResInQueueExt,
           DoOperation, CountResDone, TestAllDone, OperationCompleted, PutResource, ThreadsTyped
      <3>5. QED BY <1>4, <3>4
    <2>3. CASE \E w \in Resources : WorkerStep(w)
      <3>1. PICK w \in Resources : \E l : Goto(w, l)
        BY <2>3 DEF WorkerStep, WorkerEnds, WorkerKills, AddPrivRequestCheck,
           AddPrivRequestPut, AddPrivRequestKick
      <3>2. QED BY <1>1, <1>4, <3>1, GotoMoves DEF Threads
    <2>4. CASE \/ \E q \in Requests : CallerStep(q)
               \/ \E open \in BOOLEAN : AssignOpenStatus(open)
               \/ AdminStep
               \/ StopStep
      <3>1. UNCHANGED pc
        BY <2>4 DEF CallerStep, IsOpen, AddRequestCheckStop, AddRequestCheckFull, AddRequestPut,
           AssignOpenStatus, AdminStep, AssignOperation, AssignOperationReset,
           AssignOperationOper, AssignOperationStamp, AssignOperationKick, StopStep,
           AssignStopThreadFlag, StopPutDummyRequest, StopPutDummyResource, ShutdownGet,
           ShutdownPut, ShutdownClose, AdminUnchanged, StopUnchanged
      <3>2. QED BY <1>4, <3>1
    <2>5. QED BY <2>1, <2>2, <2>3, <2>4 DEF Next
  <1>5. QED BY <1>2, <1>3, <1>4 DEF StartedShape

-----------------------------------------------------------------------------
(* The operation: ctrResDone never tells more than what was done. *)

\* Two threads that release have two resources in hand.
LEMMA HeldApart ==
  ASSUME TypeOK, Shape, ResourceExclusive, NEW t \in Threads, NEW u \in Threads, t # u,
         pc[t] \in ReleaseLabels, pc[u] \in ReleaseLabels
  PROVE  Held(t) # Held(u)
  <1>1. \A r \in Resources : monRes = r => pc[r] = "idle"
    BY DEF ResourceExclusive
  <1>2. QED BY <1>1, PoolAssumption DEF Held, Threads, ReleaseLabels, Shape, MonResShape

\* When as many are stamped as there are resources, all are.
LEMMA StampedFacts ==
  /\ IsFiniteSet(Stamped) /\ Cardinality(Stamped) \in Nat /\ MaxRes \in Nat
  /\ Cardinality(Stamped) <= MaxRes
  /\ Cardinality(Stamped) >= MaxRes => Stamped = Resources
  <1>1. Stamped \in SUBSET Resources
    BY DEF Stamped
  <1>2. /\ IsFiniteSet(Stamped) /\ Cardinality(Stamped) <= Cardinality(Resources)
        /\ Cardinality(Resources) = Cardinality(Stamped) => Resources = Stamped
    BY <1>1, FS_Subset, PoolAssumption
  <1>3. Cardinality(Stamped) \in Nat /\ Cardinality(Resources) \in Nat
    BY <1>2, FS_CardinalityType, PoolAssumption
  <1>4. QED BY <1>2, <1>3 DEF MaxRes

\* A step that neither brings a thread to the operation nor changes what it
\* works on.
LEMMA OperFrame ==
  ASSUME OperShape, UNCHANGED <<opvars, adminvars>>,
         \A t \in Threads : pc'[t] \in OperLabels => pc'[t] = pc[t] /\ Held(t)' = Held(t)
  PROVE  OperShape'
  <1>1. SUFFICES ASSUME opsAccepted <= 1 PROVE BeforeShape' /\ CountShape'
    BY DEF OperShape, adminvars
  <1>2. BeforeShape /\ CountShape /\ Stamped' = Stamped
    BY <1>1 DEF OperShape, opvars, Stamped
  <1>3. BeforeShape'
    BY <1>2 DEF BeforeShape, opvars, adminvars, OperLabels
  <1>4. CountShape'
    BY <1>2 DEF CountShape, opvars, OperLabels
  <1>5. QED BY <1>3, <1>4

\* The same for a thread that only moves, to a point outside the operation.
LEMMA OperMove ==
  ASSUME TypeOK, OperShape, NEW t \in Threads, NEW l, l \notin OperLabels, Goto(t, l),
         UNCHANGED <<opvars, adminvars>>, t = Monitor \/ UNCHANGED monRes
  PROVE  OperShape'
  <1>1. pc'[t] = l /\ \A u \in Threads : u # t => pc'[u] = pc[u]
    BY GotoMoves DEF TypeOK
  <1>2. \A u \in Threads : pc'[u] \in OperLabels => pc'[u] = pc[u] /\ Held(u)' = Held(u)
    BY <1>1, PoolAssumption DEF Held
  <1>3. QED BY <1>2, OperFrame

LEMMA MonitorOperShape ==
  ASSUME TypeOK, Shape, OperShape, MonitorStep
  PROVE  OperShape'
  <1>1. UNCHANGED <<opvars, adminvars>> /\ Monitor \in Threads
    BY DEF MonitorUnchanged, MonitorStep, MonitorLoop, MonitorGetRes, MonitorCheckStop,
       MonitorPutBack, MonitorTakePriv, MonitorNoPriv, MonitorGetRequest, MonitorCheckStop2,
       MonitorOper, MonitorOperGet, MonitorOperGiveUp, MonitorGetRes2, Threads,
       MonitorAssign, SpawnDummy, SpawnRequestThread, SpawnFails, RequestFailed
  <1>2. CASE SpawnRequestThread
    <2>1. monRes \in Resources /\ monRes # Monitor /\ ThreadsTyped
      BY <1>2, PoolAssumption DEF SpawnRequestThread, Shape, MonResShape, TypeOK
    <2>2. \A u \in Threads : pc'[u] \in OperLabels => pc'[u] = pc[u] /\ u # Monitor
      BY <1>2, <2>1 DEF SpawnRequestThread, ThreadsTyped, OperLabels, Threads
    <2>3. \A u \in Threads : pc'[u] \in OperLabels => pc'[u] = pc[u] /\ Held(u)' = Held(u)
      BY <2>2 DEF Held
    <2>4. QED BY <1>1, <2>3, OperFrame
  <1>3. CASE ~SpawnRequestThread
    <2>1. PICK l : l \notin OperLabels /\ Goto(Monitor, l)
      BY <1>3 DEF MonitorStep, MonitorLoop, MonitorGetRes, MonitorCheckStop, OperLabels,
       MonitorPutBack, MonitorTakePriv, MonitorNoPriv, MonitorGetRequest, MonitorCheckStop2,
       MonitorOper, MonitorOperGet, MonitorOperGiveUp, MonitorGetRes2,
       MonitorAssign, SpawnDummy, SpawnFails, RequestFailed
    <2>2. QED BY <1>1, <2>1, OperMove
  <1>4. QED BY <1>2, <1>3

LEMMA WorkerOperShape ==
  ASSUME TypeOK, OperShape, NEW r \in Resources, WorkerStep(r)
  PROVE  OperShape'
  <1>1. PICK l : l \notin OperLabels /\ Goto(r, l)
    BY DEF WorkerStep, WorkerEnds, WorkerKills, AddPrivRequestCheck, AddPrivRequestPut,
       AddPrivRequestKick, OperLabels
  <1>2. UNCHANGED <<opvars, adminvars, monRes>> /\ r \in Threads
    BY DEF WorkerStep, WorkerEnds, WorkerKills, AddPrivRequestCheck, AddPrivRequestPut,
       AddPrivRequestKick, WorkerUnchanged, monvars, Threads
  <1>3. QED BY <1>1, <1>2, OperMove

LEMMA OutsideOperShape ==
  ASSUME TypeOK, OperShape,
         \/ \E q \in Requests : CallerStep(q)
         \/ \E open \in BOOLEAN : AssignOpenStatus(open)
         \/ AdminStep
         \/ StopStep
  PROVE  OperShape'
  <1>1. UNCHANGED <<pc, monRes, tStampLastOper, tmp>>
    BY DEF CallerStep, IsOpen, AddRequestCheckStop, AddRequestCheckFull, AddRequestPut,
       AssignOpenStatus, AdminStep, AssignOperation, AssignOperationReset,
       AssignOperationOper, AssignOperationStamp, AssignOperationKick, StopStep,
       AssignStopThreadFlag, StopPutDummyRequest, StopPutDummyResource, ShutdownGet,
       ShutdownPut, ShutdownClose, AdminUnchanged, StopUnchanged, monvars, opvars
  <1>2. ASSUME UNCHANGED <<opvars, adminvars>> PROVE OperShape'
    BY <1>1, <1>2, OperFrame DEF Held
  <1>3. CASE AdminStep
    <2>1. opsAccepted \in Nat /\ opsAccepted' \in Nat /\ opsAccepted <= opsAccepted'
      BY <1>3 DEF AdminStep, AssignOperation, AssignOperationReset, AssignOperationOper,
         AssignOperationStamp, AssignOperationKick, TypeOK, OperationTyped
    <2>2. SUFFICES ASSUME opsAccepted' <= 1 PROVE BeforeShape' /\ CountShape'
      BY DEF OperShape
    <2>3. BeforeShape /\ CountShape /\ Stamped' = Stamped /\ \A t \in Threads : Held(t)' = Held(t)
      BY <1>1, <2>1, <2>2 DEF OperShape, Stamped, Held
    <2>4. tStampOperation \in Nat /\ ctrResDone \in Nat
      BY DEF TypeOK, OperationTyped
    <2>5. CASE \E b_force \in BOOLEAN : AssignOperation(b_force)
      BY <1>1, <2>1, <2>2, <2>3, <2>5 DEF AssignOperation, BeforeShape, CountShape
    <2>6. CASE AssignOperationReset \/ AssignOperationOper
      BY <1>1, <2>3, <2>6 DEF AssignOperationReset, AssignOperationOper, BeforeShape, CountShape
    <2>7. CASE AssignOperationStamp
      <3>1. tStampOperation = 0 /\ tStampOperation' = 1 /\ admin' = "kick" /\ operationToDo'
            /\ ctrResDone' = 0 /\ opsAccepted' # 0
        BY <2>3, <2>7 DEF AssignOperationStamp, BeforeShape
      <3>2. BeforeShape'
        BY <3>1 DEF BeforeShape
      <3>3. CountShape'
        BY <1>1, <2>3, <3>1, StampedFacts DEF BeforeShape, CountShape, OperLabels
      <3>4. QED BY <3>2, <3>3
    <2>8. CASE AssignOperationKick
      BY <1>1, <2>3, <2>8 DEF AssignOperationKick, BeforeShape, CountShape
    <2>9. QED BY <1>3, <2>5, <2>6, <2>7, <2>8 DEF AdminStep
  <1>4. CASE ~AdminStep
    <2>1. UNCHANGED <<opvars, adminvars>>
      BY <1>4 DEF CallerStep, IsOpen, AddRequestCheckStop, AddRequestCheckFull, AddRequestPut,
       AssignOpenStatus, StopStep, StopUnchanged,
       AssignStopThreadFlag, StopPutDummyRequest, StopPutDummyResource, ShutdownGet,
       ShutdownPut, ShutdownClose
    <2>2. QED BY <1>2, <2>1
  <1>5. QED BY <1>3, <1>4

\* A thread stamps its resource: one more is stamped, unless it was already.
LEMMA StampOne ==
  ASSUME TypeOK, NEW r \in Resources, tStampOperation = 1,
         tStampLastOper' = [tStampLastOper EXCEPT ![r] = tStampOperation]
  PROVE  /\ Stamped' = Stamped \cup {r}
         /\ Cardinality(Stamped') \in Nat
         /\ Cardinality(Stamped') = IF r \in Stamped THEN Cardinality(Stamped)
                                                     ELSE Cardinality(Stamped) + 1
  <1>1. Stamped' = Stamped \cup {r}
    BY DEF Stamped, TypeOK, OperationTyped
  <1>2. QED BY <1>1, StampedFacts, FS_AddElement

LEMMA ReleaseResourceOper ==
  ASSUME TypeOK, Shape, ResourceExclusive, OperShape, NEW t \in Threads,
         NEW outcome \in ReleaseOutcomes, ReleaseResource(t, outcome)
  PROVE  OperShape'
  <1>1. Held(t) \in Resources /\ ThreadsTyped /\ (t = Monitor => monRes \in Resources /\ monRes # t)
    BY HeldType, PoolAssumption DEF ReleaseResource, ReleaseLabels, TypeOK, Shape, MonResShape
  <1>2. \A u \in Threads : pc'[u] \in OperLabels => pc'[u] = pc[u] /\ Held(u)' = Held(u)
    <2>1. SUFFICES ASSUME NEW u \in Threads, pc'[u] \in OperLabels
                   PROVE  pc'[u] = pc[u] /\ Held(u)' = Held(u)
      OBVIOUS
    <2>2. pc'[t] \notin OperLabels
      <3>1. CASE outcome = "gone"
        BY <1>1, <3>1 DEF ReleaseResource, ThreadsTyped, Shape, MonResShape, OperLabels, TypeOK,
           LocalsTyped
      <3>2. CASE outcome # "gone"
        BY <1>1, <3>2, GotoMoves DEF ReleaseResource, OperLabels
      <3>3. QED BY <3>1, <3>2
    <2>3. u # t
      BY <2>1, <2>2
    <2>4. pc'[u] = pc[u]
      <3>1. CASE outcome = "gone"
        BY <1>1, <2>1, <2>3, <3>1 DEF ReleaseResource, ThreadsTyped, OperLabels
      <3>2. CASE outcome # "gone"
        BY <1>1, <2>3, <3>2, GotoMoves DEF ReleaseResource
      <3>3. QED BY <3>1, <3>2
    <2>5. Held(u)' = Held(u)
      BY <2>3 DEF ReleaseResource, Held
    <2>6. QED BY <2>4, <2>5
  <1>3. CASE outcome # "rebuilt"
    BY <1>2, <1>3, OperFrame DEF ReleaseResource, ReleaseUnchanged, opvars, adminvars
  <1>4. CASE outcome = "rebuilt"
    <2>1. /\ tStampLastOper' = [tStampLastOper EXCEPT ![Held(t)] = tStampOperation]
          /\ UNCHANGED <<operationToDo, ctrResDone, tStampOperation, tmp, admin, opsAccepted>>
      BY <1>4 DEF ReleaseResource, ReleaseUnchanged, adminvars
    <2>2. SUFFICES ASSUME opsAccepted <= 1 PROVE BeforeShape' /\ CountShape'
      BY <2>1 DEF OperShape
    <2>3. BeforeShape /\ CountShape
      BY <2>2 DEF OperShape
    <2>4. BeforeShape'
      BY <1>1, <1>2, <2>1, <2>3 DEF BeforeShape, TypeOK, OperationTyped
    <2>5. ASSUME tStampOperation = 1 PROVE CountShape'
      <3>1. /\ Stamped' = Stamped \cup {Held(t)} /\ Stamped \subseteq Resources
            /\ Cardinality(Stamped') \in Nat /\ Cardinality(Stamped) \in Nat
            /\ Cardinality(Stamped) <= Cardinality(Stamped')
        <4>1. Stamped \subseteq Resources
          BY DEF Stamped
        <4>2. /\ Stamped' = Stamped \cup {Held(t)} /\ Cardinality(Stamped') \in Nat
              /\ Cardinality(Stamped') = IF Held(t) \in Stamped THEN Cardinality(Stamped)
                                                              ELSE Cardinality(Stamped) + 1
          BY <1>1, <2>1, <2>5, StampOne
        <4>3. Cardinality(Stamped) \in Nat
          BY StampedFacts
        <4>4. Cardinality(Stamped) <= Cardinality(Stamped')
          BY <4>2, <4>3
        <4>5. QED BY <4>1, <4>2, <4>3, <4>4
      <3>2. /\ ctrResDone <= Cardinality(Stamped') /\ (operationToDo \/ Stamped' = Resources)
            /\ \A u \in Threads : /\ pc[u] = "count" => tmp[u] + 1 <= Cardinality(Stamped')
                                  /\ pc[u] = "clear" => Stamped' = Resources
        <4>1. ctrResDone \in Nat /\ \A u \in Threads : tmp[u] \in Nat
          BY DEF TypeOK, OperationTyped
        <4>2. QED BY <1>1, <2>3, <2>5, <3>1, <4>1, SMTT(40) DEF CountShape
      <3>3. \A r \in Resources : tStampLastOper'[r] \in {0, 1}
        BY <2>1, <2>3, <2>5 DEF CountShape, TypeOK, OperationTyped
      <3>4. ASSUME NEW u \in Threads, pc'[u] = "doOper" PROVE Held(u)' \notin Stamped'
        <4>1. pc[u] = "doOper" /\ Held(u)' = Held(u) /\ u # t
          BY <1>2, <3>4 DEF OperLabels, ReleaseResource
        <4>2. Held(u) \notin Stamped
          BY <2>3, <2>5, <4>1 DEF CountShape
        <4>3. Held(u) # Held(t)
          BY <4>1, HeldApart DEF ReleaseLabels, ReleaseResource
        <4>4. QED BY <3>1, <4>1, <4>2, <4>3
      <3>5. QED BY <1>2, <2>1, <3>2, <3>3, <3>4 DEF CountShape, OperLabels
    <2>6. QED BY <2>1, <2>4, <2>5 DEF CountShape
  <1>5. QED BY <1>3, <1>4

LEMMA ReleaseOperShape ==
  ASSUME TypeOK, Shape, ResourceExclusive, OperShape, NEW t \in Threads, ReleaseStep(t)
  PROVE  OperShape'
  <1>1. UNCHANGED adminvars
    BY DEF ReleaseUnchanged, ReleaseStep, ReleaseResource, PutResInQueueExt,
       DoOperation, CountResDone, TestAllDone, OperationCompleted, PutResource
  <1>2. CASE \E outcome \in ReleaseOutcomes : ReleaseResource(t, outcome)
    BY <1>2, ReleaseResourceOper
  <1>3. CASE PutResource(t)
    <2>1. PICK l : l \notin OperLabels /\ Goto(t, l)
      BY <1>3 DEF PutResource, OperLabels, TypeOK, LocalsTyped
    <2>2. UNCHANGED opvars /\ (t = Monitor \/ UNCHANGED monRes)
      BY <1>3 DEF PutResource
    <2>3. QED BY <1>1, <2>1, <2>2, OperMove
  <1>4. CASE PutResInQueueExt(t) \/ DoOperation(t) \/ CountResDone(t) \/ TestAllDone(t)
             \/ OperationCompleted(t)
    <2>1. /\ UNCHANGED <<tStampOperation, monRes, admin, opsAccepted>>
          /\ pc[t] \in ReleaseLabels /\ \E l : Goto(t, l)
      BY <1>1, <1>4 DEF PutResInQueueExt, DoOperation, CountResDone, TestAllDone,
         OperationCompleted, adminvars, opvars, monvars, ReleaseLabels
    <2>2. SUFFICES ASSUME opsAccepted <= 1 PROVE BeforeShape' /\ CountShape'
      BY <2>1 DEF OperShape
    <2>3. BeforeShape /\ CountShape /\ Held(t) \in Resources
      BY <2>1, <2>2, HeldType DEF OperShape
    <2>4. \A u \in Threads : Held(u)' = Held(u) /\ (u # t => pc'[u] = pc[u])
      BY <2>1, GotoMoves DEF Held, TypeOK
    <2>5. ctrResDone \in Nat /\ tStampOperation \in {0, 1} /\ tStampLastOper \in [Resources -> Nat]
          /\ tmp \in [Threads -> Nat]
      BY <2>3 DEF TypeOK, OperationTyped, BeforeShape
    <2>6. CASE PutResInQueueExt(t)
      <3>1. /\ pc'[t] = IF OperationIsDue(Held(t)) THEN "doOper" ELSE "put"
            /\ UNCHANGED opvars /\ Stamped' = Stamped
        BY <2>6, GotoMoves DEF PutResInQueueExt, TypeOK, opvars, Stamped
      <3>2. OperationIsDue(Held(t)) => tStampOperation = 1 /\ Held(t) \notin Stamped
        BY <2>3, <2>5 DEF OperationIsDue, Stamped
      <3>3. BeforeShape'
        BY <2>1, <2>3, <2>4, <3>1, <3>2 DEF BeforeShape, opvars, OperLabels
      <3>4. CountShape'
        BY <2>1, <2>3, <2>4, <3>1, <3>2 DEF CountShape, opvars
      <3>5. QED BY <3>3, <3>4
    <2>7. CASE DoOperation(t)
      <3>1. /\ pc[t] = "doOper" /\ pc'[t] = "count" /\ tmp' = [tmp EXCEPT ![t] = ctrResDone]
            /\ tStampLastOper' = [tStampLastOper EXCEPT ![Held(t)] = tStampOperation]
            /\ UNCHANGED <<ctrResDone, operationToDo>>
        BY <2>7, GotoMoves DEF DoOperation, TypeOK
      <3>2. tStampOperation = 1
        BY <2>3, <2>5, <3>1 DEF BeforeShape, OperLabels
      <3>3. Held(t) \notin Stamped
        BY <2>3, <3>1, <3>2 DEF CountShape
      <3>4. /\ Stamped' = Stamped \cup {Held(t)} /\ Stamped \subseteq Resources
            /\ Cardinality(Stamped) \in Nat /\ Cardinality(Stamped') = Cardinality(Stamped) + 1
        BY <2>3, <3>1, <3>2, <3>3, StampOne, StampedFacts DEF Stamped
      <3>5. BeforeShape'
        BY <2>1, <2>3, <3>1, <3>2 DEF BeforeShape
      <3>6. ctrResDone' <= Cardinality(Stamped') /\ (operationToDo' \/ Stamped' = Resources)
        BY <2>3, <2>5, <3>1, <3>2, <3>4 DEF CountShape
      <3>7. \A r \in Resources : tStampLastOper'[r] \in {0, 1}
        BY <2>3, <2>5, <3>1, <3>2 DEF CountShape
      <3>8. \A u \in Threads : pc'[u] = "doOper" => Held(u)' \notin Stamped'
        <4>1. SUFFICES ASSUME NEW u \in Threads, pc'[u] = "doOper" PROVE Held(u) \notin Stamped'
          BY <2>4
        <4>2. u # t /\ pc[u] = "doOper"
          BY <2>4, <3>1, <4>1
        <4>3. Held(u) \notin Stamped /\ Held(u) # Held(t)
          BY <2>1, <2>3, <3>2, <4>2, HeldApart DEF CountShape, ReleaseLabels
        <4>4. QED BY <3>4, <4>3
      <3>9. \A u \in Threads : pc'[u] = "count" => tmp'[u] + 1 <= Cardinality(Stamped')
        BY <2>3, <2>4, <2>5, <3>1, <3>2, <3>4 DEF CountShape
      <3>10. \A u \in Threads : pc'[u] = "clear" => Stamped' = Resources
        BY <2>3, <2>4, <3>1, <3>2, <3>4 DEF CountShape
      <3>11. QED BY <3>5, <3>6, <3>7, <3>8, <3>9, <3>10 DEF CountShape
    <2>8. CASE CountResDone(t)
      <3>1. /\ pc[t] = "count" /\ pc'[t] = "testDone" /\ ctrResDone' = tmp[t] + 1
            /\ UNCHANGED <<tStampLastOper, tmp, operationToDo>> /\ Stamped' = Stamped
        BY <2>8, GotoMoves DEF CountResDone, TypeOK, Stamped
      <3>2. tStampOperation = 1
        BY <2>3, <2>5, <3>1 DEF BeforeShape, OperLabels
      <3>3. BeforeShape'
        BY <2>1, <2>3, <3>1, <3>2 DEF BeforeShape
      <3>4. CountShape'
        BY <2>1, <2>3, <2>4, <3>1, <3>2 DEF CountShape
      <3>5. QED BY <3>3, <3>4
    <2>9. CASE TestAllDone(t)
      <3>1. /\ pc[t] = "testDone" /\ UNCHANGED opvars /\ Stamped' = Stamped
            /\ pc'[t] = IF ctrResDone >= MaxRes THEN "clear" ELSE "put"
        BY <2>9, GotoMoves DEF TestAllDone, TypeOK, opvars, Stamped
      <3>2. tStampOperation = 1
        BY <2>3, <2>5, <3>1 DEF BeforeShape, OperLabels
      <3>3. BeforeShape'
        BY <2>1, <2>3, <3>1, <3>2 DEF BeforeShape, opvars
      <3>4. ctrResDone >= MaxRes => Stamped = Resources
        BY <2>3, <2>5, <3>2, StampedFacts DEF CountShape
      <3>5. CountShape'
        BY <2>1, <2>3, <2>4, <3>1, <3>2, <3>4 DEF CountShape, opvars
      <3>6. QED BY <3>3, <3>5
    <2>10. CASE OperationCompleted(t)
      <3>1. /\ pc[t] = "clear" /\ pc'[t] = "put"
            /\ UNCHANGED <<tStampLastOper, tmp, ctrResDone>> /\ Stamped' = Stamped
        BY <2>10, GotoMoves DEF OperationCompleted, TypeOK, Stamped
      <3>2. tStampOperation = 1
        BY <2>3, <2>5, <3>1 DEF BeforeShape, OperLabels
      <3>3. BeforeShape'
        BY <2>1, <2>3, <3>1, <3>2 DEF BeforeShape
      <3>4. CountShape'
        BY <2>1, <2>3, <2>4, <3>1, <3>2 DEF CountShape
      <3>5. QED BY <3>3, <3>4
    <2>11. QED BY <1>4, <2>6, <2>7, <2>8, <2>9, <2>10
  <1>5. QED BY <1>2, <1>3, <1>4 DEF ReleaseStep

\* Every step of the pool.
LEMMA OperStep ==
  ASSUME TypeOK, Shape, ResourceExclusive, OperShape, Next
  PROVE  OperShape'
  BY MonitorOperShape, ReleaseOperShape, WorkerOperShape, OutsideOperShape DEF Next

-----------------------------------------------------------------------------
(* The flag that keeps a kill from queueing a kill. *)

LEMMA FlagStep ==
  ASSUME TypeOK, Shape, ResourceExclusive, FlagShape, Next
  PROVE  FlagShape'
  <1>1. ThreadsTyped /\ Monitor \in Threads /\ Monitor \notin Resources /\ Resources \subseteq Threads
    BY PoolAssumption DEF TypeOK, Threads
  <1>2. /\ \A r \in Resources : pc[r] = "run" =>
             (b_processingPrivRequest[r] <=> work[r] \in PrivRequests)
        /\ pc[Monitor] = "spawn" => (b_processingPrivRequest[monRes] <=> monReq \in PrivRequests)
    BY DEF FlagShape, PrivFlagTellsRequest
  <1>3. SUFFICES
          /\ \A r \in Resources : pc'[r] = "run" =>
               (b_processingPrivRequest'[r] <=> work'[r] \in PrivRequests)
          /\ pc'[Monitor] = "spawn" => (b_processingPrivRequest'[monRes'] <=> monReq' \in PrivRequests)
    BY DEF FlagShape, PrivFlagTellsRequest
  <1>4. b_processingPrivRequest \in [Resources -> BOOLEAN] /\ work \in [Resources -> AllRequests \cup {None}]
    BY DEF TypeOK, LocalsTyped
  <1>5. CASE MonitorTakePriv
    <2>1. /\ pc[Monitor] = "getPriv" /\ monRes' = monRes /\ monRes \in Resources
          /\ monReq' \in PrivRequests /\ UNCHANGED work
          /\ b_processingPrivRequest' = [b_processingPrivRequest EXCEPT ![monRes] = TRUE]
          /\ \A r \in Resources : pc'[r] = pc[r]
      BY <1>1, <1>5, GotoMoves, GetFacts DEF MonitorTakePriv, Shape, MonResShape, TypeOK, QueuesTyped
    <2>2. pc[monRes] = "idle"
      BY <2>1 DEF ResourceExclusive
    <2>3. QED BY <1>2, <1>4, <2>1, <2>2
  <1>6. CASE MonitorAssign
    <2>1. /\ UNCHANGED work /\ \A r \in Resources : pc'[r] = pc[r]
      BY <1>1, <1>6, GotoMoves DEF MonitorAssign
    <2>2. CASE monRes \in Resources
      <3>1. /\ pc[monRes] = "idle" /\ monRes' = monRes /\ monReq' = monReq
            /\ monReq \notin PrivRequests
            /\ b_processingPrivRequest' = [b_processingPrivRequest EXCEPT ![monRes] = FALSE]
        BY <1>6, <2>2, PoolAssumption
           DEF MonitorAssign, ResourceExclusive, Shape, MonReqShape
      <3>2. QED BY <1>2, <1>4, <2>1, <2>2, <3>1
    <2>3. CASE monRes \notin Resources
      <3>1. UNCHANGED b_processingPrivRequest /\ pc'[Monitor] = "down"
        BY <1>1, <1>6, <2>3, GotoMoves DEF MonitorAssign
      <3>2. QED BY <1>2, <2>1, <3>1
    <2>4. QED BY <2>2, <2>3
  <1>7. CASE SpawnRequestThread
    <2>1. /\ monRes \in Resources /\ pc[Monitor] = "spawn" /\ pc'[Monitor] = "loop"
          /\ UNCHANGED b_processingPrivRequest
          /\ \A r \in Resources :
               /\ work'[r] = IF r = monRes THEN monReq ELSE work[r]
               /\ r # monRes => pc'[r] = pc[r]
      BY <1>1, <1>4, <1>7 DEF SpawnRequestThread, Shape, MonResShape, ThreadsTyped
    <2>2. QED BY <1>2, <2>1
  <1>8. CASE MonitorStep /\ ~(MonitorTakePriv \/ MonitorAssign \/ SpawnRequestThread)
    <2>1. /\ UNCHANGED <<work, b_processingPrivRequest>>
          /\ \E l : l # "spawn" /\ Goto(Monitor, l)
      BY <1>8 DEF MonitorStep, MonitorLoop, MonitorGetRes, MonitorCheckStop,
         MonitorPutBack, MonitorNoPriv, MonitorGetRequest, MonitorCheckStop2,
         MonitorOper, MonitorOperGet, MonitorOperGiveUp, MonitorGetRes2,
         SpawnDummy, SpawnFails, RequestFailed
    <2>2. pc'[Monitor] # "spawn" /\ \A r \in Resources : pc'[r] = pc[r]
      BY <1>1, <2>1, GotoMoves
    <2>3. QED BY <1>2, <2>1, <2>2
  <1>9. CASE \E t \in Threads : ReleaseStep(t)
    <2>1. PICK t \in Threads : ReleaseStep(t)
      BY <1>9
    <2>2. pc[t] \in ReleaseLabels /\ Held(t) \in Resources
      <3>1. pc[t] \in ReleaseLabels
        BY <2>1 DEF ReleaseStep, ReleaseResource, PutResInQueueExt, DoOperation, CountResDone,
           TestAllDone, OperationCompleted, PutResource, ReleaseLabels
      <3>2. QED BY <3>1, HeldType
    <2>3. /\ monRet \in {"loop", "operGet", "failed"} /\ UNCHANGED monReq
          /\ t # Monitor => UNCHANGED monRes
      BY <2>1 DEF ReleaseStep, ReleaseResource, PutResInQueueExt, DoOperation, CountResDone,
         TestAllDone, OperationCompleted, PutResource, monvars, TypeOK, LocalsTyped
    <2>4. /\ t = Monitor => pc'[Monitor] # "spawn"
          /\ t # Monitor => pc'[Monitor] = pc[Monitor]
          /\ \A r \in Resources : pc'[r] = "run" => pc[r] = "run" /\ r # t
      BY <1>1, <2>1, <2>3, GotoMoves DEF ReleaseStep, ReleaseResource, PutResInQueueExt,
         DoOperation, CountResDone, TestAllDone, OperationCompleted, PutResource, ThreadsTyped
    <2>5. \A r \in Resources :
            /\ r # t => work'[r] = work[r]
            /\ r # Held(t) => b_processingPrivRequest'[r] = b_processingPrivRequest[r]
      BY <1>4, <2>1 DEF ReleaseStep, ReleaseResource, PutResInQueueExt, DoOperation,
         CountResDone, TestAllDone, OperationCompleted, PutResource
    <2>6. CASE t = Monitor
      <3>1. pc[Held(t)] = "idle"
        BY <2>2, <2>6 DEF Held, ResourceExclusive
      <3>2. QED BY <1>1, <1>2, <2>4, <2>5, <2>6, <3>1
    <2>7. CASE t # Monitor
      <3>1. Held(t) = t /\ pc[t] # "idle"
        BY <2>2, <2>7 DEF Held, ReleaseLabels
      <3>2. pc[Monitor] = "spawn" => monRes \in Resources /\ monRes # t
        BY <2>2, <3>1 DEF Shape, MonResShape, ResourceExclusive
      <3>3. QED BY <1>2, <2>3, <2>4, <2>5, <2>7, <3>1, <3>2
    <2>8. QED BY <2>6, <2>7
  <1>10. CASE \E w \in Resources : WorkerStep(w)
    <2>1. PICK w \in Resources : WorkerStep(w)
      BY <1>10
    <2>2. /\ UNCHANGED <<work, b_processingPrivRequest, monRes, monReq>>
          /\ \E l : l # "run" /\ Goto(w, l)
      BY <2>1 DEF WorkerUnchanged, monvars, WorkerStep, WorkerEnds, WorkerKills,
         AddPrivRequestCheck, AddPrivRequestPut, AddPrivRequestKick
    <2>3. /\ pc'[Monitor] = pc[Monitor]
          /\ \A r \in Resources : pc'[r] = "run" => pc[r] = "run"
      BY <1>1, <2>2, GotoMoves
    <2>4. QED BY <1>2, <2>2, <2>3
  <1>11. CASE \/ \E q \in Requests : CallerStep(q)
              \/ \E open \in BOOLEAN : AssignOpenStatus(open)
              \/ AdminStep
              \/ StopStep
    <2>1. UNCHANGED <<work, b_processingPrivRequest, monRes, monReq, pc>>
      BY <1>11 DEF CallerStep, IsOpen, AddRequestCheckStop, AddRequestCheckFull, AddRequestPut,
         AssignOpenStatus, AdminStep, AssignOperation, AssignOperationReset,
         AssignOperationOper, AssignOperationStamp, AssignOperationKick, StopStep,
         AssignStopThreadFlag, StopPutDummyRequest, StopPutDummyResource, ShutdownGet,
         ShutdownPut, ShutdownClose, AdminUnchanged, StopUnchanged, monvars
    <2>2. QED BY <1>2, <2>1
  <1>12. QED BY <1>5, <1>6, <1>7, <1>8, <1>9, <1>10, <1>11 DEF Next

-----------------------------------------------------------------------------
(* The invariant, and what follows from it. *)

LEMMA InitIInv == Init => IInv
  <1> SUFFICES ASSUME Init PROVE IInv
    OBVIOUS
  <1>1. PICK order \in [1..MaxRes -> Resources] :
          /\ \A i, j \in 1..MaxRes : order[i] = order[j] => i = j
          /\ resourcesQueue = order
    BY DEF Init
  <1>2. MaxRes \in Nat
    BY PoolAssumption, FS_CardinalityType DEF MaxRes
  <1>3. /\ resourcesQueue \in Seq(ResItems) /\ Len(resourcesQueue) = MaxRes
        /\ \A r : In(r, resourcesQueue) => r \in Resources
        /\ \A r : Once(r, resourcesQueue)
    BY <1>1, <1>2 DEF In, Once, ResItems
  <1>4. \A r \in Resources : In(r, resourcesQueue)
    <2>1. /\ order \in Injection(1..MaxRes, Resources)
          /\ IsFiniteSet(Resources) /\ Cardinality(1..MaxRes) = Cardinality(Resources)
      BY <1>1, <1>2, PoolAssumption, FS_Interval, SMTT(40) DEF Injection, IsInjective, MaxRes
    <2>2. order \in Surjection(1..MaxRes, Resources)
      BY <2>1, FS_Injection
    <2>3. QED BY <1>1, <1>3, <2>2 DEF Surjection, In
  <1>5. TypeOK
    <2>1. QueuesTyped
      BY <1>3 DEF Init, QueuesTyped
    <2>2. ThreadsTyped
      BY PoolAssumption DEF Init, ThreadsTyped, Threads, MonitorLabels, WorkerLabels
    <2>3. LocalsTyped /\ StagesTyped
      BY DEF Init, LocalsTyped, ResItems, StagesTyped, Stages
    <2>4. OperationTyped
      BY DEF Init, OperationTyped
    <2>5. StopTyped
      BY <1>2 DEF Init, StopTyped, ResItems
    <2>6. QED BY <2>1, <2>2, <2>3, <2>4, <2>5 DEF TypeOK
  <1>6. pc[Monitor] = "loop" /\ \A r \in Resources : pc[r] = "idle"
    BY PoolAssumption DEF Init, Threads
  <1>7. Shape
    BY <1>3, <1>6 DEF Init, Shape, StopShape, MonResShape, MonReqShape, ReleaseLabels
  <1>8. ResourceExclusive /\ NoResourceLeak /\ WorkShape /\ KillShape /\ FlagShape /\ StartedShape
    BY <1>3, <1>4, <1>6, PoolAssumption
       DEF Init, ResourceExclusive, NoResourceLeak, WorkShape, KillShape, Killing, FlagShape,
           PrivFlagTellsRequest, StartedShape
  <1>9. RequestInOnePlace
    BY PoolAssumption DEF Init, RequestInOnePlace, InOnePlace, In, Once, AllRequests
  <1>10. OvertakenShape
    BY <1>6 DEF Init, OvertakenShape, MonitorLooksFirst, AllRequests
  <1>11. OperShape
    <2>1. \A t \in Threads : pc[t] \notin OperLabels
      BY <1>6 DEF Threads, OperLabels
    <2>2. QED BY <2>1 DEF Init, OperShape, BeforeShape, CountShape
  <1>12. QED BY <1>5, <1>7, <1>8, <1>9, <1>10, <1>11 DEF IInv

LEMMA StepIInv == IInv /\ [Next]_vars => IInv'
  <1> SUFFICES ASSUME IInv, [Next]_vars PROVE IInv'
    OBVIOUS
  <1> USE DEF IInv
  <1>1. CASE UNCHANGED vars
    <2> USE <1>1 DEF vars, queues, flags, opvars, monvars, adminvars, stopvars, history
    <2>1. TypeOK'
      BY DEF TypeOK, QueuesTyped, ThreadsTyped, LocalsTyped, StagesTyped, OperationTyped, StopTyped
    <2>2. Shape'
      BY DEF Shape, StopShape, MonResShape, MonReqShape
    <2>3. ResourceExclusive' /\ NoResourceLeak'
      BY DEF ResourceExclusive, NoResourceLeak
    <2>4. WorkShape' /\ KillShape' /\ RequestInOnePlace'
      BY DEF WorkShape, KillShape, Killing, RequestInOnePlace, InOnePlace
    <2>5. OvertakenShape' /\ FlagShape' /\ StartedShape'
      BY DEF OvertakenShape, MonitorLooksFirst, FlagShape, PrivFlagTellsRequest, StartedShape
    <2>6. OperShape'
      BY OperFrame DEF Held
    <2>7. QED BY <2>1, <2>2, <2>3, <2>4, <2>5, <2>6
  <1>2. CASE Next
    <2>1. NoResourceLeak' /\ FlagShape' /\ StartedShape' /\ OperShape'
      BY <1>2, LeakStep, FlagStep, StartedStep, OperStep
    <2>2. OvertakenShape'
      BY <1>2, MonitorOvertaken, OthersOvertaken
    <2>3. CASE MonitorStep
      BY <2>1, <2>2, <2>3, TypeMonitor, MonitorStopShape, MonitorResShape, MonitorReqShape,
         MonitorExclusive, MonitorPlaces, MonitorWork DEF Shape
    <2>4. CASE \E t \in Threads : ReleaseStep(t)
      BY <2>1, <2>2, <2>4, TypeRelease, ReleaseShape, ReleaseExclusive, ReleasePlaces, ReleaseWork
    <2>5. CASE \E r \in Resources : WorkerStep(r)
      BY <2>1, <2>2, <2>5, TypeWorker, WorkerShape, WorkerExclusive, WorkerPlaces, WorkerWork
         DEF KillShape, Killing
    <2>6. CASE \/ \E q \in Requests : CallerStep(q)
               \/ \E open \in BOOLEAN : AssignOpenStatus(open)
               \/ AdminStep
               \/ StopStep
      BY <2>1, <2>2, <2>6, TypeOutside, OutsideShape, OutsideExclusive, OutsidePlaces, OutsideWork
    <2>7. QED BY <1>2, <2>3, <2>4, <2>5, <2>6 DEF Next
  <1>3. QED BY <1>1, <1>2

\* The invariant holds of every reachable state of every pool.
THEOREM Invariant == Spec => []IInv
  BY InitIInv, StepIInv, PTL DEF Spec

\* Every variable keeps its type: no thread is at a control point of another's code.
THEOREM TypeCorrect == Spec => []TypeOK
  <1>1. IInv => TypeOK
    BY DEF IInv
  <1>2. QED BY <1>1, Invariant, PTL

\* No resource is in two hands: no two workers share one DestConn.
THEOREM Exclusive == Spec => []ResourceExclusive
  <1>1. IInv => ResourceExclusive
    BY DEF IInv
  <1>2. QED BY <1>1, Invariant, PTL

\* Until a stop, whatever fails, no resource is lost to the pool but by a failure
\* of createNewResource().
THEOREM NoLeak == Spec => []NoResourceLeak
  <1>1. IInv => NoResourceLeak
    BY DEF IInv
  <1>2. QED BY <1>1, Invariant, PTL

\* Added requests are neither lost nor processed twice.
THEOREM OnePlace == Spec => []RequestInOnePlace
  <1>1. IInv => RequestInOnePlace
    BY DEF IInv
  <1>2. QED BY <1>1, Invariant, PTL

\* A privileged request waits for at most one normal request.
THEOREM OvertakenAtMostOnce == Spec => []PrivOvertakenOnce
  <1>1. IInv => PrivOvertakenOnce
    BY DEF IInv, OvertakenShape, PrivOvertakenOnce
  <1>2. QED BY <1>1, Invariant, PTL

\* The flag of a resource tells what its worker runs: a kill never queues a kill.
THEOREM FlagTells == Spec => []PrivFlagTellsRequest
  <1>1. IInv => PrivFlagTellsRequest
    BY DEF IInv, FlagShape
  <1>2. QED BY <1>1, Invariant, PTL

\* After b_stopThread is set at most one more request is started.
THEOREM StopStarts == Spec => []StopStartsAtMostOne
  <1>1. IInv => StopStartsAtMostOne
    BY DEF IInv, StartedShape, StopStartsAtMostOne, TypeOK, StopTyped
  <1>2. QED BY <1>1, Invariant, PTL

\* When the only operation assigned is declared completed, it has been done on
\* every resource, whatever counts the threads that release at once have lost.
THEOREM OperationReaches == Spec => []OperationReachesAll
  <1>1. IInv => OperationReachesAll
    BY DEF IInv, OperShape, CountShape, Stamped, OperationReachesAll
  <1>2. QED BY Invariant, <1>1, PTL

\* A sequence without repetition is no longer than the set of its elements.
LEMMA DistinctBound ==
  ASSUME NEW S, IsFiniteSet(S), NEW n \in Nat, NEW f \in [1..n -> S],
         \A i, j \in 1..n : f[i] = f[j] => i = j
  PROVE  n <= Cardinality(S)
  <1>1. f \in Injection(1..n, S)
    BY DEF Injection, IsInjective
  <1>2. Cardinality(1..n) <= Cardinality(S)
    BY <1>1, FS_Injection
  <1>3. Cardinality(1..n) = n
    BY FS_Interval
  <1>4. QED BY <1>2, <1>3

\* The queue has room for the resource a thread releases: all it holds, once
\* each, are other resources.
LEMMA RoomForHeld ==
  ASSUME IInv, ~b_stopThread, NEW t \in Threads, pc[t] = "put"
  PROVE  Len(resourcesQueue) < MaxRes
  <1> USE DEF IInv
  <1>1. Held(t) \in Resources /\ ~In(Held(t), resourcesQueue)
    <2>1. Held(t) \in Resources
      BY HeldType DEF ReleaseLabels
    <2>2. QED BY <2>1 DEF Held, ResourceExclusive
  <1>2. /\ resourcesQueue \in [1..Len(resourcesQueue) -> ResItems]
        /\ Len(resourcesQueue) \in Nat
    BY DEF TypeOK, QueuesTyped
  <1>3. resourcesQueue \in [1..Len(resourcesQueue) -> Resources \ {Held(t)}]
    BY <1>1, <1>2 DEF Shape, StopShape, In
  <1>4. \A i, j \in 1..Len(resourcesQueue) : resourcesQueue[i] = resourcesQueue[j] => i = j
    BY <1>3 DEF ResourceExclusive, Once
  <1>5. /\ IsFiniteSet(Resources \ {Held(t)}) /\ MaxRes \in Nat
        /\ Cardinality(Resources \ {Held(t)}) = MaxRes - 1
    BY <1>1, PoolAssumption, FS_RemoveElement, FS_CardinalityType DEF MaxRes
  <1>6. Len(resourcesQueue) <= Cardinality(Resources \ {Held(t)})
    BY <1>2, <1>3, <1>4, <1>5, DistinctBound
  <1>7. QED BY <1>2, <1>5, <1>6

\* Until a stop no release ever blocks in resourcesQueue.put().
THEOREM NeverBlocks == Spec => []ReleaseNeverBlocks
  <1>1. IInv => ReleaseNeverBlocks
    BY RoomForHeld DEF ReleaseNeverBlocks
  <1>2. QED BY <1>1, Invariant, PTL

-----------------------------------------------------------------------------
(* ResPool implements ResAllocator: under the mapping of ResPool every step *)
(* of a pool is a step of the allocator, or changes nothing of it.          *)

alloc == [r \in Resources |-> AllocOf(r)]
phase == [q \in AllRequests |-> PhaseOf(stage[q])]

\* One request changes its phase, to s.
LEMMA MovesOne ==
  ASSUME TypeOK, NEW q \in AllRequests, NEW s, Stage(q, s)
  PROVE  phase' = [phase EXCEPT ![q] = PhaseOf(s)]
  BY DEF phase, Stage, TypeOK, StagesTyped

\* One resource changes what is allocated on it, to v.
LEMMA AllocatesOne ==
  ASSUME NEW x \in Resources, NEW v,
         \A r \in Resources : AllocOf(r)' = IF r = x THEN v ELSE AllocOf(r)
  PROVE  alloc' = [alloc EXCEPT ![x] = v]
  BY DEF alloc

\* The same for the phases, and for neither.
LEMMA MovesNone ==
  ASSUME UNCHANGED stage \/ \E q \in AllRequests : \E s : Stage(q, s) /\ PhaseOf(s) = PhaseOf(stage[q]),
         TypeOK
  PROVE  phase' = phase
  BY DEF phase, Stage, TypeOK, StagesTyped

LEMMA AllocatesNone ==
  ASSUME \A r \in Resources : AllocOf(r)' = AllocOf(r)
  PROVE  alloc' = alloc
  BY DEF alloc

LEMMA StutterStep ==
  ASSUME UNCHANGED b_stopThread, phase' = phase, alloc' = alloc
  PROVE  [Abstract!ANext]_(Abstract!avars)
  BY DEF Abstract!avars, alloc, phase

\* The steps of the monitor: it starts a request, fails to start one, or gives
\* one up because the pool is stopping.
LEMMA MonitorRefines ==
  ASSUME IInv, MonitorStep
  PROVE  [Abstract!ANext]_(Abstract!avars)
  <1> USE DEF IInv
  <1>1. /\ ThreadsTyped /\ Monitor \in Threads /\ Monitor \notin Resources
        /\ Resources \subseteq Threads /\ UNCHANGED b_stopThread
    BY PoolAssumption DEF TypeOK, Threads, MonitorStep, MonitorUnchanged, MonitorLoop,
       MonitorGetRes, MonitorCheckStop, MonitorPutBack, MonitorTakePriv, MonitorNoPriv,
       MonitorGetRequest, MonitorCheckStop2, MonitorOper, MonitorOperGet, MonitorOperGiveUp,
       MonitorGetRes2, MonitorAssign, SpawnDummy, SpawnRequestThread, SpawnFails,
       RequestFailed, flags
  <1>2. CASE SpawnRequestThread
    <2>1. monReq \in AllRequests /\ monRes \in Resources /\ stage[monReq] = "taken"
      BY <1>2 DEF SpawnRequestThread, Shape, MonReqShape, MonResShape, RequestInOnePlace, InOnePlace
    <2>2. pc[monRes] = "idle" /\ work[monRes] = None
      BY <2>1 DEF ResourceExclusive, WorkShape
    <2>3. \A r \in Resources : AllocOf(r)' = IF r = monRes THEN monReq ELSE AllocOf(r)
      BY <1>1, <1>2, <2>1, <2>2 DEF SpawnRequestThread, AllocOf, ThreadsTyped, TypeOK, LocalsTyped
    <2>4. alloc[monRes] = None /\ alloc' = [alloc EXCEPT ![monRes] = monReq]
      BY <2>1, <2>2, <2>3, AllocatesOne DEF alloc, AllocOf
    <2>5. phase[monReq] = "waiting" /\ phase' = [phase EXCEPT ![monReq] = "running"]
      BY <1>2, <2>1, MovesOne DEF SpawnRequestThread, phase, PhaseOf
    <2>6. Abstract!Start(monReq, monRes)
      BY <1>1, <2>4, <2>5 DEF Abstract!Start, Abstract!Becomes, alloc, phase
    <2>7. QED BY <2>1, <2>6 DEF Abstract!ANext
  <1>3. ASSUME ~SpawnRequestThread
        PROVE  alloc' = alloc
    <2>1. UNCHANGED work /\ \E l : Goto(Monitor, l)
      BY <1>3 DEF MonitorStep, MonitorLoop, MonitorGetRes, MonitorCheckStop, MonitorPutBack,
         MonitorTakePriv, MonitorNoPriv, MonitorGetRequest, MonitorCheckStop2, MonitorOper,
         MonitorOperGet, MonitorOperGiveUp, MonitorGetRes2, MonitorAssign, SpawnDummy,
         SpawnFails, RequestFailed
    <2>2. \A r \in Resources : AllocOf(r)' = AllocOf(r)
      BY <1>1, <2>1, GotoMoves DEF AllocOf
    <2>3. QED BY <2>2, AllocatesNone
  <1>4. CASE RequestFailed
    <2>1. monReq \in AllRequests /\ stage[monReq] = "taken"
      BY <1>4 DEF RequestFailed, Shape, MonReqShape, RequestInOnePlace, InOnePlace
    <2>2. phase[monReq] = "waiting" /\ phase' = [phase EXCEPT ![monReq] = "ended"]
      BY <1>4, <2>1, MovesOne DEF RequestFailed, phase, PhaseOf
    <2>3. alloc' = alloc
      BY <1>3, <1>4 DEF RequestFailed, SpawnRequestThread
    <2>4. Abstract!Fail(monReq)
      BY <1>1, <2>2, <2>3 DEF Abstract!Fail, Abstract!Becomes, alloc, phase
    <2>5. QED BY <2>1, <2>4 DEF Abstract!ANext
  <1>5. CASE DropMonReq /\ (MonitorCheckStop2 \/ MonitorOper \/ MonitorAssign)
    <2>1. alloc' = alloc
      BY <1>3, <1>5 DEF MonitorCheckStop2, MonitorOper, MonitorAssign, SpawnRequestThread
    <2>2. b_stopThread
      BY <1>5, PoolAssumption DEF MonitorCheckStop2, MonitorOper, MonitorAssign, DropMonReq,
         Shape, MonResShape, TypeOK, LocalsTyped, ResItems, MonReqShape
    <2>3. CASE monReq \in AllRequests
      <3>1. stage[monReq] = "taken" /\ Stage(monReq, "dropped")
        BY <1>5, <2>3 DEF DropMonReq, Stage, RequestInOnePlace, InOnePlace
      <3>2. phase[monReq] = "waiting" /\ phase' = [phase EXCEPT ![monReq] = "dropped"]
        BY <2>3, <3>1, MovesOne DEF phase, PhaseOf
      <3>3. Abstract!Drop(monReq)
        BY <1>1, <2>1, <2>2, <3>2 DEF Abstract!Drop, Abstract!Becomes, alloc, phase
      <3>4. QED BY <2>3, <3>3 DEF Abstract!ANext
    <2>4. CASE monReq \notin AllRequests
      <3>1. UNCHANGED stage
        BY <1>5, <2>4 DEF DropMonReq
      <3>2. QED BY <1>1, <2>1, <3>1, MovesNone, StutterStep
    <2>5. QED BY <2>3, <2>4
  <1>6. CASE MonitorTakePriv \/ MonitorGetRequest
    <2>1. alloc' = alloc
      BY <1>3, <1>6 DEF MonitorTakePriv, MonitorGetRequest, SpawnRequestThread
    <2>2. CASE UNCHANGED stage
      BY <1>1, <2>1, <2>2, MovesNone, StutterStep
    <2>3. ASSUME NEW q \in AllRequests, In(q, requestsQueue) \/ In(q, privRequestsQueue), Stage(q, "taken")
          PROVE  phase' = phase
      <3>1. stage[q] = "queued"
        BY <2>3 DEF RequestInOnePlace, InOnePlace
      <3>2. PhaseOf("taken") = PhaseOf(stage[q])
        BY <3>1 DEF PhaseOf
      <3>3. QED BY <2>3, <3>2, MovesNone
    <2>4. CASE MonitorTakePriv
      BY <1>1, <2>1, <2>3, <2>4, GetKeeps, GetFacts, StutterStep
         DEF MonitorTakePriv, TypeOK, QueuesTyped, AllRequests
    <2>5. CASE MonitorGetRequest
      BY <1>1, <2>1, <2>2, <2>3, <2>5, GetKeeps, GetFacts, StutterStep
         DEF MonitorGetRequest, Stage, TypeOK, QueuesTyped, AllRequests
    <2>6. QED BY <1>6, <2>4, <2>5
  <1>7. CASE UNCHANGED stage /\ ~SpawnRequestThread
    BY <1>1, <1>3, <1>7, MovesNone, StutterStep
  <1>8. QED
    BY <1>2, <1>4, <1>5, <1>6, <1>7 DEF MonitorStep, MonitorLoop, MonitorGetRes, MonitorCheckStop,
       MonitorPutBack, MonitorNoPriv, MonitorCheckStop2, MonitorOper, SpawnRequestThread,
       MonitorOperGet, MonitorOperGiveUp, MonitorGetRes2, MonitorAssign, SpawnDummy, SpawnFails

\* The steps of a release: the worker's request ends, and its resource is free
\* or gone; the monitor may lose the resource it releases.
LEMMA ReleaseRefines ==
  ASSUME IInv, NEW t \in Threads, ReleaseStep(t)
  PROVE  [Abstract!ANext]_(Abstract!avars)
  <1> USE DEF IInv
  <1>1. /\ ThreadsTyped /\ Monitor \in Threads /\ Monitor \notin Resources
        /\ Resources \subseteq Threads /\ UNCHANGED b_stopThread
    BY PoolAssumption DEF TypeOK, Threads, ReleaseStep, ReleaseUnchanged, ReleaseResource,
       PutResInQueueExt, DoOperation, CountResDone, TestAllDone, OperationCompleted,
       PutResource, flags
  <1>2. pc[t] \in ReleaseLabels /\ Held(t) \in Resources
    <2>1. pc[t] \in ReleaseLabels
      BY DEF ReleaseStep, ReleaseResource, PutResInQueueExt, DoOperation, CountResDone,
         TestAllDone, OperationCompleted, PutResource, ReleaseLabels
    <2>2. QED BY <2>1, HeldType
  <1>3. CASE \/ PutResInQueueExt(t) \/ DoOperation(t) \/ CountResDone(t) \/ TestAllDone(t)
             \/ OperationCompleted(t) \/ PutResource(t)
    <2>1. /\ UNCHANGED <<work, stage>>
          /\ \E l : Goto(t, l) /\ (t # Monitor => l # "gone")
      BY <1>3 DEF PutResInQueueExt, DoOperation, CountResDone, TestAllDone, OperationCompleted,
         PutResource
    <2>2. \A r \in Resources : pc'[r] = "gone" <=> pc[r] = "gone"
      BY <1>1, <1>2, <2>1, GotoMoves DEF ReleaseLabels
    <2>3. \A r \in Resources : AllocOf(r)' = AllocOf(r)
      BY <2>1, <2>2 DEF AllocOf
    <2>4. QED BY <1>1, <2>1, <2>3, AllocatesNone, MovesNone, StutterStep
  <1>4. CASE \E outcome \in ReleaseOutcomes : ReleaseResource(t, outcome)
    <2>1. PICK outcome \in ReleaseOutcomes : ReleaseResource(t, outcome)
      BY <1>4
    <2>2. CASE t # Monitor
      <3> DEFINE q == work[t]
                 left == IF outcome = "gone" THEN Dummy ELSE None
      <3>1. /\ t \in Resources /\ pc[t] = "release" /\ q \in AllRequests /\ stage[q] = "running"
            /\ Stage(q, "done")
        BY <2>1, <2>2 DEF ReleaseResource, WorkShape, RequestInOnePlace, InOnePlace, Threads,
           TypeOK, LocalsTyped, Stage
      <3>2. \A r \in Resources : AllocOf(r)' = IF r = t THEN left ELSE AllocOf(r)
        BY <1>1, <2>1, <2>2, <3>1 DEF ReleaseResource, Goto, AllocOf, ThreadsTyped, TypeOK, LocalsTyped
      <3>3. alloc[t] = q /\ alloc' = [alloc EXCEPT ![t] = left]
        BY <3>1, <3>2, AllocatesOne DEF alloc, AllocOf
      <3>4. phase[q] = "running" /\ phase' = [phase EXCEPT ![q] = "ended"]
        BY <3>1, MovesOne DEF phase, PhaseOf
      <3>5. Abstract!End(q, t, left)
        BY <1>1, <3>3, <3>4 DEF Abstract!End, Abstract!Becomes, alloc, phase
      <3>6. QED BY <3>1, <3>5 DEF Abstract!ANext
    <2>3. CASE t = Monitor /\ outcome = "gone"
      <3>1. /\ monRes \in Resources /\ pc[monRes] = "idle" /\ work[monRes] = None
            /\ UNCHANGED <<work, stage>>
        BY <1>2, <2>1, <2>3 DEF ReleaseResource, Held, ResourceExclusive, WorkShape
      <3>2. \A r \in Resources : AllocOf(r)' = IF r = monRes THEN Dummy ELSE AllocOf(r)
        BY <1>1, <2>1, <2>3, <3>1 DEF ReleaseResource, AllocOf, ThreadsTyped
      <3>3. alloc[monRes] = None /\ alloc' = [alloc EXCEPT ![monRes] = Dummy]
        BY <3>1, <3>2, AllocatesOne DEF alloc, AllocOf
      <3>4. phase' = phase
        BY <3>1, MovesNone
      <3>5. Abstract!Lose(monRes)
        BY <1>1, <3>3, <3>4 DEF Abstract!Lose, alloc, phase
      <3>6. QED BY <3>1, <3>5 DEF Abstract!ANext
    <2>4. CASE t = Monitor /\ outcome # "gone"
      <3>1. UNCHANGED <<work, stage>> /\ Goto(Monitor, "ext")
        BY <2>1, <2>4 DEF ReleaseResource
      <3>2. \A r \in Resources : AllocOf(r)' = AllocOf(r)
        BY <1>1, <3>1, GotoMoves DEF AllocOf
      <3>3. QED BY <1>1, <3>1, <3>2, AllocatesNone, MovesNone, StutterStep
    <2>5. QED BY <2>2, <2>3, <2>4
  <1>5. QED BY <1>3, <1>4 DEF ReleaseStep

\* The steps of a worker: a kill request is accepted or refused.
LEMMA WorkerRefines ==
  ASSUME IInv, NEW w \in Resources, WorkerStep(w)
  PROVE  [Abstract!ANext]_(Abstract!avars)
  <1> USE DEF IInv
  <1>1. /\ ThreadsTyped /\ Resources \subseteq Threads /\ UNCHANGED <<b_stopThread, work>>
        /\ PrivRequests \subseteq AllRequests
    BY DEF TypeOK, Threads, AllRequests, WorkerStep, WorkerUnchanged, WorkerEnds, WorkerKills,
       AddPrivRequestCheck, AddPrivRequestPut, AddPrivRequestKick, flags
  <1>2. alloc' = alloc
    <2>1. pc[w] # "gone" /\ \E l : l # "gone" /\ Goto(w, l)
      BY DEF WorkerStep, WorkerEnds, WorkerKills, AddPrivRequestCheck, AddPrivRequestPut,
         AddPrivRequestKick
    <2>2. \A r \in Resources : AllocOf(r)' = AllocOf(r)
      BY <1>1, <2>1, GotoMoves DEF AllocOf
    <2>3. QED BY <2>2, AllocatesNone
  <1>3. CASE UNCHANGED stage
    BY <1>1, <1>2, <1>3, MovesNone, StutterStep
  <1>4. CASE \E p \in PrivRequests : WorkerKills(w, p)
    <2>1. \E p \in AllRequests : stage[p] = "new" /\ Stage(p, "adding")
      BY <1>1, <1>4 DEF WorkerKills
    <2>2. phase' = phase
      BY <2>1, MovesNone DEF PhaseOf
    <2>3. QED BY <1>1, <1>2, <2>2, StutterStep
  <1>5. CASE AddPrivRequestPut(w) \/ (AddPrivRequestCheck(w) /\ ~UNCHANGED stage)
    <2> DEFINE p == kill[w]
    <2>1. p \in AllRequests /\ stage[p] = "adding"
      BY <1>1, <1>5 DEF AddPrivRequestPut, AddPrivRequestCheck, KillShape, Killing
    <2>2. phase[p] = "outside"
      BY <2>1 DEF phase, PhaseOf
    <2>3. CASE Stage(p, "queued")
      <3>1. phase' = [phase EXCEPT ![p] = "waiting"]
        BY <2>1, <2>3, MovesOne DEF PhaseOf
      <3>2. Abstract!Accept(p)
        BY <1>1, <1>2, <2>2, <3>1 DEF Abstract!Accept, Abstract!Becomes, alloc, phase
      <3>3. QED BY <2>1, <3>2 DEF Abstract!ANext
    <2>4. CASE Stage(p, "rejected")
      <3>1. phase' = [phase EXCEPT ![p] = "refused"]
        BY <2>1, <2>4, MovesOne DEF PhaseOf
      <3>2. Abstract!Refuse(p)
        BY <1>1, <1>2, <2>2, <3>1 DEF Abstract!Refuse, Abstract!Becomes, alloc, phase
      <3>3. QED BY <2>1, <3>2 DEF Abstract!ANext
    <2>5. QED BY <1>5, <2>3, <2>4 DEF AddPrivRequestPut, AddPrivRequestCheck
  <1>6. QED
    BY <1>3, <1>4, <1>5 DEF WorkerStep, WorkerEnds, AddPrivRequestKick

\* The steps of the callers, of the administrator and of the shutdown.
LEMMA OutsideRefines ==
  ASSUME IInv,
         \/ \E q \in Requests : CallerStep(q)
         \/ \E open \in BOOLEAN : AssignOpenStatus(open)
         \/ AdminStep
         \/ StopStep
  PROVE  [Abstract!ANext]_(Abstract!avars)
  <1> USE DEF IInv
  <1>1. alloc' = alloc
    <2>1. UNCHANGED <<pc, work>>
      BY DEF CallerStep, IsOpen, AddRequestCheckStop, AddRequestCheckFull, AddRequestPut,
         AssignOpenStatus, AdminStep, AssignOperation, AssignOperationReset,
         AssignOperationOper, AssignOperationStamp, AssignOperationKick, StopStep,
         AssignStopThreadFlag, StopPutDummyRequest, StopPutDummyResource, ShutdownGet,
         ShutdownPut, ShutdownClose, AdminUnchanged, StopUnchanged
    <2>2. QED BY <2>1, AllocatesNone DEF AllocOf
  <1>2. ASSUME NEW c \in Requests, CallerStep(c)
        PROVE  [Abstract!ANext]_(Abstract!avars)
    <2>1. c \in AllRequests /\ UNCHANGED b_stopThread
      BY <1>2 DEF AllRequests, CallerStep, IsOpen, AddRequestCheckStop, AddRequestCheckFull,
         AddRequestPut, flags
    <2>2. /\ stage[c] \in {"new", "adding", "checked", "putting"}
          /\ \E s \in {"adding", "checked", "putting", "queued", "rejected"} : Stage(c, s)
      BY <1>2 DEF CallerStep, IsOpen, AddRequestCheckStop, AddRequestCheckFull, AddRequestPut
    <2>3. phase[c] = "outside"
      BY <2>1, <2>2 DEF phase, PhaseOf
    <2>4. CASE \E s \in {"adding", "checked", "putting"} : Stage(c, s)
      <3>1. PICK s \in {"adding", "checked", "putting"} : Stage(c, s)
        BY <2>4
      <3>2. PhaseOf(s) = PhaseOf(stage[c])
        BY <2>2 DEF PhaseOf
      <3>3. QED BY <1>1, <2>1, <3>1, <3>2, MovesNone, StutterStep
    <2>5. CASE Stage(c, "queued")
      <3>1. phase' = [phase EXCEPT ![c] = "waiting"]
        BY <2>1, <2>5, MovesOne DEF PhaseOf
      <3>2. Abstract!Accept(c)
        BY <1>1, <2>1, <2>3, <3>1 DEF Abstract!Accept, Abstract!Becomes, alloc, phase
      <3>3. QED BY <2>1, <3>2 DEF Abstract!ANext
    <2>6. CASE Stage(c, "rejected")
      <3>1. phase' = [phase EXCEPT ![c] = "refused"]
        BY <2>1, <2>6, MovesOne DEF PhaseOf
      <3>2. Abstract!Refuse(c)
        BY <1>1, <2>1, <2>3, <3>1 DEF Abstract!Refuse, Abstract!Becomes, alloc, phase
      <3>3. QED BY <2>1, <3>2 DEF Abstract!ANext
    <2>7. QED BY <2>2, <2>4, <2>5, <2>6
  <1>3. ASSUME \/ \E open \in BOOLEAN : AssignOpenStatus(open)
               \/ AdminStep
               \/ StopStep
        PROVE  [Abstract!ANext]_(Abstract!avars)
    <2>1. UNCHANGED stage
      BY <1>3 DEF AssignOpenStatus, AdminStep, AssignOperation, AssignOperationReset,
         AssignOperationOper, AssignOperationStamp, AssignOperationKick, StopStep,
         AssignStopThreadFlag, StopPutDummyRequest, StopPutDummyResource, ShutdownGet,
         ShutdownPut, ShutdownClose, AdminUnchanged, StopUnchanged
    <2>2. phase' = phase
      BY <2>1, MovesNone
    <2>3. CASE AssignStopThreadFlag
      BY <1>1, <2>2, <2>3 DEF AssignStopThreadFlag, Abstract!ANext, Abstract!Stop, alloc, phase
    <2>4. CASE ~AssignStopThreadFlag
      <3>1. UNCHANGED b_stopThread
        BY <1>3, <2>4 DEF AssignOpenStatus, AdminStep, AssignOperation, AssignOperationReset,
           AssignOperationOper, AssignOperationStamp, AssignOperationKick, StopStep,
           StopPutDummyRequest, StopPutDummyResource, ShutdownGet, ShutdownPut,
           ShutdownClose, AdminUnchanged, flags
      <3>2. QED BY <1>1, <2>2, <3>1, StutterStep
    <2>5. QED BY <2>3, <2>4
  <1>4. QED BY <1>2, <1>3

LEMMA InitRefines == Init => Abstract!AInit
  <1> SUFFICES ASSUME Init PROVE Abstract!AInit
    OBVIOUS
  <1>1. \A r \in Resources : AllocOf(r) = None
    BY PoolAssumption DEF Init, AllocOf, Threads
  <1>2. \A q \in AllRequests : PhaseOf(stage[q]) = "outside"
    BY DEF Init, PhaseOf
  <1>3. QED BY <1>1, <1>2 DEF Init, Abstract!AInit

\* Every behaviour of a pool, with any number of resources, requests and
\* operations, is one of the allocator's.
THEOREM Refinement == Spec => ImplementsAllocator
  <1>1. IInv /\ [Next]_vars => [Abstract!ANext]_(Abstract!avars)
    <2> SUFFICES ASSUME IInv, [Next]_vars PROVE [Abstract!ANext]_(Abstract!avars)
      OBVIOUS
    <2>1. CASE Next
      BY <2>1, MonitorRefines, ReleaseRefines, WorkerRefines, OutsideRefines DEF Next
    <2>2. CASE UNCHANGED vars
      <3>1. UNCHANGED <<stage, work, pc, b_stopThread>>
        BY <2>2 DEF vars, flags
      <3>2. QED BY <3>1, AllocatesNone, StutterStep DEF AllocOf, phase
    <2>3. QED BY <2>1, <2>2
  <1>2. QED
    BY <1>1, Invariant, InitRefines, PTL DEF Spec, ImplementsAllocator, Abstract!ASpec
=============================================================================
