---------------------------- MODULE StoreForward ----------------------------
(***************************************************************************)
(* Store and forward: the rows that an intercept queue captures from a     *)
(* response are put in an active queue, in memory or persistent, and the   *)
(* thread of that queue sends each one as a call, with its retries         *)
(* (gx/gxintercept.py over gx/gxqueue.py, gx/gxbdbqueue.py and             *)
(* gx/bdbVarQueue.py).                                                     *)
(*                                                                         *)
(* Items are numbered in the order of their put.  What the destination     *)
(* answers, and whether the gate and the destination are open, is found at *)
(* each call; every outcome but a good one is taken from a budget.         *)
(* Berkeley DB is external: what a transaction committed survives a crash. *)
(* The custom callbacks and the filters are left out.                      *)
(***************************************************************************)
EXTENDS Integers, Sequences, FiniteSets, SequencesExt

CONSTANTS
    MaxItems,     \* bound: items put
    QueueBound,   \* max of the queue
    MaxErrors,    \* errors after which the thread ends (20 in the code)
    MaxTroubles   \* bound: failures of the storage, the calls, the process

ASSUME ForwardAssumption ==
    /\ MaxItems \in Nat /\ MaxTroubles \in Nat
    /\ QueueBound \in Nat \ {0} /\ MaxErrors \in Nat \ {0}

VARIABLES
    store,      \* whether the queue is persistent, its items, its open flags
    capturing,  \* whether a worker was given the interceptor for its response
    stop,       \* "no", "dumping" or "done"
    mon,        \* the thread of the queue: pc, item, return status, ping, errors
    fate,       \* what became of each item
    ctrSent,    \* what the destination did: history
    troubles    \* what is left of the budget

fwdVars == <<store, capturing, stop, mon, fate, ctrSent, troubles>>

-----------------------------------------------------------------------------
Items == 1..MaxItems

\* The statuses that doProcCallWithRetry tells apart; the initial one of a
\* frame is among those that drop the item.  Mutant of InitStatus: a frame
\* begins with the status of success.
MutInitStatus == "ok"
InitStatus == "unassigned"
Statuses == {"ok", "drop", "again", "unavailable", "operator"}

IdleThread(errors) ==
    [pc |-> "top", item |-> 0, status |-> InitStatus, ping |-> FALSE, errors |-> errors]
Fates == {"none", "accepted", "refused", "unstored", "done", "logged", "dumped", "lost"}

Trouble == troubles > 0 /\ troubles' = troubles - 1

Spared == UNCHANGED troubles

\* The storage is closed by the shutdown of a persistent queue.
StorageOpen == ~(store.persistent /\ stop = "done")

-----------------------------------------------------------------------------
(* Workers that capture a response *)

\* A call that is to be intercepted is refused when the queue is closed, or
\* full but for one place (returnInterceptorIfReady).
CaptureBegins ==
    /\ ~capturing
    /\ store.openPut /\ StorageOpen
    /\ Len(store.items) + 1 < QueueBound
    /\ capturing' = TRUE
    /\ UNCHANGED <<store, stop, mon, fate, ctrSent, troubles>>

\* A put fails at once when the queue is full; the open flag of the intercept
\* queue is not asked again, that of a persistent queue was closed with its
\* storage.
PutIsRefused == ~StorageOpen \/ Len(store.items) >= QueueBound

\* A put that fails in the storage answers 0 as if it had not.
StoresItem(i) ==
    \/ /\ store' = [store EXCEPT !.items = Append(@, i)]
       /\ fate' = [fate EXCEPT ![i] = "accepted"]
       /\ Spared
    \/ /\ store.persistent /\ Trouble
       /\ fate' = [fate EXCEPT ![i] = "unstored"]
       /\ UNCHANGED store

\* A row of the response, put without waiting.
PutRow ==
    /\ capturing
    /\ \E i \in Items:
         /\ fate[i] = "none" /\ \A j \in 1..(i - 1): fate[j] # "none"
         /\ \/ /\ PutIsRefused
               /\ fate' = [fate EXCEPT ![i] = "refused"]
               /\ Spared /\ UNCHANGED store
            \/ /\ ~PutIsRefused
               /\ StoresItem(i)
    /\ UNCHANGED <<capturing, stop, mon, ctrSent>>

CaptureEnds ==
    /\ capturing /\ capturing' = FALSE
    /\ UNCHANGED <<store, stop, mon, fate, ctrSent, troubles>>

-----------------------------------------------------------------------------
(* The thread of the queue *)

GoesTo(pc) == mon' = [mon EXCEPT !.pc = pc]

\* runThread, and the test of the open flag before the get.  While the queue
\* is closed the thread waits, ten minutes at most, and begins again.
ThreadLoops ==
    /\ mon.pc = "top"
    /\ stop # "no" \/ store.openGet
    /\ GoesTo(IF stop # "no" THEN "ended" ELSE "get")
    /\ UNCHANGED <<store, capturing, stop, fate, ctrSent, troubles>>

\* The get waits for an item, whatever becomes of the open flag.  An item that
\* is found after the stop is logged and dropped.
TakesItem(items) ==
    /\ store' = [store EXCEPT !.items = items]
    /\ IF stop # "no"
       THEN mon' = [mon EXCEPT !.pc = "top"] /\ fate' = [fate EXCEPT ![Head(store.items)] = "logged"]
       ELSE mon' = [mon EXCEPT !.pc = "call", !.item = Head(store.items)] /\ UNCHANGED fate

GetItem ==
    /\ mon.pc = "get" /\ store.items # <<>> /\ StorageOpen
    /\ TakesItem(Tail(store.items))
    /\ UNCHANGED <<capturing, stop, ctrSent, troubles>>

\* A get whose removal fails after the item was read: the transaction is
\* aborted and the item returned all the same.
GetItemTwice ==
    /\ mon.pc = "get" /\ store.items # <<>> /\ StorageOpen /\ stop = "no"
    /\ store.persistent /\ Trouble
    /\ TakesItem(store.items)
    /\ ctrSent' = [ctrSent EXCEPT !.doubled = @ \cup {Head(store.items)}]
    /\ UNCHANGED <<capturing, stop>>

\* A get that fails returns None; the thread takes it for an item, and the
\* exception counts as an error.  Nothing resets the count.
GetFails ==
    /\ mon.pc = "get" /\ store.items # <<>> /\ StorageOpen
    /\ store.persistent /\ Trouble
    /\ LET errors == IF stop = "no" THEN mon.errors + 1 ELSE mon.errors IN
       mon' = [mon EXCEPT !.errors = errors,
                          !.pc = IF errors >= MaxErrors THEN "aborted" ELSE "top"]
    /\ UNCHANGED <<store, capturing, stop, fate, ctrSent>>

\* queueProcCallToDestPool.  When the gate is closed, or the pool refuses the
\* request, nobody notifies the thread, which waits for ever; when the
\* destination is closed it is notified and the frame keeps its status.
CallDest ==
    /\ mon.pc = "call"
    /\ \/ GoesTo("waiting") /\ Spared
       \/ GoesTo("stuck") /\ Trouble
       \/ GoesTo("answer") /\ Trouble
    /\ UNCHANGED <<store, capturing, stop, fate, ctrSent>>

\* The destination executed the call once more.
Executed(good) ==
    [ctrSent EXCEPT !.executed = @ \cup {mon.item},
                    !.answered = IF good THEN @ \cup {mon.item} ELSE @,
                    !.again = IF mon.item \in ctrSent.answered THEN @ \cup {mon.item} ELSE @]

\* A worker has the frame: it assigns the status that came, or none when the
\* send fails or the time is over (abortRPCandTellClient does not), and then
\* notifies the thread.
WorkerAnswers ==
    /\ mon.pc = "waiting"
    /\ \/ /\ mon' = [mon EXCEPT !.pc = "answer", !.status = "ok"]
          /\ ctrSent' = (IF mon.ping THEN [ctrSent EXCEPT !.pinged = @ \cup {mon.item}]
                         ELSE Executed(TRUE))
          /\ Spared
       \/ /\ \E s \in Statuses \ {"ok"}: mon' = [mon EXCEPT !.pc = "answer", !.status = s]
          /\ \/ ~mon.ping /\ ctrSent' = Executed(FALSE)
             \/ UNCHANGED ctrSent
          /\ Trouble
       \/ /\ GoesTo("answer")
          /\ \/ ~mon.ping /\ ctrSent' = Executed(FALSE)
             \/ UNCHANGED ctrSent
          /\ Trouble
    /\ UNCHANGED <<store, capturing, stop, fate>>

\* The item leaves the thread, as done or with a line in the log.
Leaves(f) ==
    /\ fate' = [fate EXCEPT ![mon.item] = f]
    /\ mon' = IdleThread(mon.errors)

\* doProcCallWithRetry: the status decides.  A ping that succeeds leaves its
\* own status in the frame of the call that follows.
StatusDecides ==
    /\ mon.pc = "answer"
    /\ LET s == mon.status IN
       \/ /\ mon.ping
          /\ mon' = (IF s = "unavailable" THEN [mon EXCEPT !.pc = "pause"]
                     ELSE [mon EXCEPT !.pc = "call", !.ping = FALSE])
          /\ UNCHANGED <<store, fate>>
       \/ /\ ~mon.ping /\ s \in {"ok", "drop", InitStatus}
          /\ Leaves(IF s = "ok" THEN "done" ELSE "logged")
          /\ UNCHANGED store
       \/ /\ ~mon.ping /\ s = "again"
          /\ GoesTo("call") /\ UNCHANGED <<store, fate>>
       \/ /\ ~mon.ping /\ s = "unavailable"
          /\ mon' = [mon EXCEPT !.pc = "pause", !.ping = TRUE]
          /\ UNCHANGED <<store, fate>>
       \/ /\ ~mon.ping /\ s = "operator"
          /\ store' = [store EXCEPT !.openGet = FALSE]
          /\ GoesTo("suspended") /\ UNCHANGED fate
    /\ UNCHANGED <<capturing, stop, ctrSent, troubles>>

\* The pause before a ping, and the wait for the operator: the stop ends both.
Resumes ==
    /\ \/ mon.pc = "pause"
       \/ mon.pc = "suspended" /\ (store.openGet \/ stop # "no")
    /\ IF stop # "no" THEN Leaves("logged") ELSE GoesTo("call") /\ UNCHANGED fate
    /\ UNCHANGED <<store, capturing, stop, ctrSent, troubles>>

-----------------------------------------------------------------------------
(* The operator, the shutdown and the process *)

AssignOpenStatus(put, get) ==
    /\ stop = "no" /\ (store.openPut # put \/ store.openGet # get)
    /\ store' = [store EXCEPT !.openPut = put, !.openGet = get]
    /\ UNCHANGED <<capturing, stop, mon, fate, ctrSent, troubles>>

\* The shutdown closes the queue, tells the thread, and closes the storage or
\* writes the items to a file.
ShutdownAndDump ==
    /\ stop = "no"
    /\ store' = [store EXCEPT !.openPut = FALSE, !.openGet = FALSE]
    /\ stop' = (IF store.persistent THEN "done" ELSE "dumping")
    /\ UNCHANGED <<capturing, mon, fate, ctrSent, troubles>>

\* The dump ends with the queue, or with the item that cannot be written.
DumpItem ==
    /\ stop = "dumping" /\ store.items # <<>>
    /\ store' = [store EXCEPT !.items = Tail(@)]
    /\ \/ fate' = [fate EXCEPT ![Head(store.items)] = "dumped"] /\ Spared /\ UNCHANGED stop
       \/ fate' = [fate EXCEPT ![Head(store.items)] = "lost"] /\ Trouble /\ stop' = "done"
    /\ UNCHANGED <<capturing, mon, ctrSent>>

DumpEnds ==
    /\ stop = "dumping" /\ store.items = <<>>
    /\ stop' = "done"
    /\ UNCHANGED <<store, capturing, mon, fate, ctrSent, troubles>>

\* The process dies, or ends after its shutdown, and is started again: the
\* item the thread held is lost, unless it is still stored.  (A queue in
\* memory begins anew and shows nothing.)
Held == IF mon.item = 0 THEN {} ELSE {mon.item}

Restart ==
    /\ store.persistent /\ Trouble
    /\ fate' = [i \in Items |-> IF i \in Held \ ToSet(store.items) THEN "lost" ELSE fate[i]]
    /\ mon' = IdleThread(0)
    /\ store' = [store EXCEPT !.openPut = TRUE, !.openGet = TRUE]
    /\ capturing' = FALSE /\ stop' = "no"
    /\ UNCHANGED ctrSent

-----------------------------------------------------------------------------
FwdInit ==
    /\ \E p \in BOOLEAN: store = [persistent |-> p, items |-> <<>>, openPut |-> TRUE, openGet |-> TRUE]
    /\ capturing = FALSE /\ stop = "no"
    /\ mon = IdleThread(0)
    /\ fate = [i \in Items |-> "none"]
    /\ ctrSent = [executed |-> {}, answered |-> {}, again |-> {}, pinged |-> {}, doubled |-> {}]
    /\ troubles = MaxTroubles

\* The steps of the thread and of the workers that answer it.
FwdSteps ==
    ThreadLoops \/ GetItem \/ CallDest \/ WorkerAnswers \/ StatusDecides \/ Resumes

FwdNext ==
    \/ CaptureBegins \/ PutRow \/ CaptureEnds
    \/ FwdSteps \/ GetItemTwice \/ GetFails
    \/ \E put, get \in BOOLEAN: AssignOpenStatus(put, get)
    \/ ShutdownAndDump \/ DumpItem \/ DumpEnds \/ Restart

FwdSpec == FwdInit /\ [][FwdNext]_fwdVars

-----------------------------------------------------------------------------
(* Properties *)

FwdTypeOK ==
    /\ Len(store.items) <= QueueBound /\ ToSet(store.items) \subseteq Items
    /\ mon.item \in Items \cup {0} /\ mon.errors \in 0..MaxErrors
    /\ fate \in [Items -> Fates]
    /\ troubles \in 0..MaxTroubles

\* An item that a put accepted is in the queue or with the thread, once, until
\* it is done, logged as not done, dumped, or lost by a crash or a failed dump;
\* an item whose removal failed is excluded (gxintercept.py, bdbVarQueue.py).
AcceptedIsKept ==
    \A i \in Items \ ctrSent.doubled:
        Cardinality({k \in DOMAIN store.items: store.items[k] = i}) + Cardinality(Held \cap {i})
            = (IF fate[i] = "accepted" THEN 1 ELSE 0)

\* The destination sees the calls in the order of the puts: none is executed
\* while an earlier one is stored or being retried (ActiveQueueMonitor).
FirstIsSentFirst ==
    \A j \in ctrSent.executed, i \in Items:
        i < j => i \notin ToSet(store.items) \cup Held

\* A call counts as done only when the destination executed it, but for the
\* status that a ping left in its frame; and a call that was answered is not
\* sent again, crash or not, unless its removal failed (doProcCallWithRetry).
DoneIsExecuted ==
    /\ \A i \in Items: fate[i] = "done" => i \in ctrSent.answered \cup ctrSent.pinged
    /\ ctrSent.again \subseteq ctrSent.doubled

CallsAreKept == AcceptedIsKept /\ FirstIsSentFirst /\ DoneIsExecuted

\* The thread has a call and nobody owes it more than an answer.
FwdInCall == mon.item # 0 /\ mon.pc \notin {"stuck", "suspended"}
=============================================================================
