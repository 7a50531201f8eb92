--------------------------- MODULE MessagesProofs ---------------------------
(***************************************************************************)
(* Proofs about what is passed on.  StoreForward: what a put accepted is   *)
(* kept in its order and accounted for, for any number of items, errors    *)
(* and troubles.  DestConn: what a client is relayed is an answer to its   *)
(* call, for responses and windows of any length, however they are cut.    *)
(* XmltpLex: a message is read as it was written, for values and strings   *)
(* of any length, however the stream is cut.  Config: what a program finds *)
(* in its configuration is what the file defines, for any file.            *)
(***************************************************************************)
EXTENDS StoreForward, DestConn, XmltpLex, Config, FiniteSetTheorems, SequenceTheorems,
        WellFoundedInduction, TLAPS

-----------------------------------------------------------------------------
(* Store and forward: the inductive invariant *)

AtWork == {"call", "waiting", "answer", "pause", "suspended", "stuck"}

FwdTyped ==
    /\ store \in [persistent: BOOLEAN, items: Seq(Items), openPut: BOOLEAN, openGet: BOOLEAN]
    /\ mon \in [pc: AtWork \cup {"top", "get", "ended", "aborted"}, item: Items \cup {0},
                status: Statuses \cup {InitStatus}, ping: BOOLEAN, errors: Nat]
    /\ fate \in [Items -> Fates]
    /\ ctrSent \in [executed: SUBSET Items, answered: SUBSET Items, again: SUBSET Items,
                    pinged: SUBSET Items, doubled: SUBSET Items]
    /\ troubles \in Nat

Queue == store.items

\* Items are put in their order: those of the queue increase, and the ones
\* that have not been put are above all others.
QueueInv ==
    /\ \A k, l \in 1..Len(Queue): k < l => Queue[k] < Queue[l]
    /\ \A k \in 1..Len(Queue): fate[Queue[k]] # "none"
    /\ \A i, j \in Items: i < j /\ fate[i] = "none" => fate[j] = "none"

\* The item of the thread comes before those of the queue; it is there too
\* only when its removal failed.
HeldInv ==
    /\ mon.item # 0 <=> mon.pc \in AtWork
    /\ mon.item = 0 => mon.status = InitStatus
    /\ mon.item # 0 => fate[mon.item] # "none"
    /\ mon.item # 0 => \A k \in 1..Len(Queue):
                          /\ mon.item <= Queue[k]
                          /\ mon.item = Queue[k] => mon.item \in ctrSent.doubled

\* An item is in the queue or with the thread as long as its fate is open.
KeptInv ==
    \A i \in Items \ ctrSent.doubled:
        fate[i] = "accepted" <=> mon.item = i \/ \E k \in 1..Len(Queue): Queue[k] = i

\* Nothing was executed that is later than what is stored.
OrderInv ==
    \A j \in ctrSent.executed:
        /\ fate[j] # "none"
        /\ mon.item # 0 => j <= mon.item
        /\ \A k \in 1..Len(Queue): j <= Queue[k]

\* A status of success is that of the item or of a ping for it; an item that
\* was answered is about to leave, unless its removal failed.
AnswerInv ==
    /\ ctrSent.answered \subseteq ctrSent.executed
    /\ mon.item # 0 /\ mon.status = "ok" => mon.item \in ctrSent.answered \cup ctrSent.pinged
    /\ mon.item \in ctrSent.answered \ ctrSent.doubled =>
          mon.pc = "answer" /\ ~mon.ping /\ mon.status = "ok"
    /\ \A k \in 1..Len(Queue): Queue[k] \in ctrSent.answered => Queue[k] \in ctrSent.doubled

FwdInv == FwdTyped /\ QueueInv /\ HeldInv /\ KeptInv /\ OrderInv /\ AnswerInv /\ DoneIsExecuted
-----------------------------------------------------------------------------
LEMMA QueueInitInv ==
    ASSUME FwdInit
    PROVE  FwdInv
<1>1. FwdTyped
    BY ForwardAssumption DEF FwdInit, FwdTyped, IdleThread, Fates
<1>2. QueueInv /\ HeldInv /\ KeptInv /\ OrderInv /\ AnswerInv /\ DoneIsExecuted
    BY DEF FwdInit, IdleThread, QueueInv, HeldInv, KeptInv, OrderInv, AnswerInv, DoneIsExecuted,
           Queue, Items, AtWork, InitStatus
<1>3. QED BY <1>1, <1>2 DEF FwdInv

-----------------------------------------------------------------------------
(* Steps that touch no item *)

\* What the flags of the queue and the state of the shutdown are does not
\* matter to the invariant.
LEMMA QueueQuiet ==
    ASSUME FwdInv, FwdTyped', Queue' = Queue, UNCHANGED <<mon, fate, ctrSent>>
    PROVE  FwdInv'
<1>1. QueueInv' /\ KeptInv' /\ OrderInv'
    BY DEF FwdInv, QueueInv, KeptInv, OrderInv
<1>2. HeldInv' /\ AnswerInv' /\ DoneIsExecuted'
    BY DEF FwdInv, HeldInv, AnswerInv, DoneIsExecuted
<1>3. QED BY <1>1, <1>2 DEF FwdInv

LEMMA QuietSteps ==
    ASSUME FwdInv, CaptureBegins \/ CaptureEnds \/ ShutdownAndDump \/ DumpEnds
    PROVE  FwdInv'
<1>1. FwdTyped' /\ Queue' = Queue /\ UNCHANGED <<mon, fate, ctrSent>>
    BY DEF FwdInv, FwdTyped, Queue, CaptureBegins, CaptureEnds, ShutdownAndDump, DumpEnds
<1>2. QED BY <1>1, QueueQuiet

LEMMA AssignOpenStatusInv ==
    ASSUME FwdInv, NEW put \in BOOLEAN, NEW get \in BOOLEAN, AssignOpenStatus(put, get)
    PROVE  FwdInv'
<1>1. FwdTyped' /\ Queue' = Queue /\ UNCHANGED <<mon, fate, ctrSent>>
    BY DEF FwdInv, FwdTyped, Queue, AssignOpenStatus
<1>2. QED BY <1>1, QueueQuiet

\* The thread moves on with the item it has, or without one.
LEMMA Moves ==
    ASSUME FwdInv, FwdTyped', Queue' = Queue, UNCHANGED <<fate, ctrSent>>,
           mon'.item = mon.item, mon'.status = mon.status,
           mon'.pc \in AtWork <=> mon.pc \in AtWork,
           mon.item \notin ctrSent.answered \ ctrSent.doubled
             \/ (mon'.pc = "answer" /\ ~mon'.ping)
    PROVE  FwdInv'
<1>1. QueueInv' /\ KeptInv' /\ OrderInv'
    BY DEF FwdInv, QueueInv, KeptInv, OrderInv
<1>2. HeldInv'
    BY DEF FwdInv, HeldInv
<1>3. AnswerInv' /\ DoneIsExecuted'
    BY DEF FwdInv, AnswerInv, DoneIsExecuted
<1>4. QED BY <1>1, <1>2, <1>3 DEF FwdInv

LEMMA ThreadLoopsInv ==
    ASSUME FwdInv, ThreadLoops
    PROVE  FwdInv'
<1>1. FwdTyped' /\ Queue' = Queue /\ UNCHANGED <<fate, ctrSent>>
    BY DEF FwdInv, FwdTyped, Queue, ThreadLoops, GoesTo
<1>2. mon'.item = mon.item /\ mon'.status = mon.status
      /\ mon'.pc \notin AtWork /\ mon.pc \notin AtWork
    BY DEF FwdInv, FwdTyped, ThreadLoops, GoesTo, AtWork
<1>3. mon.item \notin ctrSent.answered \ ctrSent.doubled
    BY DEF FwdInv, AnswerInv, ThreadLoops
<1>4. QED BY <1>1, <1>2, <1>3, Moves

LEMMA GetFailsInv ==
    ASSUME FwdInv, GetFails
    PROVE  FwdInv'
<1>0. troubles' \in Nat /\ UNCHANGED <<store, fate, ctrSent>>
    BY DEF FwdInv, FwdTyped, GetFails, Trouble
<1>a. \E e \in Nat, p \in {"top", "aborted"}: mon' = [mon EXCEPT !.errors = e, !.pc = p]
    <2>1. mon.errors \in Nat /\ mon.errors + 1 \in Nat
        BY DEF FwdInv, FwdTyped
    <2>2. QED BY <2>1 DEF GetFails
<1>1. FwdTyped' /\ Queue' = Queue /\ UNCHANGED <<fate, ctrSent>>
    BY <1>0, <1>a DEF FwdInv, FwdTyped, Queue
<1>2. mon'.item = mon.item /\ mon'.status = mon.status
      /\ mon'.pc \notin AtWork /\ mon.pc \notin AtWork
    BY DEF FwdInv, FwdTyped, GetFails, AtWork
<1>3. mon.item \notin ctrSent.answered \ ctrSent.doubled
    BY DEF FwdInv, AnswerInv, GetFails
<1>4. QED BY <1>1, <1>2, <1>3, Moves

LEMMA CallDestInv ==
    ASSUME FwdInv, CallDest
    PROVE  FwdInv'
<1>1. FwdTyped' /\ Queue' = Queue /\ UNCHANGED <<fate, ctrSent>>
    BY DEF FwdInv, FwdTyped, Queue, CallDest, GoesTo, Trouble, Spared, AtWork
<1>2. mon'.item = mon.item /\ mon'.status = mon.status
      /\ mon'.pc \in AtWork /\ mon.pc \in AtWork
    BY DEF FwdInv, FwdTyped, CallDest, GoesTo, AtWork
<1>3. mon.item \notin ctrSent.answered \ ctrSent.doubled
    BY DEF FwdInv, AnswerInv, CallDest
<1>4. QED BY <1>1, <1>2, <1>3, Moves

-----------------------------------------------------------------------------
(* Putting *)

LEMMA PutRowInv ==
    ASSUME FwdInv, PutRow
    PROVE  FwdInv'
<1>1. PICK i \in Items:
         /\ fate[i] = "none" /\ \A j \in 1..(i - 1): fate[j] # "none"
         /\ \/ /\ fate' = [fate EXCEPT ![i] = "refused"]
               /\ Spared /\ UNCHANGED store
            \/ StoresItem(i)
    BY DEF PutRow
<1>2. UNCHANGED <<mon, ctrSent>>
    BY DEF PutRow
<1>3. i # mon.item /\ i \notin ctrSent.executed /\ \A k \in 1..Len(Queue): Queue[k] # i
    BY <1>1 DEF FwdInv, HeldInv, OrderInv, QueueInv, FwdTyped, Items
<1>a. \A j \in Items: fate[j] # "none" => j < i
    BY <1>1 DEF FwdInv, QueueInv, Items
<1>b. \A j \in Items: j < i => fate[j] # "none"
    BY <1>1 DEF Items
<1>4. CASE UNCHANGED store /\ \E f \in {"refused", "unstored"}: fate' = [fate EXCEPT ![i] = f]
    <2>0. PICK f \in {"refused", "unstored"}: fate' = [fate EXCEPT ![i] = f]
        BY <1>4
    <2>1. fate' \in [Items -> Fates] /\ fate'[i] = f /\ \A j \in Items \ {i}: fate'[j] = fate[j]
        BY <2>0 DEF FwdInv, FwdTyped, Fates
    <2>2. FwdTyped'
        <3>1. troubles' \in Nat
            BY <1>1 DEF FwdInv, FwdTyped, StoresItem, Spared, Trouble
        <3>2. QED BY <1>2, <1>4, <2>1, <3>1 DEF FwdInv, FwdTyped
    <2>3. QueueInv'
        <3>1. \A k \in 1..Len(Queue): Queue[k] \in Items /\ fate[Queue[k]] # "none"
            BY ElementOfSeq DEF FwdInv, FwdTyped, Queue, QueueInv
        <3>2. \A k \in 1..Len(Queue): fate'[Queue[k]] # "none"
            BY <1>3, <2>1, <3>1
        <3>3. \A j, l \in Items: j < l /\ fate'[j] = "none" => fate'[l] = "none"
            BY <1>b, <2>1 DEF FwdInv, QueueInv, Items
        <3>4. QED BY <1>4, <3>2, <3>3 DEF FwdInv, QueueInv, Queue
    <2>4. HeldInv' /\ AnswerInv'
        BY <1>2, <1>3, <1>4, <2>1 DEF FwdInv, HeldInv, AnswerInv, Queue, FwdTyped
    <2>5. KeptInv'
        BY <1>1, <1>2, <1>3, <1>4, <2>1 DEF FwdInv, KeptInv, Queue
    <2>6. OrderInv'
        BY <1>2, <1>3, <1>4, <2>1 DEF FwdInv, OrderInv, Queue, FwdTyped
    <2>7. DoneIsExecuted'
        BY <1>2, <2>1 DEF FwdInv, DoneIsExecuted
    <2>8. QED BY <2>2, <2>3, <2>4, <2>5, <2>6, <2>7 DEF FwdInv
<1>5. CASE store' = [store EXCEPT !.items = Append(@, i)]
           /\ fate' = [fate EXCEPT ![i] = "accepted"] /\ Spared
    <2>1. fate' \in [Items -> Fates] /\ fate'[i] = "accepted" /\ \A j \in Items \ {i}: fate'[j] = fate[j]
        BY <1>5 DEF FwdInv, FwdTyped, Fates
    <2>2. Queue \in Seq(Items) /\ Queue' = Append(Queue, i)
        BY <1>5 DEF FwdInv, FwdTyped, Queue
    <2>3. /\ Len(Queue) \in Nat /\ Len(Queue') = Len(Queue) + 1
          /\ Queue'[Len(Queue) + 1] = i
          /\ \A k \in 1..Len(Queue): Queue'[k] = Queue[k] /\ Queue[k] \in Items
        BY <2>2, AppendProperties, LenProperties, ElementOfSeq
    <2>4. FwdTyped'
        BY <1>2, <1>5, <2>1, <2>2, AppendProperties DEF FwdInv, FwdTyped, Spared, Queue
    <2>5. \A k \in 1..Len(Queue'): k = Len(Queue) + 1 \/ k \in 1..Len(Queue)
        BY <2>3
    <2>b. \A k \in 1..Len(Queue): k \in 1..Len(Queue') /\ k < Len(Queue) + 1
        BY <2>3
    <2>c. Len(Queue) + 1 \in 1..Len(Queue')
        BY <2>3
    <2>d. \A k \in 1..Len(Queue'): Queue'[k] = i \/ \E l \in 1..Len(Queue): Queue'[k] = Queue[l]
        BY <2>3, <2>5
    <2>6. \A k \in 1..Len(Queue): Queue[k] < i
        BY <1>a, <2>3 DEF FwdInv, QueueInv
    <2>7. QueueInv'
        <3>1. ASSUME NEW k \in 1..Len(Queue'), NEW l \in 1..Len(Queue'), k < l
              PROVE  Queue'[k] < Queue'[l]
            <4>1. k \in 1..Len(Queue)
                BY <2>3, <3>1
            <4>2. CASE l \in 1..Len(Queue)
                BY <2>3, <3>1, <4>1, <4>2 DEF FwdInv, QueueInv
            <4>3. CASE l = Len(Queue) + 1
                BY <2>3, <2>6, <4>1, <4>3
            <4>4. QED BY <2>5, <4>2, <4>3
        <3>2. \A k \in 1..Len(Queue'): fate'[Queue'[k]] # "none"
            BY <1>3, <2>1, <2>3, <2>5 DEF FwdInv, QueueInv
        <3>3. \A j, l \in Items: j < l /\ fate'[j] = "none" => fate'[l] = "none"
            BY <1>b, <2>1 DEF FwdInv, QueueInv, Items
        <3>4. QED BY <3>1, <3>2, <3>3 DEF QueueInv
    <2>8. HeldInv'
        <3>1. mon.item # 0 => mon.item < i /\ fate'[mon.item] # "none"
            BY <1>a, <2>1, <1>3 DEF FwdInv, HeldInv, FwdTyped
        <3>2. mon.item # 0 => \A k \in 1..Len(Queue'):
                 mon.item <= Queue'[k] /\ (mon.item = Queue'[k] => mon.item \in ctrSent.doubled)
            BY <1>3, <2>d, <3>1 DEF FwdInv, HeldInv, FwdTyped, Items
        <3>3. QED BY <1>2, <3>1, <3>2 DEF FwdInv, HeldInv
    <2>9. KeptInv'
        <3>1. \A j \in Items \ {i}: (\E k \in 1..Len(Queue'): Queue'[k] = j)
                                    <=> \E k \in 1..Len(Queue): Queue[k] = j
            BY <2>3, <2>b, <2>d
        <3>2. \E k \in 1..Len(Queue'): Queue'[k] = i
            BY <2>3, <2>c
        <3>3. QED BY <1>2, <2>1, <3>1, <3>2 DEF FwdInv, KeptInv
    <2>10. OrderInv'
        <3>1. \A j \in ctrSent.executed: fate'[j] # "none" /\ j < i
            BY <1>3, <1>a, <2>1 DEF FwdInv, OrderInv, FwdTyped
        <3>2. \A j \in ctrSent.executed, k \in 1..Len(Queue'): j <= Queue'[k]
            BY <2>d, <3>1 DEF FwdInv, OrderInv, FwdTyped, Items
        <3>3. QED BY <1>2, <3>1, <3>2 DEF FwdInv, OrderInv
    <2>11. AnswerInv'
        <3>1. i \notin ctrSent.answered
            BY <1>3 DEF FwdInv, AnswerInv
        <3>2. QED BY <1>2, <2>d, <3>1 DEF FwdInv, AnswerInv
    <2>12. DoneIsExecuted'
        BY <1>2, <2>1 DEF FwdInv, DoneIsExecuted
    <2>13. QED BY <2>4, <2>7, <2>8, <2>9, <2>10, <2>11, <2>12 DEF FwdInv
<1>6. QED BY <1>1, <1>4, <1>5 DEF StoresItem
-----------------------------------------------------------------------------
(* Taking *)

\* What the queue is without its first item.
LEMMA QueueTail ==
    ASSUME FwdInv, Queue # <<>>
    PROVE  /\ Tail(Queue) \in Seq(Items) /\ Head(Queue) \in Items
           /\ \A k \in 1..Len(Tail(Queue)): /\ k + 1 \in 1..Len(Queue)
                                            /\ Tail(Queue)[k] = Queue[k + 1]
                                            /\ Head(Queue) < Tail(Queue)[k]
           /\ \A k, l \in 1..Len(Tail(Queue)): k < l => Tail(Queue)[k] < Tail(Queue)[l]
           /\ \A i \in Items: (\E k \in 1..Len(Queue): Queue[k] = i) <=>
                 (i = Head(Queue) \/ \E k \in 1..Len(Tail(Queue)): Tail(Queue)[k] = i)
<1>1. Queue \in Seq(Items)
    BY DEF FwdInv, FwdTyped, Queue
<1>2. /\ Tail(Queue) \in Seq(Items) /\ Head(Queue) \in Items /\ Head(Queue) = Queue[1]
      /\ Len(Tail(Queue)) = Len(Queue) - 1 /\ Len(Queue) \in Nat /\ Len(Queue) >= 1
      /\ \A k \in 1..Len(Tail(Queue)): Tail(Queue)[k] = Queue[k + 1]
    BY <1>1, HeadTailProperties, LenProperties, EmptySeq
<1>3. \A k \in 1..Len(Tail(Queue)): k \in Nat /\ k + 1 \in 1..Len(Queue) /\ 1 < k + 1
    BY <1>2
<1>4. \A k \in 1..Len(Tail(Queue)): Head(Queue) < Tail(Queue)[k]
    BY <1>2, <1>3 DEF FwdInv, QueueInv
<1>5. \A k, l \in 1..Len(Tail(Queue)): k < l => Tail(Queue)[k] < Tail(Queue)[l]
    <2>1. \A k, l \in 1..Len(Tail(Queue)): k < l => k + 1 < l + 1
        BY <1>2
    <2>2. QED BY <1>2, <1>3, <2>1 DEF FwdInv, QueueInv
<1>6. \A k \in 1..Len(Queue): k = 1 \/ (k - 1 \in 1..Len(Tail(Queue)) /\ (k - 1) + 1 = k)
    BY <1>2
<1>7. ASSUME NEW i \in Items
      PROVE  (\E k \in 1..Len(Queue): Queue[k] = i) <=>
                 (i = Head(Queue) \/ \E k \in 1..Len(Tail(Queue)): Tail(Queue)[k] = i)
    <2>1. ASSUME NEW k \in 1..Len(Queue), Queue[k] = i
          PROVE  i = Head(Queue) \/ \E l \in 1..Len(Tail(Queue)): Tail(Queue)[l] = i
        BY <1>2, <1>6, <2>1
    <2>2. 1 \in 1..Len(Queue)
        BY <1>2
    <2>3. QED BY <1>2, <1>3, <2>1, <2>2
<1>8. QED BY <1>2, <1>3, <1>4, <1>5, <1>7

\* The first item leaves the queue for the log, the dump or the thread.
LEMMA HeadLeaves ==
    ASSUME FwdInv, FwdTyped', Queue # <<>>, Queue' = Tail(Queue), UNCHANGED ctrSent,
           \/ UNCHANGED mon
           \/ (mon.item = 0 /\ mon'.item = 0 /\ mon'.status = InitStatus /\ mon'.pc \notin AtWork),
           NEW f \in Fates \ {"none", "accepted", "done"},
           fate' = [fate EXCEPT ![Head(Queue)] = f]
    PROVE  FwdInv'
<1>1. fate'[Head(Queue)] = f /\ \A j \in Items \ {Head(Queue)}: fate'[j] = fate[j]
    BY QueueTail DEF FwdInv, FwdTyped
<1>2. fate[Head(Queue)] # "none"
    <2>1. 1 \in 1..Len(Queue) /\ Head(Queue) = Queue[1]
        BY EmptySeq, LenProperties DEF FwdInv, FwdTyped, Queue
    <2>2. QED BY <2>1 DEF FwdInv, QueueInv
<1>3. \A j \in Items: fate'[j] = "none" <=> fate[j] = "none"
    BY <1>1, <1>2
<1>4. QueueInv'
    <2>1. \A k \in 1..Len(Queue'): fate'[Queue'[k]] # "none"
        BY <1>3, QueueTail, ElementOfSeq DEF FwdInv, QueueInv
    <2>2. QED BY <1>3, <2>1, QueueTail DEF FwdInv, QueueInv
<1>5. HeldInv'
    BY <1>3, QueueTail DEF FwdInv, HeldInv, FwdTyped
<1>6. KeptInv'
    <2>1. ASSUME NEW i \in Items \ ctrSent.doubled, i # Head(Queue)
          PROVE  fate'[i] = "accepted" <=> mon.item = i \/ \E k \in 1..Len(Queue'): Queue'[k] = i
        BY <1>1, <2>1, QueueTail DEF FwdInv, KeptInv
    <2>2. ASSUME Head(Queue) \notin ctrSent.doubled
          PROVE  /\ fate'[Head(Queue)] # "accepted" /\ mon.item # Head(Queue)
                 /\ \A k \in 1..Len(Queue'): Queue'[k] # Head(Queue)
        <3>1. mon.item # Head(Queue)
            <4>1. Head(Queue) = Queue[1] /\ 1 \in 1..Len(Queue) /\ Head(Queue) # 0
                BY QueueTail, EmptySeq, LenProperties DEF FwdInv, FwdTyped, Queue, Items
            <4>2. QED BY <2>2, <4>1 DEF FwdInv, HeldInv
        <3>2. \A k \in 1..Len(Queue'): Queue'[k] # Head(Queue)
            BY QueueTail, ElementOfSeq DEF Items
        <3>3. QED BY <1>1, <3>1, <3>2
    <2>3. QED BY <2>1, <2>2, QueueTail DEF KeptInv
<1>7. OrderInv'
    BY <1>3, QueueTail DEF FwdInv, OrderInv, FwdTyped
<1>8. AnswerInv'
    <2>1. 0 \notin ctrSent.answered
        BY DEF FwdInv, FwdTyped, Items
    <2>2. QED BY <2>1, QueueTail DEF FwdInv, AnswerInv
<1>9. DoneIsExecuted'
    BY <1>1, QueueTail DEF FwdInv, DoneIsExecuted
<1>10. QED BY <1>4, <1>5, <1>6, <1>7, <1>8, <1>9 DEF FwdInv

LEMMA DumpItemInv ==
    ASSUME FwdInv, DumpItem
    PROVE  FwdInv'
<1>1. Queue # <<>> /\ Queue' = Tail(Queue) /\ UNCHANGED <<mon, ctrSent>>
    BY DEF DumpItem, Queue, FwdInv, FwdTyped
<1>2. PICK f \in {"dumped", "lost"}: fate' = [fate EXCEPT ![Head(Queue)] = f]
    BY DEF DumpItem, Queue
<1>3. FwdTyped'
    <2>1. troubles' \in Nat
        BY DEF FwdInv, FwdTyped, DumpItem, Spared, Trouble
    <2>2. fate' \in [Items -> Fates]
        BY <1>2 DEF FwdInv, FwdTyped, Fates
    <2>3. store' = [store EXCEPT !.items = Tail(Queue)]
        BY DEF DumpItem, Queue
    <2>4. QED BY <1>1, <2>1, <2>2, <2>3, QueueTail DEF FwdInv, FwdTyped
<1>4. f \in Fates \ {"none", "accepted", "done"}
    BY <1>2 DEF Fates
<1>5. QED BY <1>1, <1>2, <1>3, <1>4, HeadLeaves

LEMMA GetItemInv ==
    ASSUME FwdInv, GetItem
    PROVE  FwdInv'
<1>1. Queue # <<>> /\ Queue' = Tail(Queue) /\ UNCHANGED <<ctrSent, troubles>>
    BY DEF GetItem, TakesItem, Queue, FwdInv, FwdTyped
<1>2. store' \in [persistent: BOOLEAN, items: Seq(Items), openPut: BOOLEAN, openGet: BOOLEAN]
    BY <1>1, QueueTail DEF GetItem, TakesItem, FwdInv, FwdTyped, Queue
<1>3. mon.pc = "get" /\ mon.item = 0 /\ mon.status = InitStatus
    BY DEF GetItem, FwdInv, HeldInv, AtWork
<1>4. CASE stop # "no"
    <2>1. mon' = [mon EXCEPT !.pc = "top"] /\ fate' = [fate EXCEPT ![Head(Queue)] = "logged"]
        BY <1>4 DEF GetItem, TakesItem, Queue
    <2>2. FwdTyped'
        BY <1>1, <1>2, <2>1 DEF FwdInv, FwdTyped, Fates
    <2>3. mon'.item = 0 /\ mon'.status = InitStatus /\ mon'.pc \notin AtWork
        BY <1>3, <2>1 DEF FwdInv, FwdTyped, AtWork
    <2>4. "logged" \in Fates \ {"none", "accepted", "done"}
        BY DEF Fates
    <2>5. QED BY <1>1, <1>3, <2>1, <2>2, <2>3, <2>4, HeadLeaves
<1>5. CASE stop = "no"
    <2>1. mon' = [mon EXCEPT !.pc = "call", !.item = Head(Queue)] /\ UNCHANGED fate
        BY <1>5 DEF GetItem, TakesItem, Queue
    <2>2. FwdTyped'
        BY <1>1, <1>2, <2>1, QueueTail DEF FwdInv, FwdTyped, AtWork
    <2>3. mon'.pc = "call" /\ mon'.item = Head(Queue) /\ mon'.status = InitStatus
          /\ Head(Queue) # 0 /\ mon'.pc \in AtWork
        <3>1. Head(Queue) # 0
            BY <1>1, QueueTail DEF Items
        <3>2. QED BY <1>3, <2>1, <3>1 DEF FwdInv, FwdTyped, AtWork
    <2>4. Head(Queue) = Queue[1] /\ 1 \in 1..Len(Queue)
        BY <1>1, EmptySeq, LenProperties DEF FwdInv, FwdTyped, Queue
    <2>5. QueueInv'
        BY <1>1, <2>1, QueueTail DEF FwdInv, QueueInv
    <2>6. HeldInv'
        <3>1. \A k \in 1..Len(Queue'): Queue'[k] \in Items /\ Head(Queue) < Queue'[k]
            BY <1>1, QueueTail, ElementOfSeq
        <3>2. \A k \in 1..Len(Queue'): Head(Queue) <= Queue'[k] /\ Head(Queue) # Queue'[k]
            BY <1>1, <3>1, QueueTail DEF Items
        <3>3. fate'[Head(Queue)] # "none"
            BY <2>1, <2>4 DEF FwdInv, QueueInv
        <3>4. QED BY <2>3, <3>2, <3>3 DEF HeldInv
    <2>7. KeptInv'
        BY <1>1, <1>3, <2>1, <2>3, QueueTail DEF FwdInv, KeptInv, Items
    <2>8. OrderInv'
        BY <1>1, <2>1, <2>3, <2>4, QueueTail DEF FwdInv, OrderInv
    <2>9. AnswerInv'
        <3>1. Head(Queue) \in ctrSent.answered => Head(Queue) \in ctrSent.doubled
            BY <2>4 DEF FwdInv, AnswerInv
        <3>2. QED BY <1>1, <2>3, <3>1, QueueTail DEF FwdInv, AnswerInv, InitStatus
    <2>10. DoneIsExecuted'
        BY <1>1, <2>1 DEF FwdInv, DoneIsExecuted
    <2>11. QED BY <2>2, <2>5, <2>6, <2>7, <2>8, <2>9, <2>10 DEF FwdInv
<1>6. QED BY <1>4, <1>5

LEMMA GetItemTwiceInv ==
    ASSUME FwdInv, GetItemTwice
    PROVE  FwdInv'
<1>1. Queue # <<>> /\ Queue' = Queue /\ UNCHANGED fate
    BY DEF GetItemTwice, TakesItem, Queue, FwdInv, FwdTyped
<1>2. mon.pc = "get" /\ mon.item = 0 /\ mon.status = InitStatus
    BY DEF GetItemTwice, FwdInv, HeldInv, AtWork
<1>3. mon' = [mon EXCEPT !.pc = "call", !.item = Head(Queue)]
    BY DEF GetItemTwice, TakesItem, Queue
<1>4. ctrSent' = [ctrSent EXCEPT !.doubled = @ \cup {Head(Queue)}]
    BY DEF GetItemTwice, Queue
<1>5. mon'.pc = "call" /\ mon'.item = Head(Queue) /\ mon'.status = InitStatus
      /\ Head(Queue) # 0 /\ mon'.pc \in AtWork
    BY <1>1, <1>2, <1>3, QueueTail DEF FwdInv, FwdTyped, AtWork, Items
<1>6. /\ ctrSent'.executed = ctrSent.executed /\ ctrSent'.answered = ctrSent.answered
      /\ ctrSent'.pinged = ctrSent.pinged /\ ctrSent'.again = ctrSent.again
      /\ ctrSent'.doubled = ctrSent.doubled \cup {Head(Queue)}
    BY <1>4 DEF FwdInv, FwdTyped
<1>7. Head(Queue) = Queue[1] /\ 1 \in 1..Len(Queue)
    BY <1>1, EmptySeq, LenProperties DEF FwdInv, FwdTyped, Queue
<1>8. FwdTyped'
    <2>1. store' \in [persistent: BOOLEAN, items: Seq(Items), openPut: BOOLEAN, openGet: BOOLEAN]
        BY DEF GetItemTwice, TakesItem, FwdInv, FwdTyped
    <2>2. troubles' \in Nat
        BY DEF FwdInv, FwdTyped, GetItemTwice, Trouble
    <2>3. ctrSent' \in [executed: SUBSET Items, answered: SUBSET Items, again: SUBSET Items,
                        pinged: SUBSET Items, doubled: SUBSET Items]
        BY <1>1, <1>4, QueueTail DEF FwdInv, FwdTyped
    <2>4. QED BY <1>1, <1>3, <2>1, <2>2, <2>3, QueueTail DEF FwdInv, FwdTyped, AtWork
<1>9. QueueInv'
    BY <1>1 DEF FwdInv, QueueInv
<1>10. HeldInv'
    <2>1. \A k \in 1..Len(Queue): Queue[k] \in Nat
        BY ElementOfSeq DEF FwdInv, FwdTyped, Queue, Items
    <2>2. \A k \in 1..Len(Queue): k = 1 \/ 1 < k
        BY DEF FwdInv, FwdTyped
    <2>3. \A k \in 1..Len(Queue): Head(Queue) <= Queue[k]
        BY <1>7, <2>1, <2>2 DEF FwdInv, QueueInv
    <2>4. fate'[Head(Queue)] # "none"
        BY <1>1, <1>7 DEF FwdInv, QueueInv
    <2>5. QED BY <1>1, <1>5, <1>6, <2>3, <2>4 DEF HeldInv
<1>11. KeptInv'
    BY <1>1, <1>2, <1>5, <1>6 DEF FwdInv, KeptInv, Items
<1>12. OrderInv'
    BY <1>1, <1>5, <1>6, <1>7 DEF FwdInv, OrderInv
<1>13. AnswerInv'
    BY <1>1, <1>5, <1>6 DEF FwdInv, AnswerInv, InitStatus
<1>14. DoneIsExecuted'
    BY <1>1, <1>6 DEF FwdInv, DoneIsExecuted
<1>15. QED BY <1>8, <1>9, <1>10, <1>11, <1>12, <1>13, <1>14 DEF FwdInv

-----------------------------------------------------------------------------
(* Answers *)

CtrTypes == [executed: SUBSET Items, answered: SUBSET Items, again: SUBSET Items,
             pinged: SUBSET Items, doubled: SUBSET Items]

\* What an execution adds to the history.
LEMMA ExecutedFacts ==
    ASSUME FwdTyped, mon.item \in Items, NEW good \in {TRUE, FALSE}
    PROVE  /\ Executed(good) \in CtrTypes
           /\ Executed(good).executed = ctrSent.executed \cup {mon.item}
           /\ Executed(good).doubled = ctrSent.doubled
           /\ Executed(good).pinged = ctrSent.pinged
           /\ Executed(good).answered = (IF good = TRUE THEN ctrSent.answered \cup {mon.item}
                                         ELSE ctrSent.answered)
           /\ Executed(good).again = (IF mon.item \in ctrSent.answered
                                      THEN ctrSent.again \cup {mon.item} ELSE ctrSent.again)
<1>1. ctrSent \in CtrTypes
    BY DEF FwdTyped, CtrTypes
<1>2. CASE good = TRUE
    BY <1>1, <1>2 DEF Executed, CtrTypes
<1>3. CASE good = FALSE
    BY <1>1, <1>3 DEF Executed, CtrTypes
<1>4. QED BY <1>2, <1>3

LEMMA PingedFacts ==
    ASSUME FwdTyped, mon.item \in Items, NEW c, c = [ctrSent EXCEPT !.pinged = @ \cup {mon.item}]
    PROVE  /\ c \in CtrTypes
           /\ c.executed = ctrSent.executed /\ c.answered = ctrSent.answered
           /\ c.doubled = ctrSent.doubled /\ c.again = ctrSent.again
           /\ c.pinged = ctrSent.pinged \cup {mon.item}
    BY DEF FwdTyped, CtrTypes

\* The destination may have executed the call of the item that the thread
\* holds, and the frame may have a status.
LEMMA CallAnswered ==
    ASSUME FwdInv, FwdTyped', UNCHANGED <<store, fate>>, mon.pc = "waiting",
           mon'.pc = "answer", mon'.item = mon.item, mon'.ping = mon.ping,
           mon'.status = "ok" => \/ mon.status = "ok"
                                 \/ mon.item \in ctrSent'.answered \cup ctrSent'.pinged,
           \/ UNCHANGED ctrSent
           \/ ctrSent' = [ctrSent EXCEPT !.pinged = @ \cup {mon.item}]
           \/ ctrSent' = Executed(FALSE)
           \/ ctrSent' = Executed(TRUE) /\ ~mon.ping /\ mon'.status = "ok"
    PROVE  FwdInv'
<1>1. mon.item \in Items /\ mon.item # 0 /\ Queue' = Queue
    BY DEF FwdInv, HeldInv, FwdTyped, AtWork, Queue, Items
<1>2. mon.item \notin ctrSent.answered \ ctrSent.doubled
    BY DEF FwdInv, AnswerInv
<1>0. FwdTyped
    BY DEF FwdInv
<1>a. ctrSent'.doubled = ctrSent.doubled /\ ctrSent.pinged \subseteq ctrSent'.pinged
    BY <1>0, <1>1, ExecutedFacts, PingedFacts
<1>b. ctrSent'.executed \in {ctrSent.executed, ctrSent.executed \cup {mon.item}}
    BY <1>0, <1>1, ExecutedFacts, PingedFacts
<1>c. ctrSent'.again = ctrSent.again
      \/ (mon.item \in ctrSent.answered /\ ctrSent'.again = ctrSent.again \cup {mon.item})
    BY <1>0, <1>1, ExecutedFacts, PingedFacts
<1>d. \/ ctrSent'.answered = ctrSent.answered
      \/ /\ ctrSent'.answered = ctrSent.answered \cup {mon.item}
         /\ ctrSent'.executed = ctrSent.executed \cup {mon.item}
         /\ ctrSent' = Executed(TRUE) /\ ~mon.ping /\ mon'.status = "ok"
    <2>1. CASE UNCHANGED ctrSent \/ ctrSent' = [ctrSent EXCEPT !.pinged = @ \cup {mon.item}]
               \/ ctrSent' = Executed(FALSE)
        BY <1>0, <1>1, <2>1, ExecutedFacts, PingedFacts
    <2>2. CASE ctrSent' = Executed(TRUE) /\ ~mon.ping /\ mon'.status = "ok"
        <3>1. ctrSent'.answered = ctrSent.answered \cup {mon.item}
              /\ ctrSent'.executed = ctrSent.executed \cup {mon.item}
            BY <1>0, <1>1, <2>2, ExecutedFacts
        <3>2. QED BY <2>2, <3>1
    <2>3. QED BY <2>1, <2>2
<1>3. /\ ctrSent'.doubled = ctrSent.doubled /\ ctrSent.pinged \subseteq ctrSent'.pinged
      /\ ctrSent'.executed \in {ctrSent.executed, ctrSent.executed \cup {mon.item}}
      /\ \/ ctrSent'.answered = ctrSent.answered
         \/ /\ ctrSent'.answered = ctrSent.answered \cup {mon.item}
            /\ ctrSent'.executed = ctrSent.executed \cup {mon.item}
            /\ ~mon.ping /\ mon'.status = "ok"
    BY <1>a, <1>b, <1>d
<1>4. QueueInv' /\ KeptInv'
    BY <1>1, <1>3 DEF FwdInv, QueueInv, KeptInv
<1>5. HeldInv'
    BY <1>1, <1>3 DEF FwdInv, HeldInv, AtWork
<1>6. OrderInv'
    <2>1. \A k \in 1..Len(Queue): mon.item <= Queue[k]
        BY <1>1 DEF FwdInv, HeldInv
    <2>2. fate[mon.item] # "none" /\ mon.item <= mon.item
        BY <1>1 DEF FwdInv, HeldInv, Items
    <2>3. QED BY <1>1, <1>3, <2>1, <2>2 DEF FwdInv, OrderInv
<1>7. AnswerInv'
    <2>1. \A k \in 1..Len(Queue): Queue[k] = mon.item => mon.item \in ctrSent.doubled
        BY <1>1 DEF FwdInv, HeldInv
    <2>2. \A k \in 1..Len(Queue): Queue[k] \in ctrSent'.answered => Queue[k] \in ctrSent.doubled
        BY <1>3, <2>1 DEF FwdInv, AnswerInv
    <2>3. mon.item \in ctrSent'.answered \ ctrSent.doubled => ~mon.ping /\ mon'.status = "ok"
        BY <1>2, <1>3
    <2>4. ctrSent'.answered \subseteq ctrSent'.executed
        BY <1>3 DEF FwdInv, AnswerInv
    <2>5. mon'.status = "ok" => mon.item \in ctrSent'.answered \cup ctrSent'.pinged
        BY <1>1, <1>3 DEF FwdInv, AnswerInv
    <2>6. QED BY <1>1, <1>3, <2>2, <2>3, <2>4, <2>5 DEF AnswerInv
<1>8. DoneIsExecuted'
    BY <1>2, <1>3, <1>c DEF FwdInv, DoneIsExecuted
<1>9. QED BY <1>4, <1>5, <1>6, <1>7, <1>8 DEF FwdInv

LEMMA WorkerAnswersInv ==
    ASSUME FwdInv, WorkerAnswers
    PROVE  FwdInv'
<1>1. mon.pc = "waiting" /\ mon.item \in Items /\ UNCHANGED <<store, fate>>
    BY DEF WorkerAnswers, FwdInv, HeldInv, FwdTyped, AtWork
<1>2. troubles' \in Nat
    <2>1. Trouble \/ Spared
        BY DEF WorkerAnswers
    <2>2. QED BY <2>1 DEF FwdInv, FwdTyped, Trouble, Spared
<1>3. \/ UNCHANGED ctrSent
      \/ ctrSent' = [ctrSent EXCEPT !.pinged = @ \cup {mon.item}]
      \/ ctrSent' = Executed(FALSE)
      \/ ctrSent' = Executed(TRUE)
    BY DEF WorkerAnswers
<1>4. ctrSent' \in CtrTypes
    <2>0. FwdTyped /\ ctrSent \in CtrTypes
        BY DEF FwdInv, FwdTyped, CtrTypes
    <2>1. QED BY <1>1, <1>3, <2>0, ExecutedFacts, PingedFacts
<1>5. \/ GoesTo("answer")
      \/ \E s \in Statuses: mon' = [mon EXCEPT !.pc = "answer", !.status = s]
    BY DEF WorkerAnswers, Statuses
<1>6. FwdTyped'
    BY <1>1, <1>2, <1>4, <1>5 DEF FwdInv, FwdTyped, GoesTo, AtWork, CtrTypes
<1>7. mon'.pc = "answer" /\ mon'.item = mon.item /\ mon'.ping = mon.ping
    BY <1>5 DEF FwdInv, FwdTyped, GoesTo
<1>8. CASE mon' = [mon EXCEPT !.pc = "answer", !.status = "ok"]
           /\ ctrSent' = (IF mon.ping THEN [ctrSent EXCEPT !.pinged = @ \cup {mon.item}]
                          ELSE Executed(TRUE))
    <2>1. mon'.status = "ok"
        BY <1>8 DEF FwdInv, FwdTyped
    <2>2. mon.item \in ctrSent'.answered \cup ctrSent'.pinged
        BY <1>8 DEF FwdInv, FwdTyped, Executed
    <2>3. QED BY <1>1, <1>6, <1>7, <1>8, <2>1, <2>2, CallAnswered
<1>9. CASE /\ \/ GoesTo("answer")
              \/ \E s \in Statuses \ {"ok"}: mon' = [mon EXCEPT !.pc = "answer", !.status = s]
           /\ ctrSent' = Executed(FALSE) \/ UNCHANGED ctrSent
    <2>1. mon'.status = "ok" => mon.status = "ok"
        BY <1>9 DEF FwdInv, FwdTyped, GoesTo
    <2>2. QED BY <1>1, <1>6, <1>7, <1>9, <2>1, CallAnswered
<1>10. QED BY <1>8, <1>9 DEF WorkerAnswers

\* The item leaves the thread.
LEMMA LeavesInv ==
    ASSUME FwdInv, FwdTyped', UNCHANGED <<store, ctrSent>>, mon.pc \in AtWork,
           NEW f \in {"done", "logged"}, f = "done" => mon.status = "ok",
           Leaves(f)
    PROVE  FwdInv'
<1>1. mon.item \in Items /\ mon.item # 0 /\ Queue' = Queue
    BY DEF FwdInv, HeldInv, FwdTyped, AtWork, Queue, Items
<1>2. /\ fate' = [fate EXCEPT ![mon.item] = f]
      /\ mon'.item = 0 /\ mon'.status = InitStatus /\ mon'.pc \notin AtWork
    BY DEF Leaves, IdleThread, AtWork
<1>3. fate'[mon.item] = f /\ \A j \in Items \ {mon.item}: fate'[j] = fate[j]
    BY <1>1, <1>2 DEF FwdInv, FwdTyped
<1>4. \A j \in Items: fate'[j] = "none" <=> fate[j] = "none"
    BY <1>1, <1>3 DEF FwdInv, HeldInv
<1>5. QueueInv'
    <2>1. \A k \in 1..Len(Queue): Queue[k] \in Items
        BY ElementOfSeq DEF FwdInv, FwdTyped, Queue
    <2>2. QED BY <1>1, <1>4, <2>1 DEF FwdInv, QueueInv
<1>6. HeldInv'
    BY <1>2 DEF HeldInv
<1>7. KeptInv'
    <2>1. \A k \in 1..Len(Queue): Queue[k] = mon.item => mon.item \in ctrSent.doubled
        BY <1>1 DEF FwdInv, HeldInv
    <2>2. QED BY <1>1, <1>2, <1>3, <2>1 DEF FwdInv, KeptInv, Items
<1>8. OrderInv'
    BY <1>1, <1>2, <1>4 DEF FwdInv, OrderInv, FwdTyped
<1>9. AnswerInv'
    <2>1. 0 \notin ctrSent.answered
        BY DEF FwdInv, FwdTyped, Items
    <2>2. QED BY <1>1, <1>2, <2>1 DEF FwdInv, AnswerInv
<1>10. DoneIsExecuted'
    BY <1>1, <1>3 DEF FwdInv, DoneIsExecuted, AnswerInv
<1>11. QED BY <1>5, <1>6, <1>7, <1>8, <1>9, <1>10 DEF FwdInv

\* The types when the item leaves the thread.
LEMMA LeavesTyped ==
    ASSUME FwdInv, UNCHANGED <<store, ctrSent, troubles>>, NEW f \in {"done", "logged"}, Leaves(f)
    PROVE  FwdTyped'
<1>1. fate' \in [Items -> Fates]
    BY DEF Leaves, FwdInv, FwdTyped, Fates
<1>2. mon' \in [pc: AtWork \cup {"top", "get", "ended", "aborted"}, item: Items \cup {0},
                status: Statuses \cup {InitStatus}, ping: BOOLEAN, errors: Nat]
    BY DEF Leaves, IdleThread, FwdInv, FwdTyped
<1>3. QED BY <1>1, <1>2 DEF FwdInv, FwdTyped

LEMMA StatusDecidesInv ==
    ASSUME FwdInv, StatusDecides
    PROVE  FwdInv'
<1>1. mon.pc = "answer" /\ mon.pc \in AtWork /\ UNCHANGED <<ctrSent, troubles>>
    BY DEF StatusDecides, AtWork
<1>2. CASE \E f \in {"done", "logged"}: /\ Leaves(f) /\ UNCHANGED store
                                        /\ f = "done" => mon.status = "ok"
    BY <1>1, <1>2, LeavesTyped, LeavesInv
<1>3. CASE /\ UNCHANGED fate /\ Queue' = Queue
           /\ store' \in [persistent: BOOLEAN, items: Seq(Items), openPut: BOOLEAN, openGet: BOOLEAN]
           /\ mon.ping \/ mon.status # "ok"
           /\ \E p \in {"pause", "call", "suspended"}, b \in BOOLEAN:
                  mon' = [mon EXCEPT !.pc = p, !.ping = b]
    <2>1. FwdTyped'
        BY <1>1, <1>3 DEF FwdInv, FwdTyped, AtWork
    <2>2. mon'.item = mon.item /\ mon'.status = mon.status /\ mon'.pc \in AtWork
        BY <1>3 DEF FwdInv, FwdTyped, AtWork
    <2>3. mon.item \notin ctrSent.answered \ ctrSent.doubled
        BY <1>3 DEF FwdInv, AnswerInv
    <2>4. QED BY <1>1, <1>3, <2>1, <2>2, <2>3, Moves
<1>4. CASE mon.ping /\ UNCHANGED <<store, fate>>
           /\ mon' = (IF mon.status = "unavailable" THEN [mon EXCEPT !.pc = "pause"]
                      ELSE [mon EXCEPT !.pc = "call", !.ping = FALSE])
    <2>1. \E p \in {"pause", "call"}, b \in BOOLEAN: mon' = [mon EXCEPT !.pc = p, !.ping = b]
        BY <1>4, ZenonT(60) DEF FwdInv, FwdTyped
    <2>2. QED BY <1>3, <1>4, <2>1 DEF FwdInv, FwdTyped, Queue
<1>5. CASE ~mon.ping /\ mon.status = "again" /\ GoesTo("call") /\ UNCHANGED <<store, fate>>
    <2>1. mon' = [mon EXCEPT !.pc = "call", !.ping = FALSE]
        BY <1>5 DEF FwdInv, FwdTyped, GoesTo
    <2>2. QED BY <1>3, <1>5, <2>1 DEF FwdInv, FwdTyped, Queue
<1>6. CASE ~mon.ping /\ mon.status = "unavailable" /\ UNCHANGED <<store, fate>>
           /\ mon' = [mon EXCEPT !.pc = "pause", !.ping = TRUE]
    BY <1>3, <1>6 DEF FwdInv, FwdTyped, Queue
<1>7. CASE ~mon.ping /\ mon.status = "operator" /\ UNCHANGED fate
           /\ store' = [store EXCEPT !.openGet = FALSE] /\ GoesTo("suspended")
    <2>1. mon' = [mon EXCEPT !.pc = "suspended", !.ping = FALSE]
        BY <1>7 DEF FwdInv, FwdTyped, GoesTo
    <2>2. QED BY <1>3, <1>7, <2>1 DEF FwdInv, FwdTyped, Queue
<1>8. CASE /\ ~mon.ping /\ mon.status \in {"ok", "drop", InitStatus} /\ UNCHANGED store
           /\ Leaves(IF mon.status = "ok" THEN "done" ELSE "logged")
    BY <1>2, <1>8
<1>9. QED BY <1>4, <1>5, <1>6, <1>7, <1>8 DEF StatusDecides

LEMMA ResumesInv ==
    ASSUME FwdInv, Resumes
    PROVE  FwdInv'
<1>1. mon.pc \in {"pause", "suspended"} /\ UNCHANGED <<store, ctrSent, troubles>>
    BY DEF Resumes
<1>2. CASE Leaves("logged")
    BY <1>1, <1>2, LeavesTyped, LeavesInv DEF AtWork
<1>3. CASE GoesTo("call") /\ UNCHANGED fate
    <2>1. FwdTyped' /\ Queue' = Queue
        BY <1>1, <1>3 DEF FwdInv, FwdTyped, GoesTo, AtWork, Queue
    <2>2. mon'.item = mon.item /\ mon'.status = mon.status
          /\ mon'.pc \in AtWork /\ mon.pc \in AtWork
        BY <1>1, <1>3 DEF FwdInv, FwdTyped, GoesTo, AtWork
    <2>3. mon.item \notin ctrSent.answered \ ctrSent.doubled
        BY <1>1 DEF FwdInv, AnswerInv
    <2>4. QED BY <1>1, <1>3, <2>1, <2>2, <2>3, Moves
<1>4. QED BY <1>2, <1>3 DEF Resumes

\* A restart forgets the item that the thread held, unless it is still stored.
LEMMA RestartInv ==
    ASSUME FwdInv, Restart
    PROVE  FwdInv'
<1>1. Queue' = Queue /\ UNCHANGED ctrSent
    BY DEF Restart, Queue, FwdInv, FwdTyped
<1>2. mon'.item = 0 /\ mon'.status = InitStatus /\ mon'.pc \notin AtWork
    BY DEF Restart, IdleThread, AtWork
<1>3. \A i \in Items: \/ fate'[i] = fate[i]
                      \/ /\ i = mon.item /\ fate'[i] = "lost"
                         /\ \A k \in 1..Len(Queue): Queue[k] # i
    BY DEF Restart, Held, ToSet, Queue, FwdInv, FwdTyped
<1>4. FwdTyped'
    <2>1. fate' \in [Items -> Fates]
        BY DEF Restart, Fates, FwdInv, FwdTyped
    <2>2. troubles' \in Nat
        BY DEF Restart, Trouble, FwdInv, FwdTyped
    <2>3. store' \in [persistent: BOOLEAN, items: Seq(Items), openPut: BOOLEAN, openGet: BOOLEAN]
        BY DEF Restart, FwdInv, FwdTyped
    <2>4. mon' \in [pc: AtWork \cup {"top", "get", "ended", "aborted"}, item: Items \cup {0},
                    status: Statuses \cup {InitStatus}, ping: BOOLEAN, errors: Nat]
        BY DEF Restart, IdleThread
    <2>5. QED BY <1>1, <2>1, <2>2, <2>3, <2>4 DEF FwdInv, FwdTyped
<1>5. \A j \in Items: fate'[j] = "none" <=> fate[j] = "none"
    BY <1>3 DEF FwdInv, HeldInv, Items
<1>6. QueueInv'
    <2>1. \A k \in 1..Len(Queue): Queue[k] \in Items
        BY ElementOfSeq DEF FwdInv, FwdTyped, Queue
    <2>2. QED BY <1>1, <1>5, <2>1 DEF FwdInv, QueueInv
<1>7. HeldInv'
    BY <1>2 DEF HeldInv
<1>8. KeptInv'
    <2>1. ASSUME NEW i \in Items \ ctrSent.doubled, i # mon.item
          PROVE  fate'[i] = "accepted" <=> \E k \in 1..Len(Queue): Queue[k] = i
        BY <1>3, <2>1 DEF FwdInv, KeptInv
    <2>2. ASSUME mon.item \in Items \ ctrSent.doubled
          PROVE  fate'[mon.item] # "accepted" /\ \A k \in 1..Len(Queue): Queue[k] # mon.item
        <3>1. \A k \in 1..Len(Queue): Queue[k] # mon.item
            BY <2>2 DEF FwdInv, HeldInv, Items
        <3>2. fate'[mon.item] = "lost"
            BY <2>2, <3>1 DEF Restart, Held, ToSet, Queue, FwdInv, FwdTyped, Items
        <3>3. QED BY <3>1, <3>2
    <2>3. QED BY <1>1, <1>2, <2>1, <2>2 DEF KeptInv, Items
<1>9. OrderInv'
    BY <1>1, <1>2, <1>5 DEF FwdInv, OrderInv, FwdTyped
<1>10. AnswerInv'
    <2>1. 0 \notin ctrSent.answered
        BY DEF FwdInv, FwdTyped, Items
    <2>2. QED BY <1>1, <1>2, <2>1 DEF FwdInv, AnswerInv
<1>11. DoneIsExecuted'
    BY <1>1, <1>3 DEF FwdInv, DoneIsExecuted
<1>12. QED BY <1>4, <1>6, <1>7, <1>8, <1>9, <1>10, <1>11 DEF FwdInv

-----------------------------------------------------------------------------
(* The specification *)

LEMMA QueueNextInv ==
    ASSUME FwdInv, [FwdNext]_fwdVars
    PROVE  FwdInv'
<1>1. CASE FwdNext
    BY <1>1, QuietSteps, PutRowInv, ThreadLoopsInv, GetItemInv, CallDestInv, WorkerAnswersInv,
       StatusDecidesInv, ResumesInv, GetItemTwiceInv, GetFailsInv, AssignOpenStatusInv,
       DumpItemInv, RestartInv DEF FwdNext, FwdSteps
<1>2. CASE UNCHANGED fwdVars
    <2>1. FwdTyped' /\ Queue' = Queue /\ UNCHANGED <<mon, fate, ctrSent>>
        BY <1>2 DEF fwdVars, FwdInv, FwdTyped, Queue
    <2>2. QED BY <2>1, QueueQuiet
<1>3. QED BY <1>1, <1>2

\* The invariant gives the three properties: an accepted item is in one place.
LEMMA OnePlace ==
    ASSUME FwdInv
    PROVE  AcceptedIsKept
<1>1. SUFFICES ASSUME NEW i \in Items \ ctrSent.doubled
               PROVE  Cardinality({k \in DOMAIN Queue: Queue[k] = i}) + Cardinality(Held \cap {i})
                         = (IF fate[i] = "accepted" THEN 1 ELSE 0)
    BY DEF AcceptedIsKept, Queue
<1>2. DOMAIN Queue = 1..Len(Queue) /\ Len(Queue) \in Nat
    BY LenProperties DEF FwdInv, FwdTyped, Queue
<1>3. i # 0 /\ (Held \cap {i} = (IF mon.item = i THEN {i} ELSE {}))
    BY DEF Held, Items
<1>4. Cardinality(Held \cap {i}) = (IF mon.item = i THEN 1 ELSE 0)
    BY <1>3, FS_EmptySet, FS_Singleton
<1>5. mon.item = i => \A k \in 1..Len(Queue): Queue[k] # i
    BY <1>3 DEF FwdInv, HeldInv
<1>6. CASE \E k \in 1..Len(Queue): Queue[k] = i
    <2>1. PICK k \in 1..Len(Queue): Queue[k] = i
        BY <1>6
    <2>2. \A l \in 1..Len(Queue): l = k \/ l < k \/ k < l
        BY <1>2
    <2>3. \A l \in 1..Len(Queue): Queue[l] = i => l = k
        BY <2>1, <2>2 DEF FwdInv, QueueInv, Items
    <2>4. {l \in DOMAIN Queue: Queue[l] = i} = {k}
        BY <1>2, <2>1, <2>3
    <2>5. Cardinality({l \in DOMAIN Queue: Queue[l] = i}) = 1
        BY <2>4, FS_Singleton
    <2>6. fate[i] = "accepted" /\ mon.item # i
        BY <1>5, <1>6 DEF FwdInv, KeptInv
    <2>7. QED BY <1>4, <2>5, <2>6
<1>7. CASE ~\E k \in 1..Len(Queue): Queue[k] = i
    <2>1. {l \in DOMAIN Queue: Queue[l] = i} = {}
        BY <1>2, <1>7
    <2>2. Cardinality({l \in DOMAIN Queue: Queue[l] = i}) = 0
        BY <2>1, FS_EmptySet
    <2>3. fate[i] = "accepted" <=> mon.item = i
        BY <1>7 DEF FwdInv, KeptInv
    <2>4. QED BY <1>4, <2>2, <2>3
<1>8. QED BY <1>6, <1>7

LEMMA InOrder ==
    ASSUME FwdInv
    PROVE  FirstIsSentFirst
<1>1. SUFFICES ASSUME NEW j \in ctrSent.executed, NEW i \in Items, i < j
               PROVE  i \notin ToSet(Queue) \cup Held
    BY DEF FirstIsSentFirst, Queue
<1>2. j \in Items
    BY DEF FwdInv, FwdTyped
<1>3. \A k \in DOMAIN Queue: Queue[k] # i
    BY <1>1, <1>2, LenProperties DEF FwdInv, OrderInv, FwdTyped, Queue, Items
<1>4. mon.item # i
    BY <1>1, <1>2 DEF FwdInv, OrderInv, Items
<1>5. QED BY <1>3, <1>4 DEF ToSet, Held

\* What a put accepted is kept, once, until it is accounted for; calls are
\* executed in the order of their puts; and one that counts as done was
\* executed, and is not sent again, whatever fails and whenever it crashes.
THEOREM CallsKept == FwdSpec => []CallsAreKept
<1>1. FwdInit => FwdInv
    BY QueueInitInv
<1>2. FwdInv /\ [FwdNext]_fwdVars => FwdInv'
    BY QueueNextInv
<1>3. FwdInv => CallsAreKept
    BY OnePlace, InOrder DEF CallsAreKept, FwdInv
<1>4. QED BY <1>1, <1>2, <1>3, PTL DEF FwdSpec

-----------------------------------------------------------------------------
(* Destination connections: the inductive invariant *)

LoggedIn == [up |-> TRUE, state |-> "logged in", dirty |-> FALSE]
Quiet == server.stream = <<>> /\ server.call = 0 /\ server.exec = 0
Newest == Len(execs)

\* A connection that is kept is logged in, and nothing is under way on it.
ConnInv ==
    /\ destConn.up = FALSE => server = NoServer
    /\ worker.pc \in {"idle", "verify"} => Quiet /\ (destConn.up = TRUE => destConn = LoggedIn)
    /\ worker.pc = "send" => Quiet /\ destConn = LoggedIn
    /\ worker.pc = "recv" => destConn = LoggedIn
    /\ worker.pc = "received" /\ worker.err = FALSE => Quiet /\ destConn = LoggedIn
    /\ worker.pc = "release" /\ worker.status \in {"ok", "refused"} =>
          Quiet /\ (destConn.up = TRUE => destConn = LoggedIn)

\* What the destination is at: a call it has not executed, or the rest of the
\* last response.
ServerInv ==
    /\ server.call # 0 => /\ server.call = worker.call /\ server.exec = 0
                          /\ server.stream = <<>> /\ rcvd.bytes = 0
    /\ server.exec # 0 => /\ server.exec = Newest
                          /\ server.sent = rcvd.bytes + Len(server.stream)
                          /\ server.sent < ResponseLength
    /\ server.open = FALSE => server.call = 0 /\ server.exec = 0

\* What arrived and what is in transit are one response, the last; enough of
\* its end is kept.
StreamInv ==
    /\ rcvd.bytes + Len(server.stream) <= ResponseLength
    /\ rcvd.bytes + Len(server.stream) > 0 \/ server.exec # 0 =>
          Newest > 0 /\ execs[Newest].call = worker.call
    /\ \A i \in 1..Len(server.stream):
          server.stream[i] = [exec |-> Newest, k |-> rcvd.bytes + i]
    /\ Len(rcvd.buff) <= rcvd.bytes
    /\ Len(rcvd.buff) = rcvd.bytes \/ Len(rcvd.buff) >= Window
    /\ \A i \in 1..Len(rcvd.buff):
          rcvd.buff[i] = [exec |-> Newest, k |-> rcvd.bytes - Len(rcvd.buff) + i]
    /\ worker.pc \in {"idle", "verify", "send"} => rcvd.bytes = 0
    /\ worker.pc = "recv" => rcvd.bytes < ResponseLength
    /\ worker.pc = "received" /\ worker.err = FALSE =>
          /\ rcvd.bytes = ResponseLength
          /\ worker.status = execs[Newest].status

\* What the client has is the beginning of what arrived.
GotInv ==
    /\ rcvd.sent <= rcvd.bytes
    /\ worker.pc \in {"verify", "send"} => caller.got = <<>>
    /\ worker.pc \in {"recv", "received", "release"} => Len(caller.got) = rcvd.sent
    /\ worker.pc \in {"recv", "received"} /\ caller.short = FALSE /\ rcvd.cltErr = FALSE =>
          rcvd.sent = rcvd.bytes
    /\ caller.got # <<>> => server.call = 0 /\ Newest > 0 /\ execs[Newest].call = worker.call
    /\ caller.got # <<>> /\ caller.short = FALSE => IsStartOf(caller.got, Newest)

\* An error is told when nothing was sent, and at the end.
ToldInv ==
    /\ worker.pc \in {"verify", "send", "recv", "received"} => caller.told = "none"
    /\ caller.told = "unavailable" => server.call = 0
    /\ GetsAllOrAnError

\* Until the call is sent there is no execution but the one of the first send.
Unsent == worker.pc \in {"verify", "send"} \/ server.call # 0

ExecInv ==
    /\ \A d \in DOMAIN execs: execs[d].call <= worker.call
    /\ Cardinality(Executions) <= 1 + worker.retry
    /\ Unsent => Cardinality(Executions) <= worker.retry
    /\ (Unsent \/ caller.told = "unavailable") /\ worker.retry = 0 => Executions = {}

\* A call is executed once for each of its sends.
LengthInv ==
    /\ worker.pc # "idle" => worker.call > 0
    /\ worker.call = 0 => Len(execs) = 0
    /\ worker.call > 0 => Len(execs) <= 2 * worker.call - 1 + worker.retry
    /\ Unsent => Len(execs) <= 2 * worker.call - 2 + worker.retry

DestInv ==
    /\ DestTypeOK /\ ConnInv /\ ServerInv /\ StreamInv
    /\ GotInv /\ ToldInv /\ ExecInv /\ LengthInv

-----------------------------------------------------------------------------
(* The end of a response is found, however it is cut *)

\* What is looked at when total cells have arrived: enough of the last of them.
EndOf(str, total, e) ==
    /\ str \in Seq(Cell)
    /\ Len(str) <= total
    /\ Len(str) = total \/ Len(str) >= Window + 1
    /\ \A i \in 1..Len(str): str[i] = [exec |-> e, k |-> total - Len(str) + i]

LEMMA EotFound ==
    ASSUME NEW e \in Nat, NEW total \in 1..ResponseLength, NEW str, EndOf(str, total, e)
    PROVE  EotIn(str) <=> total = ResponseLength
<1>0. /\ ResponseLength \in Nat /\ Window \in Nat /\ TailLength \in 3..ResponseLength
      /\ TailLength <= Window + 1 /\ Len(str) \in Nat /\ total \in Nat
    BY DestAssumption, LenProperties DEF EndOf
<1>1. ASSUME NEW i \in 1..Len(str) PROVE str[i].k = total - Len(str) + i
    <2>1. str[i] = [exec |-> e, k |-> total - Len(str) + i]
        BY DEF EndOf
    <2>2. QED BY <2>1
<1>2. ASSUME EotIn(str) PROVE total = ResponseLength
    <2>1. PICK i \in 1..(Len(str) - 1): str[i + 1].k = ResponseLength
        BY <1>2 DEF EotIn
    <2>2. i + 1 \in 1..Len(str)
        BY <1>0
    <2>3. ResponseLength = total - Len(str) + (i + 1)
        BY <1>1, <2>1, <2>2
    <2>4. QED BY <1>0, <2>3, <2>2
<1>3. ASSUME total = ResponseLength PROVE EotIn(str)
    <2>1. Len(str) >= 3
        BY <1>0, <1>3 DEF EndOf
    <2>2. Len(str) - 1 \in 1..(Len(str) - 1) /\ Len(str) - 1 \in 1..Len(str)
          /\ (Len(str) - 1) + 1 \in 1..Len(str)
        BY <1>0, <2>1
    <2>3. /\ str[Len(str) - 1].k = total - Len(str) + (Len(str) - 1)
          /\ str[(Len(str) - 1) + 1].k = total - Len(str) + ((Len(str) - 1) + 1)
        BY <1>1, <2>2, Zenon
    <2>4. /\ total - Len(str) + (Len(str) - 1) = ResponseLength - 1
          /\ total - Len(str) + ((Len(str) - 1) + 1) = ResponseLength
        BY <1>0, <1>3
    <2>5. str[Len(str) - 1].k = ResponseLength - 1 /\ str[(Len(str) - 1) + 1].k = ResponseLength
        BY <2>3, <2>4, Zenon
    <2>6. QED BY <2>2, <2>5 DEF EotIn
<1>4. QED BY <1>2, <1>3

LEMMA StatusFound ==
    ASSUME NEW e \in Nat, NEW str, EndOf(str, ResponseLength, e)
    PROVE  StatusIn(str) = execs[e].status
<1> DEFINE found == {i \in 1..Len(str): str[i].k = ResponseLength - TailLength + 1}
           at == Len(str) - TailLength + 1
<1>0. /\ ResponseLength \in Nat /\ Window \in Nat /\ TailLength \in 3..ResponseLength
      /\ TailLength <= Window + 1 /\ Len(str) \in Nat
    BY DestAssumption, LenProperties DEF EndOf
<1>1. ASSUME NEW i \in 1..Len(str)
      PROVE  str[i].k = ResponseLength - Len(str) + i /\ str[i].exec = e
    <2>1. str[i] = [exec |-> e, k |-> ResponseLength - Len(str) + i]
        BY DEF EndOf
    <2>2. QED BY <2>1
<1>2. Len(str) >= TailLength
    BY <1>0 DEF EndOf
<1>3. at \in 1..Len(str) /\ ResponseLength - Len(str) + at = ResponseLength - TailLength + 1
    BY <1>0, <1>2
<1>4. at \in found
    BY <1>1, <1>3
<1>5. (CHOOSE i \in found: TRUE) \in found /\ found # {}
    BY <1>4
<1>6. str[CHOOSE i \in found: TRUE].exec = e
    BY <1>1, <1>5
<1>7. QED BY <1>5, <1>6 DEF StatusIn

LEMMA EnoughKept ==
    ASSUME NEW e \in Nat, NEW total \in 1..ResponseLength, NEW str, EndOf(str, total, e)
    PROVE  /\ KeptOf(str) \in Seq(Cell)
           /\ Len(KeptOf(str)) <= total
           /\ Len(KeptOf(str)) = total \/ Len(KeptOf(str)) >= Window
           /\ \A i \in 1..Len(KeptOf(str)):
                KeptOf(str)[i] = [exec |-> e, k |-> total - Len(KeptOf(str)) + i]
<1>0. /\ Window \in Nat /\ Len(str) \in Nat /\ total \in Nat
    BY DestAssumption, LenProperties DEF EndOf
<1>1. CASE Len(str) < Window + 2
    BY <1>0, <1>1 DEF EndOf, KeptOf
<1>2. CASE ~(Len(str) < Window + 2)
    <2> DEFINE first == Len(str) - Window + 1
    <2>0. KeptOf(str) = SubSeq(str, first, Len(str))
        BY <1>2 DEF KeptOf
    <2>1. first \in Int /\ first <= Len(str) + 1 /\ \A i \in first..Len(str): i \in 1..Len(str)
        BY <1>0, <1>2
    <2>2. \A i \in first..Len(str): str[i] \in Cell
        BY <2>1, ElementOfSeq DEF EndOf
    <2>3. /\ KeptOf(str) \in Seq(Cell)
          /\ Len(KeptOf(str)) = Window
          /\ \A i \in 1..Window: KeptOf(str)[i] = str[first + i - 1]
        BY <1>0, <1>2, <2>0, <2>1, <2>2, SubSeqProperties
    <2>4. \A i \in 1..Window: /\ first + i - 1 \in 1..Len(str)
                              /\ total - Len(str) + (first + i - 1) = total - Window + i
        BY <1>0, <1>2
    <2>5. \A i \in 1..Window: KeptOf(str)[i] = [exec |-> e, k |-> total - Window + i]
        BY <2>3, <2>4 DEF EndOf
    <2>6. Window <= total
        BY <1>0, <1>2 DEF EndOf
    <2>7. QED BY <2>3, <2>5, <2>6
<1>3. QED BY <1>1, <1>2

-----------------------------------------------------------------------------
(* What the worker's steps do *)

ConnType == [up: BOOLEAN, state: {"logged in", "no login", "bad"}, dirty: BOOLEAN]
ServerType == [open: BOOLEAN, stream: Seq(Cell), call: 0..MaxForwards,
               exec: 0..2 * MaxForwards, sent: 0..ResponseLength]
Points == {"idle", "verify", "send", "recv", "received", "release"}
CallStatuses == AnswerStatuses \cup GatewayStatuses
WorkerType == [pc: Points, call: 0..MaxForwards, retry: 0..1, resent: BOOLEAN, time: 0..2,
               status: CallStatuses, err: BOOLEAN]
CallerType == [there: BOOLEAN, connected: BOOLEAN, got: Seq(Cell), short: BOOLEAN,
               told: GatewayStatuses \cup {"none"}]

LEMMA TypeParts ==
    ASSUME DestTypeOK
    PROVE  /\ destConn \in ConnType /\ server \in ServerType
           /\ worker \in WorkerType /\ caller \in CallerType
BY DEF DestTypeOK, ConnType, ServerType, WorkerType, CallerType, Points, CallStatuses

\* The numbers among them.
LEMMA Sizes ==
    ASSUME DestTypeOK
    PROVE  /\ worker.call \in Nat /\ worker.call <= MaxForwards /\ worker.retry \in 0..1
           /\ rcvd.bytes \in Nat /\ rcvd.sent \in Nat
           /\ rcvd.bytes <= ResponseLength /\ rcvd.sent <= ResponseLength
           /\ rcvd.buff \in Seq(Cell) /\ Len(rcvd.buff) \in Nat
           /\ server.stream \in Seq(Cell) /\ Len(server.stream) \in Nat
           /\ server.sent \in Nat
           /\ caller.got \in Seq(Cell) /\ Len(caller.got) \in Nat
           /\ execs \in Seq([call: 1..MaxForwards, status: AnswerStatuses])
           /\ Len(execs) \in Nat /\ DOMAIN execs = 1..Len(execs)
           /\ \A d \in DOMAIN execs: execs[d].call \in Nat
<1>1. MaxForwards \in Nat /\ ResponseLength \in Nat
    BY DestAssumption
<1>2. worker.call \in 0..MaxForwards /\ worker.retry \in 0..1
    BY TypeParts DEF WorkerType
<1>3. rcvd.bytes \in 0..ResponseLength /\ rcvd.sent \in 0..ResponseLength
      /\ rcvd.buff \in Seq(Cell)
    BY DEF DestTypeOK
<1>4. server.stream \in Seq(Cell) /\ server.sent \in 0..ResponseLength
    BY TypeParts DEF ServerType
<1>5. caller.got \in Seq(Cell)
    BY TypeParts DEF CallerType
<1>6. execs \in Seq([call: 1..MaxForwards, status: AnswerStatuses])
    BY DEF DestTypeOK
<1>7. Len(rcvd.buff) \in Nat /\ Len(server.stream) \in Nat /\ Len(caller.got) \in Nat
      /\ Len(execs) \in Nat /\ DOMAIN execs = 1..Len(execs)
    BY <1>3, <1>4, <1>5, <1>6, LenProperties
<1>8. ASSUME NEW d \in DOMAIN execs PROVE execs[d].call \in Nat
    <2>1. execs[d] \in [call: 1..MaxForwards, status: AnswerStatuses]
        BY <1>6, <1>7, ElementOfSeq
    <2>2. QED BY <1>1, <2>1
<1>9. QED BY <1>1, <1>2, <1>3, <1>4, <1>5, <1>6, <1>7, <1>8

\* A step that leaves what was received and executed alone.
LEMMA TypeStays ==
    ASSUME DestTypeOK, destConn' \in ConnType, server' \in ServerType,
           worker' \in WorkerType, caller' \in CallerType,
           UNCHANGED <<rcvd, execs>>, faults' = faults \/ Fault
    PROVE  DestTypeOK'
<1>1. faults' \in 0..MaxFaults
    <2>1. faults \in 0..MaxFaults /\ MaxFaults \in Nat
        BY DestAssumption DEF DestTypeOK
    <2>2. QED BY <2>1 DEF Fault
<1>2. QED BY <1>1 DEF DestTypeOK, ConnType, ServerType, WorkerType, CallerType, Points, CallStatuses

LEMMA TypeMade ==
    ASSUME destConn' \in ConnType, server' \in ServerType, worker' \in WorkerType,
           caller' \in CallerType, faults' \in 0..MaxFaults,
           rcvd' \in [buff: Seq(Cell), bytes: 0..ResponseLength, sent: 0..ResponseLength,
                     cltErr: BOOLEAN],
           execs' \in Seq([call: 1..MaxForwards, status: AnswerStatuses])
    PROVE  DestTypeOK'
BY DEF DestTypeOK, ConnType, ServerType, WorkerType, CallerType, Points, CallStatuses

\* The fields that a step of the worker keeps.
SameCall == worker'.call = worker.call /\ worker'.retry = worker.retry

LEMMA WorkerMoves ==
    ASSUME DestTypeOK, NEW pc \in Points, MovesTo(pc)
    PROVE  /\ worker' \in WorkerType /\ SameCall /\ worker'.pc = pc
           /\ worker'.status = worker.status /\ worker'.err = worker.err
BY TypeParts DEF WorkerType, MovesTo, SameCall

LEMMA WorkerEnds ==
    ASSUME DestTypeOK, NEW status \in CallStatuses, EndsWith(status)
    PROVE  worker' \in WorkerType /\ SameCall /\ worker'.pc = "release" /\ worker'.status = status
BY TypeParts DEF WorkerType, EndsWith, SameCall, Points

LEMMA ReceiveEnds ==
    ASSUME DestTypeOK, ReceiveFails
    PROVE  worker' \in WorkerType /\ SameCall /\ worker'.pc = "received" /\ worker'.err = TRUE
BY TypeParts DEF WorkerType, ReceiveFails, SameCall, Points

\* A client that is told a status, or cannot be told, has what it had.
LEMMA ClientTold ==
    ASSUME DestTypeOK, NEW status \in GatewayStatuses, TellsClient(status)
    PROVE  /\ caller'.got = caller.got /\ caller'.short = caller.short
           /\ caller' \in CallerType
           /\ \/ caller'.told = status
              \/ caller'.told = caller.told /\ caller'.connected = FALSE
           /\ caller'.told \in {status, caller.told}
BY TypeParts DEF TellsClient, CallerType

LEMMA Tells ==
    ASSUME DestTypeOK, NEW status \in GatewayStatuses, TellsClient(status),
           caller.got = <<>>, caller.told = "none", worker'.pc = "release",
           status = "unavailable" => server'.call = 0
    PROVE  ToldInv'
<1>1. status # "none"
    BY DEF GatewayStatuses
<1>2. caller'.got = <<>>
    BY ClientTold
<1>3. caller'.told = status \/ (caller'.told = "none" /\ caller'.connected = FALSE)
    BY ClientTold
<1>4. caller'.told = "none" => caller'.connected = FALSE
    BY <1>1, <1>3
<1>5. GetsAllOrAnError'
    BY <1>2, <1>4 DEF GetsAllOrAnError
<1>6. caller'.told = "unavailable" => server'.call = 0
    BY <1>3
<1>7. QED BY <1>5, <1>6 DEF ToldInv

\* The connection that a reset leaves: one on which nothing is under way.
NewConn == \* after Renewed, NotRenewed or ClosesDirty
    /\ destConn' \in ConnType /\ server' \in ServerType
    /\ server'.stream = <<>> /\ server'.call = 0 /\ server'.exec = 0
    /\ destConn'.up = FALSE => server' = NoServer

LEMMA ServersTyped ==
    NoServer \in ServerType /\ NewServer \in ServerType
<1>1. 0 \in 0..ResponseLength /\ 0 \in 0..MaxForwards /\ 0 \in 0..2 * MaxForwards
    BY DestAssumption
<1>2. <<>> \in Seq(Cell)
    BY EmptySeq
<1>3. NoServer \in ServerType
    BY <1>1, <1>2 DEF NoServer, ServerType
<1>4. NewServer \in ServerType
    BY <1>1, <1>2 DEF NoServer, NewServer, ServerType
<1>5. QED BY <1>3, <1>4

LEMMA RenewedConn ==
    ASSUME Renewed
    PROVE  NewConn /\ destConn' = LoggedIn
BY ServersTyped DEF Renewed, NewConn, ConnType, LoggedIn, NewServer, NoServer

LEMMA NotRenewedConn ==
    ASSUME NotRenewed
    PROVE  NewConn
<1>1. CASE destConn' = [up |-> FALSE, state |-> "bad", dirty |-> FALSE] /\ server' = NoServer
    BY <1>1, ServersTyped DEF NewConn, ConnType, NoServer
<1>2. CASE \E up, dirty \in BOOLEAN:
             /\ destConn' = [up |-> up, state |-> "no login", dirty |-> dirty]
             /\ server' = IF up THEN NewServer ELSE NoServer
    <2>1. PICK up \in BOOLEAN, dirty \in BOOLEAN:
             /\ destConn' = [up |-> up, state |-> "no login", dirty |-> dirty]
             /\ server' = IF up THEN NewServer ELSE NoServer
        BY <1>2
    <2>2. CASE up = TRUE
        BY <2>1, <2>2, ServersTyped DEF NewConn, ConnType, NewServer, NoServer
    <2>3. CASE up = FALSE
        BY <2>1, <2>3, ServersTyped DEF NewConn, ConnType, NewServer, NoServer
    <2>4. QED BY <2>2, <2>3
<1>3. QED BY <1>1, <1>2 DEF NotRenewed

LEMMA ClosedConn ==
    ASSUME ClosesDirty
    PROVE  NewConn /\ destConn'.up = FALSE
BY ServersTyped DEF ClosesDirty, NewConn, ConnType, NoServer

\* A step that receives nothing and executes nothing keeps what there is, or
\* starts from nothing.
LEMMA StreamStays ==
    ASSUME DestInv, UNCHANGED <<rcvd, execs>>, worker'.call = worker.call,
           server' = server \/ NewConn,
           worker'.pc \in {"idle", "verify", "send"} => rcvd.bytes = 0,
           worker'.pc = "recv" => worker.pc = "recv",
           worker'.pc = "received" => worker'.err = TRUE
    PROVE  ServerInv' /\ StreamInv'
<1>1. rcvd.bytes \in Nat /\ rcvd.bytes <= ResponseLength /\ Len(server.stream) \in Nat
      /\ Len(<<>>) = 0
    BY Sizes DEF DestInv
<1>2. CASE server' = server
    <2>1. ServerInv'
        BY <1>2 DEF DestInv, ServerInv, Newest
    <2>2. StreamInv'
        BY <1>2 DEF DestInv, StreamInv, Newest
    <2>3. QED BY <2>1, <2>2
<1>3. CASE NewConn
    <2>1. server'.stream = <<>> /\ server'.call = 0 /\ server'.exec = 0
        BY <1>3 DEF NewConn
    <2>2. ServerInv'
        BY <2>1 DEF ServerInv
    <2>3. rcvd.bytes > 0 => Newest > 0 /\ execs[Newest].call = worker.call
        <3>1. rcvd.bytes > 0 => rcvd.bytes + Len(server.stream) > 0
            BY <1>1
        <3>2. QED BY <3>1 DEF DestInv, StreamInv
    <2>4. rcvd.bytes + 0 = rcvd.bytes /\ 1..0 = {}
        BY <1>1
    <2>5. StreamInv'
        BY <1>1, <2>1, <2>3, <2>4 DEF DestInv, StreamInv, Newest
    <2>6. QED BY <2>2, <2>5
<1>4. QED BY <1>2, <1>3

\* A step that executes nothing and does not send.
LEMMA ExecStays ==
    ASSUME DestInv, UNCHANGED execs, worker'.call = worker.call,
           worker'.retry = worker.retry,
           server'.call \in {0, server.call},
           worker'.pc \in {"verify", "send"} => worker.pc \in {"verify", "send"},
           worker.pc # "idle",
           caller'.told # "unavailable" \/ Unsent \/ caller'.told = caller.told
    PROVE  ExecInv' /\ LengthInv'
<1>1. Executions' = Executions
    BY DEF Executions
<1>2. Unsent' => Unsent
    BY DEF Unsent
<1>3. ExecInv'
    BY <1>1, <1>2 DEF DestInv, ExecInv
<1>4. LengthInv'
    BY <1>2 DEF DestInv, LengthInv
<1>5. QED BY <1>3, <1>4

-----------------------------------------------------------------------------
(* The connection and the send *)

LEMMA RunThreadInv ==
    ASSUME DestInv, RunThread
    PROVE  DestInv'
<1>1. /\ worker.pc = "idle" /\ worker.call < MaxForwards
      /\ worker'.pc = "verify" /\ worker'.call = worker.call + 1 /\ worker'.retry = 0
      /\ worker'.err = FALSE
      /\ caller'.got = <<>> /\ caller'.told = "none"
      /\ UNCHANGED <<destConn, server, rcvd, execs, faults>>
    BY DEF RunThread
<1>2. worker.call \in Nat /\ worker.call + 1 \in 0..MaxForwards /\ worker.call + 1 > worker.call
    BY <1>1, Sizes, DestAssumption DEF DestInv
<1>3. DestTypeOK'
    <2>1. worker' \in WorkerType
        BY <1>2 DEF RunThread, WorkerType, Points, CallStatuses, GatewayStatuses
    <2>2. caller' \in CallerType
        BY DEF RunThread, CallerType
    <2>3. QED BY <1>1, <2>1, <2>2, TypeParts, TypeStays DEF DestInv
<1>4. ConnInv'
    BY <1>1 DEF DestInv, ConnInv, Quiet
<1>5. Quiet
    BY <1>1 DEF DestInv, ConnInv
<1>6. ServerInv' /\ rcvd.bytes = 0
    BY <1>1, <1>5 DEF DestInv, ServerInv, StreamInv, Quiet
<1>7. StreamInv'
    <2>1. rcvd.bytes + Len(server.stream) = 0
        BY <1>5, <1>6 DEF Quiet
    <2>2. ~(rcvd.bytes + Len(server.stream) > 0 \/ server.exec # 0)
        BY <1>5, <2>1 DEF Quiet
    <2>3. QED BY <1>1, <1>6, <2>2 DEF DestInv, StreamInv, Newest
<1>8. GotInv'
    BY <1>1 DEF DestInv, GotInv
<1>9. ToldInv'
    BY <1>1 DEF ToldInv, GetsAllOrAnError
<1>10. Executions' = {}
    <2>1. ASSUME NEW d \in DOMAIN execs PROVE execs[d].call # worker'.call
        <3>1. execs[d].call <= worker.call /\ execs[d].call \in Nat
            BY Sizes DEF DestInv, ExecInv
        <3>2. QED BY <1>1, <1>2, <3>1
    <2>2. QED BY <1>1, <2>1 DEF Executions
<1>11. ExecInv'
    <2>1. \A d \in DOMAIN execs: execs[d].call <= worker.call + 1
        <3>1. \A d \in DOMAIN execs: execs[d].call <= worker.call /\ execs[d].call \in Nat
            BY Sizes DEF DestInv, ExecInv
        <3>2. QED BY <1>2, <3>1
    <2>2. Cardinality({}) = 0
        BY FS_EmptySet
    <2>3. QED BY <1>1, <1>10, <2>1, <2>2 DEF ExecInv
<1>12. LengthInv'
    <2>0. worker.call \in Nat /\ worker.retry \in 0..1 /\ Len(execs) \in Nat
        BY Sizes DEF DestInv
    <2>1. Len(execs) <= 2 * worker.call
        <3>1. CASE worker.call = 0
            BY <3>1 DEF DestInv, LengthInv
        <3>2. CASE worker.call > 0
            <4>1. Len(execs) <= 2 * worker.call - 1 + worker.retry
                BY <3>2 DEF DestInv, LengthInv
            <4>2. QED BY <2>0, <4>1
        <3>3. QED BY <2>0, <3>1, <3>2
    <2>2. Len(execs) <= 2 * (worker.call + 1) - 2 + 0 /\ Len(execs) <= 2 * (worker.call + 1) - 1 + 0
        BY <2>0, <2>1
    <2>3. QED BY <1>1, <1>2, <2>2 DEF LengthInv
<1>13. QED BY <1>3, <1>4, <1>6, <1>7, <1>8, <1>9, <1>11, <1>12 DEF DestInv

LEMMA VerifyDestConnInv ==
    ASSUME DestInv, VerifyDestConn
    PROVE  DestInv'
<1>0. worker.pc = "verify" /\ UNCHANGED <<rcvd, execs>> /\ DestTypeOK
    BY DEF VerifyDestConn, DestInv
<1>1. /\ destConn' \in ConnType /\ server' \in ServerType /\ destConn' = LoggedIn
      /\ server'.stream = <<>> /\ server'.call = 0 /\ server'.exec = 0
      /\ server' = server \/ NewConn
    <2>1. CASE KeepsConn
        <3>1. UNCHANGED <<destConn, server>>
            BY <2>1 DEF VerifyDestConn
        <3>2. destConn \in ConnType /\ server \in ServerType
            BY <1>0, TypeParts
        <3>3. destConn.up = TRUE
            BY <2>1, <3>2 DEF KeepsConn, ConnType
        <3>4. Quiet /\ destConn = LoggedIn
            BY <1>0, <3>3 DEF DestInv, ConnInv
        <3>5. QED BY <3>1, <3>2, <3>4 DEF Quiet
    <2>2. CASE ~KeepsConn
        BY <2>2, RenewedConn DEF VerifyDestConn, NewConn
    <2>3. QED BY <2>1, <2>2
<1>2. \/ /\ worker' \in WorkerType /\ SameCall /\ worker'.pc = "send"
         /\ caller' = caller /\ faults' = faults
      \/ /\ worker' \in WorkerType /\ SameCall /\ worker'.pc = "release"
         /\ worker'.status = "unassigned" /\ Fault /\ TellsClient("timeout")
    BY <1>0, WorkerMoves, WorkerEnds DEF VerifyDestConn, Points, CallStatuses, GatewayStatuses
<1>3. /\ caller' \in CallerType /\ caller'.got = caller.got /\ caller'.short = caller.short
      /\ caller'.told \in {caller.told, "timeout"}
      /\ worker'.pc = "send" => caller'.told = caller.told
    BY <1>0, <1>2, ClientTold, TypeParts DEF GatewayStatuses
<1>4. DestTypeOK'
    BY <1>0, <1>1, <1>2, <1>3, TypeStays
<1>5. ConnInv'
    BY <1>1, <1>2 DEF ConnInv, Quiet, LoggedIn
<1>6. rcvd.bytes = 0 /\ caller.got = <<>> /\ rcvd.sent = 0 /\ caller.told = "none"
    BY <1>0, Sizes DEF DestInv, StreamInv, GotInv, ToldInv
<1>7. ServerInv' /\ StreamInv'
    BY <1>0, <1>1, <1>2, <1>6, StreamStays DEF SameCall
<1>8. GotInv'
    BY <1>0, <1>2, <1>3, <1>6 DEF GotInv
<1>9. ToldInv'
    <2>1. CASE worker'.pc = "send"
        BY <1>3, <1>6, <2>1 DEF ToldInv, GetsAllOrAnError
    <2>2. CASE worker'.pc = "release"
        BY <1>0, <1>2, <1>6, <2>2, Tells DEF GatewayStatuses
    <2>3. QED BY <1>2, <2>1, <2>2
<1>10. ExecInv' /\ LengthInv'
    BY <1>0, <1>1, <1>2, <1>3, <1>6, ExecStays DEF SameCall
<1>11. QED BY <1>4, <1>5, <1>7, <1>8, <1>9, <1>10 DEF DestInv

\* What holds of a call before anything of its response came.
LEMMA NothingYet ==
    ASSUME DestInv, worker.pc \in {"verify", "send"}
    PROVE  /\ Quiet /\ rcvd.bytes = 0 /\ rcvd.sent = 0
           /\ caller.got = <<>> /\ caller.told = "none" /\ Unsent
BY Sizes DEF DestInv, ConnInv, StreamInv, GotInv, ToldInv, Unsent

\* The call ends before it was sent.
LEMMA EndsUnsent ==
    ASSUME DestInv, worker.pc \in {"verify", "send"}, UNCHANGED <<rcvd, execs>>,
           NEW status \in GatewayStatuses, EndsWith(status) \/ EndsWith("unassigned"),
           TellsClient(status), faults' = faults \/ Fault,
           NewConn \/ UNCHANGED <<destConn, server>>
    PROVE  DestInv'
<1>0. DestTypeOK /\ "unassigned" \in CallStatuses /\ status \in CallStatuses
    BY DEF DestInv, CallStatuses, GatewayStatuses
<1>1. /\ worker' \in WorkerType /\ SameCall /\ worker'.pc = "release"
      /\ worker'.status \in {status, "unassigned"}
    BY <1>0, WorkerEnds
<1>2. worker'.status \notin {"ok", "refused"}
    BY <1>1 DEF GatewayStatuses
<1>3. destConn' \in ConnType /\ server' \in ServerType /\ server'.call = 0
    BY <1>0, NothingYet, TypeParts DEF NewConn, Quiet
<1>4. caller' \in CallerType /\ caller'.got = <<>>
    BY <1>0, NothingYet, ClientTold
<1>5. DestTypeOK'
    BY <1>0, <1>1, <1>3, <1>4, TypeStays
<1>6. ConnInv'
    BY <1>1, <1>2 DEF DestInv, ConnInv, NewConn
<1>7. ServerInv' /\ StreamInv'
    BY <1>1, StreamStays DEF SameCall
<1>8. GotInv'
    BY <1>1, <1>4, NothingYet, Sizes DEF GotInv, DestInv
<1>9. ToldInv'
    BY <1>0, <1>1, <1>3, NothingYet, Tells
<1>10. ExecInv' /\ LengthInv'
    BY <1>1, <1>3, NothingYet, ExecStays DEF SameCall
<1>11. QED BY <1>5, <1>6, <1>7, <1>8, <1>9, <1>10 DEF DestInv

LEMMA VerifyFailsInv ==
    ASSUME DestInv, VerifyFails
    PROVE  DestInv'
BY EndsUnsent, NotRenewedConn DEF VerifyFails, GatewayStatuses

LEMMA SendGivesUpInv ==
    ASSUME DestInv, SendGivesUp
    PROVE  DestInv'
<1>1. CASE NotRenewed /\ Fault /\ EndsWith("unavailable") /\ TellsClient("unavailable")
    BY <1>1, EndsUnsent, NotRenewedConn DEF SendGivesUp, GatewayStatuses
<1>2. CASE EndsWith("unassigned") /\ TellsClient("cannot retry")
           /\ UNCHANGED <<destConn, server, faults>>
    BY <1>2, EndsUnsent DEF SendGivesUp, GatewayStatuses
<1>3. QED BY <1>1, <1>2 DEF SendGivesUp

LEMMA SendAgainInv ==
    ASSUME DestInv, SendAgain
    PROVE  DestInv'
<1>0. /\ DestTypeOK /\ worker.pc = "send" /\ UNCHANGED <<rcvd, caller, execs, faults>>
      /\ worker' = [worker EXCEPT !.resent = TRUE] /\ NewConn /\ destConn' = LoggedIn
    BY RenewedConn DEF DestInv, SendAgain
<1>1. worker' \in WorkerType /\ SameCall /\ worker'.pc = "send"
    BY <1>0, TypeParts DEF WorkerType, SameCall
<1>2. DestTypeOK'
    BY <1>0, <1>1, TypeStays, TypeParts DEF NewConn
<1>3. ConnInv'
    BY <1>0, <1>1 DEF ConnInv, NewConn, Quiet, LoggedIn
<1>4. ServerInv' /\ StreamInv'
    BY <1>0, <1>1, NothingYet, StreamStays DEF SameCall
<1>5. GotInv'
    BY <1>0, <1>1, NothingYet DEF GotInv
<1>6. ToldInv'
    BY <1>0, <1>1, NothingYet DEF ToldInv, GetsAllOrAnError
<1>7. ExecInv' /\ LengthInv'
    BY <1>0, <1>1, ExecStays DEF SameCall, NewConn
<1>8. QED BY <1>2, <1>3, <1>4, <1>5, <1>6, <1>7 DEF DestInv

LEMMA SendProcCallInv ==
    ASSUME DestInv, SendProcCall
    PROVE  DestInv'
<1>0. /\ DestTypeOK /\ worker.pc = "send" /\ UNCHANGED <<destConn, caller, execs, faults>>
      /\ rcvd' = NothingRcvd
    BY DEF DestInv, SendProcCall
<1>1. worker' \in WorkerType /\ SameCall /\ worker'.pc = "recv"
    BY <1>0, WorkerMoves DEF SendProcCall, Points
<1>2. /\ rcvd'.bytes = 0 /\ rcvd'.sent = 0 /\ rcvd'.buff = <<>> /\ rcvd'.cltErr = FALSE
      /\ Len(rcvd'.buff) = 0 /\ 0 \in 0..ResponseLength /\ <<>> \in Seq(Cell)
    BY <1>0, DestAssumption, EmptySeq DEF NothingRcvd
<1>3. /\ server' \in ServerType /\ server'.stream = <<>> /\ server'.exec = 0
      /\ server'.open = server.open /\ server'.call \in {0, worker.call}
      /\ server'.open = FALSE => server'.call = 0
      /\ Len(server'.stream) = 0
    <2>1. Quiet /\ server \in ServerType /\ worker.call \in 0..MaxForwards
        BY <1>0, NothingYet, TypeParts DEF WorkerType
    <2>2. QED BY <2>1 DEF SendProcCall, Quiet, ServerType
<1>4. DestTypeOK'
    <2>1. rcvd' \in [buff: Seq(Cell), bytes: 0..ResponseLength, sent: 0..ResponseLength,
                     cltErr: BOOLEAN]
        BY <1>0, <1>2 DEF NothingRcvd
    <2>2. destConn \in ConnType /\ caller \in CallerType
        BY <1>0, TypeParts
    <2>3. QED BY <1>0, <1>1, <1>3, <2>1, <2>2
          DEF DestTypeOK, ConnType, ServerType, WorkerType, CallerType, Points, CallStatuses
<1>5. destConn = LoggedIn /\ caller.got = <<>> /\ caller.told = "none"
    BY <1>0, NothingYet DEF DestInv, ConnInv
<1>6. ConnInv'
    BY <1>0, <1>1, <1>5 DEF ConnInv, LoggedIn
<1>7. ServerInv'
    BY <1>1, <1>2, <1>3 DEF ServerInv, SameCall
<1>8. StreamInv'
    <2>1. ResponseLength > 0 /\ ResponseLength \in Nat
        BY DestAssumption
    <2>2. ~(rcvd'.bytes + Len(server'.stream) > 0 \/ server'.exec # 0)
        BY <1>2, <1>3
    <2>3. QED BY <1>1, <1>2, <1>3, <2>1, <2>2 DEF StreamInv
<1>9. GotInv'
    BY <1>0, <1>1, <1>2, <1>5, EmptySeq DEF GotInv
<1>10. ToldInv'
    BY <1>0, <1>1, <1>5 DEF ToldInv, GetsAllOrAnError
<1>11. ExecInv' /\ LengthInv'
    <2>1. Executions' = Executions /\ Unsent
        BY <1>0, <1>1, NothingYet DEF Executions, SameCall
    <2>2. ExecInv'
        BY <1>0, <1>1, <2>1 DEF DestInv, ExecInv, SameCall
    <2>3. LengthInv'
        BY <1>0, <1>1, <2>1 DEF DestInv, LengthInv, SameCall
    <2>4. QED BY <2>2, <2>3
<1>12. QED BY <1>4, <1>6, <1>7, <1>8, <1>9, <1>10, <1>11 DEF DestInv

-----------------------------------------------------------------------------
(* The ends of recvResp *)

\* The worker stops waiting, with an error; what the client has stays.
LEMMA StopsWaiting ==
    ASSUME DestInv, worker.pc = "recv", UNCHANGED <<rcvd, caller, execs>>, ReceiveFails,
           NewConn \/ (server' = server /\ destConn' \in ConnType /\ destConn'.up = TRUE),
           faults' = faults \/ Fault
    PROVE  DestInv'
<1>0. DestTypeOK
    BY DEF DestInv
<1>1. worker' \in WorkerType /\ SameCall /\ worker'.pc = "received" /\ worker'.err = TRUE
    BY <1>0, ReceiveEnds
<1>2. server'.call \in {0, server.call} /\ server' \in ServerType /\ destConn' \in ConnType
    BY <1>0, TypeParts DEF NewConn
<1>3. DestTypeOK'
    BY <1>0, <1>1, <1>2, TypeStays, TypeParts
<1>4. ConnInv'
    BY <1>1 DEF ConnInv, NewConn
<1>5. ServerInv' /\ StreamInv'
    BY <1>1, StreamStays DEF SameCall
<1>6. GotInv'
    <2>1. caller.got # <<>> => server'.call = 0
        BY <1>2 DEF DestInv, GotInv
    <2>2. QED BY <1>1, <2>1 DEF DestInv, GotInv, SameCall, Newest
<1>7. ToldInv'
    <2>1. caller.told = "none"
        BY DEF DestInv, ToldInv
    <2>2. QED BY <1>1, <2>1 DEF ToldInv, GetsAllOrAnError
<1>8. ExecInv' /\ LengthInv'
    BY <1>1, <1>2, ExecStays DEF SameCall
<1>9. QED BY <1>3, <1>4, <1>5, <1>6, <1>7, <1>8 DEF DestInv

LEMMA RecvEofInv ==
    ASSUME DestInv, RecvEof
    PROVE  DestInv'
BY StopsWaiting, NotRenewedConn, ClosedConn DEF RecvEof, AtEof

LEMMA RecvTimesOutInv ==
    ASSUME DestInv, RecvTimesOut
    PROVE  DestInv'
BY StopsWaiting, ClosedConn DEF RecvTimesOut

LEMMA RecvBreaksInv ==
    ASSUME DestInv, RecvBreaks
    PROVE  DestInv'
<1>1. destConn = LoggedIn
    BY DEF DestInv, ConnInv, RecvBreaks
<1>2. destConn' \in ConnType /\ destConn'.up = TRUE
    BY <1>1 DEF RecvBreaks, LoggedIn, ConnType
<1>3. QED BY <1>2, StopsWaiting DEF RecvBreaks

LEMMA TimePassesInv ==
    ASSUME DestInv, TimePasses
    PROVE  DestInv'
<1>0. /\ DestTypeOK /\ worker.pc = "recv" /\ worker.time > 0
      /\ UNCHANGED <<destConn, server, rcvd, caller, execs, faults>>
      /\ worker' = [worker EXCEPT !.time = @ - 1]
    BY DEF DestInv, TimePasses
<1>1. /\ worker' \in WorkerType /\ SameCall /\ worker'.pc = "recv"
    <2>1. worker \in WorkerType
        BY <1>0, TypeParts
    <2>2. worker.time - 1 \in 0..2
        BY <1>0, <2>1 DEF WorkerType
    <2>3. QED BY <1>0, <2>1, <2>2 DEF WorkerType, SameCall
<1>2. DestTypeOK'
    BY <1>0, <1>1, TypeStays, TypeParts
<1>3. ConnInv'
    BY <1>0, <1>1 DEF DestInv, ConnInv
<1>4. ServerInv' /\ StreamInv'
    BY <1>0, <1>1, StreamStays DEF SameCall
<1>5. GotInv'
    BY <1>0, <1>1 DEF DestInv, GotInv, SameCall, Newest
<1>6. ToldInv'
    BY <1>0, <1>1 DEF DestInv, ToldInv, GetsAllOrAnError
<1>7. ExecInv' /\ LengthInv'
    BY <1>0, <1>1, ExecStays DEF SameCall
<1>8. QED BY <1>2, <1>3, <1>4, <1>5, <1>6, <1>7 DEF DestInv

\* The executions of a call are finitely many.
LEMMA FewExecutions ==
    ASSUME DestTypeOK
    PROVE  /\ Executions \subseteq 1..Len(execs) /\ IsFiniteSet(Executions)
           /\ Cardinality(Executions) \in Nat
<1>1. Executions \subseteq 1..Len(execs) /\ Len(execs) \in Nat
    BY Sizes DEF Executions
<1>2. IsFiniteSet(1..Len(execs))
    BY <1>1, FS_Interval
<1>3. IsFiniteSet(Executions)
    BY <1>1, <1>2, FS_Subset
<1>4. QED BY <1>1, <1>3, FS_CardinalityType

LEMMA ResendsInv ==
    ASSUME DestInv, Resends
    PROVE  DestInv'
<1>0. /\ DestTypeOK /\ worker.pc = "recv" /\ worker.retry = 0 /\ rcvd.bytes = 0
      /\ UNCHANGED <<rcvd, execs, faults>>
    BY DEF DestInv, Resends, AtEof, MayResend
<1>1. rcvd.sent = 0 /\ caller.got = <<>> /\ caller.told = "none"
    <2>1. rcvd.sent = 0
        BY <1>0, Sizes DEF DestInv, GotInv
    <2>2. Len(caller.got) = 0 /\ caller.told = "none"
        BY <1>0, <2>1 DEF DestInv, GotInv, ToldInv
    <2>3. QED BY <1>0, <2>1, <2>2, Sizes, EmptySeq
<1>2. CASE Renewed /\ worker' = [worker EXCEPT !.pc = "send", !.retry = 1, !.resent = FALSE]
           /\ UNCHANGED caller
    <2>1. NewConn /\ destConn' = LoggedIn
        BY <1>2, RenewedConn
    <2>2. /\ worker' \in WorkerType /\ worker'.call = worker.call /\ worker'.retry = 1
          /\ worker'.pc = "send"
        <3>1. worker \in WorkerType /\ "send" \in Points /\ 1 \in 0..1 /\ FALSE \in BOOLEAN
            BY <1>0, TypeParts DEF Points
        <3>2. worker' \in WorkerType
            BY <1>2, <3>1 DEF WorkerType
        <3>3. QED BY <1>2, <3>1, <3>2 DEF WorkerType
    <2>3. DestTypeOK'
        BY <1>0, <1>2, <2>1, <2>2, TypeStays, TypeParts DEF NewConn
    <2>4. ConnInv'
        BY <2>1, <2>2 DEF ConnInv, NewConn, Quiet, LoggedIn
    <2>5. ServerInv' /\ StreamInv'
        BY <1>0, <2>1, <2>2, StreamStays
    <2>6. GotInv'
        BY <1>0, <1>1, <1>2, <2>2 DEF GotInv
    <2>7. ToldInv'
        BY <1>1, <1>2, <2>2 DEF ToldInv, GetsAllOrAnError
    <2>8. ExecInv'
        <3>1. Executions' = Executions
            BY <1>0, <2>2 DEF Executions
        <3>2. Cardinality(Executions) <= 1 /\ Cardinality(Executions) \in Nat
            BY <1>0, FewExecutions DEF DestInv, ExecInv
        <3>3. Cardinality(Executions) <= 1 + 1
            BY <3>2
        <3>4. \A d \in DOMAIN execs: execs[d].call <= worker.call
            BY DEF DestInv, ExecInv
        <3>5. execs' = execs /\ (worker'.retry # 0) /\ worker'.call = worker.call
              /\ worker'.retry = 1
            BY <1>0, <2>2
        <3>6. Cardinality(Executions') <= 1 /\ Cardinality(Executions') <= 1 + 1
            BY <3>1, <3>2, <3>3
        <3>7. \A d \in DOMAIN execs': execs'[d].call <= worker'.call
            BY <3>4, <3>5
        <3>8. QED BY <3>5, <3>6, <3>7 DEF ExecInv
    <2>9. LengthInv'
        <3>1. worker.call > 0 /\ worker.call \in Nat /\ Len(execs) \in Nat
            BY <1>0, Sizes DEF DestInv, LengthInv
        <3>2. Len(execs) <= 2 * worker.call - 2 + 1 /\ Len(execs) <= 2 * worker.call - 1 + 1
            BY <1>0, <3>1 DEF DestInv, LengthInv
        <3>3. QED BY <1>0, <2>2, <3>1, <3>2 DEF LengthInv
    <2>10. QED BY <2>3, <2>4, <2>5, <2>6, <2>7, <2>8, <2>9 DEF DestInv
<1>3. CASE /\ destConn' = [up |-> FALSE, state |-> "bad", dirty |-> FALSE]
           /\ server' = NoServer
           /\ EndsWith("unassigned") /\ TellsClient("timeout")
    <2>0. {"unassigned", "timeout"} \subseteq CallStatuses /\ "timeout" \in GatewayStatuses
        BY DEF CallStatuses, GatewayStatuses
    <2>1. NewConn
        BY <1>3, NotRenewedConn DEF NotRenewed
    <2>2. /\ worker' \in WorkerType /\ SameCall /\ worker'.pc = "release"
          /\ worker'.status = "unassigned"
        BY <1>0, <1>3, <2>0, WorkerEnds
    <2>3. caller' \in CallerType /\ caller'.got = <<>> /\ caller'.told \in {"none", "timeout"}
        BY <1>0, <1>1, <1>3, <2>0, ClientTold
    <2>4. DestTypeOK'
        BY <1>0, <2>1, <2>2, <2>3, TypeStays DEF NewConn
    <2>5. ConnInv'
        BY <2>1, <2>2 DEF ConnInv, NewConn
    <2>6. ServerInv' /\ StreamInv'
        BY <1>0, <2>1, <2>2, StreamStays DEF SameCall
    <2>7. GotInv'
        BY <1>0, <1>1, <2>2, <2>3, EmptySeq DEF GotInv
    <2>8. ToldInv'
        BY <1>0, <1>1, <1>3, <2>0, <2>2, Tells
    <2>9. ExecInv' /\ LengthInv'
        BY <1>0, <2>1, <2>2, <2>3, ExecStays DEF SameCall, NewConn
    <2>10. QED BY <2>4, <2>5, <2>6, <2>7, <2>8, <2>9 DEF DestInv
<1>4. QED BY <1>2, <1>3 DEF Resends

-----------------------------------------------------------------------------
(* The cases of receiveResponse, and the release *)

LEMMA ResponseCompleteInv ==
    ASSUME DestInv, ResponseComplete
    PROVE  DestInv'
<1>0. /\ DestTypeOK /\ worker.pc = "received" /\ worker.err = FALSE /\ rcvd.cltErr = FALSE
      /\ UNCHANGED <<destConn, server, rcvd, caller, execs, faults>>
    <2>1. worker \in WorkerType /\ rcvd.cltErr \in BOOLEAN
        BY TypeParts DEF DestInv, DestTypeOK
    <2>2. QED BY <2>1 DEF DestInv, ResponseComplete, WorkerType
<1>1. worker' \in WorkerType /\ SameCall /\ worker'.pc = "release" /\ worker'.status = worker.status
    BY <1>0, WorkerMoves DEF ResponseComplete, Points
<1>2. DestTypeOK'
    BY <1>0, <1>1, TypeStays, TypeParts
<1>3. ConnInv'
    BY <1>0, <1>1 DEF DestInv, ConnInv, Quiet, LoggedIn
<1>4. ServerInv' /\ StreamInv'
    BY <1>0, <1>1, StreamStays DEF SameCall
<1>5. GotInv'
    BY <1>0, <1>1 DEF DestInv, GotInv, SameCall, Newest
<1>6. rcvd.bytes = ResponseLength /\ worker.status = execs[Newest].status
      /\ caller.told = "none"
    BY <1>0 DEF DestInv, StreamInv, ToldInv
<1>7. caller.short = FALSE => /\ Len(caller.got) = ResponseLength
                              /\ caller.got[1].exec = Newest
    <2>1. SUFFICES ASSUME caller.short = FALSE
                   PROVE  Len(caller.got) = ResponseLength /\ caller.got[1].exec = Newest
        OBVIOUS
    <2>2. Len(caller.got) = ResponseLength /\ ResponseLength > 0
        BY <1>0, <1>6, <2>1, DestAssumption DEF DestInv, GotInv
    <2>3. caller.got # <<>> /\ 1 \in DOMAIN caller.got
        BY <1>0, <2>2, Sizes, EmptySeq, LenProperties
    <2>4. caller.got[1] = [exec |-> Newest, k |-> 1]
        BY <2>1, <2>3 DEF DestInv, GotInv, IsStartOf
    <2>5. QED BY <2>2, <2>4
<1>8. caller \in CallerType
    BY <1>0, TypeParts
<1>9. ToldInv'
    BY <1>0, <1>1, <1>6, <1>7, <1>8 DEF ToldInv, GetsAllOrAnError, CallerType
<1>10. ExecInv' /\ LengthInv'
    BY <1>0, <1>1, ExecStays DEF SameCall
<1>11. QED BY <1>2, <1>3, <1>4, <1>5, <1>9, <1>10 DEF DestInv

\* The call ends with the client disconnected.
LEMMA Disconnects ==
    ASSUME DestInv, worker.pc = "received", UNCHANGED <<rcvd, execs, faults>>, ClosesDirty,
           worker' \in WorkerType, SameCall, worker'.pc = "release",
           caller' = [caller EXCEPT !.connected = FALSE]
    PROVE  DestInv'
<1>0. DestTypeOK /\ NewConn /\ destConn'.up = FALSE
    BY ClosedConn DEF DestInv
<1>1. /\ caller' \in CallerType /\ caller'.connected = FALSE /\ caller'.got = caller.got
      /\ caller'.short = caller.short /\ caller'.told = caller.told
    BY <1>0, TypeParts DEF CallerType
<1>2. DestTypeOK'
    BY <1>0, <1>1, TypeStays DEF NewConn
<1>3. ConnInv'
    BY <1>0 DEF ConnInv, NewConn, Quiet
<1>4. ServerInv' /\ StreamInv'
    BY <1>0, StreamStays DEF SameCall
<1>5. GotInv'
    BY <1>0, <1>1 DEF DestInv, GotInv, SameCall, Newest, NewConn
<1>6. ToldInv'
    BY <1>0, <1>1 DEF DestInv, ToldInv, GetsAllOrAnError, NewConn
<1>7. ExecInv' /\ LengthInv'
    BY <1>0, <1>1, ExecStays DEF SameCall, NewConn
<1>8. QED BY <1>2, <1>3, <1>4, <1>5, <1>6, <1>7 DEF DestInv

LEMMA ClientIsGoneInv ==
    ASSUME DestInv, ClientIsGone
    PROVE  DestInv'
<1>1. worker' \in WorkerType /\ SameCall /\ worker'.pc = "release"
    BY WorkerMoves DEF DestInv, ClientIsGone, Points
<1>2. faults' = faults /\ rcvd' = rcvd /\ execs' = execs
    BY DEF ClientIsGone
<1>3. QED BY <1>1, <1>2, Disconnects DEF ClientIsGone

LEMMA ResponseIsPartialInv ==
    ASSUME DestInv, ResponseIsPartial
    PROVE  DestInv'
<1>1. worker' \in WorkerType /\ SameCall /\ worker'.pc = "release"
    BY WorkerEnds DEF DestInv, ResponseIsPartial, CallStatuses, GatewayStatuses
<1>2. QED BY <1>1, Disconnects DEF ResponseIsPartial

LEMMA NoResponseInv ==
    ASSUME DestInv, NoResponse
    PROVE  DestInv'
<1>0. /\ DestTypeOK /\ worker.pc = "received" /\ rcvd.sent = 0
      /\ UNCHANGED <<rcvd, execs, faults>>
    BY DEF DestInv, NoResponse
<1>1. PICK status \in {"timeout", "cannot retry"}:
         /\ EndsWith(status) /\ TellsClient(status)
         /\ NewConn \/ UNCHANGED <<destConn, server>>
    BY ClosedConn DEF NoResponse
<1>2. status \in GatewayStatuses /\ status \in CallStatuses /\ status \notin {"ok", "refused"}
    BY DEF GatewayStatuses, CallStatuses
<1>3. worker' \in WorkerType /\ SameCall /\ worker'.pc = "release" /\ worker'.status = status
    BY <1>0, <1>1, <1>2, WorkerEnds
<1>4. Len(caller.got) = 0 /\ caller.told = "none"
    BY <1>0 DEF DestInv, GotInv, ToldInv
<1>5. caller.got = <<>>
    BY <1>0, <1>4, Sizes, EmptySeq
<1>6. caller' \in CallerType /\ caller'.got = <<>> /\ caller'.told \in {"none", status}
    BY <1>0, <1>1, <1>2, <1>4, <1>5, ClientTold
<1>7. destConn' \in ConnType /\ server' \in ServerType /\ server'.call \in {0, server.call}
    BY <1>0, <1>1, TypeParts DEF NewConn
<1>8. DestTypeOK'
    BY <1>0, <1>3, <1>6, <1>7, TypeStays
<1>9. ConnInv'
    BY <1>1, <1>2, <1>3 DEF DestInv, ConnInv, NewConn
<1>10. ServerInv' /\ StreamInv'
    BY <1>0, <1>1, <1>3, StreamStays DEF SameCall
<1>11. GotInv'
    BY <1>0, <1>3, <1>6, EmptySeq DEF DestInv, GotInv
<1>12. ToldInv'
    BY <1>0, <1>1, <1>2, <1>3, <1>4, <1>5, Tells
<1>13. ExecInv' /\ LengthInv'
    BY <1>0, <1>3, <1>6, <1>7, ExecStays DEF SameCall
<1>14. QED BY <1>8, <1>9, <1>10, <1>11, <1>12, <1>13 DEF DestInv

LEMMA ReleaseDestConnInv ==
    ASSUME DestInv, ReleaseDestConn
    PROVE  DestInv'
<1>0. /\ DestTypeOK /\ worker.pc = "release" /\ UNCHANGED <<caller, execs, faults>>
      /\ rcvd' = NothingRcvd
    BY DEF DestInv, ReleaseDestConn
<1>1. /\ worker' \in WorkerType /\ SameCall /\ worker'.pc = "idle"
      /\ worker'.status = worker.status
    BY <1>0, WorkerMoves DEF ReleaseDestConn, Points
<1>2. /\ destConn' \in ConnType /\ server' \in ServerType
      /\ server'.stream = <<>> /\ server'.call = 0 /\ server'.exec = 0
      /\ destConn'.up = FALSE => server' = NoServer
      /\ destConn'.up = TRUE => destConn' = LoggedIn
    <2>1. destConn \in ConnType /\ server \in ServerType
        BY <1>0, TypeParts
    <2>2. CASE worker.status = "ok"
        BY <1>0, <2>1, <2>2 DEF DestInv, ConnInv, Quiet, ReleaseDestConn
    <2>3. CASE worker.status = "refused"
        <3>1. server' = server /\ destConn' = [destConn EXCEPT !.dirty = FALSE] /\ Quiet
            BY <1>0, <2>3 DEF DestInv, ConnInv, ReleaseDestConn
        <3>2. destConn' \in ConnType /\ destConn'.up = destConn.up
            BY <2>1, <3>1 DEF ConnType
        <3>3. destConn.up = TRUE => destConn' = LoggedIn
            <4>1. destConn.up = TRUE => destConn = LoggedIn
                BY <1>0, <2>3 DEF DestInv, ConnInv
            <4>2. ASSUME destConn = LoggedIn PROVE destConn' = LoggedIn
                <5>1. destConn.state = "logged in" /\ destConn.up = TRUE
                    BY <4>2 DEF LoggedIn
                <5>2. destConn'.state = destConn.state /\ destConn'.dirty = FALSE
                    BY <2>1, <3>1 DEF ConnType
                <5>3. QED BY <3>2, <5>1, <5>2 DEF ConnType, LoggedIn
            <4>3. QED BY <4>1, <4>2
        <3>4. QED BY <2>1, <3>1, <3>2, <3>3 DEF DestInv, ConnInv, Quiet
    <2>4. CASE worker.status \notin {"ok", "refused"}
        <3>1. ClosesDirty
            BY <2>4 DEF ReleaseDestConn
        <3>2. QED BY <3>1, ClosedConn DEF NewConn
    <2>5. QED BY <2>2, <2>3, <2>4
<1>3. /\ rcvd'.bytes = 0 /\ rcvd'.sent = 0 /\ rcvd'.buff = <<>> /\ rcvd'.cltErr = FALSE
      /\ Len(rcvd'.buff) = 0 /\ 0 \in 0..ResponseLength /\ <<>> \in Seq(Cell)
    BY <1>0, DestAssumption, EmptySeq DEF NothingRcvd
<1>4. DestTypeOK'
    <2>1. rcvd' \in [buff: Seq(Cell), bytes: 0..ResponseLength, sent: 0..ResponseLength,
                     cltErr: BOOLEAN]
        BY <1>0, <1>3 DEF NothingRcvd
    <2>2. caller \in CallerType
        BY <1>0, TypeParts
    <2>3. QED BY <1>0, <1>1, <1>2, <2>1, <2>2
          DEF DestTypeOK, ConnType, ServerType, WorkerType, CallerType, Points, CallStatuses
<1>5. ConnInv'
    BY <1>1, <1>2 DEF ConnInv, Quiet, LoggedIn
<1>6. ServerInv'
    BY <1>2 DEF ServerInv
<1>7. StreamInv'
    <2>1. Len(server'.stream) = 0 /\ ResponseLength \in Nat
        BY <1>2, DestAssumption
    <2>2. ~(rcvd'.bytes + Len(server'.stream) > 0 \/ server'.exec # 0)
        BY <1>2, <1>3, <2>1
    <2>3. QED BY <1>1, <1>2, <1>3, <2>1, <2>2 DEF StreamInv
<1>8. GotInv'
    BY <1>0, <1>1, <1>2, <1>3 DEF DestInv, GotInv, SameCall, Newest
<1>9. ToldInv'
    BY <1>0, <1>1, <1>2 DEF DestInv, ToldInv, GetsAllOrAnError
<1>10. ExecInv' /\ LengthInv'
    BY <1>0, <1>1, <1>2, ExecStays DEF SameCall
<1>11. QED BY <1>4, <1>5, <1>6, <1>7, <1>8, <1>9, <1>10 DEF DestInv

-----------------------------------------------------------------------------
(* The bytes of a response *)

\* Whatever part of what is in transit arrives, it is the next part of the
\* last response, and what is looked at is enough of its end.
LEMMA Arrives ==
    ASSUME DestInv, worker.pc = "recv", NEW n \in 1..Len(server.stream)
    PROVE  LET chunk == SubSeq(server.stream, 1, n)
               rest == SubSeq(server.stream, n + 1, Len(server.stream))
               total == rcvd.bytes + n
           IN  /\ total \in 1..ResponseLength
               /\ EndOf(rcvd.buff \o chunk, total, Newest)
               /\ chunk \in Seq(Cell) /\ Len(chunk) = n
               /\ \A i \in 1..n: chunk[i] = [exec |-> Newest, k |-> rcvd.bytes + i]
               /\ rest \in Seq(Cell) /\ Len(rest) = Len(server.stream) - n
               /\ \A i \in 1..Len(rest): rest[i] = [exec |-> Newest, k |-> total + i]
<1> DEFINE chunk == SubSeq(server.stream, 1, n)
           rest == SubSeq(server.stream, n + 1, Len(server.stream))
           total == rcvd.bytes + n
           str == rcvd.buff \o chunk
<1>0. /\ rcvd.bytes \in Nat /\ ResponseLength \in Nat /\ Window \in Nat
      /\ Len(rcvd.buff) \in Nat /\ rcvd.buff \in Seq(Cell)
      /\ server.stream \in Seq(Cell) /\ Len(server.stream) \in Nat /\ n \in Nat
    BY Sizes, DestAssumption DEF DestInv
<1>1. /\ rcvd.bytes + Len(server.stream) <= ResponseLength
      /\ \A i \in 1..Len(server.stream):
            server.stream[i] = [exec |-> Newest, k |-> rcvd.bytes + i]
      /\ Len(rcvd.buff) <= rcvd.bytes
      /\ Len(rcvd.buff) = rcvd.bytes \/ Len(rcvd.buff) >= Window
      /\ \A i \in 1..Len(rcvd.buff):
            rcvd.buff[i] = [exec |-> Newest, k |-> rcvd.bytes - Len(rcvd.buff) + i]
    BY DEF DestInv, StreamInv
<1>2. \A i \in 1..Len(server.stream): server.stream[i] \in Cell
    BY <1>0, ElementOfSeq
<1>3. total \in 1..ResponseLength
    BY <1>0, <1>1
<1>4. /\ chunk \in Seq(Cell) /\ Len(chunk) = n
      /\ \A i \in 1..n: chunk[i] = server.stream[i]
    <2>1. \A i \in 1..n: server.stream[i] \in Cell
        BY <1>0, <1>2
    <2>2. /\ chunk \in Seq(Cell) /\ Len(chunk) = IF 1 <= n THEN n - 1 + 1 ELSE 0
          /\ \A i \in 1..(n - 1 + 1): chunk[i] = server.stream[1 + i - 1]
        BY <1>0, <2>1, SubSeqProperties
    <2>3. n - 1 + 1 = n /\ 1 <= n /\ \A i \in 1..n: 1 + i - 1 = i
        BY <1>0
    <2>4. QED BY <2>2, <2>3
<1>5. \A i \in 1..n: chunk[i] = [exec |-> Newest, k |-> rcvd.bytes + i]
    BY <1>0, <1>1, <1>4
<1>6. /\ rest \in Seq(Cell) /\ Len(rest) = Len(server.stream) - n
      /\ \A i \in 1..Len(rest): rest[i] = server.stream[n + i]
    <2>1. \A i \in (n + 1)..Len(server.stream): server.stream[i] \in Cell
        BY <1>0, <1>2
    <2>2. n + 1 \in Int /\ Len(server.stream) \in Int
        BY <1>0
    <2>3. /\ rest \in Seq(Cell)
          /\ Len(rest) = IF n + 1 <= Len(server.stream)
                         THEN Len(server.stream) - (n + 1) + 1 ELSE 0
          /\ \A i \in 1..(Len(server.stream) - (n + 1) + 1):
                rest[i] = server.stream[(n + 1) + i - 1]
        BY <2>1, <2>2, SubSeqProperties
    <2>4. /\ Len(server.stream) - (n + 1) + 1 = Len(server.stream) - n
          /\ ~(n + 1 <= Len(server.stream)) => Len(server.stream) - n = 0
        BY <1>0
    <2>5. Len(rest) = Len(server.stream) - n
        BY <2>3, <2>4
    <2>6. \A i \in 1..Len(rest): (n + 1) + i - 1 = n + i
        BY <1>0, <2>5
    <2>7. QED BY <2>3, <2>4, <2>5, <2>6
<1>7. ASSUME NEW i \in 1..Len(rest) PROVE rest[i] = [exec |-> Newest, k |-> total + i]
    <2>1. n + i \in 1..Len(server.stream) /\ rcvd.bytes + (n + i) = total + i
        BY <1>0, <1>6
    <2>2. QED BY <1>1, <1>6, <2>1
<1>8. /\ str \in Seq(Cell) /\ Len(str) = Len(rcvd.buff) + n
      /\ \A i \in 1..(Len(rcvd.buff) + n):
            str[i] = IF i <= Len(rcvd.buff) THEN rcvd.buff[i] ELSE chunk[i - Len(rcvd.buff)]
    BY <1>0, <1>4, ConcatProperties
<1>9. ASSUME NEW i \in 1..Len(str)
      PROVE  str[i] = [exec |-> Newest, k |-> total - Len(str) + i]
    <2>1. CASE i <= Len(rcvd.buff)
        <3>1. i \in 1..Len(rcvd.buff) /\ total - Len(str) + i = rcvd.bytes - Len(rcvd.buff) + i
            BY <1>0, <1>8, <2>1
        <3>2. QED BY <1>1, <1>8, <2>1, <3>1
    <2>2. CASE ~(i <= Len(rcvd.buff))
        <3>1. i - Len(rcvd.buff) \in 1..n
              /\ total - Len(str) + i = rcvd.bytes + (i - Len(rcvd.buff))
            <4> DEFINE a == Len(rcvd.buff)
                       c == Len(str)
                       b == rcvd.bytes
            <4>1. a \in Nat /\ b \in Nat /\ n \in Nat /\ c = a + n /\ i \in 1..c /\ ~(i <= a)
                  /\ total = b + n
                BY <1>0, <1>8, <2>2
            <4> HIDE DEF a, b, c, str, total
            <4>2. i - a \in 1..n /\ total - c + i = b + (i - a)
                BY <4>1
            <4>3. QED BY <4>2, Zenon DEF a, b, c
        <3>2. str[i] = chunk[i - Len(rcvd.buff)]
            BY <1>8, <2>2
        <3>3. QED BY <1>5, <3>1, <3>2
    <2>3. QED BY <2>1, <2>2
<1>10. Len(str) <= total /\ (Len(str) = total \/ Len(str) >= Window + 1)
    BY <1>0, <1>1, <1>8
<1>11. EndOf(str, total, Newest)
    BY <1>8, <1>9, <1>10 DEF EndOf
<1>12. QED BY <1>3, <1>4, <1>5, <1>6, <1>7, <1>11

\* What the client is sent of it is the next part of what it has.
LEMMA SentBack ==
    ASSUME DestInv, worker.pc = "recv", NEW chunk \in Seq(Cell), NEW now, chunk # <<>>,
           rcvd.bytes + Len(chunk) <= ResponseLength,
           \A i \in 1..Len(chunk): chunk[i] = [exec |-> Newest, k |-> rcvd.bytes + i],
           now \in [buff: Seq(Cell), bytes: 0..ResponseLength, sent: 0..ResponseLength,
                    cltErr: BOOLEAN],
           now.bytes = rcvd.bytes + Len(chunk), now.sent = rcvd.sent,
           now.cltErr = rcvd.cltErr, SendsBack(chunk, now)
    PROVE  /\ rcvd' \in [buff: Seq(Cell), bytes: 0..ResponseLength, sent: 0..ResponseLength,
                         cltErr: BOOLEAN]
           /\ rcvd'.buff = now.buff /\ rcvd'.bytes = now.bytes
           /\ caller' \in CallerType /\ caller'.told = "none"
           /\ rcvd'.sent <= rcvd'.bytes /\ Len(caller'.got) = rcvd'.sent
           /\ caller'.short = FALSE /\ rcvd'.cltErr = FALSE => rcvd'.sent = rcvd'.bytes
           /\ caller'.short = FALSE /\ caller'.got # <<>> => IsStartOf(caller'.got, Newest)
           /\ faults' = faults \/ Fault
<1>0. /\ rcvd.bytes \in Nat /\ rcvd.sent \in Nat /\ caller.got \in Seq(Cell)
      /\ Len(caller.got) \in Nat /\ Len(chunk) \in Nat /\ Len(chunk) > 0
      /\ ResponseLength \in Nat /\ caller \in CallerType
      /\ rcvd \in [buff: Seq(Cell), bytes: 0..ResponseLength, sent: 0..ResponseLength,
                   cltErr: BOOLEAN]
    <2>1. DestTypeOK
        BY DEF DestInv
    <2>2. Len(chunk) \in Nat \ {0}
        BY EmptySeq
    <2>3. rcvd \in [buff: Seq(Cell), bytes: 0..ResponseLength, sent: 0..ResponseLength,
                    cltErr: BOOLEAN]
        BY <2>1 DEF DestTypeOK
    <2>4. QED BY <2>1, <2>2, <2>3, Sizes, TypeParts, DestAssumption
<1>1. /\ rcvd.sent <= rcvd.bytes /\ Len(caller.got) = rcvd.sent /\ caller.told = "none"
      /\ caller.short = FALSE /\ rcvd.cltErr = FALSE => rcvd.sent = rcvd.bytes
      /\ caller.short = FALSE /\ caller.got # <<>> => IsStartOf(caller.got, Newest)
    BY DEF DestInv, GotInv, ToldInv
<1>2. CASE rcvd.cltErr /\ rcvd' = now /\ UNCHANGED <<caller, faults>>
    <2>1. rcvd.cltErr = TRUE
        BY <1>0, <1>2
    <2>2. now.sent <= now.bytes
        BY <1>0, <1>1
    <2>3. QED BY <1>0, <1>1, <1>2, <2>1, <2>2
<1>3. CASE /\ ~rcvd.cltErr /\ rcvd' = [now EXCEPT !.sent = @ + Len(chunk)]
           /\ caller' = [caller EXCEPT !.got = @ \o chunk] /\ UNCHANGED faults
    <2>1. /\ caller.got \o chunk \in Seq(Cell)
          /\ Len(caller.got \o chunk) = Len(caller.got) + Len(chunk)
          /\ \A i \in 1..(Len(caller.got) + Len(chunk)): (caller.got \o chunk)[i] =
                IF i <= Len(caller.got) THEN caller.got[i] ELSE chunk[i - Len(caller.got)]
        BY <1>0, ConcatProperties
    <2>2. now.sent + Len(chunk) \in 0..ResponseLength /\ now.sent + Len(chunk) <= now.bytes
        BY <1>0, <1>1
    <2>3. /\ rcvd' \in [buff: Seq(Cell), bytes: 0..ResponseLength, sent: 0..ResponseLength,
                        cltErr: BOOLEAN]
          /\ rcvd'.buff = now.buff /\ rcvd'.bytes = now.bytes
          /\ rcvd'.sent = rcvd.sent + Len(chunk) /\ rcvd'.cltErr = rcvd.cltErr
        BY <1>3, <2>2
    <2>4. /\ caller' \in CallerType /\ caller'.told = "none" /\ caller'.short = caller.short
          /\ caller'.got = caller.got \o chunk
        BY <1>0, <1>1, <1>3, <2>1 DEF CallerType
    <2>5. rcvd'.cltErr = FALSE /\ rcvd.cltErr = FALSE
        BY <1>0, <1>3, <2>3
    <2>6. caller'.short = FALSE => rcvd'.sent = rcvd'.bytes
        BY <1>0, <1>1, <2>3, <2>4, <2>5
    <2>7. ASSUME caller'.short = FALSE PROVE IsStartOf(caller'.got, Newest)
        <3>1. Len(caller.got) = rcvd.bytes
            BY <1>0, <1>1, <2>4, <2>5, <2>7
        <3>2. ASSUME NEW i \in 1..(Len(caller.got) + Len(chunk))
              PROVE  (caller.got \o chunk)[i] = [exec |-> Newest, k |-> i]
            <4>1. CASE i <= Len(caller.got)
                <5>1. i \in 1..Len(caller.got) /\ caller.got # <<>>
                    BY <1>0, <4>1, EmptySeq
                <5>2. i \in DOMAIN caller.got
                    BY <1>0, <5>1, LenProperties
                <5>3. QED BY <1>1, <2>1, <2>4, <2>7, <4>1, <5>1, <5>2 DEF IsStartOf
            <4>2. CASE ~(i <= Len(caller.got))
                <5>1. /\ i - Len(caller.got) \in 1..Len(chunk)
                      /\ rcvd.bytes + (i - Len(caller.got)) = i
                    BY <1>0, <3>1, <4>2
                <5>2. QED BY <2>1, <4>2, <5>1
            <4>3. QED BY <4>1, <4>2
        <3>3. DOMAIN caller'.got = 1..(Len(caller.got) + Len(chunk))
            BY <2>1, <2>4, LenProperties
        <3>4. QED BY <2>4, <3>2, <3>3 DEF IsStartOf
    <2>8. rcvd'.sent <= rcvd'.bytes /\ Len(caller'.got) = rcvd'.sent
        BY <1>0, <1>1, <2>1, <2>2, <2>3, <2>4
    <2>9. QED BY <1>3, <2>3, <2>4, <2>6, <2>7, <2>8
<1>4. CASE /\ ~rcvd.cltErr /\ rcvd' = [now EXCEPT !.sent = @ + Len(chunk) - 1]
           /\ caller' = [caller EXCEPT !.got = @ \o Front(chunk), !.short = TRUE]
           /\ Len(chunk) > 1 /\ Fault
    <2>1. Front(chunk) \in Seq(Cell) /\ Len(Front(chunk)) = Len(chunk) - 1
        <3>1. Front(chunk) = SubSeq(chunk, 1, Len(chunk) - 1)
            BY DEF Front
        <3>2. \A i \in 1..(Len(chunk) - 1): chunk[i] \in Cell
            BY <1>0, ElementOfSeq
        <3>3. 1 \in Int /\ Len(chunk) - 1 \in Int /\ 1 <= Len(chunk) - 1
              /\ (Len(chunk) - 1) - 1 + 1 = Len(chunk) - 1
            BY <1>0, <1>4
        <3>4. QED BY <3>1, <3>2, <3>3, SubSeqProperties
    <2>2. /\ caller.got \o Front(chunk) \in Seq(Cell)
          /\ Len(caller.got \o Front(chunk)) = Len(caller.got) + (Len(chunk) - 1)
        <3>1. /\ caller.got \o Front(chunk) \in Seq(Cell)
              /\ Len(caller.got \o Front(chunk)) = Len(caller.got) + Len(Front(chunk))
            <4>1. ASSUME NEW t \in Seq(Cell)
                  PROVE  /\ caller.got \o t \in Seq(Cell)
                         /\ Len(caller.got \o t) = Len(caller.got) + Len(t)
                BY <1>0, ConcatProperties
            <4>2. QED BY <2>1, <4>1
        <3>2. QED BY <2>1, <3>1
    <2>3. /\ now.sent + Len(chunk) - 1 \in 0..ResponseLength
          /\ now.sent + Len(chunk) - 1 <= now.bytes
          /\ now.sent + Len(chunk) - 1 = Len(caller.got) + (Len(chunk) - 1)
        BY <1>0, <1>1, <1>4
    <2>4. /\ rcvd' \in [buff: Seq(Cell), bytes: 0..ResponseLength, sent: 0..ResponseLength,
                        cltErr: BOOLEAN]
          /\ rcvd'.buff = now.buff /\ rcvd'.bytes = now.bytes
          /\ rcvd'.sent = now.sent + Len(chunk) - 1
        BY <1>4, <2>3
    <2>5. caller' = [[caller EXCEPT !.got = @ \o Front(chunk)] EXCEPT !.short = TRUE]
        BY <1>4
    <2>6. /\ caller' \in CallerType /\ caller'.told = "none" /\ caller'.short = TRUE
          /\ caller'.got = caller.got \o Front(chunk)
        BY <1>0, <1>1, <2>2, <2>5 DEF CallerType
    <2>7. QED BY <1>4, <2>2, <2>3, <2>4, <2>6
<1>5. CASE /\ ~rcvd.cltErr /\ rcvd' = [now EXCEPT !.cltErr = TRUE] /\ UNCHANGED caller
           /\ IF caller.there THEN Fault ELSE UNCHANGED faults
    <2>1. /\ rcvd' \in [buff: Seq(Cell), bytes: 0..ResponseLength, sent: 0..ResponseLength,
                        cltErr: BOOLEAN]
          /\ rcvd'.buff = now.buff /\ rcvd'.bytes = now.bytes /\ rcvd'.sent = now.sent
          /\ rcvd'.cltErr = TRUE
        BY <1>5
    <2>2. now.sent <= now.bytes
        BY <1>0, <1>1
    <2>3. QED BY <1>0, <1>1, <1>5, <2>1, <2>2
<1>6. QED BY <1>2, <1>3, <1>4, <1>5 DEF SendsBack

LEMMA ReceivesInv ==
    ASSUME DestInv, Receives
    PROVE  DestInv'
<1>0. /\ DestTypeOK /\ worker.pc = "recv" /\ UNCHANGED <<destConn, execs>>
      /\ Newest' = Newest
    BY DEF DestInv, Receives, Newest
<1>1. PICK n \in 1..Len(server.stream):
         LET chunk == SubSeq(server.stream, 1, n)
             str == rcvd.buff \o chunk
         IN  /\ server' = [server EXCEPT !.stream = SubSeq(@, n + 1, Len(@))]
             /\ worker' = IF EotIn(str)
                          THEN [worker EXCEPT !.pc = "received", !.status = StatusIn(str)]
                          ELSE worker
             /\ SendsBack(chunk, [rcvd EXCEPT !.buff = KeptOf(str), !.bytes = @ + n])
    BY DEF Receives
<1> DEFINE chunk == SubSeq(server.stream, 1, n)
           rest == SubSeq(server.stream, n + 1, Len(server.stream))
           total == rcvd.bytes + n
           str == rcvd.buff \o chunk
           now == [rcvd EXCEPT !.buff = KeptOf(str), !.bytes = @ + n]
<1>2. /\ total \in 1..ResponseLength
      /\ EndOf(str, total, Newest)
      /\ chunk \in Seq(Cell) /\ Len(chunk) = n
      /\ \A i \in 1..n: chunk[i] = [exec |-> Newest, k |-> rcvd.bytes + i]
      /\ rest \in Seq(Cell) /\ Len(rest) = Len(server.stream) - n
      /\ \A i \in 1..Len(rest): rest[i] = [exec |-> Newest, k |-> total + i]
    BY <1>0, Arrives
<1>3. /\ rcvd.bytes \in Nat /\ n \in Nat /\ n > 0 /\ ResponseLength \in Nat /\ Newest \in Nat
      /\ Len(server.stream) \in Nat /\ n <= Len(server.stream) /\ Window \in Nat
      /\ server.sent \in Nat
    BY <1>0, Sizes, DestAssumption DEF Newest
<1>4. Newest > 0 /\ execs[Newest].call = worker.call
    <2>1. rcvd.bytes + Len(server.stream) > 0
        BY <1>3
    <2>2. QED BY <2>1 DEF DestInv, StreamInv
<1>5. /\ KeptOf(str) \in Seq(Cell) /\ Len(KeptOf(str)) <= total
      /\ Len(KeptOf(str)) = total \/ Len(KeptOf(str)) >= Window
      /\ \A i \in 1..Len(KeptOf(str)):
            KeptOf(str)[i] = [exec |-> Newest, k |-> total - Len(KeptOf(str)) + i]
    BY <1>2, <1>3, EnoughKept
<1>6. /\ now \in [buff: Seq(Cell), bytes: 0..ResponseLength, sent: 0..ResponseLength,
                  cltErr: BOOLEAN]
      /\ now.buff = KeptOf(str) /\ now.bytes = total /\ now.sent = rcvd.sent
      /\ now.cltErr = rcvd.cltErr
    <2>1. rcvd \in [buff: Seq(Cell), bytes: 0..ResponseLength, sent: 0..ResponseLength,
                    cltErr: BOOLEAN]
        BY <1>0 DEF DestTypeOK
    <2>2. total \in 0..ResponseLength
        BY <1>2, <1>3
    <2>3. QED BY <1>5, <2>1, <2>2
<1>7. SendsBack(chunk, now)
    BY <1>1
<1>8. /\ rcvd' \in [buff: Seq(Cell), bytes: 0..ResponseLength, sent: 0..ResponseLength,
                    cltErr: BOOLEAN]
      /\ rcvd'.buff = KeptOf(str) /\ rcvd'.bytes = total
      /\ caller' \in CallerType /\ caller'.told = "none"
      /\ rcvd'.sent <= rcvd'.bytes /\ Len(caller'.got) = rcvd'.sent
      /\ caller'.short = FALSE /\ rcvd'.cltErr = FALSE => rcvd'.sent = rcvd'.bytes
      /\ caller'.short = FALSE /\ caller'.got # <<>> => IsStartOf(caller'.got, Newest)
      /\ faults' = faults \/ Fault
    <2>1. chunk # <<>>
        BY <1>2, <1>3, EmptySeq, SMTT(40)
    <2>2. rcvd.bytes + Len(chunk) <= ResponseLength /\ now.bytes = rcvd.bytes + Len(chunk)
        BY <1>2, <1>3, <1>6
    <2>3. \A i \in 1..Len(chunk): chunk[i] = [exec |-> Newest, k |-> rcvd.bytes + i]
        BY <1>2
    <2>4. chunk \in Seq(Cell)
        BY <1>2
    <2> HIDE DEF chunk, now
    <2>5. QED BY <1>0, <1>6, <1>7, <2>1, <2>2, <2>3, <2>4, SentBack
<1>9. EotIn(str) <=> total = ResponseLength
    BY <1>2, <1>3, EotFound
<1>10. /\ worker' \in WorkerType /\ SameCall /\ worker'.err = worker.err
       /\ total = ResponseLength => /\ worker'.pc = "received"
                                    /\ worker'.status = execs[Newest].status
       /\ total # ResponseLength => worker' = worker
    <2>1. worker \in WorkerType
        BY <1>0, TypeParts
    <2>2. CASE total = ResponseLength
        <3>1. StatusIn(str) = execs[Newest].status
            BY <1>2, <1>3, <2>2, StatusFound
        <3>2. execs[Newest] \in [call: 1..MaxForwards, status: AnswerStatuses]
            <4>1. execs \in Seq([call: 1..MaxForwards, status: AnswerStatuses])
                  /\ Newest \in 1..Len(execs)
                BY <1>0, <1>3, <1>4, Sizes DEF Newest
            <4>2. QED BY <4>1, ElementOfSeq
        <3>3. StatusIn(str) \in CallStatuses
            BY <3>1, <3>2 DEF CallStatuses
        <3>4. worker' = [worker EXCEPT !.pc = "received", !.status = StatusIn(str)]
            BY <1>1, <1>9, <2>2
        <3>5. QED BY <2>1, <2>2, <3>1, <3>3, <3>4 DEF WorkerType, SameCall, Points
    <2>3. CASE total # ResponseLength
        <3>1. worker' = worker
            BY <1>1, <1>9, <2>3
        <3>2. QED BY <2>1, <2>3, <3>1 DEF SameCall
    <2>4. QED BY <2>2, <2>3
<1>11. /\ server' \in ServerType /\ server'.stream = rest /\ server'.open = server.open
       /\ server'.call = server.call /\ server'.exec = server.exec
       /\ server'.sent = server.sent
    <2>1. server \in ServerType
        BY <1>0, TypeParts
    <2>2. QED BY <1>1, <1>2, <2>1 DEF ServerType
<1>12. DestTypeOK'
    <2>1. faults' \in 0..MaxFaults
        <3>1. faults \in 0..MaxFaults /\ MaxFaults \in Nat
            BY <1>0, DestAssumption DEF DestTypeOK
        <3>2. QED BY <1>8, <3>1 DEF Fault
    <2>2. destConn \in ConnType
        BY <1>0, TypeParts
    <2>3. QED BY <1>0, <1>8, <1>10, <1>11, <2>1, <2>2
          DEF DestTypeOK, ConnType, ServerType, WorkerType, CallerType, Points, CallStatuses
<1>13. server.call = 0
    <2>1. server.stream # <<>>
        BY <1>3, EmptySeq
    <2>2. QED BY <2>1 DEF DestInv, ServerInv
<1>14. total + Len(rest) = rcvd.bytes + Len(server.stream)
    <2>1. Len(rest) = Len(server.stream) - n
        BY <1>2
    <2> HIDE DEF rest
    <2>2. QED BY <1>3, <2>1
<1>15. destConn = LoggedIn
    BY <1>0 DEF DestInv, ConnInv
<1>16. total = ResponseLength => server.exec = 0 /\ rest = <<>>
    <2>1. SUFFICES ASSUME total = ResponseLength
                   PROVE  server.exec = 0 /\ rest = <<>>
        OBVIOUS
    <2>2. rcvd.bytes + Len(server.stream) <= ResponseLength
        BY DEF DestInv, StreamInv
    <2>3. Len(rest) = 0 /\ rcvd.bytes + Len(server.stream) = ResponseLength
        BY <1>2, <1>3, <1>14, <2>1, <2>2
    <2>4. rest = <<>>
        BY <1>2, <2>3, EmptySeq
    <2>5. server.exec # 0 => server.sent = ResponseLength /\ server.sent < ResponseLength
        BY <2>3 DEF DestInv, ServerInv
    <2>6. QED BY <1>3, <2>4, <2>5
<1>17. ConnInv'
    <2>1. CASE total = ResponseLength
        BY <1>0, <1>10, <1>11, <1>13, <1>15, <1>16, <2>1 DEF ConnInv, Quiet, LoggedIn
    <2>2. CASE total # ResponseLength
        BY <1>0, <1>10, <1>15, <2>2 DEF ConnInv, LoggedIn
    <2>3. QED BY <2>1, <2>2
<1>18. ServerInv'
    BY <1>0, <1>8, <1>11, <1>13, <1>14 DEF DestInv, ServerInv
<1>19. StreamInv'
    <2>1. /\ rcvd'.bytes + Len(server'.stream) <= ResponseLength
          /\ Newest' > 0 /\ execs'[Newest'].call = worker'.call
        BY <1>0, <1>4, <1>8, <1>10, <1>11, <1>14 DEF DestInv, StreamInv, SameCall
    <2>2. \A i \in 1..Len(server'.stream):
             server'.stream[i] = [exec |-> Newest', k |-> rcvd'.bytes + i]
        BY <1>0, <1>2, <1>8, <1>11
    <2>3. /\ Len(rcvd'.buff) <= rcvd'.bytes
          /\ Len(rcvd'.buff) = rcvd'.bytes \/ Len(rcvd'.buff) >= Window
          /\ \A i \in 1..Len(rcvd'.buff):
                rcvd'.buff[i] = [exec |-> Newest', k |-> rcvd'.bytes - Len(rcvd'.buff) + i]
        BY <1>0, <1>5, <1>8
    <2>4. /\ worker'.pc \notin {"idle", "verify", "send"}
          /\ worker'.pc = "recv" => rcvd'.bytes < ResponseLength
          /\ worker'.pc = "received" => /\ rcvd'.bytes = ResponseLength
                                        /\ worker'.status = execs'[Newest'].status
        BY <1>0, <1>2, <1>3, <1>8, <1>10
    <2>5. QED BY <2>1, <2>2, <2>3, <2>4 DEF StreamInv
<1>20. GotInv'
    BY <1>0, <1>4, <1>8, <1>10, <1>11, <1>13 DEF GotInv, SameCall
<1>21. ToldInv'
    BY <1>0, <1>8, <1>10, <1>11, <1>13 DEF ToldInv, GetsAllOrAnError
<1>22. ExecInv' /\ LengthInv'
    <2>1. worker'.pc \in {"recv", "received"}
        BY <1>0, <1>10
    <2>2. QED BY <1>0, <1>8, <1>10, <1>11, <2>1, ExecStays DEF SameCall
<1>23. QED BY <1>12, <1>17, <1>18, <1>19, <1>20, <1>21, <1>22 DEF DestInv

-----------------------------------------------------------------------------
(* The destination and the client *)

\* While something is under way the connection is not free.
LEMMA UnderWay ==
    ASSUME DestInv, ~Quiet
    PROVE  /\ worker.pc \in {"recv", "received", "release"}
           /\ worker.pc = "received" => worker.err # FALSE
           /\ worker.pc = "release" => worker.status \notin {"ok", "refused"}
           /\ destConn.up # FALSE
<1>1. worker.pc \in Points
    BY TypeParts DEF DestInv, WorkerType
<1>2. server # NoServer
    BY DEF Quiet, NoServer
<1>3. QED BY <1>1, <1>2 DEF DestInv, ConnInv, Points

LEMMA ServerExecutesInv ==
    ASSUME DestInv, ServerExecutes
    PROVE  DestInv'
<1>0. /\ DestTypeOK /\ server.call # 0 /\ ~Quiet
      /\ UNCHANGED <<destConn, worker, rcvd, caller, faults>>
    BY DEF DestInv, ServerExecutes, Quiet
<1>1. PICK s \in AnswerStatuses: execs' = Append(execs, [call |-> server.call, status |-> s])
    BY DEF ServerExecutes
<1>2. /\ server.call = worker.call /\ server.exec = 0 /\ server.stream = <<>> /\ rcvd.bytes = 0
      /\ server.open # FALSE /\ Unsent
    BY <1>0 DEF DestInv, ServerInv, Unsent
<1>3. /\ worker.call \in 1..MaxForwards /\ MaxForwards \in Nat /\ ResponseLength \in Nat
      /\ ResponseLength > 0 /\ worker.retry \in 0..1 /\ Len(execs) \in Nat
      /\ DOMAIN execs = 1..Len(execs) /\ Len(rcvd.buff) \in Nat /\ rcvd.sent \in Nat
      /\ execs \in Seq([call: 1..MaxForwards, status: AnswerStatuses])
    BY <1>0, <1>2, Sizes, DestAssumption
<1>4. /\ execs' \in Seq([call: 1..MaxForwards, status: AnswerStatuses])
      /\ Len(execs') = Len(execs) + 1
      /\ \A i \in 1..Len(execs): execs'[i] = execs[i]
      /\ execs'[Len(execs) + 1] = [call |-> worker.call, status |-> s]
    <2>1. [call |-> worker.call, status |-> s] \in [call: 1..MaxForwards, status: AnswerStatuses]
        BY <1>3
    <2>2. QED BY <1>1, <1>2, <1>3, <2>1, AppendProperties
<1>5. Len(execs) <= 2 * worker.call - 2 + worker.retry
    BY <1>2 DEF DestInv, LengthInv
<1>6. /\ server' \in ServerType /\ server'.stream = <<>> /\ server'.call = 0
      /\ server'.exec = Newest' /\ server'.sent = 0 /\ server'.open = server.open
      /\ Len(server'.stream) = 0
    <2>1. server \in ServerType /\ Len(execs) + 1 \in 0..2 * MaxForwards
          /\ 0 \in 0..MaxForwards /\ 0 \in 0..ResponseLength
        BY <1>0, <1>3, <1>5, TypeParts, SMTT(40)
    <2>2. server' = [server EXCEPT !.call = 0, !.exec = Len(execs) + 1, !.sent = 0]
        BY DEF ServerExecutes
    <2>3. server' \in ServerType
        BY <2>1, <2>2 DEF ServerType
    <2>4. QED BY <1>2, <1>4, <2>1, <2>2, <2>3 DEF ServerType, Newest
<1>7. DestTypeOK'
    <2>1. destConn \in ConnType /\ worker \in WorkerType /\ caller \in CallerType
        BY <1>0, TypeParts
    <2>2. rcvd \in [buff: Seq(Cell), bytes: 0..ResponseLength, sent: 0..ResponseLength,
                    cltErr: BOOLEAN]
          /\ faults \in 0..MaxFaults
        BY <1>0 DEF DestTypeOK
    <2>3. /\ destConn' \in ConnType /\ worker' \in WorkerType /\ caller' \in CallerType
          /\ rcvd' \in [buff: Seq(Cell), bytes: 0..ResponseLength, sent: 0..ResponseLength,
                       cltErr: BOOLEAN]
          /\ faults' \in 0..MaxFaults
        BY <1>0, <2>1, <2>2
    <2>4. QED BY <1>4, <1>6, <2>3, TypeMade
<1>8. ConnInv'
    BY <1>0, UnderWay DEF DestInv, ConnInv
<1>9. ServerInv'
    <2>1. server'.call = 0 /\ server'.open # FALSE /\ rcvd'.bytes = 0
        BY <1>0, <1>2, <1>6
    <2>2. server'.sent = rcvd'.bytes + Len(server'.stream)
        BY <1>6, <2>1
    <2>3. server'.sent < ResponseLength
        BY <1>3, <1>6
    <2>4. QED BY <1>6, <2>1, <2>2, <2>3 DEF ServerInv
<1>10. StreamInv'
    <2>1. Len(rcvd.buff) = 0
        BY <1>2, <1>3 DEF DestInv, StreamInv
    <2>2. Newest' > 0 /\ execs'[Newest'].call = worker.call
        BY <1>3, <1>4 DEF Newest
    <2>3. rcvd' = rcvd /\ worker' = worker /\ rcvd.bytes + Len(server'.stream) = 0
        BY <1>0, <1>2, <1>6
    <2>4. worker.pc \in {"recv", "received", "release"}
          /\ (worker.pc = "received" => worker.err # FALSE)
        BY <1>0, UnderWay
    <2>5. 1..Len(server'.stream) = {} /\ 1..Len(rcvd'.buff) = {}
        BY <1>6, <2>1, <2>3
    <2>6. /\ rcvd'.bytes + Len(server'.stream) <= ResponseLength
          /\ Len(rcvd'.buff) <= rcvd'.bytes /\ Len(rcvd'.buff) = rcvd'.bytes
          /\ rcvd'.bytes = 0 /\ rcvd'.bytes < ResponseLength
        BY <1>2, <1>3, <2>1, <2>3
    <2>7. Newest' > 0 /\ execs'[Newest'].call = worker'.call
        BY <2>2, <2>3
    <2>8. ~(worker'.pc = "received" /\ worker'.err = FALSE)
        BY <2>3, <2>4
    <2>9. QED BY <2>5, <2>6, <2>7, <2>8 DEF StreamInv
<1>11. caller.got = <<>> /\ caller.told # "unavailable"
    BY <1>0 DEF DestInv, GotInv, ToldInv
<1>12. GotInv'
    BY <1>0, <1>11 DEF DestInv, GotInv
<1>13. ToldInv'
    <2>1. Len(<<>>) = 0
        BY EmptySeq
    <2>2. GetsAllOrAnError'
        BY <1>0, <1>3, <1>11, <2>1 DEF DestInv, ToldInv, GetsAllOrAnError
    <2>3. QED BY <1>0, <1>11, <2>2 DEF DestInv, ToldInv
<1>14. Executions' = Executions \cup {Len(execs) + 1}
    <2>1. DOMAIN execs' = 1..(Len(execs) + 1)
        BY <1>4, LenProperties
    <2>2. \A d: d \in 1..(Len(execs) + 1) <=> d \in 1..Len(execs) \/ d = Len(execs) + 1
        BY <1>3
    <2>3. \A d \in 1..Len(execs): execs'[d].call = execs[d].call
        BY <1>4
    <2>4. execs'[Len(execs) + 1].call = worker.call
        BY <1>4
    <2>5. QED BY <1>0, <1>3, <2>1, <2>2, <2>3, <2>4 DEF Executions
<1>15. Cardinality(Executions') <= 1 + worker.retry
    <2>1. IsFiniteSet(Executions) /\ Cardinality(Executions) \in Nat
          /\ Len(execs) + 1 \notin Executions
        BY <1>0, <1>3, FewExecutions
    <2>2. Cardinality(Executions') = Cardinality(Executions) + 1
        BY <1>14, <2>1, FS_AddElement
    <2>3. Cardinality(Executions) <= worker.retry
        BY <1>2 DEF DestInv, ExecInv
    <2>4. QED BY <1>3, <2>1, <2>2, <2>3
<1>16. ~Unsent'
    BY <1>0, <1>6, UnderWay DEF Unsent
<1>17. ExecInv'
    <2>1. \A d \in DOMAIN execs': execs'[d].call <= worker.call
        <3>1. ASSUME NEW d \in 1..(Len(execs) + 1) PROVE execs'[d].call <= worker.call
            <4>1. CASE d = Len(execs) + 1
                BY <1>3, <1>4, <4>1
            <4>2. CASE d \in 1..Len(execs)
                BY <1>3, <1>4, <4>2 DEF DestInv, ExecInv
            <4>3. QED BY <1>3, <4>1, <4>2
        <3>2. DOMAIN execs' = 1..(Len(execs) + 1)
            BY <1>4, LenProperties
        <3>3. QED BY <3>1, <3>2
    <2>2. QED BY <1>0, <1>11, <1>15, <1>16, <2>1 DEF ExecInv
<1>18. LengthInv'
    <2>1. Len(execs) + 1 <= 2 * worker.call - 1 + worker.retry /\ worker.call # 0
          /\ worker.call > 0
        BY <1>3, <1>5
    <2>2. QED BY <1>0, <1>4, <1>16, <2>1 DEF LengthInv
<1>19. QED BY <1>7, <1>8, <1>9, <1>10, <1>12, <1>13, <1>17, <1>18 DEF DestInv

LEMMA ServerAnswersInv ==
    ASSUME DestInv, ServerAnswers
    PROVE  DestInv'
<1>0. /\ DestTypeOK /\ server.exec # 0 /\ ~Quiet
      /\ UNCHANGED <<destConn, worker, rcvd, caller, execs, faults>> /\ Newest' = Newest
    BY DEF DestInv, ServerAnswers, Quiet, Newest
<1>1. PICK n \in (server.sent + 1)..ResponseLength:
         server' = [server EXCEPT
                      !.stream = @ \o [i \in 1..(n - server.sent) |->
                                          [exec |-> server.exec, k |-> server.sent + i]],
                      !.sent = n, !.exec = IF n = ResponseLength THEN 0 ELSE @]
    BY DEF ServerAnswers
<1> DEFINE cells == [i \in 1..(n - server.sent) |->
                       [exec |-> server.exec, k |-> server.sent + i]]
<1>2. /\ server.exec = Newest /\ server.sent = rcvd.bytes + Len(server.stream)
      /\ server.sent < ResponseLength /\ server.open # FALSE /\ server.call = 0
      /\ Newest > 0 /\ execs[Newest].call = worker.call
    BY <1>0 DEF DestInv, ServerInv, StreamInv
<1>3. /\ server \in ServerType /\ server.sent \in Nat /\ ResponseLength \in Nat /\ n \in Nat
      /\ rcvd.bytes \in Nat /\ server.stream \in Seq(Cell) /\ Len(server.stream) \in Nat
      /\ server.exec \in 1..2 * MaxForwards /\ n > server.sent /\ n <= ResponseLength
    <2>1. server \in ServerType /\ MaxForwards \in Nat /\ ResponseLength \in Nat
        BY <1>0, TypeParts, DestAssumption
    <2>2. server.exec \in 0..2 * MaxForwards
        BY <2>1 DEF ServerType
    <2>3. server.sent \in Nat /\ rcvd.bytes \in Nat /\ server.stream \in Seq(Cell)
          /\ Len(server.stream) \in Nat
        BY <1>0, Sizes
    <2>4. QED BY <1>0, <2>1, <2>2, <2>3
<1>4. /\ cells \in Seq(Cell) /\ Len(cells) = n - server.sent
      /\ \A i \in 1..(n - server.sent): cells[i] = [exec |-> Newest, k |-> server.sent + i]
    <2>1. n - server.sent \in Nat
        BY <1>3
    <2>2. \A i \in 1..(n - server.sent): [exec |-> server.exec, k |-> server.sent + i] \in Cell
        BY <1>3 DEF Cell
    <2>3. cells \in [1..(n - server.sent) -> Cell]
        BY <2>2
    <2>4. cells \in Seq(Cell)
        <3>1. Seq(Cell) = UNION {[1..m -> Cell]: m \in Nat}
            BY SeqDef
        <3> HIDE DEF cells
        <3>2. QED BY <2>1, <2>3, <3>1
    <2>5. Len(cells) = n - server.sent
        BY <2>1, <2>3, <2>4, LenProperties
    <2>6. QED BY <1>2, <2>4, <2>5
<1>5. /\ server.stream \o cells \in Seq(Cell)
      /\ Len(server.stream \o cells) = Len(server.stream) + (n - server.sent)
      /\ \A i \in 1..(Len(server.stream) + (n - server.sent)):
            (server.stream \o cells)[i] = IF i <= Len(server.stream) THEN server.stream[i]
                                          ELSE cells[i - Len(server.stream)]
    <2>1. ASSUME NEW t \in Seq(Cell)
          PROVE  /\ server.stream \o t \in Seq(Cell)
                 /\ Len(server.stream \o t) = Len(server.stream) + Len(t)
                 /\ \A i \in 1..(Len(server.stream) + Len(t)): (server.stream \o t)[i] =
                       IF i <= Len(server.stream) THEN server.stream[i]
                       ELSE t[i - Len(server.stream)]
        BY <1>3, ConcatProperties
    <2> HIDE DEF cells
    <2>2. QED BY <1>4, <2>1
<1>6. /\ server' \in ServerType /\ server'.stream = server.stream \o cells
      /\ server'.call = server.call /\ server'.open = server.open /\ server'.sent = n
      /\ server'.exec = IF n = ResponseLength THEN 0 ELSE server.exec
    <2>1. n \in 0..ResponseLength
          /\ (IF n = ResponseLength THEN 0 ELSE server.exec) \in 0..2 * MaxForwards
        BY <1>3, DestAssumption
    <2>2. server' = [server EXCEPT !.stream = server.stream \o cells, !.sent = n,
                        !.exec = IF n = ResponseLength THEN 0 ELSE server.exec]
        BY <1>1
    <2> HIDE DEF cells
    <2>3. QED BY <1>3, <1>5, <2>1, <2>2 DEF ServerType
<1>7. rcvd.bytes + Len(server'.stream) = n
    <2> HIDE DEF cells
    <2>1. Len(server'.stream) = Len(server.stream) + (n - server.sent)
        BY <1>5, <1>6
    <2>2. QED BY <1>2, <1>3, <2>1, SMTT(40)
<1>8. ASSUME NEW i \in 1..Len(server'.stream)
      PROVE  server'.stream[i] = [exec |-> Newest, k |-> rcvd.bytes + i]
    <2> HIDE DEF cells
    <2>0. i \in 1..(Len(server.stream) + (n - server.sent))
        BY <1>5, <1>6
    <2>1. CASE i <= Len(server.stream)
        <3>1. i \in 1..Len(server.stream)
            BY <1>3, <2>0, <2>1
        <3>2. QED BY <1>5, <1>6, <2>0, <2>1, <3>1 DEF DestInv, StreamInv
    <2>2. CASE ~(i <= Len(server.stream))
        <3>1. /\ i \in Nat /\ Len(server.stream) \in Nat /\ n \in Nat /\ server.sent \in Nat
              /\ rcvd.bytes \in Nat /\ i <= Len(server.stream) + (n - server.sent)
              /\ i > Len(server.stream)
            <4>1. i \in Nat
                BY <1>3, <2>0
            <4>2. QED BY <1>3, <2>0, <2>2, <4>1
        <3>2. i - Len(server.stream) \in 1..(n - server.sent)
            BY <3>1
        <3>3. server.sent + (i - Len(server.stream)) = rcvd.bytes + i
            BY <1>2, <3>1
        <3>4. server'.stream[i] = cells[i - Len(server.stream)]
            BY <1>5, <1>6, <2>0, <2>2
        <3>5. QED BY <1>4, <3>2, <3>3, <3>4
    <2>3. QED BY <2>1, <2>2
<1>9. DestTypeOK'
    <2>1. destConn \in ConnType /\ worker \in WorkerType /\ caller \in CallerType
        BY <1>0, TypeParts
    <2>2. rcvd \in [buff: Seq(Cell), bytes: 0..ResponseLength, sent: 0..ResponseLength,
                    cltErr: BOOLEAN]
          /\ faults \in 0..MaxFaults
          /\ execs \in Seq([call: 1..MaxForwards, status: AnswerStatuses])
        BY <1>0 DEF DestTypeOK
    <2>3. /\ destConn' \in ConnType /\ worker' \in WorkerType /\ caller' \in CallerType
          /\ rcvd' \in [buff: Seq(Cell), bytes: 0..ResponseLength, sent: 0..ResponseLength,
                       cltErr: BOOLEAN]
          /\ faults' \in 0..MaxFaults
          /\ execs' \in Seq([call: 1..MaxForwards, status: AnswerStatuses])
        BY <1>0, <2>1, <2>2
    <2>4. QED BY <1>6, <2>3, TypeMade
<1>10. ConnInv'
    BY <1>0, UnderWay DEF DestInv, ConnInv
<1>11. ServerInv'
    <2>1. server'.call = 0 /\ server'.open # FALSE /\ rcvd' = rcvd /\ server'.sent = n
        BY <1>0, <1>2, <1>6
    <2>2. server'.exec # 0 => server'.exec = Newest /\ n < ResponseLength
        BY <1>2, <1>3, <1>6
    <2>3. QED BY <1>0, <1>7, <2>1, <2>2 DEF ServerInv
<1>12. StreamInv'
    <2>1. rcvd.bytes + Len(server'.stream) <= ResponseLength
        BY <1>3, <1>7
    <2>2. QED BY <1>0, <1>2, <1>8, <2>1 DEF DestInv, StreamInv
<1>13. GotInv' /\ ToldInv'
    BY <1>0, <1>6 DEF DestInv, GotInv, ToldInv, GetsAllOrAnError
<1>14. ExecInv' /\ LengthInv'
    BY <1>0, <1>6, UnderWay, ExecStays
<1>15. QED BY <1>9, <1>10, <1>11, <1>12, <1>13, <1>14 DEF DestInv

LEMMA ServerLeavesInv ==
    ASSUME DestInv, ServerLeaves
    PROVE  DestInv'
<1>0. /\ DestTypeOK /\ Fault /\ server.open
      /\ UNCHANGED <<destConn, worker, rcvd, caller, execs>> /\ Newest' = Newest
    BY DEF DestInv, ServerLeaves, Newest
<1>1. server \in ServerType /\ 0 \in 0..MaxForwards /\ 0 \in 0..2 * MaxForwards
    BY <1>0, TypeParts, DestAssumption
<1>2. /\ server' \in ServerType /\ server'.stream = server.stream /\ server'.call = 0
      /\ server'.exec = 0 /\ server'.open = FALSE
    BY <1>1 DEF ServerLeaves, ServerType
<1>3. DestTypeOK'
    BY <1>0, <1>2, TypeStays, TypeParts
<1>4. destConn.up # FALSE
    <2>1. server # NoServer
        BY <1>0 DEF NoServer
    <2>2. QED BY <2>1 DEF DestInv, ConnInv
<1>5. ConnInv'
    BY <1>0, <1>2, <1>4 DEF DestInv, ConnInv, Quiet
<1>6. ServerInv'
    BY <1>2 DEF ServerInv
<1>7. StreamInv'
    BY <1>0, <1>2 DEF DestInv, StreamInv
<1>8. GotInv' /\ ToldInv'
    BY <1>0, <1>2 DEF DestInv, GotInv, ToldInv, GetsAllOrAnError
<1>9. Executions' = Executions /\ (Unsent' => Unsent)
    BY <1>0, <1>2 DEF Executions, Unsent
<1>10. ExecInv' /\ LengthInv'
    BY <1>0, <1>9 DEF DestInv, ExecInv, LengthInv
<1>11. QED BY <1>3, <1>5, <1>6, <1>7, <1>8, <1>10 DEF DestInv

LEMMA CallerLeavesInv ==
    ASSUME DestInv, CallerLeaves
    PROVE  DestInv'
<1>0. /\ DestTypeOK /\ worker.pc # "idle"
      /\ UNCHANGED <<destConn, server, worker, rcvd, execs, faults>> /\ Newest' = Newest
    BY DEF DestInv, CallerLeaves, Newest
<1>1. /\ caller' \in CallerType /\ caller'.there = FALSE /\ caller'.got = caller.got
      /\ caller'.short = caller.short /\ caller'.told = caller.told
    BY <1>0, TypeParts DEF CallerLeaves, CallerType
<1>2. DestTypeOK'
    BY <1>0, <1>1, TypeStays, TypeParts
<1>3. ConnInv' /\ ServerInv' /\ StreamInv'
    BY <1>0 DEF DestInv, ConnInv, ServerInv, StreamInv, Quiet
<1>4. GotInv'
    BY <1>0, <1>1 DEF DestInv, GotInv, IsStartOf
<1>5. ToldInv'
    BY <1>0, <1>1 DEF DestInv, ToldInv, GetsAllOrAnError
<1>6. ExecInv' /\ LengthInv'
    BY <1>0, <1>1, ExecStays
<1>7. QED BY <1>2, <1>3, <1>4, <1>5, <1>6 DEF DestInv

-----------------------------------------------------------------------------
(* The theorem *)

LEMMA InitInv ==
    ASSUME DestInit
    PROVE  DestInv
<1>1. /\ worker.pc = "idle" /\ worker.call = 0 /\ worker.retry = 0 /\ worker.err = FALSE
      /\ server = NoServer /\ server.stream = <<>> /\ server.call = 0 /\ server.exec = 0
      /\ destConn.up = FALSE
      /\ rcvd = NothingRcvd /\ rcvd.bytes = 0 /\ rcvd.sent = 0 /\ rcvd.buff = <<>>
      /\ caller.got = <<>> /\ caller.told = "none" /\ caller.there = FALSE
      /\ execs = <<>> /\ faults = MaxFaults
    BY DEF DestInit, NoServer, NothingRcvd
<1>2. /\ 0 \in 0..ResponseLength /\ 0 \in 0..MaxForwards /\ 0 \in 0..2 * MaxForwards
      /\ MaxFaults \in 0..MaxFaults /\ ResponseLength \in Nat /\ ResponseLength > 0
    BY DestAssumption
<1>3. /\ <<>> \in Seq(Cell) /\ Len(<<>>) = 0
      /\ <<>> \in Seq([call: 1..MaxForwards, status: AnswerStatuses])
    BY EmptySeq
<1>4. DOMAIN execs = {}
    <2>1. DOMAIN execs = 1..0
        BY <1>1, <1>3, LenProperties
    <2>2. QED BY <2>1
<1>5. DestTypeOK
    <2>1. rcvd \in [buff: Seq(Cell), bytes: 0..ResponseLength, sent: 0..ResponseLength,
                    cltErr: BOOLEAN]
        BY <1>1, <1>2, <1>3 DEF NothingRcvd
    <2>2. caller \in CallerType
        BY <1>3 DEF DestInit, CallerType
    <2>3. worker \in WorkerType
        BY <1>2 DEF DestInit, WorkerType, Points, CallStatuses, GatewayStatuses
    <2>4. destConn \in ConnType /\ server \in ServerType
        BY <1>1, ServersTyped DEF DestInit, ConnType
    <2>5. QED BY <1>1, <1>2, <1>3, <2>1, <2>2, <2>3, <2>4
          DEF DestTypeOK, ConnType, ServerType, WorkerType, CallerType, Points, CallStatuses
<1>6. ConnInv
    BY <1>1 DEF ConnInv, Quiet
<1>7. ServerInv
    BY <1>1 DEF ServerInv
<1>8. StreamInv
    BY <1>1, <1>2, <1>3 DEF StreamInv
<1>9. GotInv
    BY <1>1 DEF GotInv
<1>10. ToldInv
    BY <1>1 DEF ToldInv, GetsAllOrAnError
<1>11. ExecInv
    <2>1. Executions = {} /\ Cardinality({}) = 0
        BY <1>4, FS_EmptySet DEF Executions
    <2>2. QED BY <1>1, <1>4, <2>1 DEF ExecInv
<1>12. LengthInv
    BY <1>1, <1>3 DEF LengthInv, Unsent
<1>13. QED BY <1>5, <1>6, <1>7, <1>8, <1>9, <1>10, <1>11, <1>12 DEF DestInv

LEMMA StutterInv ==
    ASSUME DestInv, UNCHANGED destVars
    PROVE  DestInv'
<1>1. UNCHANGED <<destConn, server, worker, rcvd, caller, execs, faults>>
    BY DEF destVars
<1>2. DestTypeOK'
    BY <1>1, TypeStays, TypeParts DEF DestInv
<1>3. ConnInv' /\ ServerInv' /\ StreamInv'
    BY <1>1 DEF DestInv, ConnInv, ServerInv, StreamInv, Quiet, Newest
<1>4. GotInv' /\ ToldInv'
    BY <1>1 DEF DestInv, GotInv, ToldInv, GetsAllOrAnError, IsStartOf, Newest
<1>5. ExecInv' /\ LengthInv'
    BY <1>1 DEF DestInv, ExecInv, LengthInv, Unsent, Executions
<1>6. QED BY <1>2, <1>3, <1>4, <1>5 DEF DestInv

LEMMA NextInv ==
    ASSUME DestInv, [DestNext]_destVars
    PROVE  DestInv'
<1>1. CASE UNCHANGED destVars
    BY <1>1, StutterInv
<1>2. CASE DestSteps
    BY <1>2, VerifyDestConnInv, SendProcCallInv, SendAgainInv, ReceivesInv, ResendsInv,
       RecvEofInv, RecvTimesOutInv, TimePassesInv, ResponseCompleteInv, ClientIsGoneInv,
       ResponseIsPartialInv, NoResponseInv, ReleaseDestConnInv DEF DestSteps
<1>3. CASE RunThread \/ VerifyFails \/ SendGivesUp \/ RecvBreaks
    BY <1>3, RunThreadInv, VerifyFailsInv, SendGivesUpInv, RecvBreaksInv
<1>4. CASE ServerExecutes \/ ServerAnswers \/ ServerLeaves \/ CallerLeaves
    BY <1>4, ServerExecutesInv, ServerAnswersInv, ServerLeavesInv, CallerLeavesInv
<1>5. QED BY <1>1, <1>2, <1>3, <1>4 DEF DestNext

LEMMA Correct ==
    ASSUME DestInv
    PROVE  AnswerIsOwn
<1>1. GetsItsOwn
    <2>1. SUFFICES ASSUME caller.got # <<>>, ~caller.short
                   PROVE  \E e \in Executions: /\ IsStartOf(caller.got, e)
                                               /\ \A d \in Executions: d <= e
        BY DEF GetsItsOwn
    <2>2. caller.short = FALSE
        BY <2>1, TypeParts DEF DestInv, CallerType
    <2>3. Newest > 0 /\ execs[Newest].call = worker.call /\ IsStartOf(caller.got, Newest)
        BY <2>1, <2>2 DEF DestInv, GotInv
    <2>4. Newest \in Nat /\ DOMAIN execs = 1..Newest
        BY Sizes DEF DestInv, Newest
    <2>5. Newest \in Executions
        BY <2>3, <2>4 DEF Executions
    <2>6. \A d \in Executions: d <= Newest
        BY <2>4 DEF Executions
    <2>7. QED BY <2>3, <2>5, <2>6
<1>2. GetsAllOrAnError
    BY DEF DestInv, ToldInv
<1>3. FreeIsQuiet
    <2>1. SUFFICES ASSUME worker.pc = "idle", destConn.up
                   PROVE  /\ destConn.state = "logged in" /\ ~destConn.dirty
                          /\ server.stream = <<>> /\ server.call = 0 /\ server.exec = 0
        BY DEF FreeIsQuiet
    <2>2. destConn.up = TRUE
        BY <2>1, TypeParts DEF DestInv, ConnType
    <2>3. Quiet /\ destConn = LoggedIn
        BY <2>1, <2>2 DEF DestInv, ConnInv
    <2>4. QED BY <2>3 DEF Quiet, LoggedIn
<1>4. ExecutedAsTold
    BY DEF DestInv, ExecInv, ExecutedAsTold
<1>5. QED BY <1>1, <1>2, <1>3, <1>4 DEF AnswerIsOwn

\* What the gateway relays to a client is an answer to its own call, of its last
\* execution, and all of it, or an error, whatever breaks and whatever was on
\* the connection before: for any number of calls, responses of any length cut
\* anywhere, and any window that holds their end (recvResp and receiveResponse
\* of gxrpcmonitors.py over a DestConn).
THEOREM AnswerOwn == DestSpec => []AnswerIsOwn
<1>1. DestInit => DestInv
    BY InitInv
<1>2. DestInv /\ [DestNext]_destVars => DestInv'
    BY NextInv
<1>3. DestInv => AnswerIsOwn
    BY Correct
<1>4. QED BY <1>1, <1>2, <1>3, PTL DEF DestSpec

-----------------------------------------------------------------------------
(* The reader: the characters of a value                                   *)

\* A set of numbers that is not empty has a least one.
LEMMA FirstNumber ==
  ASSUME NEW S, S \subseteq Nat, S # {}
  PROVE  \E f \in S : \A g \in S : f <= g
<1>1. OpToRel(<, Nat) = {ss \in Nat \X Nat : ss[1] < ss[2]}
  BY Zenon DEF OpToRel
<1>2. \E f \in S : \A g \in S : ~(<<g, f>> \in OpToRel(<, Nat))
  BY WFMin, NatLessThanWellFounded, Zenon
<1>3. \E f \in S : \A g \in S : ~(<<g, f>> \in {ss \in Nat \X Nat : ss[1] < ss[2]})
  BY <1>1, <1>2, Zenon
<1>4. \A f, g \in S : ~(<<g, f>> \in {ss \in Nat \X Nat : ss[1] < ss[2]}) => f <= g
  OBVIOUS
<1>5. QED BY <1>3, <1>4, Zenon

\* An induction over numbers, for a set of them.
LEMMA EveryNumber ==
  ASSUME NEW S, 0 \in S, \A n \in Nat : n \in S => n + 1 \in S
  PROVE  Nat \subseteq S
<1> DEFINE bad == Nat \ S
<1>1. SUFFICES ASSUME bad # {} PROVE FALSE
  OBVIOUS
<1>2. PICK f \in bad : \A g \in bad : f <= g
  <2>1. bad \subseteq Nat
    OBVIOUS
  <2> HIDE DEF bad
  <2>2. QED BY <1>1, <2>1, FirstNumber
<1>3. f \in Nat /\ f \notin S /\ f # 0
  BY <1>2
<1>4. f - 1 \in Nat /\ ~(f <= f - 1) /\ f = (f - 1) + 1
  BY <1>3
<1>5. f - 1 \in S
  BY <1>2, <1>4
<1>6. QED BY <1>3, <1>4, <1>5

\* Names of characters that the SMT solver cannot read.
Semi == ";"
Space == " "
Nothing == ""

\* The characters of a message, where a name is one.
Chars ==
  Letters \cup {"<", ">", "&", Semi, Space, "l", "g", "m", "row", "col", "new", "str", "/str", "EOT"}

LEMMA EscapesAre ==
  /\ DOMAIN Escapes = {"<", ">", "&"}
  /\ Escapes["<"] = "l" /\ Escapes[">"] = "g" /\ Escapes["&"] = "m"
  BY DEF Escapes

Piece(c) ==
  IF c = "<" THEN <<"&", "l", Semi>>
  ELSE IF c = ">" THEN <<"&", "g", Semi>>
  ELSE IF c = "&" THEN <<"&", "m", Semi>> ELSE <<c>>

LEMMA FewAreSeq ==
  ASSUME NEW S, NEW a \in S, NEW b \in S, NEW c \in S
  PROVE  <<a>> \in Seq(S) /\ <<a, b, c>> \in Seq(S)
  OBVIOUS

\* What is written for each character.
Pieces(value) ==
  [i \in DOMAIN value |->
    IF value[i] \in DOMAIN Escapes THEN <<"&", Escapes[value[i]], ";">> ELSE <<value[i]>>]

\* Sequences put behind each other.
Flattened(f, s) == f = [i \in 1..Len(s) |-> IF i = 1 THEN s[i] ELSE f[i - 1] \o s[i]]

Flat(s) == CHOOSE f : Flattened(f, s)

LEMMA FlatExists ==
  ASSUME NEW s, Len(s) \in Nat
  PROVE  \E f : Flattened(f, s)
<1> DEFINE P(f, n) == f = [i \in 1..n |-> IF i = 1 THEN s[i] ELSE f[i - 1] \o s[i]]
           S == {n \in Nat : \E f : P(f, n)}
<1>1. 0 \in S
  <2> DEFINE f0 == [i \in 1..0 |-> <<>>]
  <2>1. f0 = [i \in 1..0 |-> IF i = 1 THEN s[i] ELSE f0[i - 1] \o s[i]]
    OBVIOUS
  <2>2. P(f0, 0)
    BY <2>1
  <2>3. QED BY <2>2
<1>2. ASSUME NEW n \in Nat, n \in S PROVE n + 1 \in S
  <2>1. PICK f : P(f, n)
    BY <1>2
  <2> DEFINE last == IF n + 1 = 1 THEN s[n + 1] ELSE f[n] \o s[n + 1]
             g == [i \in 1..(n + 1) |-> IF i = n + 1 THEN last ELSE f[i]]
  <2>2. ASSUME NEW i \in 1..(n + 1)
        PROVE  g[i] = IF i = 1 THEN s[i] ELSE g[i - 1] \o s[i]
    <3>1. CASE i = n + 1
      <4>1. i - 1 = n /\ (i # 1 => n \in 1..(n + 1) /\ n # n + 1)
        BY <3>1
      <4>2. g[i] = last /\ (i # 1 => g[n] = f[n])
        BY <3>1, <4>1
      <4>3. QED BY <3>1, <4>1, <4>2
    <3>2. CASE i # n + 1
      <4>1. i \in 1..n
        BY <3>2
      <4>2. g[i] = f[i]
        BY <3>2
      <4>3. i # 1 => i - 1 \in 1..(n + 1) /\ i - 1 # n + 1
        BY <4>1
      <4>4. i # 1 => g[i - 1] = f[i - 1]
        BY <4>3
      <4>5. f[i] = IF i = 1 THEN s[i] ELSE f[i - 1] \o s[i]
        BY <2>1, <4>1
      <4> HIDE DEF g, P
      <4>6. QED BY <4>2, <4>4, <4>5
    <3>3. QED BY <3>1, <3>2
  <2>3. g = [i \in 1..(n + 1) |-> g[i]]
    OBVIOUS
  <2> HIDE DEF g
  <2>4. P(g, n + 1)
    BY <2>2, <2>3
  <2> HIDE DEF P
  <2>5. \E h : P(h, n + 1)
    BY <2>4
  <2>6. QED BY <2>5
<1> HIDE DEF S
<1>3. Nat \subseteq S
  BY <1>1, <1>2, EveryNumber
<1> USE DEF S
<1>4. Len(s) \in S
  BY <1>3
<1>5. QED BY <1>4 DEF Flattened

LEMMA FlatFacts ==
  ASSUME NEW s, Len(s) \in Nat \ {0}
  PROVE  /\ Flat(s)[1] = s[1]
         /\ \A k \in 1..(Len(s) - 1) : Flat(s)[k + 1] = Flat(s)[k] \o s[k + 1]
         /\ FlattenSeq(s) = Flat(s)[Len(s)]
<1> DEFINE f == Flat(s)
<1>1. Flattened(f, s)
  BY FlatExists DEF Flat
<1>2. FlattenSeq(s) = f[Len(s)]
  <2>1. Len(s) # 0
    OBVIOUS
  <2>2. QED BY <2>1, Zenon DEF FlattenSeq, Flat, Flattened
<1> HIDE DEF f
<1>3. \A i \in 1..Len(s) : f[i] = IF i = 1 THEN s[i] ELSE f[i - 1] \o s[i]
  BY <1>1 DEF Flattened
<1>4. f[1] = s[1]
  BY <1>3
<1>5. ASSUME NEW k \in 1..(Len(s) - 1) PROVE f[k + 1] = f[k] \o s[k + 1]
  <2>1. k + 1 \in 1..Len(s) /\ k + 1 # 1 /\ (k + 1) - 1 = k
    OBVIOUS
  <2>2. QED BY <1>3, <2>1
<1>6. QED BY <1>2, <1>4, <1>5 DEF f

\* What is written for the first characters of a value.
EncodedUpTo(v, j) == IF j = 0 THEN <<>> ELSE Flat(Pieces(v))[j]

LEMMA PiecesAre ==
  ASSUME NEW v \in Seq(Letters)
  PROVE  /\ DOMAIN Pieces(v) = 1..Len(v) /\ Len(Pieces(v)) = Len(v)
         /\ \A i \in 1..Len(v) : /\ Pieces(v)[i] \in Seq(Chars)
                                 /\ Pieces(v)[i] = Piece(v[i])
<1>1. DOMAIN v = 1..Len(v) /\ Len(v) \in Nat
  OBVIOUS
<1>2. DOMAIN Pieces(v) = 1..Len(v)
  BY <1>1 DEF Pieces
<1>3. Len(Pieces(v)) = Len(v)
  <2>1. Pieces(v) = [i \in 1..Len(v) |-> Pieces(v)[i]]
    BY <1>1 DEF Pieces
  <2> HIDE DEF Pieces
  <2> DEFINE p == Pieces(v)
             S == {p[i] : i \in 1..Len(v)}
  <2>2. p \in [1..Len(v) -> S]
    BY <2>1
  <2> HIDE DEF p, S
  <2>3. p \in Seq(S) /\ Len(p) = Len(v)
    BY <1>1, <2>2
  <2>4. QED BY <2>3 DEF p
<1>4. ASSUME NEW i \in 1..Len(v)
      PROVE  /\ Pieces(v)[i] \in Seq(Chars)
             /\ Pieces(v)[i] = Piece(v[i])
  <2>1. v[i] \in Letters
    OBVIOUS
  <2>2. Pieces(v)[i] = IF v[i] \in DOMAIN Escapes THEN <<"&", Escapes[v[i]], ";">> ELSE <<v[i]>>
    BY <1>1 DEF Pieces
  <2> DEFINE c == v[i]
             p == Pieces(v)[i]
  <2>3. p = Piece(c)
    BY <2>2, EscapesAre, Zenon DEF Piece, Semi
  <2> HIDE DEF c, p
  <2>4. p \in Seq(Chars)
    <3>1. c \in Chars /\ {"&", "l", "g", "m", Semi} \subseteq Chars
      BY <2>1 DEF Chars, c
    <3>2. CASE p = <<c>>
      BY <3>1, <3>2, FewAreSeq
    <3>3. CASE p # <<c>>
      <4>1. p = <<"&", "l", Semi>> \/ p = <<"&", "g", Semi>> \/ p = <<"&", "m", Semi>>
        BY <2>3, <3>3 DEF Piece
      <4>2. QED BY <3>1, <4>1, FewAreSeq
    <3>4. QED BY <3>2, <3>3
  <2>5. QED BY <2>3, <2>4 DEF c, p
<1>5. QED BY <1>2, <1>3, <1>4

LEMMA EncodeSteps ==
  ASSUME NEW v \in Seq(Letters)
  PROVE  /\ EncodedUpTo(v, 0) = <<>>
         /\ \A j \in 0..(Len(v) - 1) :
              EncodedUpTo(v, j + 1) = EncodedUpTo(v, j) \o Pieces(v)[j + 1]
         /\ Encode(v) = EncodedUpTo(v, Len(v))
<1> DEFINE s == Pieces(v)
<1>0. Len(v) \in Nat
  OBVIOUS
<1>1. Len(s) = Len(v) /\ Len(v) \in Nat
  BY <1>0, PiecesAre, Zenon
<1>2. Encode(v) = FlattenSeq(s)
  BY DEF Encode, Pieces
<1>3. ASSUME NEW j \in 0..(Len(v) - 1)
      PROVE  EncodedUpTo(v, j + 1) = EncodedUpTo(v, j) \o Pieces(v)[j + 1]
  <2>1. Len(s) \in Nat \ {0}
    BY <1>1
  <2>2. EncodedUpTo(v, j + 1) = Flat(s)[j + 1]
    BY DEF EncodedUpTo
  <2>3. CASE j = 0
    <3>1. s[1] \in Seq(Chars)
      <4>1. 1 \in 1..Len(v)
        BY <1>1, <2>1
      <4>2. QED BY <4>1, PiecesAre, Zenon
    <3> HIDE DEF s
    <3>2. <<>> \o s[1] = s[1]
      BY <3>1
    <3>3. Flat(s)[1] = s[1] /\ j + 1 = 1
      <4>1. Flat(s)[1] = s[1]
        BY <2>1, FlatFacts, Zenon
      <4>2. QED BY <2>3, <4>1
    <3>4. EncodedUpTo(v, j) = <<>>
      BY <2>3 DEF EncodedUpTo
    <3>5. QED BY <2>2, <3>2, <3>3, <3>4 DEF s
  <2>4. CASE j # 0
    <3>1. j \in 1..(Len(s) - 1)
      BY <1>1, <2>4
    <3>2. EncodedUpTo(v, j) = Flat(s)[j]
      BY <2>4 DEF EncodedUpTo
    <3> HIDE DEF s
    <3>3. Flat(s)[j + 1] = Flat(s)[j] \o s[j + 1]
      BY <2>1, <3>1, FlatFacts
    <3>4. QED BY <2>2, <3>2, <3>3 DEF s
  <2>5. QED BY <2>3, <2>4
<1>4. Encode(v) = EncodedUpTo(v, Len(v))
  <2>1. CASE Len(v) = 0
    <3>1. s = <<>>
      BY <2>1 DEF Pieces
    <3> HIDE DEF s
    <3>2. FlattenSeq(s) = s
      BY <3>1 DEF FlattenSeq
    <3>3. QED BY <1>2, <2>1, <3>1, <3>2 DEF EncodedUpTo
  <2>2. CASE Len(v) # 0
    <3>1. FlattenSeq(s) = Flat(s)[Len(s)]
      BY <1>1, <2>2, FlatFacts
    <3>2. QED BY <1>1, <1>2, <2>2, <3>1 DEF EncodedUpTo
  <2>3. QED BY <2>1, <2>2
<1>5. EncodedUpTo(v, 0) = <<>>
  BY DEF EncodedUpTo
<1>6. QED BY <1>3, <1>4, <1>5

LEMMA ConcatHas ==
  ASSUME NEW S, NEW s \in Seq(S), NEW t \in Seq(S)
  PROVE  /\ s \o t \in Seq(S) /\ Len(s \o t) = Len(s) + Len(t)
         /\ \A i \in 1..Len(s) : (s \o t)[i] = s[i]
         /\ \A i \in 1..Len(t) : (s \o t)[Len(s) + i] = t[i]
<1>1. s \o t \in Seq(S) /\ Len(s \o t) = Len(s) + Len(t)
  BY ConcatProperties
<1>2. \A i \in 1..(Len(s) + Len(t)) : (s \o t)[i] = IF i <= Len(s) THEN s[i] ELSE t[i - Len(s)]
  BY ConcatProperties
<1>3. Len(s) \in Nat /\ Len(t) \in Nat
  OBVIOUS
<1>4. ASSUME NEW i \in 1..Len(s) PROVE (s \o t)[i] = s[i]
  BY <1>2, <1>3
<1>5. ASSUME NEW i \in 1..Len(t) PROVE (s \o t)[Len(s) + i] = t[i]
  <2>1. Len(s) + i \in 1..(Len(s) + Len(t)) /\ ~(Len(s) + i <= Len(s)) /\ (Len(s) + i) - Len(s) = i
    BY <1>3
  <2>2. QED BY <1>2, <2>1
<1>6. QED BY <1>1, <1>4, <1>5

\* Behind a character of a value its piece is found, and the rest is not changed.
LEMMA EncodeGrows ==
  ASSUME NEW v \in Seq(Letters), NEW j \in 0..(Len(v) - 1), EncodedUpTo(v, j) \in Seq(Chars)
  PROVE  LET a == EncodedUpTo(v, j)
             b == EncodedUpTo(v, j + 1)
             p == Piece(v[j + 1])
         IN /\ b \in Seq(Chars) /\ p \in Seq(Chars) /\ Len(b) = Len(a) + Len(p)
            /\ \A i \in 1..Len(a) : b[i] = a[i]
            /\ \A i \in 1..Len(p) : b[Len(a) + i] = p[i]
<1> DEFINE a == EncodedUpTo(v, j)
           b == EncodedUpTo(v, j + 1)
           p == Piece(v[j + 1])
<1>1. j + 1 \in 1..Len(v)
  OBVIOUS
<1>2. Pieces(v)[j + 1] \in Seq(Chars) /\ Pieces(v)[j + 1] = p
  BY <1>1, PiecesAre
<1>3. b = a \o p
  BY <1>2, EncodeSteps
<1> HIDE DEF a, b, p
<1>4. a \in Seq(Chars) /\ p \in Seq(Chars)
  BY <1>2 DEF a
<1>5. /\ b \in Seq(Chars) /\ Len(b) = Len(a) + Len(p)
      /\ \A i \in 1..Len(a) : b[i] = a[i]
      /\ \A i \in 1..Len(p) : b[Len(a) + i] = p[i]
  BY <1>3, <1>4, ConcatHas
<1>6. QED BY <1>4, <1>5 DEF a, b, p

\* A place behind the first la is one of the next lp, counted from there.
LEMMA PlaceInTail ==
  ASSUME NEW la \in Nat, NEW lp \in Nat, NEW lb, lb = la + lp,
         NEW i \in 1..lb, ~(i <= la)
  PROVE  i - la \in 1..lp /\ la + (i - la) = i
OBVIOUS

\* What is written for one character: one or three, no bracket among them.
LEMMA PieceFacts ==
  ASSUME NEW c
  PROVE  /\ Len(Piece(c)) \in {1, 3}
         /\ \A i \in 1..Len(Piece(c)) : Piece(c)[i] # "<"
         /\ Piece(c)[Len(Piece(c))] = "\\" => c = "\\"
<1>1. CASE c \in {"<", ">", "&"}
  <2>1. PICK x \in {"l", "g", "m"} : Piece(c) = <<"&", x, Semi>>
    BY <1>1 DEF Piece
  <2>2. Len(Piece(c)) = 3
    BY <2>1
  <2>3. Piece(c)[1] = "&" /\ Piece(c)[2] = x /\ Piece(c)[3] = Semi
    BY <2>1
  <2>4. \A i \in 1..3 : i = 1 \/ i = 2 \/ i = 3
    OBVIOUS
  <2>5. Semi # "<" /\ Semi # "\\"
    BY Zenon DEF Semi
  <2>6. QED BY <2>2, <2>3, <2>4, <2>5
<1>2. CASE c \notin {"<", ">", "&"}
  <2>1. Piece(c) = <<c>>
    BY <1>2 DEF Piece
  <2>2. Len(Piece(c)) = 1 /\ Piece(c)[1] = c
    BY <2>1
  <2>3. \A i \in 1..1 : i = 1
    OBVIOUS
  <2>4. QED BY <1>2, <2>2, <2>3
<1>3. QED BY <1>1, <1>2

LEMMA EncodedUpToFacts ==
  ASSUME NEW v \in Seq(Letters), NEW j \in 0..Len(v)
  PROVE  LET a == EncodedUpTo(v, j)
         IN /\ a \in Seq(Chars)
            /\ \A i \in 1..Len(a) : a[i] # "<"
            /\ j > 0 => Len(a) > 0
            /\ Len(a) > 0 => j > 0 /\ (a[Len(a)] = "\\" => v[j] = "\\")
<1> DEFINE G(n) == LET a == EncodedUpTo(v, n)
                   IN /\ a \in Seq(Chars)
                      /\ \A i \in 1..Len(a) : a[i] # "<"
                      /\ n > 0 => Len(a) > 0
                      /\ Len(a) > 0 => n > 0 /\ (a[Len(a)] = "\\" => v[n] = "\\")
           S == {n \in Nat : n <= Len(v) => G(n)}
<1>0. Len(v) \in Nat
  OBVIOUS
<1>1. 0 \in S
  <2>1. EncodedUpTo(v, 0) = <<>>
    BY DEF EncodedUpTo
  <2>2. <<>> \in Seq(Chars) /\ Len(<<>>) = 0 /\ 1..0 = {} /\ ~(0 > 0)
    OBVIOUS
  <2>3. G(0)
    BY <2>1, <2>2, Zenon
  <2> HIDE DEF G
  <2>4. QED BY <2>3
<1>2. ASSUME NEW n \in Nat, n \in S PROVE n + 1 \in S
  <2>1. SUFFICES ASSUME n + 1 <= Len(v) PROVE G(n + 1)
    <3> HIDE DEF G
    <3>1. QED OBVIOUS
  <2> DEFINE a == EncodedUpTo(v, n)
             b == EncodedUpTo(v, n + 1)
             c == v[n + 1]
             p == Piece(c)
  <2>2. n \in 0..(Len(v) - 1) /\ G(n)
    <3> HIDE DEF G
    <3>1. QED BY <1>0, <1>2, <2>1
  <2>3. a \in Seq(Chars) /\ (\A i \in 1..Len(a) : a[i] # "<")
    BY <2>2
  <2>4. /\ b \in Seq(Chars) /\ p \in Seq(Chars) /\ Len(b) = Len(a) + Len(p)
        /\ \A i \in 1..Len(a) : b[i] = a[i]
        /\ \A i \in 1..Len(p) : b[Len(a) + i] = p[i]
    BY <2>2, <2>3, EncodeGrows
  <2>5. /\ Len(p) \in {1, 3}
        /\ \A i \in 1..Len(p) : p[i] # "<"
        /\ p[Len(p)] = "\\" => c = "\\"
    BY PieceFacts
  <2> HIDE DEF a, b, c, p, G
  <2>6. Len(a) \in Nat
    BY <2>3
  <2>7. ASSUME NEW i \in 1..Len(b) PROVE b[i] # "<"
    <3>1. CASE i <= Len(a)
      <4>1. i \in 1..Len(a)
        BY <2>6, <3>1
      <4>2. QED BY <2>3, <2>4, <4>1
    <3>2. CASE ~(i <= Len(a))
      <4>1. Len(p) \in Nat /\ Len(b) = Len(a) + Len(p)
        BY <2>4, <2>5
      <4>2. i - Len(a) \in 1..Len(p) /\ Len(a) + (i - Len(a)) = i
        BY <2>6, <3>2, <4>1, PlaceInTail
      <4> DEFINE k == i - Len(a)
      <4> HIDE DEF k
      <4>3. k \in 1..Len(p) /\ Len(a) + k = i
        BY <4>2 DEF k
      <4>4. b[Len(a) + k] = p[k] /\ p[k] # "<"
        BY <2>4, <2>5, <4>3, Zenon
      <4>5. b[i] = p[k]
        BY <4>3, <4>4, Zenon
      <4>6. QED BY <4>4, <4>5, Zenon
    <3>3. QED BY <3>1, <3>2
  <2>8. Len(b) > 0 /\ (b[Len(b)] = "\\" => c = "\\")
    <3>1. Len(p) \in 1..Len(p)
      BY <2>5
    <3>2. b[Len(a) + Len(p)] = p[Len(p)]
      BY <2>4, <3>1
    <3>3. Len(b) > 0
      <4>1. Len(p) \in Nat /\ Len(p) > 0 /\ Len(b) = Len(a) + Len(p)
        BY <2>4, <2>5
      <4>2. QED BY <2>6, <4>1
    <3>4. b[Len(b)] = p[Len(p)]
      BY <2>4, <3>2
    <3>5. QED BY <2>5, <3>3, <3>4
  <2>9. n + 1 > 0
    OBVIOUS
  <2>10. QED BY <2>4, <2>7, <2>8, <2>9 DEF G, b, c
<1> HIDE DEF S
<1>3. Nat \subseteq S
  BY <1>1, <1>2, EveryNumber
<1> USE DEF S
<1>4. j \in S /\ j <= Len(v)
  <2> HIDE DEF S
  <2>1. QED BY <1>0, <1>3
<1>5. G(j)
  <2> HIDE DEF G
  <2>1. QED BY <1>4
<1>6. QED BY <1>5

\* What was written for the first characters stays where it is.
LEMMA EncodePrefix ==
  ASSUME NEW v \in Seq(Letters), NEW m \in 0..Len(v), NEW j \in 0..m
  PROVE  /\ Len(EncodedUpTo(v, j)) <= Len(EncodedUpTo(v, m))
         /\ \A i \in 1..Len(EncodedUpTo(v, j)) : EncodedUpTo(v, m)[i] = EncodedUpTo(v, j)[i]
<1> DEFINE G(n) == /\ Len(EncodedUpTo(v, j)) <= Len(EncodedUpTo(v, n))
                   /\ \A i \in 1..Len(EncodedUpTo(v, j)) :
                        EncodedUpTo(v, n)[i] = EncodedUpTo(v, j)[i]
           S == {n \in Nat : j + n <= Len(v) => G(j + n)}
<1>0. Len(v) \in Nat /\ j \in Nat /\ m \in Nat /\ j <= m /\ m <= Len(v)
  OBVIOUS
<1>1. 0 \in S
  <2>1. EncodedUpTo(v, j) \in Seq(Chars)
    BY <1>0, EncodedUpToFacts
  <2>2. G(j)
    BY <2>1
  <2> HIDE DEF G
  <2>3. j + 0 = j
    BY <1>0
  <2>4. QED BY <2>2, <2>3
<1>2. ASSUME NEW n \in Nat, n \in S PROVE n + 1 \in S
  <2>1. SUFFICES ASSUME j + (n + 1) <= Len(v) PROVE G(j + (n + 1))
    <3> HIDE DEF G
    <3>1. QED OBVIOUS
  <2> DEFINE k == j + n
             o == EncodedUpTo(v, j)
             a == EncodedUpTo(v, k)
             b == EncodedUpTo(v, k + 1)
             p == Piece(v[k + 1])
  <2>2. k \in 0..(Len(v) - 1) /\ k \in 0..Len(v) /\ j + (n + 1) = k + 1 /\ k <= Len(v)
    BY <1>0, <2>1
  <2>3. G(k)
    <3> HIDE DEF G
    <3>1. QED BY <1>2, <2>2
  <2> HIDE DEF k
  <2>4. a \in Seq(Chars) /\ o \in Seq(Chars)
    BY <1>0, <2>2, EncodedUpToFacts
  <2>5. /\ Len(b) = Len(a) + Len(p) /\ p \in Seq(Chars)
        /\ \A i \in 1..Len(a) : b[i] = a[i]
    BY <2>2, <2>4, EncodeGrows
  <2>6. Len(o) <= Len(a) /\ \A i \in 1..Len(o) : a[i] = o[i]
    BY <2>3
  <2> HIDE DEF a, b, o, p
  <2>7. Len(a) \in Nat /\ Len(o) \in Nat /\ Len(p) \in Nat
    BY <2>4, <2>5
  <2>8. Len(o) <= Len(b)
    BY <2>5, <2>6, <2>7
  <2>9. ASSUME NEW i \in 1..Len(o) PROVE b[i] = o[i]
    <3>1. i \in 1..Len(a)
      BY <2>6, <2>7
    <3>2. QED BY <2>5, <2>6, <3>1
  <2>10. G(k + 1)
    BY <2>8, <2>9 DEF b, o
  <2> HIDE DEF G
  <2>11. QED BY <2>2, <2>10
<1> HIDE DEF S
<1>3. Nat \subseteq S
  BY <1>1, <1>2, EveryNumber
<1>4. m - j \in Nat /\ j + (m - j) = m
  BY <1>0
<1> HIDE DEF G
<1>5. G(m)
  <2>1. m - j \in S
    BY <1>3, <1>4
  <2>2. QED BY <1>0, <1>4, <2>1 DEF S
<1>6. QED BY <1>5 DEF G

-----------------------------------------------------------------------------
(* The reader: what a value is decoded to                                  *)

\* The escapes that begin at i: one, or none.
EscapedAt(str, i) ==
  {c \in DOMAIN Escapes : i + 2 <= Len(str) /\ SubSeq(str, i, i + 2) = <<"&", Escapes[c], ";">>}

Decoding(f, str) ==
  f = [i \in 1..(Len(str) + 1) |->
         IF i > Len(str) THEN <<>>
         ELSE IF EscapedAt(str, i) # {} THEN <<CHOOSE c \in EscapedAt(str, i) : TRUE>> \o f[i + 3]
         ELSE <<str[i]>> \o f[i + 1]]

DecodedFrom(str) == CHOOSE f : Decoding(f, str)

LEMMA DecodingExists ==
  ASSUME NEW str, Len(str) \in Nat
  PROVE  \E f : Decoding(f, str)
<1> DEFINE L == Len(str)
           E(i) == EscapedAt(str, i)
           C(i) == <<CHOOSE c \in E(i) : TRUE>>
           T(i) == <<str[i]>>
           Body(f, i) == IF i > L THEN <<>>
                         ELSE IF E(i) # {} THEN C(i) \o f[i + 3] ELSE T(i) \o f[i + 1]
           P(f, n) == f = [i \in (L + 1 - n)..(L + 1) |-> Body(f, i)]
           S == {n \in Nat : \E f : P(f, n)}
<1>0. L \in Nat /\ \A i \in Int : E(i) # {} => i + 2 <= L
  BY DEF EscapedAt
<1> HIDE DEF L, E, C, T
<1>1. 0 \in S
  <2> DEFINE f0 == [i \in (L + 1 - 0)..(L + 1) |-> <<>>]
  <2>1. \A i \in (L + 1 - 0)..(L + 1) : i > L
    BY <1>0
  <2>2. f0 = [i \in (L + 1 - 0)..(L + 1) |-> Body(f0, i)]
    BY <2>1
  <2> HIDE DEF Body
  <2>3. P(f0, 0)
    BY <2>2
  <2>4. QED BY <2>3
<1>2. ASSUME NEW n \in Nat, n \in S PROVE n + 1 \in S
  <2>1. PICK f : P(f, n)
    BY <1>2
  <2> DEFINE at == L - n
             g == [i \in at..(L + 1) |-> IF i = at THEN Body(f, at) ELSE f[i]]
  <2>2. at \in Int /\ L + 1 - n = at + 1 /\ L + 1 - (n + 1) = at /\ at <= L
    BY <1>0
  <2>3. \A i \in at..(L + 1) : g[i] = IF i = at THEN Body(f, at) ELSE f[i]
    OBVIOUS
  <2>4. \A i \in (at + 1)..(L + 1) : f[i] = Body(f, i)
    <3> HIDE DEF Body
    <3>1. QED BY <2>1, <2>2
  <2>5. g = [i \in at..(L + 1) |-> g[i]]
    OBVIOUS
  <2> HIDE DEF at, g
  <2>6. ASSUME NEW i \in at..(L + 1) PROVE Body(g, i) = Body(f, i)
    <3>1. i > L => Body(g, i) = Body(f, i)
      OBVIOUS
    <3>2. i <= L => i + 1 \in at..(L + 1) /\ i + 1 # at
      BY <1>0, <2>2
    <3>3. i <= L /\ E(i) # {} => i + 3 \in at..(L + 1) /\ i + 3 # at
      BY <1>0, <2>2
    <3>4. /\ i <= L => g[i + 1] = f[i + 1]
          /\ i <= L /\ E(i) # {} => g[i + 3] = f[i + 3]
      BY <2>3, <3>2, <3>3
    <3>5. i <= L \/ i > L
      BY <1>0, <2>2
    <3>6. QED BY <3>1, <3>4, <3>5
  <2> HIDE DEF Body
  <2>7. ASSUME NEW i \in at..(L + 1) PROVE g[i] = Body(g, i)
    <3>1. CASE i = at
      BY <2>3, <2>6, <3>1
    <3>2. CASE i # at
      <4>1. i \in (at + 1)..(L + 1)
        BY <1>0, <2>2, <3>2
      <4>2. QED BY <2>3, <2>4, <2>6, <3>2, <4>1
    <3>3. QED BY <3>1, <3>2
  <2>8. g = [i \in at..(L + 1) |-> Body(g, i)]
    BY <2>5, <2>7
  <2>9. P(g, n + 1)
    BY <2>2, <2>8
  <2> HIDE DEF P
  <2>10. \E h : P(h, n + 1)
    BY <2>9
  <2>11. QED BY <2>10
<1> HIDE DEF S
<1>3. Nat \subseteq S
  BY <1>1, <1>2, EveryNumber
<1>4. L \in S
  BY <1>0, <1>3
<1>5. PICK f : P(f, L)
  BY <1>4 DEF S
<1>6. L + 1 - L = 1
  BY <1>0
<1>7. f = [i \in 1..(L + 1) |-> Body(f, i)]
  <2> HIDE DEF Body
  <2>1. QED BY <1>5, <1>6
<1>8. Decoding(f, str)
  BY <1>7 DEF Decoding, L, E, C, T
<1>9. QED BY <1>8

LEMMA DecodeSteps ==
  ASSUME NEW str, Len(str) \in Nat
  PROVE  /\ DecodedFrom(str)[Len(str) + 1] = <<>>
         /\ \A i \in 1..Len(str) :
              DecodedFrom(str)[i] =
                IF EscapedAt(str, i) # {}
                THEN <<CHOOSE c \in EscapedAt(str, i) : TRUE>> \o DecodedFrom(str)[i + 3]
                ELSE <<str[i]>> \o DecodedFrom(str)[i + 1]
         /\ Decode(str) = DecodedFrom(str)[1]
<1> DEFINE f == DecodedFrom(str)
           C(i) == <<CHOOSE c \in EscapedAt(str, i) : TRUE>>
<1>1. Decoding(f, str)
  BY DecodingExists DEF DecodedFrom
<1>2. Decode(str) = f[1]
  BY Zenon DEF Decode, DecodedFrom, Decoding, EscapedAt
<1>3. f = [i \in 1..(Len(str) + 1) |->
             IF i > Len(str) THEN <<>>
             ELSE IF EscapedAt(str, i) # {} THEN C(i) \o f[i + 3]
             ELSE <<str[i]>> \o f[i + 1]]
  BY <1>1, Zenon DEF Decoding
<1> HIDE DEF f, C
<1>4. \A i \in 1..(Len(str) + 1) :
        f[i] = IF i > Len(str) THEN <<>>
               ELSE IF EscapedAt(str, i) # {} THEN C(i) \o f[i + 3]
               ELSE <<str[i]>> \o f[i + 1]
  BY <1>3
<1>5. f[Len(str) + 1] = <<>>
  <2>1. Len(str) + 1 \in 1..(Len(str) + 1) /\ Len(str) + 1 > Len(str)
    OBVIOUS
  <2>2. QED BY <1>4, <2>1
<1>6. ASSUME NEW i \in 1..Len(str)
      PROVE  f[i] = IF EscapedAt(str, i) # {} THEN C(i) \o f[i + 3] ELSE <<str[i]>> \o f[i + 1]
  <2>1. i \in 1..(Len(str) + 1) /\ ~(i > Len(str))
    OBVIOUS
  <2>2. QED BY <1>4, <2>1
<1>7. QED BY <1>2, <1>5, <1>6 DEF f, C

LEMMA ThreeAre ==
  ASSUME NEW S, NEW s \in Seq(S), NEW i \in 1..Len(s), i + 2 <= Len(s)
  PROVE  SubSeq(s, i, i + 2) = <<s[i], s[i + 1], s[i + 2]>>
<1>1. SubSeq(s, i, i + 2) = [k \in 1..3 |-> s[i + k - 1]]
  BY SubSeqProperties
<1> DEFINE u == <<s[i], s[i + 1], s[i + 2]>>
           t == [k \in 1..3 |-> s[i + k - 1]]
<1>2. u = [k \in 1..3 |-> u[k]]
  OBVIOUS
<1>3. \A k \in 1..3 : k = 1 \/ k = 2 \/ k = 3
  OBVIOUS
<1>4. i + 1 - 1 = i /\ i + 2 - 1 = i + 1 /\ i + 3 - 1 = i + 2
  OBVIOUS
<1>5. u[1] = s[i] /\ u[2] = s[i + 1] /\ u[3] = s[i + 2]
  OBVIOUS
<1> HIDE DEF u
<1>6. \A k \in 1..3 : u[k] = s[i + k - 1]
  BY <1>3, <1>4, <1>5
<1>7. t = u
  BY <1>2, <1>6
<1>8. QED BY <1>1, <1>7 DEF u

LEMMA TriplesDiffer ==
  ASSUME NEW a, NEW b, NEW c, NEW d, NEW e, NEW g, <<a, b, c>> = <<d, e, g>>
  PROVE  a = d /\ b = e
  OBVIOUS

\* Where an escape was written it is found, and it is the only one.
LEMMA EscapedIs ==
  ASSUME NEW str, NEW i, NEW c \in {"<", ">", "&"}, i + 2 <= Len(str),
         SubSeq(str, i, i + 2) = <<"&", Escapes[c], Semi>>
  PROVE  EscapedAt(str, i) # {} /\ (CHOOSE d \in EscapedAt(str, i) : TRUE) = c
<1>1. c \in EscapedAt(str, i)
  BY EscapesAre, Zenon DEF EscapedAt, Semi
<1>2. ASSUME NEW d \in EscapedAt(str, i) PROVE d = c
  <2>1. d \in {"<", ">", "&"} /\ SubSeq(str, i, i + 2) = <<"&", Escapes[d], Semi>>
    BY EscapesAre, Zenon DEF EscapedAt, Semi
  <2> DEFINE x == Escapes[c]
             y == Escapes[d]
  <2>2. <<"&", y, Semi>> = <<"&", x, Semi>>
    BY <2>1
  <2> HIDE DEF x, y
  <2>3. y = x
    BY <2>2, TriplesDiffer
  <2> USE DEF x, y
  <2>4. QED BY <2>1, <2>3, EscapesAre
<1>3. QED BY <1>1, <1>2

LEMMA NotEscaped ==
  ASSUME NEW S, NEW str \in Seq(S), NEW i \in 1..Len(str), str[i] # "&"
  PROVE  EscapedAt(str, i) = {}
<1>1. SUFFICES ASSUME NEW c \in EscapedAt(str, i) PROVE FALSE
  OBVIOUS
<1>2. i + 2 <= Len(str) /\ SubSeq(str, i, i + 2) = <<"&", Escapes[c], ";">>
  BY Zenon DEF EscapedAt
<1>3. SubSeq(str, i, i + 2) = <<str[i], str[i + 1], str[i + 2]>>
  BY <1>2, ThreeAre
<1> DEFINE x == Escapes[c]
           a == str[i]
           b == str[i + 1]
           d == str[i + 2]
<1>4. <<a, b, d>> = <<"&", x, Semi>>
  BY <1>2, <1>3, Zenon DEF Semi
<1>5. a # "&"
  OBVIOUS
<1> HIDE DEF x, a, b, d
<1>6. QED BY <1>4, <1>5, TriplesDiffer

LEMMA ConsSub ==
  ASSUME NEW S, NEW v \in Seq(S), NEW j \in 0..(Len(v) - 1)
  PROVE  <<v[j + 1]>> \o SubSeq(v, j + 2, Len(v)) = SubSeq(v, j + 1, Len(v))
<1>1. j + 1 \in 1..Len(v) /\ Len(v) \in (j + 1)..Len(v) /\ (j + 1) + 1 = j + 2
  OBVIOUS
<1>2. QED BY <1>1, SubSeqRecursiveFirst

\* A value that is decoded is the value that was encoded.
LEMMA DecodeEncode ==
  ASSUME NEW v \in Seq(Letters)
  PROVE  Decode(Encode(v)) = v
<1> DEFINE e == Encode(v)
           L == Len(v)
           D == DecodedFrom(e)
           U(j) == EncodedUpTo(v, j)
           G(n) == D[Len(U(L - n)) + 1] = SubSeq(v, L - n + 1, L)
           S == {n \in Nat : n <= L => G(n)}
<1>0. L \in Nat
  OBVIOUS
<1>1. e = U(L) /\ U(0) = <<>>
  BY EncodeSteps
<1>2. e \in Seq(Chars) /\ Len(e) \in Nat
  <2>1. L \in 0..L
    BY <1>0
  <2>2. U(L) \in Seq(Chars)
    BY <2>1, EncodedUpToFacts
  <2> HIDE DEF e
  <2>3. e \in Seq(Chars)
    BY <1>1, <2>2
  <2>4. QED BY <2>3
<1> HIDE DEF e
<1>3. /\ D[Len(e) + 1] = <<>>
      /\ \A i \in 1..Len(e) :
           D[i] = IF EscapedAt(e, i) # {}
                  THEN <<CHOOSE c \in EscapedAt(e, i) : TRUE>> \o D[i + 3]
                  ELSE <<e[i]>> \o D[i + 1]
      /\ Decode(e) = D[1]
  BY <1>2, DecodeSteps
<1> HIDE DEF D
<1>4. 0 \in S
  <2>1. SubSeq(v, L - 0 + 1, L) = <<>>
    BY <1>0, SubSeqEmpty
  <2>2. L - 0 = L
    BY <1>0
  <2>3. G(0)
    BY <1>1, <1>3, <2>1, <2>2
  <2> HIDE DEF G
  <2>4. QED BY <2>3
<1>5. ASSUME NEW n \in Nat, n \in S PROVE n + 1 \in S
  <2>1. SUFFICES ASSUME n + 1 <= L PROVE G(n + 1)
    <3> HIDE DEF G
    <3>1. QED OBVIOUS
  <2> DEFINE j == L - (n + 1)
             a == U(j)
             b == U(j + 1)
             c == v[j + 1]
             p == Piece(c)
             at == Len(a) + 1
  <2>2. j \in 0..(L - 1) /\ j \in 0..L /\ j + 1 \in 0..L /\ L - n = j + 1 /\ j + 1 \in 1..L
    BY <1>0, <2>1
  <2>3. G(n)
    <3> HIDE DEF G
    <3>1. n <= L
      BY <1>0, <2>1
    <3>2. QED BY <1>5, <3>1
  <2> HIDE DEF j
  <2>4. D[Len(b) + 1] = SubSeq(v, j + 2, L)
    <3>1. (j + 1) + 1 = j + 2
      BY <2>2
    <3>2. QED BY <2>2, <2>3, <3>1
  <2>5. a \in Seq(Chars)
    BY <2>2, EncodedUpToFacts
  <2>6. /\ Len(b) = Len(a) + Len(p) /\ p \in Seq(Chars)
        /\ \A i \in 1..Len(p) : b[Len(a) + i] = p[i]
    BY <2>2, <2>5, EncodeGrows
  <2>7. Len(b) <= Len(e) /\ \A i \in 1..Len(b) : e[i] = b[i]
    <3>1. L \in 0..L
      BY <1>0
    <3>2. j + 1 \in 0..L
      BY <2>2
    <3>3. QED BY <1>1, <3>1, <3>2, EncodePrefix
  <2> HIDE DEF a, b
  <2>8. Len(p) \in {1, 3}
    BY PieceFacts
  <2>9. c \in Letters
    BY <2>2
  <2> DEFINE lp == Len(p)
             la == Len(a)
             lb == Len(b)
             le == Len(e)
  <2>10. lp \in {1, 3} /\ la \in Nat /\ lb = la + lp /\ lb <= le /\ le \in Nat
    BY <1>2, <2>5, <2>6, <2>7, <2>8
  <2> HIDE DEF lp, la, lb, le, p
  <2>11. ASSUME NEW i \in 1..lp PROVE e[la + i] = p[i]
    <3>1. i \in 1..Len(p) /\ la + i \in 1..Len(b)
      BY <2>10 DEF lp, lb
    <3>2. b[Len(a) + i] = p[i]
      BY <2>6, <3>1
    <3>3. e[la + i] = b[la + i]
      BY <2>7, <3>1
    <3>4. QED BY <3>2, <3>3 DEF la
  <2>12. la + 1 \in 1..Len(e)
    BY <2>10 DEF le
  <2>13. D[la + 1] = <<c>> \o D[lb + 1]
    <3>1. CASE c \in {"<", ">", "&"}
      <4>1. p = <<"&", Escapes[c], Semi>>
        BY <3>1, EscapesAre DEF p, Piece
      <4>2. lp = 3
        BY <4>1 DEF lp
      <4>3. p[1] = "&" /\ p[2] = Escapes[c] /\ p[3] = Semi
        BY <4>1
      <4>4. (la + 1) + 2 <= Len(e) /\ (la + 1) + 1 = la + 2 /\ (la + 1) + 2 = la + 3 /\ (la + 1) + 3 = lb + 1
        BY <2>10, <4>2 DEF le
      <4>5. e[la + 1] = p[1] /\ e[la + 2] = p[2] /\ e[la + 3] = p[3]
        <5>1. 1 \in 1..lp /\ 2 \in 1..lp /\ 3 \in 1..lp
          BY <4>2
        <5>2. QED BY <2>11, <5>1
      <4>6. SubSeq(e, la + 1, (la + 1) + 2) = <<e[la + 1], e[(la + 1) + 1], e[(la + 1) + 2]>>
        BY <1>2, <2>12, <4>4, ThreeAre
      <4>7. SubSeq(e, la + 1, (la + 1) + 2) = <<"&", Escapes[c], Semi>>
        BY <4>3, <4>4, <4>5, <4>6
      <4>8. EscapedAt(e, la + 1) # {} /\ (CHOOSE d \in EscapedAt(e, la + 1) : TRUE) = c
        <5> HIDE DEF c
        <5>1. QED BY <3>1, <4>4, <4>7, EscapedIs
      <4>9. D[la + 1] = <<c>> \o D[(la + 1) + 3]
        BY <1>3, <2>12, <4>8
      <4>10. QED BY <4>4, <4>9
    <3>2. CASE c \notin {"<", ">", "&"}
      <4>1. p = <<c>>
        BY <3>2 DEF p, Piece
      <4>2. lp = 1 /\ p[1] = c
        BY <4>1 DEF lp
      <4>3. (la + 1) + 1 = lb + 1
        BY <2>10, <4>2
      <4>4. e[la + 1] = c
        <5>1. 1 \in 1..lp
          BY <4>2
        <5>2. QED BY <2>11, <4>2, <5>1
      <4>5. EscapedAt(e, la + 1) = {}
        BY <1>2, <2>12, <3>2, <4>4, NotEscaped
      <4>6. D[la + 1] = <<e[la + 1]>> \o D[(la + 1) + 1]
        BY <1>3, <2>12, <4>5
      <4>7. QED BY <4>3, <4>4, <4>6
    <3>3. QED BY <3>1, <3>2
  <2>14. <<c>> \o SubSeq(v, j + 2, L) = SubSeq(v, j + 1, L)
    BY <2>2, ConsSub
  <2>15. D[Len(U(j)) + 1] = SubSeq(v, j + 1, L)
    BY <2>4, <2>13, <2>14 DEF la, lb, a
  <2>16. QED BY <2>15 DEF j
<1> HIDE DEF S
<1>6. Nat \subseteq S
  BY <1>4, <1>5, EveryNumber
<1> HIDE DEF G
<1>7. G(L)
  <2>1. L \in S /\ L <= L
    BY <1>0, <1>6
  <2>2. QED BY <2>1 DEF S
<1>8. D[1] = SubSeq(v, 1, L)
  <2>1. L - L = 0 /\ 0 + 1 = 1 /\ L - L + 1 = 1
    BY <1>0
  <2>2. Len(U(0)) = 0
    BY <1>1
  <2> HIDE DEF U
  <2>3. QED BY <1>7, <2>1, <2>2 DEF G
<1>9. SubSeq(v, 1, L) = v
  BY SubSeqFull
<1>10. QED BY <1>3, <1>8, <1>9 DEF e

-----------------------------------------------------------------------------
(* The reader: what is written                                             *)

LEMMA EncodeFacts ==
  ASSUME NEW v \in Values
  PROVE  /\ v \in Seq(Letters) /\ Encode(v) \in Seq(Chars) /\ Len(Encode(v)) \in Nat
         /\ \A i \in 1..Len(Encode(v)) : Encode(v)[i] # "<"
         /\ Len(Encode(v)) > 0 /\ Encode(v)[Len(Encode(v))] = "\\" => Backslashed(v)
         /\ Decode(Encode(v)) = v
<1>1. v \in Seq(Letters)
  BY DEF Values
<1>2. Len(v) \in 0..Len(v) /\ Len(v) \in Nat
  BY <1>1
<1> DEFINE e == Encode(v)
<1>3. /\ e \in Seq(Chars)
      /\ \A i \in 1..Len(e) : e[i] # "<"
      /\ Len(e) > 0 => Len(v) > 0 /\ (e[Len(e)] = "\\" => v[Len(v)] = "\\")
  BY <1>1, <1>2, EncodeSteps, EncodedUpToFacts
<1> HIDE DEF e
<1>4. Len(e) > 0 /\ e[Len(e)] = "\\" => Backslashed(v)
  <2>1. Len(v) > 0 => v # <<>>
    BY <1>1
  <2>2. QED BY <1>3, <2>1 DEF Backslashed
<1>5. Decode(e) = v
  BY <1>1, DecodeEncode DEF e
<1>6. Len(e) \in Nat
  BY <1>3
<1>7. QED BY <1>1, <1>3, <1>4, <1>5, <1>6 DEF e

\* t is found in msg behind its first k characters.
Put(msg, k, t) == k + Len(t) <= Len(msg) /\ \A i \in 1..Len(t) : msg[k + i] = t[i]

LEMMA PutFirst ==
  ASSUME NEW S, NEW s \in Seq(S)
  PROVE  Put(s, 0, s)
  BY DEF Put

LEMMA PutMore ==
  ASSUME NEW S, NEW s \in Seq(S), NEW t \in Seq(S)
  PROVE  /\ s \o t \in Seq(S) /\ Len(s \o t) = Len(s) + Len(t)
         /\ Put(s \o t, Len(s), t)
         /\ \A k \in Nat : \A x \in Seq(S) : Put(s, k, x) => Put(s \o t, k, x)
<1> DEFINE msg == s \o t
<1>1. /\ msg \in Seq(S) /\ Len(msg) = Len(s) + Len(t)
      /\ \A i \in 1..Len(s) : msg[i] = s[i]
      /\ \A i \in 1..Len(t) : msg[Len(s) + i] = t[i]
  BY ConcatHas
<1>2. Len(s) \in Nat /\ Len(t) \in Nat
  OBVIOUS
<1> HIDE DEF msg
<1>3. Put(msg, Len(s), t)
  BY <1>1, <1>2 DEF Put
<1>4. ASSUME NEW k \in Nat, NEW x \in Seq(S), Put(s, k, x) PROVE Put(msg, k, x)
  <2>1. Len(x) \in Nat /\ k + Len(x) <= Len(s)
    BY <1>4 DEF Put
  <2>2. ASSUME NEW i \in 1..Len(x) PROVE msg[k + i] = x[i]
    <3>1. k + i \in 1..Len(s)
      BY <1>2, <2>1
    <3>2. msg[k + i] = s[k + i]
      BY <1>1, <3>1
    <3>3. s[k + i] = x[i]
      BY <1>4 DEF Put
    <3>4. QED BY <3>2, <3>3
  <2>3. k + Len(x) <= Len(msg)
    BY <1>1, <1>2, <2>1
  <2>4. QED BY <2>2, <2>3 DEF Put
<1>5. QED BY <1>1, <1>3, <1>4 DEF msg

LEMMA BetweenIs ==
  ASSUME NEW tag \in Chars
  PROVE  /\ Between(tag) \in Seq(Chars) /\ Len(Between(tag)) = 3
         /\ Between(tag)[1] = "<" /\ Between(tag)[2] = tag /\ Between(tag)[3] = ">"
<1>1. "<" \in Chars /\ ">" \in Chars
  BY DEF Chars
<1>2. Between(tag) \in Seq(Chars)
  BY <1>1, FewAreSeq DEF Between
<1>3. QED BY <1>2 DEF Between

\* A sequence put behind another leaves where something is found.
LEMMA PutKept ==
  ASSUME NEW S, NEW s \in Seq(S), NEW t \in Seq(S), NEW k \in Nat, NEW x \in Seq(S), Put(s, k, x)
  PROVE  Put(s \o t, k, x)
  BY PutMore

LEMMA WrittenIs ==
  ASSUME NEW v \in Values
  PROVE  LET msg == Written(v)
             n == Len(Encode(v))
         IN /\ msg \in Seq(Chars) /\ Len(msg) = 17 + n
            /\ Put(msg, 0, Between("row")) /\ Put(msg, 3, <<Space>>) /\ Put(msg, 4, Between("col"))
            /\ Put(msg, 7, Between("str")) /\ Put(msg, 10, Encode(v)) /\ Put(msg, 10 + n, Between("/str"))
            /\ Put(msg, 13 + n, Between("EOT")) /\ Put(msg, 16 + n, <<Space>>)
<1> DEFINE b1 == Between("row")
           sp == <<Space>>
           b2 == Between("col")
           b3 == Between("str")
           e == Encode(v)
           n == Len(e)
           b4 == Between("/str")
           b5 == Between("EOT")
           s1 == b1 \o sp
           s2 == s1 \o b2
           s3 == s2 \o b3
           s4 == s3 \o e
           s5 == s4 \o b4
           s6 == s5 \o b5
           s7 == s6 \o sp
<1>1. Written(v) = s7
  BY Zenon DEF Written, Space
<1>2. {"row", "col", "str", "/str", "EOT", Space} \subseteq Chars
  BY DEF Chars
<1>3. /\ b1 \in Seq(Chars) /\ b2 \in Seq(Chars) /\ b3 \in Seq(Chars) /\ b4 \in Seq(Chars)
      /\ b5 \in Seq(Chars) /\ sp \in Seq(Chars) /\ e \in Seq(Chars)
  BY <1>2, BetweenIs, EncodeFacts, FewAreSeq
<1>4. /\ Len(b1) = 3 /\ Len(b2) = 3 /\ Len(b3) = 3 /\ Len(b4) = 3 /\ Len(b5) = 3
      /\ Len(sp) = 1 /\ n \in Nat
  BY <1>2, BetweenIs, EncodeFacts
<1>5. /\ 0 \in Nat /\ 3 \in Nat /\ 4 \in Nat /\ 7 \in Nat /\ 10 \in Nat /\ 10 + n \in Nat
      /\ 13 + n \in Nat /\ 3 + 1 = 4 /\ 4 + 3 = 7 /\ 7 + 3 = 10 /\ (10 + n) + 3 = 13 + n
      /\ (13 + n) + 3 = 16 + n /\ (16 + n) + 1 = 17 + n
  BY <1>4
<1>0. Len(e) = n
  OBVIOUS
<1> HIDE DEF b1, b2, b3, b4, b5, sp, e, n, s1, s2, s3, s4, s5, s6, s7
<1>6. Put(b1, 0, b1)
  BY <1>3, PutFirst
<1>7. /\ s1 \in Seq(Chars) /\ Len(s1) = 4
      /\ Put(s1, 0, b1)
      /\ Put(s1, 3, sp)
  <2>1. /\ b1 \o sp \in Seq(Chars) /\ Len(b1 \o sp) = Len(b1) + Len(sp)
        /\ Put(b1 \o sp, Len(b1), sp)
    BY <1>3, <1>6, PutMore
  <2>2. s1 \in Seq(Chars) /\ Len(s1) = 4 /\ Put(s1, 3, sp)
    BY <1>0, <1>4, <1>5, <1>6, <2>1 DEF s1
  <2>3. Put(s1, 0, b1)
    BY <1>3, <1>5, <1>6, PutKept DEF s1
  <2>4. QED BY <2>2, <2>3
<1>8. /\ s2 \in Seq(Chars) /\ Len(s2) = 7
      /\ Put(s2, 0, b1)
      /\ Put(s2, 3, sp)
      /\ Put(s2, 4, b2)
  <2>1. /\ s1 \o b2 \in Seq(Chars) /\ Len(s1 \o b2) = Len(s1) + Len(b2)
        /\ Put(s1 \o b2, Len(s1), b2)
    BY <1>3, <1>7, PutMore
  <2>2. s2 \in Seq(Chars) /\ Len(s2) = 7 /\ Put(s2, 4, b2)
    BY <1>0, <1>4, <1>5, <1>7, <2>1 DEF s2
  <2>3. Put(s2, 0, b1)
    BY <1>3, <1>5, <1>7, PutKept DEF s2
  <2>4. Put(s2, 3, sp)
    BY <1>3, <1>5, <1>7, PutKept DEF s2
  <2>5. QED BY <2>2, <2>3, <2>4
<1>9. /\ s3 \in Seq(Chars) /\ Len(s3) = 10
      /\ Put(s3, 0, b1)
      /\ Put(s3, 3, sp)
      /\ Put(s3, 4, b2)
      /\ Put(s3, 7, b3)
  <2>1. /\ s2 \o b3 \in Seq(Chars) /\ Len(s2 \o b3) = Len(s2) + Len(b3)
        /\ Put(s2 \o b3, Len(s2), b3)
    BY <1>3, <1>8, PutMore
  <2>2. s3 \in Seq(Chars) /\ Len(s3) = 10 /\ Put(s3, 7, b3)
    BY <1>0, <1>4, <1>5, <1>8, <2>1 DEF s3
  <2>3. Put(s3, 0, b1)
    BY <1>3, <1>5, <1>8, PutKept DEF s3
  <2>4. Put(s3, 3, sp)
    BY <1>3, <1>5, <1>8, PutKept DEF s3
  <2>5. Put(s3, 4, b2)
    BY <1>3, <1>5, <1>8, PutKept DEF s3
  <2>6. QED BY <2>2, <2>3, <2>4, <2>5
<1>10. /\ s4 \in Seq(Chars) /\ Len(s4) = 10 + n
      /\ Put(s4, 0, b1)
      /\ Put(s4, 3, sp)
      /\ Put(s4, 4, b2)
      /\ Put(s4, 7, b3)
      /\ Put(s4, 10, e)
  <2>1. /\ s3 \o e \in Seq(Chars) /\ Len(s3 \o e) = Len(s3) + Len(e)
        /\ Put(s3 \o e, Len(s3), e)
    BY <1>3, <1>9, PutMore
  <2>2. s4 \in Seq(Chars) /\ Len(s4) = 10 + n /\ Put(s4, 10, e)
    BY <1>0, <1>4, <1>5, <1>9, <2>1 DEF s4
  <2>3. Put(s4, 0, b1)
    BY <1>3, <1>5, <1>9, PutKept DEF s4
  <2>4. Put(s4, 3, sp)
    BY <1>3, <1>5, <1>9, PutKept DEF s4
  <2>5. Put(s4, 4, b2)
    BY <1>3, <1>5, <1>9, PutKept DEF s4
  <2>6. Put(s4, 7, b3)
    BY <1>3, <1>5, <1>9, PutKept DEF s4
  <2>7. QED BY <2>2, <2>3, <2>4, <2>5, <2>6
<1>11. /\ s5 \in Seq(Chars) /\ Len(s5) = 13 + n
      /\ Put(s5, 0, b1)
      /\ Put(s5, 3, sp)
      /\ Put(s5, 4, b2)
      /\ Put(s5, 7, b3)
      /\ Put(s5, 10, e)
      /\ Put(s5, 10 + n, b4)
  <2>1. /\ s4 \o b4 \in Seq(Chars) /\ Len(s4 \o b4) = Len(s4) + Len(b4)
        /\ Put(s4 \o b4, Len(s4), b4)
    BY <1>3, <1>10, PutMore
  <2>2. s5 \in Seq(Chars) /\ Len(s5) = 13 + n /\ Put(s5, 10 + n, b4)
    BY <1>0, <1>4, <1>5, <1>10, <2>1 DEF s5
  <2>3. Put(s5, 0, b1)
    BY <1>3, <1>5, <1>10, PutKept DEF s5
  <2>4. Put(s5, 3, sp)
    BY <1>3, <1>5, <1>10, PutKept DEF s5
  <2>5. Put(s5, 4, b2)
    BY <1>3, <1>5, <1>10, PutKept DEF s5
  <2>6. Put(s5, 7, b3)
    BY <1>3, <1>5, <1>10, PutKept DEF s5
  <2>7. Put(s5, 10, e)
    BY <1>3, <1>5, <1>10, PutKept DEF s5
  <2>8. QED BY <2>2, <2>3, <2>4, <2>5, <2>6, <2>7
<1>12. /\ s6 \in Seq(Chars) /\ Len(s6) = 16 + n
      /\ Put(s6, 0, b1)
      /\ Put(s6, 3, sp)
      /\ Put(s6, 4, b2)
      /\ Put(s6, 7, b3)
      /\ Put(s6, 10, e)
      /\ Put(s6, 10 + n, b4)
      /\ Put(s6, 13 + n, b5)
  <2>1. /\ s5 \o b5 \in Seq(Chars) /\ Len(s5 \o b5) = Len(s5) + Len(b5)
        /\ Put(s5 \o b5, Len(s5), b5)
    BY <1>3, <1>11, PutMore
  <2>2. s6 \in Seq(Chars) /\ Len(s6) = 16 + n /\ Put(s6, 13 + n, b5)
    BY <1>0, <1>4, <1>5, <1>11, <2>1 DEF s6
  <2>3. Put(s6, 0, b1)
    BY <1>3, <1>5, <1>11, PutKept DEF s6
  <2>4. Put(s6, 3, sp)
    BY <1>3, <1>5, <1>11, PutKept DEF s6
  <2>5. Put(s6, 4, b2)
    BY <1>3, <1>5, <1>11, PutKept DEF s6
  <2>6. Put(s6, 7, b3)
    BY <1>3, <1>5, <1>11, PutKept DEF s6
  <2>7. Put(s6, 10, e)
    BY <1>3, <1>5, <1>11, PutKept DEF s6
  <2>8. Put(s6, 10 + n, b4)
    BY <1>3, <1>5, <1>11, PutKept DEF s6
  <2>9. QED BY <2>2, <2>3, <2>4, <2>5, <2>6, <2>7, <2>8
<1>13. /\ s7 \in Seq(Chars) /\ Len(s7) = 17 + n
      /\ Put(s7, 0, b1)
      /\ Put(s7, 3, sp)
      /\ Put(s7, 4, b2)
      /\ Put(s7, 7, b3)
      /\ Put(s7, 10, e)
      /\ Put(s7, 10 + n, b4)
      /\ Put(s7, 13 + n, b5)
      /\ Put(s7, 16 + n, sp)
  <2>1. /\ s6 \o sp \in Seq(Chars) /\ Len(s6 \o sp) = Len(s6) + Len(sp)
        /\ Put(s6 \o sp, Len(s6), sp)
    BY <1>3, <1>12, PutMore
  <2>2. s7 \in Seq(Chars) /\ Len(s7) = 17 + n /\ Put(s7, 16 + n, sp)
    BY <1>0, <1>4, <1>5, <1>12, <2>1 DEF s7
  <2>3. Put(s7, 0, b1)
    BY <1>3, <1>5, <1>12, PutKept DEF s7
  <2>4. Put(s7, 3, sp)
    BY <1>3, <1>5, <1>12, PutKept DEF s7
  <2>5. Put(s7, 4, b2)
    BY <1>3, <1>5, <1>12, PutKept DEF s7
  <2>6. Put(s7, 7, b3)
    BY <1>3, <1>5, <1>12, PutKept DEF s7
  <2>7. Put(s7, 10, e)
    BY <1>3, <1>5, <1>12, PutKept DEF s7
  <2>8. Put(s7, 10 + n, b4)
    BY <1>3, <1>5, <1>12, PutKept DEF s7
  <2>9. Put(s7, 13 + n, b5)
    BY <1>3, <1>5, <1>12, PutKept DEF s7
  <2>10. QED BY <2>2, <2>3, <2>4, <2>5, <2>6, <2>7, <2>8, <2>9
<1>14. QED BY <1>1, <1>13 DEF b1, b2, b3, b4, b5, sp, e, n

\* The characters of a message, by their places.
LEMMA WrittenHas ==
  ASSUME NEW v \in Values
  PROVE  LET msg == Written(v)
             n == Len(Encode(v))
         IN /\ msg \in Seq(Chars) /\ Len(msg) = 17 + n
            /\ msg[1] = "<" /\ msg[2] = "row" /\ msg[3] = ">" /\ msg[4] = Space
            /\ msg[5] = "<" /\ msg[6] = "col" /\ msg[7] = ">"
            /\ msg[8] = "<" /\ msg[9] = "str" /\ msg[10] = ">"
            /\ \A i \in 1..n : msg[10 + i] = Encode(v)[i]
            /\ msg[11 + n] = "<" /\ msg[12 + n] = "/str" /\ msg[13 + n] = ">"
            /\ msg[14 + n] = "<" /\ msg[15 + n] = "EOT" /\ msg[16 + n] = ">" /\ msg[17 + n] = Space
<1> DEFINE msg == Written(v)
           n == Len(Encode(v))
<1>1. /\ msg \in Seq(Chars) /\ Len(msg) = 17 + n
      /\ Put(msg, 0, Between("row")) /\ Put(msg, 3, <<Space>>) /\ Put(msg, 4, Between("col"))
      /\ Put(msg, 7, Between("str")) /\ Put(msg, 10, Encode(v)) /\ Put(msg, 10 + n, Between("/str"))
      /\ Put(msg, 13 + n, Between("EOT")) /\ Put(msg, 16 + n, <<Space>>)
  BY WrittenIs
<1>2. n \in Nat
  BY EncodeFacts
<1> HIDE DEF msg, n
<1>3. ASSUME NEW tag \in Chars, NEW k \in Nat, Put(msg, k, Between(tag))
      PROVE  msg[k + 1] = "<" /\ msg[k + 2] = tag /\ msg[k + 3] = ">"
  <2>1. /\ Len(Between(tag)) = 3
        /\ Between(tag)[1] = "<" /\ Between(tag)[2] = tag /\ Between(tag)[3] = ">"
    BY BetweenIs
  <2>2. 1 \in 1..3 /\ 2 \in 1..3 /\ 3 \in 1..3
    OBVIOUS
  <2>3. QED BY <1>3, <2>1, <2>2 DEF Put
<1>4. ASSUME NEW k \in Nat, Put(msg, k, <<Space>>)
      PROVE  msg[k + 1] = Space
  <2>1. Len(<<Space>>) = 1 /\ <<Space>>[1] = Space /\ 1 \in 1..1
    OBVIOUS
  <2>2. QED BY <1>4, <2>1 DEF Put
<1>5. {"row", "col", "str", "/str", "EOT", Space} \subseteq Chars
  BY DEF Chars
<1>6. msg[1] = "<" /\ msg[2] = "row" /\ msg[3] = ">" /\ msg[4] = Space
  <2>1. 0 \in Nat /\ 0 + 1 = 1 /\ 0 + 2 = 2 /\ 0 + 3 = 3 /\ 3 \in Nat /\ 3 + 1 = 4
    OBVIOUS
  <2>2. msg[0 + 1] = "<" /\ msg[0 + 2] = "row" /\ msg[0 + 3] = ">"
    BY <1>1, <1>3, <1>5, <2>1
  <2>3. msg[3 + 1] = Space
    BY <1>1, <1>4, <2>1
  <2>4. QED BY <2>1, <2>2, <2>3
<1>7. msg[5] = "<" /\ msg[6] = "col" /\ msg[7] = ">"
  <2>1. 4 \in Nat /\ 4 + 1 = 5 /\ 4 + 2 = 6 /\ 4 + 3 = 7
    OBVIOUS
  <2>2. msg[4 + 1] = "<" /\ msg[4 + 2] = "col" /\ msg[4 + 3] = ">"
    BY <1>1, <1>3, <1>5, <2>1
  <2>3. QED BY <2>1, <2>2
<1>8. msg[8] = "<" /\ msg[9] = "str" /\ msg[10] = ">"
  <2>1. 7 \in Nat /\ 7 + 1 = 8 /\ 7 + 2 = 9 /\ 7 + 3 = 10
    OBVIOUS
  <2>2. msg[7 + 1] = "<" /\ msg[7 + 2] = "str" /\ msg[7 + 3] = ">"
    BY <1>1, <1>3, <1>5, <2>1
  <2>3. QED BY <2>1, <2>2
<1>9. \A i \in 1..n : msg[10 + i] = Encode(v)[i]
  BY <1>1 DEF Put, n
<1>10. msg[11 + n] = "<" /\ msg[12 + n] = "/str" /\ msg[13 + n] = ">"
  <2>1. 10 + n \in Nat /\ (10 + n) + 1 = 11 + n /\ (10 + n) + 2 = 12 + n /\ (10 + n) + 3 = 13 + n
    BY <1>2
  <2>2. msg[(10 + n) + 1] = "<" /\ msg[(10 + n) + 2] = "/str" /\ msg[(10 + n) + 3] = ">"
    BY <1>1, <1>3, <1>5, <2>1
  <2>3. QED BY <2>1, <2>2
<1>11. msg[14 + n] = "<" /\ msg[15 + n] = "EOT" /\ msg[16 + n] = ">"
  <2>1. 13 + n \in Nat /\ (13 + n) + 1 = 14 + n /\ (13 + n) + 2 = 15 + n /\ (13 + n) + 3 = 16 + n
    BY <1>2
  <2>2. msg[(13 + n) + 1] = "<" /\ msg[(13 + n) + 2] = "EOT" /\ msg[(13 + n) + 3] = ">"
    BY <1>1, <1>3, <1>5, <2>1
  <2>3. QED BY <2>1, <2>2
<1>12. msg[17 + n] = Space
  <2>1. 16 + n \in Nat /\ (16 + n) + 1 = 17 + n
    BY <1>2
  <2>2. msg[(16 + n) + 1] = Space
    BY <1>1, <1>4, <2>1
  <2>3. QED BY <2>1, <2>2
<1>13. QED BY <1>1, <1>6, <1>7, <1>8, <1>9, <1>10, <1>11, <1>12 DEF msg, n

-----------------------------------------------------------------------------
(* The reader: what a character does                                       *)

ReaderTyped ==
  /\ ctx \in [buf : Seq(Chars), at : {"begin", "tag", "value", "done", "failed"}, text : Seq(Chars),
              prev : Chars \cup {Nothing}, trunc : BOOLEAN, follows : {"no", "value", "ended"},
              tokens : {ctx.tokens}, errs : Nat, eof : Nat, waited : Nat]
  /\ net \in Seq(Chars)
  /\ sender.value \in Values
  /\ ctx.trunc => ctx.errs # 0
  /\ ctx.at = "begin" => ctx.follows = "no"

LEMMA SpaceIsNoBracket == Space # "<" /\ Space # ">"
  BY Zenon DEF Space

LEMMA NoneIsSeq == <<>> \in Seq(Chars)
  OBVIOUS

LEMMA BeginIs ==
  ASSUME NEW c
  PROVE  BeginChar(c) =
           IF c = Space THEN ctx
           ELSE IF c = "<" THEN [ctx EXCEPT !.at = "tag", !.text = <<>>, !.trunc = FALSE]
           ELSE [ctx EXCEPT !.tokens = Append(@, <<"char", c>>)]
  BY Zenon DEF BeginChar, Space

LEMMA FollowsAre ==
  /\ DOMAIN Follows = {"row", "col", "str", "/str", "EOT"}
  /\ \A tag \in DOMAIN Follows : Follows[tag] = IF tag = "str" THEN "value" ELSE "no"
  BY DEF Follows

LEMMA KeptIs ==
  ASSUME ReaderTyped, NEW c \in Chars
  PROVE  /\ Kept(c) \in [buf : Seq(Chars), at : {ctx.at}, text : Seq(Chars),
                         prev : {ctx.prev}, trunc : BOOLEAN, follows : {ctx.follows},
                         tokens : {ctx.tokens}, errs : Nat, eof : {ctx.eof}, waited : {ctx.waited}]
         /\ Kept(c).trunc => Kept(c).errs # 0
         /\ Kept(c).errs = 0 => ctx.errs = 0 /\ Kept(c).text = Append(ctx.text, c)
         /\ ctx.text = <<>> => Kept(c).text = <<c>> /\ Kept(c).errs = ctx.errs
<1>1. CASE Len(ctx.text) >= MaxString
  <2>1. Kept(c) = [ctx EXCEPT !.trunc = TRUE, !.errs = IF ctx.trunc THEN ctx.errs ELSE ctx.errs + 1]
    BY <1>1 DEF Kept
  <2>2. Kept(c).errs = IF ctx.trunc THEN ctx.errs ELSE ctx.errs + 1
    BY <2>1 DEF ReaderTyped
  <2>3. Kept(c).errs \in Nat /\ Kept(c).errs # 0
    BY <2>2 DEF ReaderTyped
  <2>4. ctx.text # <<>>
    BY <1>1, XmltpLexAssumption
  <2>5. Kept(c) \in [buf : Seq(Chars), at : {ctx.at}, text : Seq(Chars),
                     prev : {ctx.prev}, trunc : BOOLEAN, follows : {ctx.follows},
                     tokens : {ctx.tokens}, errs : {Kept(c).errs}, eof : {ctx.eof}, waited : {ctx.waited}]
    BY <2>1, <2>2 DEF ReaderTyped
  <2>6. QED BY <2>3, <2>4, <2>5
<1>2. CASE ~(Len(ctx.text) >= MaxString)
  <2>1. Kept(c) = [ctx EXCEPT !.text = Append(ctx.text, c)]
    BY <1>2 DEF Kept
  <2>2. ctx.text \in Seq(Chars)
    BY DEF ReaderTyped
  <2> DEFINE t == ctx.text
  <2>3. Append(t, c) \in Seq(Chars) /\ (t = <<>> => Append(t, c) = <<c>>)
    <3> HIDE DEF t
    <3>1. Append(t, c) \in Seq(Chars)
      BY <2>2 DEF t
    <3>2. Append(<<>>, c) = <<c>>
      OBVIOUS
    <3>3. QED BY <3>1, <3>2
  <2>4. QED BY <2>1, <2>3 DEF ReaderTyped
<1>3. QED BY <1>1, <1>2

LEMMA FirstAndRest ==
  ASSUME NEW S, NEW s \in Seq(S), s # <<>>
  PROVE  /\ Head(s) = s[1] /\ Head(s) \in S /\ Tail(s) \in Seq(S) /\ Len(Tail(s)) = Len(s) - 1
         /\ Len(s) > 0 /\ \A i \in 1..Len(Tail(s)) : Tail(s)[i] = s[i + 1]
  OBVIOUS

\* A character between two tokens.
LEMMA CharInBegin ==
  ASSUME ReaderTyped, LexChar, ctx.at = "begin"
  PROVE  /\ ReaderTyped' /\ ctx'.buf = Tail(ctx.buf) /\ ctx'.errs = ctx.errs
         /\ ctx'.follows = ctx.follows
         /\ Head(ctx.buf) = Space => ctx'.at = "begin" /\ ctx'.tokens = ctx.tokens
         /\ Head(ctx.buf) = "<" =>
              ctx'.at = "tag" /\ ctx'.text = <<>> /\ ctx'.tokens = ctx.tokens
<1> DEFINE c == Head(ctx.buf)
           b == Tail(ctx.buf)
<1>1. ctx.buf # <<>> /\ UNCHANGED <<net, sender>> /\ ctx' = [BeginChar(c) EXCEPT !.buf = b]
  BY DEF LexChar
<1>2. c \in Chars /\ b \in Seq(Chars)
  BY <1>1, FirstAndRest DEF ReaderTyped
<1> HIDE DEF c, b
<1>3. CASE c = Space
  <2>1. ctx' = [ctx EXCEPT !.buf = b]
    BY <1>1, <1>3, BeginIs
  <2>2. ReaderTyped' /\ ctx'.buf = b /\ ctx'.errs = ctx.errs /\ ctx'.follows = ctx.follows
    BY <1>1, <1>2, <2>1 DEF ReaderTyped
  <2>3. ctx'.at = "begin" /\ ctx'.tokens = ctx.tokens
    BY <2>1 DEF ReaderTyped
  <2>4. QED BY <1>3, <2>2, <2>3, SpaceIsNoBracket DEF c, b
<1>4. CASE c = "<"
  <2>1. ctx' = [ctx EXCEPT !.at = "tag", !.text = <<>>, !.trunc = FALSE, !.buf = b]
    BY <1>1, <1>4, BeginIs, SpaceIsNoBracket
  <2>2. ReaderTyped' /\ ctx'.buf = b /\ ctx'.errs = ctx.errs /\ ctx'.follows = ctx.follows
    BY <1>1, <1>2, <2>1, NoneIsSeq DEF ReaderTyped
  <2>3. ctx'.at = "tag" /\ ctx'.text = <<>> /\ ctx'.tokens = ctx.tokens
    BY <2>1 DEF ReaderTyped
  <2>4. QED BY <1>4, <2>2, <2>3, SpaceIsNoBracket DEF c, b
<1>5. CASE c # Space /\ c # "<"
  <2> DEFINE t == Append(ctx.tokens, <<"char", c>>)
  <2>1. ctx' = [ctx EXCEPT !.tokens = t, !.buf = b]
    BY <1>1, <1>5, BeginIs
  <2> HIDE DEF t
  <2>2. ctx'.buf = b /\ ctx'.errs = ctx.errs /\ ctx'.follows = ctx.follows
    BY <2>1 DEF ReaderTyped
  <2>3. ReaderTyped'
    BY <1>1, <1>2, <2>1 DEF ReaderTyped
  <2>4. QED BY <1>5, <2>2, <2>3 DEF c, b
<1>6. QED BY <1>3, <1>4, <1>5

\* A character of a tag, or the bracket behind it.
LEMMA CharInTag ==
  ASSUME ReaderTyped, LexChar, ctx.at = "tag"
  PROVE  /\ ReaderTyped' /\ ctx'.buf = Tail(ctx.buf) /\ (ctx'.errs = 0 => ctx.errs = 0)
         /\ Head(ctx.buf) # ">" =>
              /\ ctx'.at = "tag" /\ ctx'.tokens = ctx.tokens /\ ctx'.follows = ctx.follows
              /\ ctx.text = <<>> => ctx'.text = <<Head(ctx.buf)>>
         /\ \A t \in {"row", "col", "/str", "EOT", "str"} :
              Head(ctx.buf) = ">" /\ ctx.text = <<t>> =>
                /\ ctx'.text = <<>> /\ ctx'.prev = Nothing
                /\ ctx'.tokens = Append(ctx.tokens, <<"tag", t>>)
                /\ ctx'.at = IF t = "EOT" THEN "done" ELSE IF t = "str" THEN "value" ELSE "begin"
         /\ Head(ctx.buf) = ">" /\ ctx.text = <<"new">> => ctx'.at = "failed"
<1> DEFINE c == Head(ctx.buf)
           b == Tail(ctx.buf)
<1>1. ctx.buf # <<>> /\ UNCHANGED <<net, sender>> /\ ctx' = [TagChar(c) EXCEPT !.buf = b]
  BY DEF LexChar
<1>2. c \in Chars /\ b \in Seq(Chars)
  BY <1>1, FirstAndRest DEF ReaderTyped
<1> HIDE DEF c, b
<1>3. CASE c # ">"
  <2>1. ctx' = [Kept(c) EXCEPT !.buf = b]
    BY <1>1, <1>3 DEF TagChar
  <2>2. /\ Kept(c) \in [buf : Seq(Chars), at : {ctx.at}, text : Seq(Chars),
                         prev : {ctx.prev}, trunc : BOOLEAN, follows : {ctx.follows},
                         tokens : {ctx.tokens}, errs : Nat, eof : {ctx.eof}, waited : {ctx.waited}]
        /\ Kept(c).trunc => Kept(c).errs # 0
        /\ Kept(c).errs = 0 => ctx.errs = 0 /\ Kept(c).text = Append(ctx.text, c)
        /\ ctx.text = <<>> => Kept(c).text = <<c>> /\ Kept(c).errs = ctx.errs
    BY <1>2, KeptIs
  <2> DEFINE x == Kept(c)
  <2> HIDE DEF x
  <2>3. ReaderTyped'
    BY <1>1, <1>2, <2>1, <2>2 DEF ReaderTyped, x
  <2>4. ctx'.buf = b /\ (ctx'.errs = 0 => ctx.errs = 0)
    BY <2>1, <2>2 DEF x
  <2>5. ctx'.at = "tag" /\ ctx'.tokens = ctx.tokens /\ ctx'.follows = ctx.follows
    BY <2>1, <2>2 DEF x
  <2>6. ctx.text = <<>> => ctx'.text = <<c>>
    BY <2>1, <2>2 DEF x
  <2>7. QED BY <1>3, <2>3, <2>4, <2>5, <2>6 DEF c, b
<1>4. CASE c = ">" /\ (ctx.text = <<>> \/ ctx.text[1] \notin DOMAIN Follows)
  <2> DEFINE e == ctx.errs + 1
  <2>1. TagChar(c) = [ctx EXCEPT !.at = "failed", !.errs = e]
    BY <1>4 DEF TagChar
  <2>2. e \in Nat /\ e # 0
    BY DEF ReaderTyped
  <2> HIDE DEF e
  <2>3. ctx' = [ctx EXCEPT !.at = "failed", !.errs = e, !.buf = b]
    BY <1>1, <2>1
  <2>4. ReaderTyped'
    BY <1>1, <1>2, <2>2, <2>3 DEF ReaderTyped
  <2>5. ctx'.buf = b /\ ctx'.at = "failed" /\ ctx'.errs = e
    BY <2>3 DEF ReaderTyped
  <2>6. \A x \in {"row", "col", "/str", "EOT", "str"} : ctx.text # <<x>>
    BY <1>4, FollowsAre
  <2>7. QED BY <1>4, <2>2, <2>4, <2>5, <2>6 DEF c, b
<1>5. CASE c = ">" /\ ~(ctx.text = <<>> \/ ctx.text[1] \notin DOMAIN Follows)
  <2> DEFINE tag == ctx.text[1]
             follows == Follows[tag]
             at == IF tag = "EOT" THEN "done" ELSE IF follows = "value" THEN "value" ELSE "begin"
             t == Append(ctx.tokens, <<"tag", tag>>)
  <2>1. TagChar(c) =
           [ctx EXCEPT !.follows = follows, !.tokens = Append(@, <<"tag", tag>>),
                       !.text = <<>>, !.prev = Nothing, !.trunc = FALSE, !.at = at]
    BY <1>5, Zenon DEF TagChar, Nothing
  <2>2. tag \in DOMAIN Follows
    BY <1>5
  <2>3. follows = IF tag = "str" THEN "value" ELSE "no"
    <3> HIDE DEF tag
    <3>1. QED BY <2>2, FollowsAre
  <2>4. \A x \in {"row", "col", "/str", "EOT", "str"} : ctx.text = <<x>> => tag = x
    OBVIOUS
  <2>5. ctx.text # <<"new">>
    BY <2>2, FollowsAre
  <2> HIDE DEF tag, follows
  <2>6. follows \in {"no", "value"} /\ (at = "begin" => follows = "no")
    BY <2>3
  <2>7. at \in {"begin", "value", "done"}
    OBVIOUS
  <2>8. at = IF tag = "EOT" THEN "done" ELSE IF tag = "str" THEN "value" ELSE "begin"
    BY <2>3
  <2> HIDE DEF at, t
  <2>9. ctx' = [ctx EXCEPT !.follows = follows, !.tokens = t, !.text = <<>>, !.prev = Nothing,
                           !.trunc = FALSE, !.at = at, !.buf = b]
    BY <1>1, <2>1 DEF t
  <2>10. ReaderTyped'
    <3>1. ctx' \in [buf : Seq(Chars), at : {"begin", "tag", "value", "done", "failed"},
                    text : Seq(Chars), prev : Chars \cup {Nothing}, trunc : BOOLEAN,
                    follows : {"no", "value", "ended"}, tokens : {ctx'.tokens}, errs : Nat,
                    eof : Nat, waited : Nat]
      BY <1>2, <2>6, <2>7, <2>9, NoneIsSeq DEF ReaderTyped
    <3>2. ~ctx'.trunc /\ (ctx'.at = "begin" => ctx'.follows = "no")
      BY <2>6, <2>9 DEF ReaderTyped
    <3>3. net' \in Seq(Chars) /\ sender'.value \in Values
      BY <1>1 DEF ReaderTyped
    <3>4. QED BY <3>1, <3>2, <3>3 DEF ReaderTyped
  <2>11. /\ ctx'.buf = b /\ ctx'.errs = ctx.errs /\ ctx'.text = <<>> /\ ctx'.prev = Nothing
         /\ ctx'.tokens = t /\ ctx'.at = at
    BY <2>9 DEF ReaderTyped
  <2>12. \A x \in {"row", "col", "/str", "EOT", "str"} :
              ctx.text = <<x>> =>
                /\ ctx'.text = <<>> /\ ctx'.prev = Nothing
                /\ ctx'.tokens = Append(ctx.tokens, <<"tag", x>>)
                /\ ctx'.at = IF x = "EOT" THEN "done" ELSE IF x = "str" THEN "value" ELSE "begin"
    BY <2>4, <2>8, <2>11 DEF t
  <2>13. QED BY <1>5, <2>5, <2>10, <2>11, <2>12 DEF c, b
<1>6. QED BY <1>3, <1>4, <1>5

\* A character of a value, or the bracket at its end.
LEMMA CharInValue ==
  ASSUME ReaderTyped, LexChar, ctx.at = "value"
  PROVE  /\ ReaderTyped' /\ ctx'.buf = Tail(ctx.buf) /\ (ctx'.errs = 0 => ctx.errs = 0)
         /\ Head(ctx.buf) = "<" /\ ctx.prev # "\\" =>
              /\ ctx'.at = "tag" /\ ctx'.follows = "ended" /\ ctx'.text = <<>>
              /\ ctx'.tokens = Append(ctx.tokens, <<"value", Decode(ctx.text)>>)
         /\ ~(Head(ctx.buf) = "<" /\ ctx.prev # "\\") =>
              /\ ctx'.at = "value" /\ ctx'.prev = Head(ctx.buf) /\ ctx'.tokens = ctx.tokens
              /\ ctx'.errs = 0 => ctx'.text = Append(ctx.text, Head(ctx.buf))
<1> DEFINE c == Head(ctx.buf)
           b == Tail(ctx.buf)
<1>1. ctx.buf # <<>> /\ UNCHANGED <<net, sender>> /\ ctx' = [ValueChar(c) EXCEPT !.buf = b]
  BY DEF LexChar
<1>2. c \in Chars /\ b \in Seq(Chars)
  BY <1>1, FirstAndRest DEF ReaderTyped
<1> HIDE DEF c, b
<1>3. CASE c = "<" /\ ctx.prev # "\\"
  <2> DEFINE t == Append(ctx.tokens, <<"value", Decode(ctx.text)>>)
  <2>1. Valued = [ctx EXCEPT !.text = <<>>, !.trunc = FALSE, !.tokens = t]
    BY DEF Valued
  <2>2. ValueChar(c) = [Valued EXCEPT !.at = "tag", !.follows = "ended"]
    BY <1>3 DEF ValueChar
  <2> HIDE DEF t
  <2>3. ctx' = [ctx EXCEPT !.text = <<>>, !.trunc = FALSE, !.tokens = t,
                           !.at = "tag", !.follows = "ended", !.buf = b]
    BY <1>1, <2>1, <2>2
  <2>4. ReaderTyped'
    <3>1. ctx' \in [buf : Seq(Chars), at : {"begin", "tag", "value", "done", "failed"},
                    text : Seq(Chars), prev : Chars \cup {Nothing}, trunc : BOOLEAN,
                    follows : {"no", "value", "ended"}, tokens : {ctx'.tokens}, errs : Nat,
                    eof : Nat, waited : Nat]
      BY <1>2, <2>3, NoneIsSeq DEF ReaderTyped
    <3>2. ~ctx'.trunc /\ ctx'.at = "tag"
      BY <2>3 DEF ReaderTyped
    <3>3. net' \in Seq(Chars) /\ sender'.value \in Values
      BY <1>1 DEF ReaderTyped
    <3>4. QED BY <3>1, <3>2, <3>3 DEF ReaderTyped
  <2>5. /\ ctx'.buf = b /\ ctx'.errs = ctx.errs /\ ctx'.at = "tag" /\ ctx'.follows = "ended"
        /\ ctx'.text = <<>> /\ ctx'.tokens = t
    BY <2>3 DEF ReaderTyped
  <2>6. QED BY <1>3, <2>4, <2>5 DEF c, b, t
<1>4. CASE ~(c = "<" /\ ctx.prev # "\\")
  <2>1. ctx' = [Kept(c) EXCEPT !.prev = c, !.buf = b]
    BY <1>1, <1>4 DEF ValueChar
  <2>2. /\ Kept(c) \in [buf : Seq(Chars), at : {ctx.at}, text : Seq(Chars),
                         prev : {ctx.prev}, trunc : BOOLEAN, follows : {ctx.follows},
                         tokens : {ctx.tokens}, errs : Nat, eof : {ctx.eof}, waited : {ctx.waited}]
        /\ Kept(c).trunc => Kept(c).errs # 0
        /\ Kept(c).errs = 0 => ctx.errs = 0 /\ Kept(c).text = Append(ctx.text, c)
    BY <1>2, KeptIs
  <2> DEFINE x == Kept(c)
  <2> HIDE DEF x
  <2>3. ReaderTyped'
    BY <1>1, <1>2, <2>1, <2>2 DEF ReaderTyped, x
  <2>4. ctx'.buf = b /\ (ctx'.errs = 0 => ctx.errs = 0)
    BY <2>1, <2>2 DEF x
  <2>5. /\ ctx'.at = "value" /\ ctx'.prev = c /\ ctx'.tokens = ctx.tokens
        /\ ctx'.errs = 0 => ctx'.text = Append(ctx.text, c)
    BY <2>1, <2>2 DEF x
  <2>6. QED BY <1>4, <2>3, <2>4, <2>5 DEF c, b
<1>5. QED BY <1>3, <1>4

-----------------------------------------------------------------------------
(* The reader: how far a message is read                                   *)

\* The first tokens of a message.
TokensUpTo(v, m) == SubSeq(Expected(v), 1, m)

\* The characters that are still to come are those of msg behind the first k.
Coming(msg, k) ==
  /\ k + Len(ctx.buf) + Len(net) <= Len(msg)
  /\ \A i \in 1..Len(ctx.buf) : ctx.buf[i] = msg[k + i]
  /\ \A i \in 1..Len(net) : net[i] = msg[k + Len(ctx.buf) + i]

\* Before the value.
AtHead(v, k) ==
  /\ k \in 0..9 /\ ctx.follows = "no"
  /\ ctx.at = (IF k \in {0, 3, 4, 7} THEN "begin" ELSE "tag")
  /\ k \in {1, 5, 8} => ctx.text = <<>>
  /\ k = 2 => ctx.text = <<"row">>
  /\ k = 6 => ctx.text = <<"col">>
  /\ k = 9 => ctx.text = <<"str">>
  /\ ctx.tokens = TokensUpTo(v, IF k < 3 THEN 0 ELSE IF k < 7 THEN 1 ELSE 2)

\* In the value, of which i characters are read.
WithinValue(v, i) ==
  /\ i \in 0..Len(Encode(v)) /\ ctx.at = "value"
  /\ ctx.prev = IF i = 0 THEN Nothing ELSE Encode(v)[i]
  /\ ctx.errs = 0 => ctx.text = SubSeq(Encode(v), 1, i)
  /\ ctx.tokens = TokensUpTo(v, 3)

\* Behind the value.
BehindValue(v, j) ==
  /\ j \in 1..6
  /\ ctx.at = (IF j = 3 THEN "begin" ELSE IF j = 6 THEN "done" ELSE "tag")
  /\ j \in {1, 4} => ctx.text = <<>>
  /\ j = 2 => ctx.text = <<"/str">>
  /\ j = 5 => ctx.text = <<"EOT">>
  /\ ctx.errs = 0 => ctx.tokens = TokensUpTo(v, IF j < 3 THEN 4 ELSE IF j < 6 THEN 5 ELSE 6)

\* Behind a value whose last character hides the bracket behind it.
BehindHidden(v, j) ==
  /\ Backslashed(v) /\ j \in 1..6
  /\ ctx.at = (IF j < 4 THEN "value" ELSE IF j = 6 THEN "done" ELSE "tag")
  /\ j = 3 => ctx.prev = ">"
  /\ j = 4 => ctx.text = <<>>
  /\ j = 5 => ctx.text = <<"EOT">>

ReadUpTo(v, k) ==
  \/ AtHead(v, k)
  \/ WithinValue(v, k - 10)
  \/ BehindValue(v, k - 10 - Len(Encode(v)))
  \/ BehindHidden(v, k - 10 - Len(Encode(v)))

\* No message is on its way, but for the space behind the last one.
Waiting ==
  /\ ctx.at = "begin" /\ ctx.tokens = <<>>
  /\ \A i \in 1..Len(ctx.buf) : ctx.buf[i] = Space
  /\ \A i \in 1..Len(net) : net[i] = Space

MessageRead(v) ==
  \E k \in 0..(16 + Len(Encode(v))) : Coming(Written(v), k) /\ ReadUpTo(v, k)

\* A tag that the table does not have is on its way.
UnknownTag ==
  \E k \in 0..2 :
    /\ Coming(Between("new"), k)
    /\ ctx.at = (IF k = 0 THEN "begin" ELSE "tag")
    /\ k = 1 => ctx.text = <<>>
    /\ k = 2 => ctx.text = <<"new">>

ReaderInv ==
  ReaderTyped /\ (Waiting \/ ctx.at = "failed" \/ UnknownTag \/ MessageRead(sender.value))

LEMMA PrefixGrows ==
  ASSUME NEW S, NEW s \in Seq(S), NEW m \in 0..(Len(s) - 1)
  PROVE  SubSeq(s, 1, m + 1) = Append(SubSeq(s, 1, m), s[m + 1])
<1>1. 1 \in 1..Len(s) /\ m + 1 \in 1..Len(s) /\ (m + 1) - 1 = m
  OBVIOUS
<1>2. SubSeq(s, 1, m + 1) = SubSeq(s, 1, m) \o <<s[m + 1]>>
  BY <1>1, SubSeqRecursiveSecond
<1> DEFINE t == SubSeq(s, 1, m)
           x == s[m + 1]
<1>3. t \in Seq(S) /\ x \in S
  BY <1>1
<1> HIDE DEF t, x
<1>4. t \o <<x>> = Append(t, x)
  BY <1>3
<1>5. QED BY <1>2, <1>4 DEF t, x

LEMMA TokensGrow ==
  ASSUME NEW v
  PROVE  /\ TokensUpTo(v, 0) = <<>>
         /\ TokensUpTo(v, 1) = Append(TokensUpTo(v, 0), <<"tag", "row">>)
         /\ TokensUpTo(v, 2) = Append(TokensUpTo(v, 1), <<"tag", "col">>)
         /\ TokensUpTo(v, 3) = Append(TokensUpTo(v, 2), <<"tag", "str">>)
         /\ TokensUpTo(v, 4) = Append(TokensUpTo(v, 3), <<"value", v>>)
         /\ TokensUpTo(v, 5) = Append(TokensUpTo(v, 4), <<"tag", "/str">>)
         /\ TokensUpTo(v, 6) = Append(TokensUpTo(v, 5), <<"tag", "EOT">>)
         /\ TokensUpTo(v, 6) = Expected(v)
<1> DEFINE a == <<"tag", "row">>
           b == <<"tag", "col">>
           c == <<"tag", "str">>
           d == <<"value", v>>
           e == <<"tag", "/str">>
           f == <<"tag", "EOT">>
           S == {a, b, c, d, e, f}
           x == Expected(v)
<1>1. x = <<a, b, c, d, e, f>>
  BY DEF Expected
<1> HIDE DEF a, b, c, d, e, f, x
<1>2. x \in Seq(S) /\ Len(x) = 6
  BY <1>1
<1>3. x[1] = a /\ x[2] = b /\ x[3] = c /\ x[4] = d /\ x[5] = e /\ x[6] = f
  BY <1>1
<1> HIDE DEF S
<1>4. ASSUME NEW m \in 0..5
      PROVE  SubSeq(x, 1, m + 1) = Append(SubSeq(x, 1, m), x[m + 1])
  <2>1. m \in 0..(Len(x) - 1)
    BY <1>2
  <2>2. QED BY <1>2, <2>1, PrefixGrows
<1>5. SubSeq(x, 1, 0) = <<>> /\ SubSeq(x, 1, 6) = x
  <2>1. SubSeq(x, 1, 0) = <<>>
    BY <1>2, SubSeqEmpty
  <2>2. SubSeq(x, 1, 6) = x
    BY <1>2, SubSeqFull
  <2>3. QED BY <2>1, <2>2
<1>6. SubSeq(x, 1, 1) = Append(SubSeq(x, 1, 0), a)
  <2>1. 0 \in 0..5 /\ 0 + 1 = 1
    OBVIOUS
  <2>2. QED BY <1>3, <1>4, <2>1
<1>7. SubSeq(x, 1, 2) = Append(SubSeq(x, 1, 1), b)
  <2>1. 1 \in 0..5 /\ 1 + 1 = 2
    OBVIOUS
  <2>2. QED BY <1>3, <1>4, <2>1
<1>8. SubSeq(x, 1, 3) = Append(SubSeq(x, 1, 2), c)
  <2>1. 2 \in 0..5 /\ 2 + 1 = 3
    OBVIOUS
  <2>2. QED BY <1>3, <1>4, <2>1
<1>9. SubSeq(x, 1, 4) = Append(SubSeq(x, 1, 3), d)
  <2>1. 3 \in 0..5 /\ 3 + 1 = 4
    OBVIOUS
  <2>2. QED BY <1>3, <1>4, <2>1
<1>10. SubSeq(x, 1, 5) = Append(SubSeq(x, 1, 4), e)
  <2>1. 4 \in 0..5 /\ 4 + 1 = 5
    OBVIOUS
  <2>2. QED BY <1>3, <1>4, <2>1
<1>11. SubSeq(x, 1, 6) = Append(SubSeq(x, 1, 5), f)
  <2>1. 5 \in 0..5 /\ 5 + 1 = 6
    OBVIOUS
  <2>2. QED BY <1>3, <1>4, <2>1
<1>12. QED BY <1>5, <1>6, <1>7, <1>8, <1>9, <1>10, <1>11 DEF TokensUpTo, a, b, c, d, e, f, x

\* The next character, and what comes behind it.
LEMMA ComingNext ==
  ASSUME NEW msg \in Seq(Chars), NEW k \in Nat, Coming(msg, k), ReaderTyped, ctx.buf # <<>>,
         ctx'.buf = Tail(ctx.buf), net' = net
  PROVE  Head(ctx.buf) = msg[k + 1] /\ k + 1 <= Len(msg) /\ Coming(msg, k + 1)'
<1> DEFINE b == ctx.buf
           c == ctx'.buf
<1>1. b \in Seq(Chars) /\ net \in Seq(Chars) /\ b # <<>>
  BY DEF ReaderTyped
<1>2. /\ k + Len(b) + Len(net) <= Len(msg)
      /\ \A i \in 1..Len(b) : b[i] = msg[k + i]
      /\ \A i \in 1..Len(net) : net[i] = msg[k + Len(b) + i]
  BY DEF Coming
<1> HIDE DEF b, c
<1>3. /\ Head(b) = b[1] /\ c \in Seq(Chars) /\ Len(c) = Len(b) - 1 /\ Len(b) > 0
      /\ \A i \in 1..Len(c) : c[i] = b[i + 1]
  <2>1. c = Tail(b)
    BY DEF b, c
  <2>2. QED BY <1>1, <2>1, FirstAndRest
<1>4. Len(b) \in Nat /\ Len(net) \in Nat /\ Len(msg) \in Nat /\ Len(c) \in Nat
  BY <1>1, <1>3
<1>5. Head(b) = msg[k + 1] /\ k + 1 <= Len(msg)
  BY <1>2, <1>3, <1>4
<1>6. (k + 1) + Len(c) + Len(net) <= Len(msg) /\ (k + 1) + Len(c) = k + Len(b)
  BY <1>2, <1>3, <1>4
<1>7. ASSUME NEW i \in 1..Len(c) PROVE c[i] = msg[(k + 1) + i]
  <2>1. i + 1 \in 1..Len(b) /\ k + (i + 1) = (k + 1) + i
    BY <1>3, <1>4
  <2>2. b[i + 1] = msg[k + (i + 1)]
    BY <1>2, <2>1
  <2>3. QED BY <1>3, <2>1, <2>2
<1>8. \A i \in 1..Len(net) : net[i] = msg[(k + 1) + Len(c) + i]
  BY <1>2, <1>6
<1>9. Coming(msg, k + 1)'
  BY <1>6, <1>7, <1>8 DEF Coming, c
<1>10. QED BY <1>5, <1>9 DEF b

\* A character before the value.
LEMMA HeadReads ==
  ASSUME ReaderTyped, LexChar, NEW v \in Values, NEW k \in 0..9, AtHead(v, k),
         Head(ctx.buf) = Written(v)[k + 1]
  PROVE  IF k = 9 THEN WithinValue(v, 0)' ELSE AtHead(v, k + 1)'
<1> DEFINE msg == Written(v)
           c == Head(ctx.buf)
<1>1. /\ msg[1] = "<" /\ msg[2] = "row" /\ msg[3] = ">" /\ msg[4] = Space
      /\ msg[5] = "<" /\ msg[6] = "col" /\ msg[7] = ">"
      /\ msg[8] = "<" /\ msg[9] = "str" /\ msg[10] = ">"
  BY WrittenHas
<1>2. c = msg[k + 1]
  OBVIOUS
<1> HIDE DEF msg, c
<1>3. CASE k = 0
  <2>1. ctx.at = "begin" /\ ctx.follows = "no" /\ ctx.tokens = TokensUpTo(v, 0)
    BY <1>3 DEF AtHead
  <2>2. c = "<"
    BY <1>1, <1>2, <1>3
  <2>3. /\ ctx'.at = "tag" /\ ctx'.follows = "no" /\ ctx'.tokens = TokensUpTo(v, 0)
        /\ ctx'.text = <<>>
    BY <2>1, <2>2, CharInBegin, SpaceIsNoBracket DEF c
  <2>4. AtHead(v, 1)'
    BY <2>3 DEF AtHead
  <2>5. QED BY <1>3, <2>4
<1>4. CASE k = 1
  <2>1. ctx.at = "tag" /\ ctx.follows = "no" /\ ctx.tokens = TokensUpTo(v, 0) /\ ctx.text = <<>>
    BY <1>4 DEF AtHead
  <2>2. c = "row"
    BY <1>1, <1>2, <1>4
  <2>3. /\ ctx'.at = "tag" /\ ctx'.follows = "no" /\ ctx'.tokens = TokensUpTo(v, 0)
        /\ ctx'.text = <<"row">>
    BY <2>1, <2>2, CharInTag DEF c
  <2>4. AtHead(v, 2)'
    BY <2>3 DEF AtHead
  <2>5. QED BY <1>4, <2>4
<1>5. CASE k = 2
  <2>1. ctx.at = "tag" /\ ctx.follows = "no" /\ ctx.tokens = TokensUpTo(v, 0) /\ ctx.text = <<"row">>
    BY <1>5 DEF AtHead
  <2>2. c = ">"
    BY <1>1, <1>2, <1>5
  <2>3. /\ ctx'.at = "begin" /\ ctx'.follows = "no" /\ ctx'.tokens = TokensUpTo(v, 1)
    <3>1. ctx'.tokens = Append(TokensUpTo(v, 0), <<"tag", "row">>) /\ ctx'.at = "begin"
      BY <2>1, <2>2, CharInTag DEF c
    <3>2. ReaderTyped' /\ ctx'.text = <<>> /\ ctx'.prev = Nothing
      BY <2>1, <2>2, CharInTag DEF c
    <3>3. QED BY <3>1, <3>2, TokensGrow DEF ReaderTyped
  <2>4. AtHead(v, 3)'
    BY <2>3 DEF AtHead
  <2>5. QED BY <1>5, <2>4
<1>6. CASE k = 3
  <2>1. ctx.at = "begin" /\ ctx.follows = "no" /\ ctx.tokens = TokensUpTo(v, 1)
    BY <1>6 DEF AtHead
  <2>2. c = Space
    BY <1>1, <1>2, <1>6
  <2>3. /\ ctx'.at = "begin" /\ ctx'.follows = "no" /\ ctx'.tokens = TokensUpTo(v, 1)
    BY <2>1, <2>2, CharInBegin, SpaceIsNoBracket DEF c
  <2>4. AtHead(v, 4)'
    BY <2>3 DEF AtHead
  <2>5. QED BY <1>6, <2>4
<1>7. CASE k = 4
  <2>1. ctx.at = "begin" /\ ctx.follows = "no" /\ ctx.tokens = TokensUpTo(v, 1)
    BY <1>7 DEF AtHead
  <2>2. c = "<"
    BY <1>1, <1>2, <1>7
  <2>3. /\ ctx'.at = "tag" /\ ctx'.follows = "no" /\ ctx'.tokens = TokensUpTo(v, 1)
        /\ ctx'.text = <<>>
    BY <2>1, <2>2, CharInBegin, SpaceIsNoBracket DEF c
  <2>4. AtHead(v, 5)'
    BY <2>3 DEF AtHead
  <2>5. QED BY <1>7, <2>4
<1>8. CASE k = 5
  <2>1. ctx.at = "tag" /\ ctx.follows = "no" /\ ctx.tokens = TokensUpTo(v, 1) /\ ctx.text = <<>>
    BY <1>8 DEF AtHead
  <2>2. c = "col"
    BY <1>1, <1>2, <1>8
  <2>3. /\ ctx'.at = "tag" /\ ctx'.follows = "no" /\ ctx'.tokens = TokensUpTo(v, 1)
        /\ ctx'.text = <<"col">>
    BY <2>1, <2>2, CharInTag DEF c
  <2>4. AtHead(v, 6)'
    BY <2>3 DEF AtHead
  <2>5. QED BY <1>8, <2>4
<1>9. CASE k = 6
  <2>1. ctx.at = "tag" /\ ctx.follows = "no" /\ ctx.tokens = TokensUpTo(v, 1) /\ ctx.text = <<"col">>
    BY <1>9 DEF AtHead
  <2>2. c = ">"
    BY <1>1, <1>2, <1>9
  <2>3. /\ ctx'.at = "begin" /\ ctx'.follows = "no" /\ ctx'.tokens = TokensUpTo(v, 2)
    <3>1. ctx'.tokens = Append(TokensUpTo(v, 1), <<"tag", "col">>) /\ ctx'.at = "begin"
      BY <2>1, <2>2, CharInTag DEF c
    <3>2. ReaderTyped' /\ ctx'.text = <<>> /\ ctx'.prev = Nothing
      BY <2>1, <2>2, CharInTag DEF c
    <3>3. QED BY <3>1, <3>2, TokensGrow DEF ReaderTyped
  <2>4. AtHead(v, 7)'
    BY <2>3 DEF AtHead
  <2>5. QED BY <1>9, <2>4
<1>10. CASE k = 7
  <2>1. ctx.at = "begin" /\ ctx.follows = "no" /\ ctx.tokens = TokensUpTo(v, 2)
    BY <1>10 DEF AtHead
  <2>2. c = "<"
    BY <1>1, <1>2, <1>10
  <2>3. /\ ctx'.at = "tag" /\ ctx'.follows = "no" /\ ctx'.tokens = TokensUpTo(v, 2)
        /\ ctx'.text = <<>>
    BY <2>1, <2>2, CharInBegin, SpaceIsNoBracket DEF c
  <2>4. AtHead(v, 8)'
    BY <2>3 DEF AtHead
  <2>5. QED BY <1>10, <2>4
<1>11. CASE k = 8
  <2>1. ctx.at = "tag" /\ ctx.follows = "no" /\ ctx.tokens = TokensUpTo(v, 2) /\ ctx.text = <<>>
    BY <1>11 DEF AtHead
  <2>2. c = "str"
    BY <1>1, <1>2, <1>11
  <2>3. /\ ctx'.at = "tag" /\ ctx'.follows = "no" /\ ctx'.tokens = TokensUpTo(v, 2)
        /\ ctx'.text = <<"str">>
    BY <2>1, <2>2, CharInTag DEF c
  <2>4. AtHead(v, 9)'
    BY <2>3 DEF AtHead
  <2>5. QED BY <1>11, <2>4
<1>12. CASE k = 9
  <2>1. ctx.at = "tag" /\ ctx.follows = "no" /\ ctx.tokens = TokensUpTo(v, 2) /\ ctx.text = <<"str">>
    BY <1>12 DEF AtHead
  <2>2. c = ">"
    BY <1>1, <1>2, <1>12
  <2>3. /\ ctx'.at = "value" /\ ctx'.prev = Nothing /\ ctx'.text = <<>> /\ ctx'.tokens = TokensUpTo(v, 3)
    <3>1. ctx'.tokens = Append(TokensUpTo(v, 2), <<"tag", "str">>) /\ ctx'.at = "value"
      BY <2>1, <2>2, CharInTag DEF c
    <3>2. ReaderTyped' /\ ctx'.text = <<>> /\ ctx'.prev = Nothing
      BY <2>1, <2>2, CharInTag DEF c
    <3>3. QED BY <3>1, <3>2, TokensGrow DEF ReaderTyped
  <2>4. WithinValue(v, 0)'
    <3>1. Encode(v) \in Seq(Chars) /\ 0 \in 0..Len(Encode(v))
      BY EncodeFacts
    <3>2. SubSeq(Encode(v), 1, 0) = <<>>
      BY <3>1, SubSeqEmpty
    <3>3. QED BY <2>3, <3>1, <3>2 DEF WithinValue
  <2>5. QED BY <1>12, <2>4
<1>13. k = 0 \/ k = 1 \/ k = 2 \/ k = 3 \/ k = 4 \/ k = 5 \/ k = 6 \/ k = 7 \/ k = 8 \/ k = 9
  OBVIOUS
<1>14. QED BY <1>3, <1>4, <1>5, <1>6, <1>7, <1>8, <1>9, <1>10, <1>11, <1>12, <1>13

\* A character of the value, or the bracket behind it.
LEMMA ValueReads ==
  ASSUME ReaderTyped, LexChar, NEW v \in Values, NEW i \in 0..Len(Encode(v)), WithinValue(v, i),
         Head(ctx.buf) = Written(v)[10 + i + 1]
  PROVE  IF i = Len(Encode(v)) THEN BehindValue(v, 1)' \/ BehindHidden(v, 1)' ELSE WithinValue(v, i + 1)'
<1> DEFINE msg == Written(v)
           e == Encode(v)
           n == Len(e)
           c == Head(ctx.buf)
           str == ctx.text
<1>1. /\ e \in Seq(Chars) /\ n \in Nat
      /\ \A j \in 1..n : e[j] # "<"
      /\ n > 0 /\ e[n] = "\\" => Backslashed(v)
      /\ Decode(e) = v
  BY EncodeFacts
<1>2. msg[11 + n] = "<" /\ \A j \in 1..n : msg[10 + j] = e[j]
  BY WrittenHas
<1>3. c = msg[10 + i + 1] /\ i \in 0..n
  OBVIOUS
<1>4. /\ ctx.at = "value" /\ ctx.tokens = TokensUpTo(v, 3)
      /\ ctx.prev = IF i = 0 THEN Nothing ELSE e[i]
      /\ ctx.errs = 0 => str = SubSeq(e, 1, i)
  BY DEF WithinValue
<1> HIDE DEF msg, e, n, c, str
<1>5. CASE i # n
  <2>1. i + 1 \in 1..n /\ i + 1 \in 0..n /\ 10 + i + 1 = 10 + (i + 1) /\ i + 1 # 0 /\ (i + 1) - 1 = i
    BY <1>1, <1>3, <1>5
  <2>2. c = e[i + 1] /\ c # "<"
    BY <1>1, <1>2, <1>3, <2>1
  <2>3. /\ ctx'.at = "value" /\ ctx'.prev = c /\ ctx'.tokens = ctx.tokens
        /\ ctx'.errs = 0 => ctx.errs = 0 /\ ctx'.text = Append(str, c)
    BY <1>4, <2>2, CharInValue DEF c, str
  <2>4. Append(SubSeq(e, 1, i), e[i + 1]) = SubSeq(e, 1, i + 1)
    <3>1. i \in 0..(Len(e) - 1)
      BY <1>1, <1>3, <2>1 DEF n
    <3>2. QED BY <1>1, <3>1, PrefixGrows
  <2>5. ctx'.errs = 0 => ctx'.text = SubSeq(e, 1, i + 1)
    BY <1>4, <2>2, <2>3, <2>4
  <2>6. WithinValue(v, i + 1)'
    BY <1>4, <2>1, <2>2, <2>3, <2>5 DEF WithinValue, e, n
  <2>7. QED BY <1>5, <2>6 DEF n, e
<1>6. CASE i = n
  <2>1. c = "<"
    <3>1. 10 + i + 1 = 11 + n
      BY <1>1, <1>6
    <3>2. QED BY <1>2, <1>3, <3>1
  <2>2. CASE ctx.prev # "\\"
    <3>1. /\ ctx'.at = "tag" /\ ctx'.text = <<>> /\ (ctx'.errs = 0 => ctx.errs = 0)
          /\ ctx'.tokens = Append(TokensUpTo(v, 3), <<"value", Decode(str)>>)
      BY <1>4, <2>1, <2>2, CharInValue DEF c, str
    <3>2. ctx.errs = 0 => Decode(str) = v
      <4>1. SubSeq(e, 1, n) = e
        BY <1>1, SubSeqFull DEF n
      <4>2. QED BY <1>1, <1>4, <1>6, <4>1
    <3>3. ctx'.errs = 0 => ctx'.tokens = TokensUpTo(v, 4)
      BY <3>1, <3>2, TokensGrow
    <3>4. BehindValue(v, 1)'
      BY <3>1, <3>3 DEF BehindValue
    <3>5. QED BY <1>6, <3>4 DEF n, e
  <2>3. CASE ctx.prev = "\\"
    <3>1. Nothing # "\\"
      BY Zenon DEF Nothing
    <3>2. n > 0 /\ e[n] = "\\"
      BY <1>1, <1>4, <1>6, <2>3, <3>1
    <3>3. Backslashed(v)
      BY <1>1, <3>2
    <3>4. ctx'.at = "value"
      BY <1>4, <2>3, CharInValue
    <3>5. BehindHidden(v, 1)'
      BY <3>3, <3>4 DEF BehindHidden
    <3>6. QED BY <1>6, <3>5 DEF n, e
  <2>4. QED BY <2>2, <2>3
<1>7. QED BY <1>5, <1>6

\* A character behind the value.
LEMMA EndReads ==
  ASSUME ReaderTyped, LexChar, NEW v \in Values, NEW j \in 1..6, BehindValue(v, j),
         Head(ctx.buf) = Written(v)[10 + Len(Encode(v)) + j + 1]
  PROVE  j \in 1..5 /\ BehindValue(v, j + 1)'
<1> DEFINE msg == Written(v)
           n == Len(Encode(v))
           c == Head(ctx.buf)
<1>1. /\ msg[12 + n] = "/str" /\ msg[13 + n] = ">"
      /\ msg[14 + n] = "<" /\ msg[15 + n] = "EOT" /\ msg[16 + n] = ">"
  BY WrittenHas
<1>2. c = msg[10 + n + j + 1]
  OBVIOUS
<1>3. n \in Nat
  BY EncodeFacts
<1> HIDE DEF msg, c, n
<1>4. j # 6
  BY DEF BehindValue, LexChar, Reading
<1>5. CASE j = 1
  <2>1. /\ ctx.at = "tag" /\ ctx.text = <<>>
        /\ ctx.errs = 0 => ctx.tokens = TokensUpTo(v, 4)
    BY <1>5 DEF BehindValue
  <2>2. c = "/str"
    <3>1. 10 + n + j + 1 = 12 + n
      BY <1>3, <1>5
    <3>2. QED BY <1>1, <1>2, <3>1
  <2>3. ctx'.at = "tag" /\ ctx'.text = <<"/str">>
    BY <2>1, <2>2, CharInTag DEF c
  <2>4. ctx'.errs = 0 => ctx'.tokens = TokensUpTo(v, 4)
    BY <2>1, <2>2, CharInTag DEF c
  <2>5. BehindValue(v, 2)'
    BY <2>3, <2>4 DEF BehindValue
  <2>6. QED BY <1>5, <2>5
<1>6. CASE j = 2
  <2>1. /\ ctx.at = "tag" /\ ctx.text = <<"/str">>
        /\ ctx.errs = 0 => ctx.tokens = TokensUpTo(v, 4)
    BY <1>6 DEF BehindValue
  <2>2. c = ">"
    <3>1. 10 + n + j + 1 = 13 + n
      BY <1>3, <1>6
    <3>2. QED BY <1>1, <1>2, <3>1
  <2>3. ctx'.at = "begin"
    BY <2>1, <2>2, CharInTag DEF c
  <2>4. ctx'.errs = 0 => ctx'.tokens = TokensUpTo(v, 5)
    <3>1. ctx'.tokens = Append(ctx.tokens, <<"tag", "/str">>) /\ (ctx'.errs = 0 => ctx.errs = 0)
      BY <2>1, <2>2, CharInTag DEF c
    <3>2. QED BY <2>1, <3>1, TokensGrow
  <2>5. BehindValue(v, 3)'
    BY <2>3, <2>4 DEF BehindValue
  <2>6. QED BY <1>6, <2>5
<1>7. CASE j = 3
  <2>1. /\ ctx.at = "begin"
        /\ ctx.errs = 0 => ctx.tokens = TokensUpTo(v, 5)
    BY <1>7 DEF BehindValue
  <2>2. c = "<"
    <3>1. 10 + n + j + 1 = 14 + n
      BY <1>3, <1>7
    <3>2. QED BY <1>1, <1>2, <3>1
  <2>3. ctx'.at = "tag" /\ ctx'.text = <<>>
    BY <2>1, <2>2, CharInBegin, SpaceIsNoBracket DEF c
  <2>4. ctx'.errs = 0 => ctx'.tokens = TokensUpTo(v, 5)
    BY <2>1, <2>2, CharInBegin, SpaceIsNoBracket DEF c
  <2>5. BehindValue(v, 4)'
    BY <2>3, <2>4 DEF BehindValue
  <2>6. QED BY <1>7, <2>5
<1>8. CASE j = 4
  <2>1. /\ ctx.at = "tag" /\ ctx.text = <<>>
        /\ ctx.errs = 0 => ctx.tokens = TokensUpTo(v, 5)
    BY <1>8 DEF BehindValue
  <2>2. c = "EOT"
    <3>1. 10 + n + j + 1 = 15 + n
      BY <1>3, <1>8
    <3>2. QED BY <1>1, <1>2, <3>1
  <2>3. ctx'.at = "tag" /\ ctx'.text = <<"EOT">>
    BY <2>1, <2>2, CharInTag DEF c
  <2>4. ctx'.errs = 0 => ctx'.tokens = TokensUpTo(v, 5)
    BY <2>1, <2>2, CharInTag DEF c
  <2>5. BehindValue(v, 5)'
    BY <2>3, <2>4 DEF BehindValue
  <2>6. QED BY <1>8, <2>5
<1>9. CASE j = 5
  <2>1. /\ ctx.at = "tag" /\ ctx.text = <<"EOT">>
        /\ ctx.errs = 0 => ctx.tokens = TokensUpTo(v, 5)
    BY <1>9 DEF BehindValue
  <2>2. c = ">"
    <3>1. 10 + n + j + 1 = 16 + n
      BY <1>3, <1>9
    <3>2. QED BY <1>1, <1>2, <3>1
  <2>3. ctx'.at = "done"
    BY <2>1, <2>2, CharInTag DEF c
  <2>4. ctx'.errs = 0 => ctx'.tokens = TokensUpTo(v, 6)
    <3>1. ctx'.tokens = Append(ctx.tokens, <<"tag", "EOT">>) /\ (ctx'.errs = 0 => ctx.errs = 0)
      BY <2>1, <2>2, CharInTag DEF c
    <3>2. QED BY <2>1, <3>1, TokensGrow
  <2>5. BehindValue(v, 6)'
    BY <2>3, <2>4 DEF BehindValue
  <2>6. QED BY <1>9, <2>5
<1>10. QED BY <1>4, <1>5, <1>6, <1>7, <1>8, <1>9

LEMMA HiddenEndReads ==
  ASSUME ReaderTyped, LexChar, NEW v \in Values, NEW j \in 1..6, BehindHidden(v, j),
         Head(ctx.buf) = Written(v)[10 + Len(Encode(v)) + j + 1]
  PROVE  j \in 1..5 /\ BehindHidden(v, j + 1)'
<1> DEFINE msg == Written(v)
           n == Len(Encode(v))
           c == Head(ctx.buf)
<1>1. /\ msg[12 + n] = "/str" /\ msg[13 + n] = ">"
      /\ msg[14 + n] = "<" /\ msg[15 + n] = "EOT" /\ msg[16 + n] = ">"
  BY WrittenHas
<1>2. c = msg[10 + n + j + 1]
  OBVIOUS
<1>3. n \in Nat
  BY EncodeFacts
<1> HIDE DEF msg, c, n
<1>4. j # 6
  BY DEF BehindHidden, LexChar, Reading
<1>5. CASE j = 1
  <2>1. /\ ctx.at = "value" /\ Backslashed(v)
    BY <1>5 DEF BehindHidden
  <2>2. c = "/str"
    <3>1. 10 + n + j + 1 = 12 + n
      BY <1>3, <1>5
    <3>2. QED BY <1>1, <1>2, <3>1
  <2>3. ctx'.at = "value"
    BY <2>1, <2>2, CharInValue DEF c
  <2>4. BehindHidden(v, 2)'
    BY <2>1, <2>3 DEF BehindHidden
  <2>5. QED BY <1>5, <2>4
<1>6. CASE j = 2
  <2>1. /\ ctx.at = "value" /\ Backslashed(v)
    BY <1>6 DEF BehindHidden
  <2>2. c = ">"
    <3>1. 10 + n + j + 1 = 13 + n
      BY <1>3, <1>6
    <3>2. QED BY <1>1, <1>2, <3>1
  <2>3. ctx'.at = "value" /\ ctx'.prev = ">"
    BY <2>1, <2>2, CharInValue DEF c
  <2>4. BehindHidden(v, 3)'
    BY <2>1, <2>3 DEF BehindHidden
  <2>5. QED BY <1>6, <2>4
<1>7. CASE j = 3
  <2>1. /\ ctx.at = "value" /\ ctx.prev = ">" /\ Backslashed(v)
    BY <1>7 DEF BehindHidden
  <2>2. c = "<"
    <3>1. 10 + n + j + 1 = 14 + n
      BY <1>3, <1>7
    <3>2. QED BY <1>1, <1>2, <3>1
  <2>3. ctx'.at = "tag" /\ ctx'.text = <<>>
    BY <2>1, <2>2, CharInValue DEF c
  <2>4. BehindHidden(v, 4)'
    BY <2>1, <2>3 DEF BehindHidden
  <2>5. QED BY <1>7, <2>4
<1>8. CASE j = 4
  <2>1. /\ ctx.at = "tag" /\ ctx.text = <<>> /\ Backslashed(v)
    BY <1>8 DEF BehindHidden
  <2>2. c = "EOT"
    <3>1. 10 + n + j + 1 = 15 + n
      BY <1>3, <1>8
    <3>2. QED BY <1>1, <1>2, <3>1
  <2>3. ctx'.at = "tag" /\ ctx'.text = <<"EOT">>
    BY <2>1, <2>2, CharInTag DEF c
  <2>4. BehindHidden(v, 5)'
    BY <2>1, <2>3 DEF BehindHidden
  <2>5. QED BY <1>8, <2>4
<1>9. CASE j = 5
  <2>1. /\ ctx.at = "tag" /\ ctx.text = <<"EOT">> /\ Backslashed(v)
    BY <1>9 DEF BehindHidden
  <2>2. c = ">"
    <3>1. 10 + n + j + 1 = 16 + n
      BY <1>3, <1>9
    <3>2. QED BY <1>1, <1>2, <3>1
  <2>3. ctx'.at = "done"
    BY <2>1, <2>2, CharInTag DEF c
  <2>4. BehindHidden(v, 6)'
    BY <2>1, <2>3 DEF BehindHidden
  <2>5. QED BY <1>9, <2>4
<1>10. QED BY <1>4, <1>5, <1>6, <1>7, <1>8, <1>9

\* While the reader stands still, so does its place in the message.
LEMMA SamePlace ==
  ASSUME NEW v, NEW k, ReadUpTo(v, k),
         ctx'.at = ctx.at, ctx'.text = ctx.text, ctx'.prev = ctx.prev, ctx'.follows = ctx.follows,
         ctx'.tokens = ctx.tokens, ctx'.errs = ctx.errs
  PROVE  ReadUpTo(v, k)'
<1>1. CASE AtHead(v, k)
  <2>1. AtHead(v, k)'
    BY <1>1 DEF AtHead
  <2>2. QED BY <2>1 DEF ReadUpTo
<1>2. CASE WithinValue(v, k - 10)
  <2>1. WithinValue(v, k - 10)'
    BY <1>2 DEF WithinValue
  <2>2. QED BY <2>1 DEF ReadUpTo
<1>3. CASE BehindValue(v, k - 10 - Len(Encode(v)))
  <2> DEFINE j == k - 10 - Len(Encode(v))
  <2> HIDE DEF j
  <2>1. BehindValue(v, j)'
    BY <1>3 DEF BehindValue, j
  <2>2. QED BY <2>1 DEF ReadUpTo, j
<1>4. CASE BehindHidden(v, k - 10 - Len(Encode(v)))
  <2> DEFINE j == k - 10 - Len(Encode(v))
  <2> HIDE DEF j
  <2>1. BehindHidden(v, j)'
    BY <1>4 DEF BehindHidden, j
  <2>2. QED BY <2>1 DEF ReadUpTo, j
<1>5. QED BY <1>1, <1>2, <1>3, <1>4 DEF ReadUpTo

\* A character, wherever the reader is in the message.
LEMMA MessageReads ==
  ASSUME ReaderTyped, LexChar, NEW v \in Values, MessageRead(v)
  PROVE  MessageRead(v)'
<1> DEFINE msg == Written(v)
           n == Len(Encode(v))
           c == Head(ctx.buf)
<1>1. PICK k \in 0..(16 + n) : Coming(msg, k) /\ ReadUpTo(v, k)
  BY DEF MessageRead
<1>2. n \in Nat /\ msg \in Seq(Chars)
  BY EncodeFacts, WrittenHas
<1> HIDE DEF n, msg, c
<1>3. k \in Nat
  BY <1>2
<1>4. ctx.buf # <<>> /\ ctx'.buf = Tail(ctx.buf) /\ net' = net
  <2>1. ctx.buf # <<>> /\ net' = net /\ ctx.at \in {"begin", "tag", "value"}
    BY DEF LexChar, Reading
  <2>2. QED BY <2>1, CharInBegin, CharInTag, CharInValue
<1>5. c = msg[k + 1] /\ Coming(msg, k + 1)'
  BY <1>1, <1>2, <1>3, <1>4, ComingNext DEF c
<1>6. CASE AtHead(v, k)
  <2>1. k \in 0..9
    BY <1>6 DEF AtHead
  <2>2. IF k = 9 THEN WithinValue(v, 0)' ELSE AtHead(v, k + 1)'
    BY <1>5, <1>6, <2>1, HeadReads DEF c, msg
  <2>3. k + 1 \in 0..(16 + n) /\ (k = 9 => (k + 1) - 10 = 0)
    BY <1>2, <2>1
  <2>4. ReadUpTo(v, k + 1)'
    BY <2>2, <2>3 DEF ReadUpTo
  <2>5. QED BY <1>5, <2>3, <2>4 DEF MessageRead, msg, n
<1>7. CASE WithinValue(v, k - 10)
  <2> DEFINE i == k - 10
  <2>1. i \in 0..n
    BY <1>7 DEF WithinValue, n
  <2>2. 10 + i + 1 = k + 1 /\ (k + 1) - 10 = i + 1 /\ (i = n => (k + 1) - 10 - n = 1)
    BY <1>2, <1>3
  <2>3. k + 1 \in 0..(16 + n)
    BY <1>2, <1>3, <2>1
  <2> HIDE DEF i
  <2>4. IF i = n THEN BehindValue(v, 1)' \/ BehindHidden(v, 1)' ELSE WithinValue(v, i + 1)'
    <3>1. WithinValue(v, i) /\ c = msg[10 + i + 1]
      BY <1>5, <1>7, <2>2 DEF i
    <3>2. QED BY <2>1, <3>1, ValueReads DEF c, msg, n
  <2>5. ReadUpTo(v, k + 1)'
    BY <2>2, <2>4 DEF ReadUpTo, n
  <2>6. QED BY <1>5, <2>3, <2>5 DEF MessageRead, msg, n
<1>8. CASE BehindValue(v, k - 10 - n)
  <2> DEFINE j == k - 10 - n
  <2>1. j \in 1..6
    BY <1>8 DEF BehindValue
  <2>2. 10 + n + j + 1 = k + 1 /\ (k + 1) - 10 - n = j + 1
    BY <1>2, <1>3
  <2>3. j \in 1..5 => k + 1 \in 0..(16 + n)
    BY <1>2, <1>3
  <2> HIDE DEF j
  <2>4. j \in 1..5 /\ BehindValue(v, j + 1)'
    <3>1. BehindValue(v, j) /\ c = msg[10 + n + j + 1]
      BY <1>5, <1>8, <2>2 DEF j
    <3>2. QED BY <2>1, <3>1, EndReads DEF c, msg, n
  <2>5. ReadUpTo(v, k + 1)'
    BY <2>2, <2>4 DEF ReadUpTo, n
  <2>6. QED BY <1>5, <2>3, <2>4, <2>5 DEF MessageRead, msg, n
<1>9. CASE BehindHidden(v, k - 10 - n)
  <2> DEFINE j == k - 10 - n
  <2>1. j \in 1..6
    BY <1>9 DEF BehindHidden
  <2>2. 10 + n + j + 1 = k + 1 /\ (k + 1) - 10 - n = j + 1
    BY <1>2, <1>3
  <2>3. j \in 1..5 => k + 1 \in 0..(16 + n)
    BY <1>2, <1>3
  <2> HIDE DEF j
  <2>4. j \in 1..5 /\ BehindHidden(v, j + 1)'
    <3>1. BehindHidden(v, j) /\ c = msg[10 + n + j + 1]
      BY <1>5, <1>9, <2>2 DEF j
    <3>2. QED BY <2>1, <3>1, HiddenEndReads DEF c, msg, n
  <2>5. ReadUpTo(v, k + 1)'
    BY <2>2, <2>4 DEF ReadUpTo, n
  <2>6. QED BY <1>5, <2>3, <2>4, <2>5 DEF MessageRead, msg, n
<1>10. QED BY <1>1, <1>6, <1>7, <1>8, <1>9 DEF ReadUpTo, n

\* Where a message ends, only the space behind it is still to come.
LEMMA DoneAtEnd ==
  ASSUME ReaderTyped, NEW v \in Values, MessageRead(v), ctx.at = "done"
  PROVE  /\ \A i \in 1..Len(net) : net[i] = Space
         /\ ctx.errs = 0 => ctx.tokens = Expected(v) \/ Backslashed(v)
<1> DEFINE msg == Written(v)
           n == Len(Encode(v))
<1>1. PICK k \in 0..(16 + n) : Coming(msg, k) /\ ReadUpTo(v, k)
  BY DEF MessageRead
<1>2. n \in Nat /\ msg \in Seq(Chars) /\ Len(msg) = 17 + n /\ msg[17 + n] = Space
  BY EncodeFacts, WrittenHas
<1> HIDE DEF n, msg
<1>3. k \in Nat
  BY <1>2
<1>4. BehindValue(v, k - 10 - n) \/ BehindHidden(v, k - 10 - n)
  BY <1>1 DEF ReadUpTo, AtHead, WithinValue, n
<1>5. k - 10 - n = 6
  BY <1>4 DEF BehindValue, BehindHidden
<1>6. k = 16 + n
  BY <1>2, <1>3, <1>5
<1>7. ASSUME NEW i \in 1..Len(net) PROVE net[i] = Space
  <2>1. Len(net) \in Nat /\ Len(ctx.buf) \in Nat
    BY DEF ReaderTyped
  <2>2. k + Len(ctx.buf) + Len(net) <= Len(msg) /\ net[i] = msg[k + Len(ctx.buf) + i]
    BY <1>1 DEF Coming
  <2> DEFINE lb == Len(ctx.buf)
             ln == Len(net)
  <2>3. k + lb + i = 17 + n
    <3>1. ln \in Nat /\ lb \in Nat /\ k + lb + ln <= 17 + n /\ i \in 1..ln
      BY <1>2, <2>1, <2>2
    <3> HIDE DEF lb, ln
    <3>2. QED BY <1>2, <1>6, <3>1
  <2>4. QED BY <1>2, <2>2, <2>3
<1>8. ctx.errs = 0 => ctx.tokens = Expected(v) \/ Backslashed(v)
  <2>1. CASE BehindValue(v, 6)
    BY <2>1, TokensGrow DEF BehindValue
  <2>2. CASE BehindHidden(v, 6)
    BY <2>2 DEF BehindHidden
  <2>3. QED BY <1>4, <1>5, <2>1, <2>2
<1>9. QED BY <1>7, <1>8

LEMMA ReaderInvGives ==
  ASSUME ReaderInv
  PROVE  ReadsWhatWasWritten
<1>1. SUFFICES ASSUME ctx.at = "done", ctx.errs = 0, ~Backslashed(sender.value)
               PROVE  ctx.tokens = Expected(sender.value)
  BY DEF ReadsWhatWasWritten
<1>2. ReaderTyped /\ MessageRead(sender.value) /\ sender.value \in Values
  BY <1>1 DEF ReaderInv, Waiting, UnknownTag, ReaderTyped
<1>3. QED BY <1>1, <1>2, DoneAtEnd

\* Characters that are received leave their places.
LEMMA ComingRecv ==
  ASSUME ReaderTyped, Recv, NEW msg \in Seq(Chars), NEW k \in Nat, Coming(msg, k)
  PROVE  Coming(msg, k)'
<1>1. PICK n \in 1..MaxChunk : /\ n <= Len(net)
                               /\ ctx' = [ctx EXCEPT !.buf = SubSeq(net, 1, n)]
                               /\ net' = SubSeq(net, n + 1, Len(net))
  BY DEF Recv
<1> DEFINE b == SubSeq(net, 1, n)
           r == SubSeq(net, n + 1, Len(net))
<1>2. net \in Seq(Chars) /\ Len(net) \in Nat /\ n \in Nat /\ n <= Len(net) /\ n >= 1
  <2>1. net \in Seq(Chars)
    BY Zenon DEF ReaderTyped
  <2>2. Len(net) \in Nat
    BY <2>1
  <2>3. MaxChunk \in Nat
    BY XmltpLexAssumption
  <2>4. n \in Nat /\ n <= Len(net) /\ n >= 1
    BY <1>1, <2>3
  <2>5. QED BY <2>1, <2>2, <2>4
<1>3. Len(b) = n /\ \A i \in 1..n : b[i] = net[i]
  BY <1>2
<1>4. Len(r) = Len(net) - n /\ \A i \in 1..(Len(net) - n) : r[i] = net[n + i]
  BY <1>2
<1>5. ctx.buf = <<>> /\ Len(ctx.buf) = 0
  BY DEF Recv
<1>6. k + Len(net) <= Len(msg) /\ \A i \in 1..Len(net) : net[i] = msg[k + i]
  <2>1. /\ k + Len(ctx.buf) + Len(net) <= Len(msg)
        /\ \A i \in 1..Len(net) : net[i] = msg[k + Len(ctx.buf) + i]
    BY DEF Coming
  <2>2. k + Len(ctx.buf) = k
    BY <1>5
  <2>3. QED BY <2>1, <2>2
<1>7. ctx'.buf = b /\ net' = r
  BY <1>1 DEF ReaderTyped
<1> HIDE DEF b, r
<1>8. k + Len(b) + Len(r) <= Len(msg)
  BY <1>2, <1>3, <1>4, <1>6
<1>9. \A i \in 1..Len(b) : b[i] = msg[k + i]
  BY <1>2, <1>3, <1>6
<1>10. ASSUME NEW i \in 1..Len(r) PROVE r[i] = msg[k + Len(b) + i]
  <2>1. n + i \in 1..Len(net) /\ k + (n + i) = k + n + i
    BY <1>2, <1>4
  <2>2. QED BY <1>3, <1>4, <1>6, <2>1
<1>11. QED BY <1>7, <1>8, <1>9, <1>10 DEF Coming

\* A connection that is cut keeps what comes before the cut.
LEMMA ComingCut ==
  ASSUME ReaderTyped, NEW msg \in Seq(Chars), NEW k \in Nat, Coming(msg, k), ctx' = ctx,
         NEW n \in 0..Len(net), net' = SubSeq(net, 1, n)
  PROVE  Coming(msg, k)'
<1>1. net \in Seq(Chars) /\ Len(net) \in Nat /\ Len(ctx.buf) \in Nat
  BY DEF ReaderTyped
<1>2. Len(net') = n /\ \A i \in 1..n : net'[i] = net[i]
  BY <1>1
<1>3. k + Len(ctx.buf) + n <= Len(msg)
  BY <1>1 DEF Coming
<1>4. ASSUME NEW i \in 1..n PROVE net'[i] = msg[k + Len(ctx.buf) + i]
  <2>1. i \in 1..Len(net)
    BY <1>1
  <2>2. net[i] = msg[k + Len(ctx.buf) + i]
    BY <2>1 DEF Coming
  <2>3. QED BY <1>2, <2>2
<1>5. QED BY <1>2, <1>3, <1>4 DEF Coming

LEMMA ReaderStarts ==
  ASSUME LexInit
  PROVE  ReaderInv
<1>1. <<>> \in Values
  <2>1. 0 \in 0..MaxLength /\ <<>> \in [1..0 -> Letters]
    BY XmltpLexAssumption
  <2>2. QED BY <2>1 DEF Values
<1>2. ctx = [buf |-> <<>>, at |-> "begin", text |-> <<>>, prev |-> Nothing, trunc |-> FALSE,
             follows |-> "no", tokens |-> <<>>, errs |-> 0, eof |-> 0, waited |-> 0]
  BY Zenon DEF LexInit, ResetContext, Nothing
<1>3. net = <<>> /\ sender.value = <<>>
  BY DEF LexInit
<1>4. ReaderTyped
  BY <1>1, <1>2, <1>3, NoneIsSeq DEF ReaderTyped
<1>5. Waiting
  BY <1>2, <1>3 DEF Waiting
<1>6. QED BY <1>4, <1>5 DEF ReaderInv

LEMMA SendKeeps ==
  ASSUME ReaderInv, NEW value \in Values, SendMessage(value)
  PROVE  ReaderInv'
<1> DEFINE msg == Written(value)
<1>1. /\ ctx' = ctx /\ net' = msg /\ sender'.value = value
      /\ ctx.at = "begin" /\ ctx.tokens = <<>> /\ ctx.buf = <<>>
  BY DEF SendMessage
<1>2. msg \in Seq(Chars) /\ Len(msg) \in Nat
  BY WrittenHas
<1>3. Len(Encode(value)) \in Nat
  BY EncodeFacts
<1> HIDE DEF msg
<1>4. ReaderTyped'
  BY <1>1, <1>2 DEF ReaderInv, ReaderTyped
<1>5. Coming(msg, 0)'
  BY <1>1, <1>2 DEF Coming
<1>6. ReadUpTo(value, 0)'
  <2>1. ctx.follows = "no"
    BY <1>1 DEF ReaderInv, ReaderTyped
  <2>2. AtHead(value, 0)'
    BY <1>1, <2>1, TokensGrow DEF AtHead
  <2>3. QED BY <2>2 DEF ReadUpTo
<1>7. 0 \in 0..(16 + Len(Encode(value)))
  BY <1>3
<1>8. MessageRead(value)'
  BY <1>5, <1>6, <1>7 DEF MessageRead, msg
<1>9. QED BY <1>1, <1>4, <1>8 DEF ReaderInv

LEMMA NewIs ==
  /\ Between("new") \in Seq(Chars) /\ Len(Between("new")) = 3
  /\ Between("new")[1] = "<" /\ Between("new")[2] = "new" /\ Between("new")[3] = ">"
<1>1. "new" \in Chars
  BY DEF Chars
<1>2. QED BY <1>1, BetweenIs

LEMMA SendUnknownKeeps ==
  ASSUME ReaderInv, SendUnknown
  PROVE  ReaderInv'
<1> DEFINE msg == Between("new")
<1>1. /\ ctx' = ctx /\ net' = msg /\ sender' = [sender EXCEPT !.sent = @ + 1]
      /\ ctx.at = "begin" /\ ctx.buf = <<>>
  BY DEF SendUnknown
<1>2. msg \in Seq(Chars) /\ Len(msg) \in Nat
  BY NewIs
<1> HIDE DEF msg
<1>3. ReaderTyped'
  BY <1>1, <1>2 DEF ReaderInv, ReaderTyped
<1>4. Coming(msg, 0)'
  BY <1>1, <1>2 DEF Coming
<1>5. 0 \in 0..2 /\ ctx'.at = "begin"
  BY <1>1
<1>6. UnknownTag'
  BY <1>4, <1>5 DEF UnknownTag, msg
<1>7. QED BY <1>3, <1>6 DEF ReaderInv

LEMMA UnknownReads ==
  ASSUME ReaderTyped, LexChar, UnknownTag
  PROVE  UnknownTag' \/ ctx'.at = "failed"
<1> DEFINE msg == Between("new")
           c == Head(ctx.buf)
<1>1. PICK k \in 0..2 :
         /\ Coming(msg, k) /\ ctx.at = (IF k = 0 THEN "begin" ELSE "tag")
         /\ k = 1 => ctx.text = <<>>
         /\ k = 2 => ctx.text = <<"new">>
  BY DEF UnknownTag
<1>2. msg \in Seq(Chars) /\ Len(msg) = 3 /\ msg[1] = "<" /\ msg[2] = "new" /\ msg[3] = ">"
  BY NewIs
<1> HIDE DEF msg, c
<1>3. ctx.buf # <<>> /\ ctx'.buf = Tail(ctx.buf) /\ net' = net
  <2>1. ctx.buf # <<>> /\ net' = net /\ ctx.at \in {"begin", "tag", "value"}
    BY DEF LexChar, Reading
  <2>2. QED BY <2>1, CharInBegin, CharInTag, CharInValue
<1>4. c = msg[k + 1] /\ Coming(msg, k + 1)'
  BY <1>1, <1>2, <1>3, ComingNext DEF c
<1>5. CASE k = 0
  <2>1. c = "<" /\ ctx.at = "begin"
    BY <1>1, <1>2, <1>4, <1>5
  <2>2. ctx'.at = "tag" /\ ctx'.text = <<>>
    BY <2>1, CharInBegin, SpaceIsNoBracket DEF c
  <2>3. Coming(msg, 1)' /\ 1 \in 0..2
    BY <1>4, <1>5
  <2>4. QED BY <2>2, <2>3 DEF UnknownTag, msg
<1>6. CASE k = 1
  <2>1. c = "new" /\ ctx.at = "tag" /\ ctx.text = <<>>
    BY <1>1, <1>2, <1>4, <1>6
  <2>2. ctx'.at = "tag" /\ ctx'.text = <<"new">>
    BY <2>1, CharInTag DEF c
  <2>3. Coming(msg, 2)' /\ 2 \in 0..2
    BY <1>4, <1>6
  <2>4. QED BY <2>2, <2>3 DEF UnknownTag, msg
<1>7. CASE k = 2
  <2>1. c = ">" /\ ctx.at = "tag" /\ ctx.text = <<"new">>
    BY <1>1, <1>2, <1>4, <1>7
  <2>2. ctx'.at = "failed"
    BY <2>1, CharInTag DEF c
  <2>3. QED BY <2>2
<1>8. QED BY <1>5, <1>6, <1>7

LEMMA PeerClosesKeeps ==
  ASSUME ReaderInv, PeerCloses
  PROVE  ReaderInv'
<1>1. PICK n \in 0..Len(net) : net' = SubSeq(net, 1, n)
  BY DEF PeerCloses
<1>2. ctx' = ctx /\ sender' = sender
  BY DEF PeerCloses
<1>3. net \in Seq(Chars) /\ Len(net) \in Nat
  BY DEF ReaderInv, ReaderTyped
<1>4. net' \in Seq(Chars) /\ Len(net') = n /\ \A i \in 1..n : net'[i] = net[i]
  BY <1>1, <1>3
<1>5. ReaderTyped'
  BY <1>2, <1>4 DEF ReaderInv, ReaderTyped
<1>6. CASE Waiting
  <2>1. Waiting'
    BY <1>2, <1>3, <1>4, <1>6 DEF Waiting
  <2>2. QED BY <1>5, <2>1 DEF ReaderInv
<1>7. CASE ctx.at = "failed"
  BY <1>2, <1>5, <1>7 DEF ReaderInv
<1>8. ASSUME NEW v, v = sender.value, MessageRead(v) PROVE MessageRead(v)'
  <2>1. v \in Values
    BY <1>8 DEF ReaderInv, ReaderTyped
  <2>2. PICK k \in 0..(16 + Len(Encode(v))) : Coming(Written(v), k) /\ ReadUpTo(v, k)
    BY <1>8 DEF MessageRead
  <2>3. Written(v) \in Seq(Chars) /\ k \in Nat
    BY <2>1, WrittenHas, EncodeFacts
  <2>4. Coming(Written(v), k)'
    BY <1>1, <1>2, <2>2, <2>3, ComingCut DEF ReaderInv
  <2>5. ReadUpTo(v, k)'
    BY <1>2, <2>2, SamePlace
  <2>6. QED BY <2>4, <2>5 DEF MessageRead
<1>9. CASE MessageRead(sender.value)
  BY <1>2, <1>5, <1>8, <1>9 DEF ReaderInv
<1>10. CASE UnknownTag
  <2> DEFINE msg == Between("new")
  <2>1. msg \in Seq(Chars)
    BY NewIs
  <2>2. ReaderTyped
    BY DEF ReaderInv
  <2> HIDE DEF msg
  <2>3. ASSUME NEW k \in 0..2, Coming(msg, k) PROVE Coming(msg, k)'
    BY <1>1, <1>2, <2>1, <2>2, <2>3, ComingCut
  <2>4. UnknownTag'
    BY <1>2, <1>10, <2>3 DEF UnknownTag, msg
  <2>5. QED BY <1>5, <2>4 DEF ReaderInv
<1>11. QED BY <1>6, <1>7, <1>9, <1>10 DEF ReaderInv

LEMMA RecvKeeps ==
  ASSUME ReaderInv, Recv
  PROVE  ReaderInv'
<1>1. PICK n \in 1..MaxChunk : /\ n <= Len(net)
                               /\ ctx' = [ctx EXCEPT !.buf = SubSeq(net, 1, n)]
                               /\ net' = SubSeq(net, n + 1, Len(net))
  BY DEF Recv
<1>2. sender' = sender
  BY DEF Recv
<1>3. net \in Seq(Chars) /\ Len(net) \in Nat /\ n \in Nat
  BY DEF ReaderInv, ReaderTyped
<1> DEFINE b == SubSeq(net, 1, n)
<1>4. /\ b \in Seq(Chars) /\ Len(b) = n /\ \A i \in 1..n : b[i] = net[i]
      /\ net' \in Seq(Chars) /\ Len(net') = Len(net) - n
      /\ \A i \in 1..(Len(net) - n) : net'[i] = net[n + i]
  BY <1>1, <1>3
<1> HIDE DEF b
<1>5. ctx' = [ctx EXCEPT !.buf = b]
  BY <1>1 DEF b
<1>6. /\ ctx'.buf = b /\ ctx'.at = ctx.at /\ ctx'.text = ctx.text /\ ctx'.prev = ctx.prev
      /\ ctx'.follows = ctx.follows /\ ctx'.tokens = ctx.tokens /\ ctx'.errs = ctx.errs
  BY <1>5 DEF ReaderInv, ReaderTyped
<1>7. ReaderTyped'
  BY <1>2, <1>4, <1>5 DEF ReaderInv, ReaderTyped
<1>8. CASE Waiting
  <2>1. \A i \in 1..Len(net) : net[i] = Space
    BY <1>8 DEF Waiting
  <2>2. \A i \in 1..Len(b) : b[i] = Space
    BY <1>1, <1>3, <1>4, <2>1
  <2>3. ASSUME NEW i \in 1..Len(net') PROVE net'[i] = Space
    <3>1. i \in 1..(Len(net) - n) /\ n + i \in 1..Len(net)
      BY <1>1, <1>3, <1>4
    <3>2. net'[i] = net[n + i] /\ net[n + i] = Space
      BY <1>4, <2>1, <3>1
    <3>3. QED BY <3>2
  <2>4. Waiting'
    BY <1>6, <1>8, <2>2, <2>3 DEF Waiting
  <2>5. QED BY <1>7, <2>4 DEF ReaderInv
<1>9. CASE ctx.at = "failed"
  BY <1>6, <1>7, <1>9 DEF ReaderInv
<1>10. ASSUME NEW v, v = sender.value, MessageRead(v) PROVE MessageRead(v)'
  <2>1. v \in Values
    BY <1>10 DEF ReaderInv, ReaderTyped
  <2>2. PICK k \in 0..(16 + Len(Encode(v))) : Coming(Written(v), k) /\ ReadUpTo(v, k)
    BY <1>10 DEF MessageRead
  <2>3. Written(v) \in Seq(Chars) /\ k \in Nat
    BY <2>1, WrittenHas, EncodeFacts
  <2>4. Coming(Written(v), k)'
    BY <2>2, <2>3, ComingRecv DEF ReaderInv
  <2>5. ReadUpTo(v, k)'
    BY <1>6, <2>2, SamePlace
  <2>6. QED BY <2>4, <2>5 DEF MessageRead
<1>11. CASE MessageRead(sender.value)
  BY <1>2, <1>7, <1>10, <1>11 DEF ReaderInv
<1>12. CASE UnknownTag
  <2> DEFINE msg == Between("new")
  <2>1. msg \in Seq(Chars)
    BY NewIs
  <2>2. ReaderTyped
    BY DEF ReaderInv
  <2> HIDE DEF msg
  <2>3. ASSUME NEW k \in 0..2, Coming(msg, k) PROVE Coming(msg, k)'
    BY <2>1, <2>2, <2>3, ComingRecv
  <2>4. UnknownTag'
    BY <1>6, <1>12, <2>3 DEF UnknownTag, msg
  <2>5. QED BY <1>7, <2>4 DEF ReaderInv
<1>13. QED BY <1>8, <1>9, <1>11, <1>12 DEF ReaderInv

\* A wait, and an end without a character.
LEMMA NoCharKeeps ==
  ASSUME ReaderInv, NEW eof \in Nat, NoChar(eof), UNCHANGED <<net, sender>>
  PROVE  ReaderInv'
<1> DEFINE x == ctx.errs + (IF ctx.at = "begin" THEN 1 ELSE 2)
<1>1. x \in Nat /\ x # 0
  BY DEF ReaderInv, ReaderTyped
<1> HIDE DEF x
<1>2. ctx' = [ctx EXCEPT !.at = "failed", !.eof = eof, !.errs = x]
  BY DEF NoChar, x, ReaderInv, ReaderTyped
<1>3. ReaderTyped'
  BY <1>1, <1>2 DEF ReaderInv, ReaderTyped
<1>4. ctx'.at = "failed"
  BY <1>2 DEF ReaderInv, ReaderTyped
<1>5. QED BY <1>3, <1>4 DEF ReaderInv

LEMMA WaitKeeps ==
  ASSUME ReaderInv, Wait
  PROVE  ReaderInv'
<1>1. UNCHANGED <<net, sender>>
  BY DEF Wait
<1>2. CASE NoChar(2)
  BY <1>1, <1>2, NoCharKeeps
<1>3. CASE ctx' = [ctx EXCEPT !.waited = @ + 1]
  <2>1. ctx.waited + 1 \in Nat
    BY DEF ReaderInv, ReaderTyped
  <2>2. /\ ctx'.buf = ctx.buf /\ ctx'.at = ctx.at /\ ctx'.text = ctx.text /\ ctx'.prev = ctx.prev
        /\ ctx'.follows = ctx.follows /\ ctx'.tokens = ctx.tokens /\ ctx'.errs = ctx.errs
    BY <1>3 DEF ReaderInv, ReaderTyped
  <2>3. ReaderTyped'
    BY <1>1, <1>3, <2>1 DEF ReaderInv, ReaderTyped
  <2>4. Waiting => Waiting'
    BY <1>1, <2>2 DEF Waiting
  <2>5. ASSUME NEW v, MessageRead(v) PROVE MessageRead(v)'
    <3>1. PICK k \in 0..(16 + Len(Encode(v))) : Coming(Written(v), k) /\ ReadUpTo(v, k)
      BY <2>5 DEF MessageRead
    <3> DEFINE msg == Written(v)
    <3> HIDE DEF msg
    <3>2. Coming(msg, k)'
      BY <1>1, <2>2, <3>1 DEF Coming, msg
    <3>3. ReadUpTo(v, k)'
      BY <2>2, <3>1, SamePlace
    <3>4. QED BY <3>2, <3>3 DEF MessageRead, msg
  <2>6. UnknownTag => UnknownTag'
    BY <1>1, <2>2 DEF UnknownTag, Coming
  <2>7. QED BY <1>1, <2>2, <2>3, <2>4, <2>5, <2>6 DEF ReaderInv
<1>4. QED BY <1>2, <1>3 DEF Wait

LEMMA LexCharKeeps ==
  ASSUME ReaderInv, LexChar
  PROVE  ReaderInv'
<1>1. /\ ctx.at \in {"begin", "tag", "value"} /\ ctx.buf # <<>> /\ UNCHANGED <<net, sender>>
      /\ ReaderTyped
  BY DEF LexChar, Reading, ReaderInv
<1>2. ReaderTyped'
  BY <1>1, CharInBegin, CharInTag, CharInValue
<1>3. CASE Waiting
  <2> DEFINE b == ctx.buf
  <2>1. ctx.at = "begin" /\ ctx.tokens = <<>> /\ \A i \in 1..Len(b) : b[i] = Space
    BY <1>3 DEF Waiting
  <2>2. b \in Seq(Chars) /\ b # <<>>
    BY <1>1 DEF ReaderTyped
  <2> HIDE DEF b
  <2>3. /\ Head(b) = b[1] /\ Len(Tail(b)) = Len(b) - 1 /\ Len(b) > 0 /\ Len(b) \in Nat
        /\ \A i \in 1..Len(Tail(b)) : Tail(b)[i] = b[i + 1]
    BY <2>2, FirstAndRest
  <2>4. Head(b) = Space
    BY <2>1, <2>3
  <2>5. ctx'.at = "begin" /\ ctx'.tokens = <<>> /\ ctx'.buf = Tail(b)
    BY <1>1, <2>1, <2>4, CharInBegin DEF b
  <2>6. \A i \in 1..Len(Tail(b)) : Tail(b)[i] = Space
    BY <2>1, <2>3
  <2>7. Waiting'
    BY <1>1, <1>3, <2>5, <2>6 DEF Waiting
  <2>8. QED BY <1>2, <2>7 DEF ReaderInv
<1>4. CASE MessageRead(sender.value)
  <2>1. PICK v \in Values : v = sender.value
    BY <1>1 DEF ReaderTyped
  <2>2. MessageRead(v)
    BY <1>4, <2>1
  <2>3. MessageRead(v)'
    BY <1>1, <2>2, MessageReads
  <2>4. sender'.value = v
    BY <1>1, <2>1
  <2>5. QED BY <1>2, <2>3, <2>4 DEF ReaderInv
<1>5. CASE UnknownTag
  BY <1>1, <1>2, <1>5, UnknownReads DEF ReaderInv
<1>6. QED BY <1>1, <1>3, <1>4, <1>5 DEF ReaderInv

LEMMA NextMessageKeeps ==
  ASSUME ReaderInv, NextMessage
  PROVE  ReaderInv'
<1>1. ctx.at = "done" /\ UNCHANGED <<net, sender>>
  BY DEF NextMessage
<1>2. ctx' = [buf |-> <<>>, at |-> "begin", text |-> <<>>, prev |-> Nothing, trunc |-> FALSE,
              follows |-> "no", tokens |-> <<>>, errs |-> 0, eof |-> 0, waited |-> 0]
  BY Zenon DEF NextMessage, ResetContext, Nothing
<1>3. ReaderTyped'
  BY <1>1, <1>2, NoneIsSeq DEF ReaderInv, ReaderTyped
<1>4. ReaderTyped /\ MessageRead(sender.value) /\ sender.value \in Values
  BY <1>1 DEF ReaderInv, Waiting, UnknownTag, ReaderTyped
<1>5. \A i \in 1..Len(net) : net[i] = Space
  BY <1>1, <1>4, DoneAtEnd
<1>6. Waiting'
  BY <1>1, <1>2, <1>5 DEF Waiting
<1>7. QED BY <1>3, <1>6 DEF ReaderInv

LEMMA ReaderKeeps ==
  ASSUME ReaderInv, LexNext
  PROVE  ReaderInv'
<1>1. ASSUME NEW value \in Values, SendMessage(value) PROVE ReaderInv'
  BY <1>1, SendKeeps
<1>2. CASE PeerCloses
  BY <1>2, PeerClosesKeeps
<1>3. CASE Recv
  BY <1>3, RecvKeeps
<1>4. CASE RecvEnds
  <2>1. 1 \in Nat /\ NoChar(1) /\ UNCHANGED <<net, sender>>
    BY <1>4 DEF RecvEnds
  <2>2. QED BY <2>1, NoCharKeeps
<1>5. CASE Wait
  BY <1>5, WaitKeeps
<1>6. CASE LexChar
  BY <1>6, LexCharKeeps
<1>7. CASE NextMessage
  BY <1>7, NextMessageKeeps
<1>8. CASE SendUnknown
  BY <1>8, SendUnknownKeeps
<1>9. QED BY <1>1, <1>2, <1>3, <1>4, <1>5, <1>6, <1>7, <1>8 DEF LexNext, LexSteps

LEMMA ReaderRests ==
  ASSUME ReaderInv, UNCHANGED lexVars
  PROVE  ReaderInv'
<1>1. ctx' = ctx /\ net' = net /\ sender' = sender
  BY DEF lexVars
<1>2. ReaderTyped'
  BY <1>1 DEF ReaderInv, ReaderTyped
<1>3. Waiting => Waiting'
  BY <1>1 DEF Waiting
<1>4. ASSUME NEW v, MessageRead(v) PROVE MessageRead(v)'
  <2>1. PICK k \in 0..(16 + Len(Encode(v))) : Coming(Written(v), k) /\ ReadUpTo(v, k)
    BY <1>4 DEF MessageRead
  <2> DEFINE msg == Written(v)
  <2> HIDE DEF msg
  <2>2. Coming(msg, k)'
    BY <1>1, <2>1 DEF Coming, msg
  <2>3. ReadUpTo(v, k)'
    BY <1>1, <2>1, SamePlace
  <2>4. QED BY <2>2, <2>3 DEF MessageRead, msg
<1>5. UnknownTag => UnknownTag'
  BY <1>1 DEF UnknownTag, Coming
<1>6. QED BY <1>1, <1>2, <1>3, <1>4, <1>5 DEF ReaderInv

\* A message that the parser reads without an error is the message that was
\* written, its value decoded: for values of any letters and any length, the
\* brackets and ampersands in them included, any limit on the length of a string,
\* streams received in pieces of any size and cut anywhere, and any number of
\* messages; unless a value ends with a backslash.
THEOREM ReadsWhatWasWrittenHolds == LexSpec => []ReadsWhatWasWritten
<1>1. LexInit => ReaderInv
  BY ReaderStarts
<1>2. ReaderInv /\ [LexNext]_lexVars => ReaderInv'
  BY ReaderKeeps, ReaderRests
<1>3. ReaderInv => ReadsWhatWasWritten
  BY ReaderInvGives
<1>4. QED BY <1>1, <1>2, <1>3, PTL DEF LexSpec

-----------------------------------------------------------------------------
(* The configuration: what is read of a section                            *)

\* An induction over the places of a file, from its end.
LEMMA FromTheEnd ==
  ASSUME NEW N \in Nat, NEW P,
         \A i \in 1..(N + 1) : (\A k \in (i + 1)..(N + 1) : k \in P) => i \in P
  PROVE  1..(N + 1) \subseteq P
<1> DEFINE S == {n \in Nat : \A i \in 1..(N + 1) : i >= N + 1 - n => i \in P}
<1>1. 0 \in S
  <2>1. SUFFICES ASSUME NEW i \in 1..(N + 1), i >= N + 1 PROVE i \in P
    OBVIOUS
  <2>2. \A k \in (i + 1)..(N + 1) : FALSE
    BY <2>1
  <2>3. QED BY <2>2
<1>2. ASSUME NEW n \in Nat, n \in S PROVE n + 1 \in S
  <2>1. SUFFICES ASSUME NEW i \in 1..(N + 1), i >= N + 1 - (n + 1) PROVE i \in P
    OBVIOUS
  <2>2. \A k \in (i + 1)..(N + 1) : k \in 1..(N + 1) /\ k >= N + 1 - n
    BY <2>1
  <2>3. \A k \in (i + 1)..(N + 1) : k \in P
    BY <1>2, <2>2
  <2>4. QED BY <2>3
<1> HIDE DEF S
<1>3. Nat \subseteq S
  BY <1>1, <1>2, EveryNumber
<1>4. N \in S
  BY <1>3
<1>5. QED BY <1>4 DEF S

\* A function over the places of a file that recurs to later places.
Recurs(f, N, final, base, step, next) ==
  \A i \in 1..(N + 1) : f[i] = IF i \in final THEN base[i] ELSE step[i][f[next[i]]]

LEMMA RecursExists ==
  ASSUME NEW N \in Nat, NEW V, NEW final, NEW base, NEW step, NEW next,
         \A i \in 1..(N + 1) : i \in final => base[i] \in V,
         \A i \in 1..(N + 1) : i \notin final => next[i] \in (i + 1)..(N + 1) /\ step[i] \in [V -> V]
  PROVE  \E f \in [1..(N + 1) -> V] : Recurs(f, N, final, base, step, next)
<1> DEFINE G(f, i) == f[i] = IF i \in final THEN base[i] ELSE step[i][f[next[i]]]
           P(f, n) == \A i \in 1..(N + 1) : i >= N + 1 - n => f[i] \in V /\ G(f, i)
           S == {n \in Nat : \E f : P(f, n)}
           I == 1..(N + 1)
<1>1. ASSUME NEW f, NEW n \in Nat, \A i \in I : i > n => f[i] \in V /\ G(f, i), n \in I
      PROVE  \E g : \A i \in I : i >= n => g[i] \in V /\ G(g, i)
  <2> DEFINE x == IF n \in final THEN base[n] ELSE step[n][f[next[n]]]
             g == [i \in I |-> IF i = n THEN x ELSE f[i]]
  <2>1. x \in V
    <3>1. CASE n \in final
      BY <1>1, <3>1
    <3>2. CASE n \notin final
      <4>1. next[n] \in (n + 1)..(N + 1) /\ step[n] \in [V -> V]
        BY <1>1, <3>2
      <4>2. next[n] \in I /\ next[n] > n
        BY <1>1, <4>1
      <4>3. f[next[n]] \in V
        BY <1>1, <4>2
      <4>4. QED BY <3>2, <4>1, <4>3
    <3>3. QED BY <3>1, <3>2
  <2> HIDE DEF x
  <2>2. g[n] = x /\ \A i \in I : i # n => g[i] = f[i]
    BY <1>1
  <2>3. ASSUME NEW i \in I, i \notin final PROVE next[i] \in I /\ next[i] > i
    BY <2>3
  <2> HIDE DEF g, I
  <2>4. ASSUME NEW i \in I, i >= n PROVE g[i] \in V /\ G(g, i)
    <3>1. CASE i = n
      <4>1. n \notin final => g[next[n]] = f[next[n]]
        <5>1. n \notin final => next[n] \in I /\ next[n] # n
          BY <1>1, <2>3
        <5>2. QED BY <2>2, <5>1
      <4>2. QED BY <2>1, <2>2, <3>1, <4>1 DEF x
    <3>2. CASE i # n
      <4>1. i > n
        BY <2>4, <3>2 DEF I
      <4>2. f[i] \in V /\ G(f, i) /\ g[i] = f[i]
        BY <1>1, <2>2, <3>2, <4>1
      <4>3. i \notin final => g[next[i]] = f[next[i]]
        <5>1. i \notin final => next[i] \in I /\ next[i] # n
          BY <2>3, <4>1 DEF I
        <5>2. QED BY <2>2, <5>1
      <4>4. QED BY <4>2, <4>3
    <3>3. QED BY <3>1, <3>2
  <2>5. QED BY <2>4
<1>2. 0 \in S
  <2>1. \E g : \A i \in I : i >= N + 1 => g[i] \in V /\ G(g, i)
    <3>1. \A i \in I : ~(i > N + 1)
      OBVIOUS
    <3>2. N + 1 \in Nat /\ N + 1 \in I
      OBVIOUS
    <3> HIDE DEF I, G
    <3>3. \A i \in I : i > N + 1 => <<>>[i] \in V /\ G(<<>>, i)
      BY <3>1
    <3>4. QED BY <1>1, <3>2, <3>3
  <2> HIDE DEF G
  <2>2. PICK g : \A i \in I : i >= N + 1 => g[i] \in V /\ G(g, i)
    BY <2>1
  <2>3. P(g, 0)
    BY <2>2
  <2>4. QED BY <2>3
<1>3. ASSUME NEW n \in Nat, n \in S PROVE n + 1 \in S
  <2> HIDE DEF G
  <2>1. PICK f : P(f, n)
    BY <1>3
  <2>2. CASE N + 1 - (n + 1) < 1
    <3>1. \A i \in 1..(N + 1) : i >= N + 1 - n
      BY <2>2
    <3>2. P(f, n + 1)
      BY <2>1, <3>1
    <3>3. QED BY <3>2
  <2>3. CASE ~(N + 1 - (n + 1) < 1)
    <3> DEFINE m == N + 1 - (n + 1)
    <3>1. m \in Nat /\ m \in I
      BY <2>3
    <3>2. \A i \in I : i > m => i >= N + 1 - n
      OBVIOUS
    <3>3. \A i \in I : i > m => f[i] \in V /\ G(f, i)
      BY <2>1, <3>2
    <3>3a. \E g : \A i \in I : i >= m => g[i] \in V /\ G(g, i)
      <4> HIDE DEF m, I
      <4>1. QED BY <1>1, <3>1, <3>3
    <3>4. PICK g : \A i \in I : i >= m => g[i] \in V /\ G(g, i)
      BY <3>3a
    <3>5. P(g, n + 1)
      BY <3>4
    <3>6. QED BY <3>5
  <2>4. QED BY <2>2, <2>3
<1> HIDE DEF S
<1>4. Nat \subseteq S
  BY <1>2, <1>3, EveryNumber
<1> USE DEF S
<1>5. PICK f : P(f, N + 1)
  <2> HIDE DEF S
  <2>1. N + 1 \in S
    BY <1>4
  <2> USE DEF S
  <2>2. QED BY <2>1
<1> DEFINE h == [i \in I |-> f[i]]
<1>6. ASSUME NEW i \in I PROVE h[i] \in V /\ G(h, i)
  <2>1. i >= N + 1 - (N + 1)
    OBVIOUS
  <2>2. f[i] \in V /\ G(f, i) /\ h[i] = f[i]
    BY <1>5, <2>1
  <2>3. i \notin final => next[i] \in I
    OBVIOUS
  <2>4. i \notin final => h[next[i]] = f[next[i]]
    BY <2>3
  <2> HIDE DEF h
  <2>5. QED BY <2>2, <2>4
<1>7. h = [i \in I |-> h[i]]
  OBVIOUS
<1> HIDE DEF h
<1>8. h \in [I -> V]
  BY <1>6, <1>7
<1>9. QED BY <1>6, <1>8 DEF Recurs

\* The logical lines that are read.
Words == STRING
LogicalLine == [indent : BOOLEAN, words : Seq(Words), next : Nat]

FileRead == file \in Seq(Lines)

LEMMA LinesAre ==
  ASSUME FileRead, NEW k \in 1..Len(file)
  PROVE  /\ file[k].indent \in BOOLEAN /\ file[k].words \in Seq(Words) /\ file[k].cont \in BOOLEAN
         /\ NoName \notin ToSet(file[k].words)
         /\ file[k].cont => file[k].words # <<>>
<1>1. file[k] \in Lines
  BY DEF FileRead
<1>2. file[k] \in [indent: BOOLEAN, words: Seq(STRING), cont: BOOLEAN]
  BY <1>1, ConfigAssumption
<1>3. NoName \notin ToSet(file[k].words) /\ (file[k].cont => file[k].words # <<>>)
  BY <1>1, ConfigAssumption
<1>4. QED BY <1>2, <1>3 DEF Words

LEMMA FirstFromIs ==
  ASSUME FileRead, NEW i \in 1..(Len(file) + 1)
  PROVE  /\ Len(file) \in Nat /\ FirstFrom(i) \in i..(Len(file) + 1)
         /\ FirstFrom(i) <= Len(file) =>
              FirstFrom(i) \in 1..Len(file) /\ file[FirstFrom(i)].words # <<>>
<1> DEFINE kept == {k \in i..Len(file) : ~IsSkipped(file[k])}
<1>0. Len(file) \in Nat
  BY DEF FileRead
<1>1. CASE kept = {}
  <2>1. FirstFrom(i) = Len(file) + 1
    BY <1>1 DEF FirstFrom
  <2>2. QED BY <1>0, <2>1
<1>2. CASE kept # {}
  <2>1. kept \subseteq Nat
    BY <1>0
  <2>2. \E k \in kept : \A j \in kept : k <= j
    BY <1>2, <2>1, FirstNumber
  <2>3. FirstFrom(i) = CHOOSE k \in kept : \A j \in kept : k <= j
    BY <1>2 DEF FirstFrom
  <2>4. FirstFrom(i) \in kept
    <3> HIDE DEF kept
    <3>1. QED BY <2>2, <2>3
  <2> DEFINE f == FirstFrom(i)
  <2> HIDE DEF f
  <2>5. f \in i..Len(file) /\ f \in 1..Len(file) /\ ~IsSkipped(file[f])
    BY <1>0, <2>4 DEF f
  <2>6. file[f].words # <<>>
    BY <2>5, LinesAre DEF IsSkipped
  <2>7. f \in i..(Len(file) + 1)
    BY <1>0, <2>5
  <2>8. QED BY <1>0, <2>5, <2>6, <2>7 DEF f
<1>3. QED BY <1>1, <1>2

LEMMA JoinsTwo ==
  ASSUME NEW s \in Seq(Words), NEW t \in Seq(Words), NoName \notin ToSet(s), NoName \notin ToSet(t)
  PROVE  s \o t \in Seq(Words) /\ NoName \notin ToSet(s \o t) /\ (s # <<>> => s \o t # <<>>)
<1> DEFINE u == s \o t
<1>1. /\ u \in Seq(Words) /\ Len(u) = Len(s) + Len(t) /\ Len(s) \in Nat /\ Len(t) \in Nat
      /\ \A i \in 1..Len(u) : u[i] = IF i <= Len(s) THEN s[i] ELSE t[i - Len(s)]
  OBVIOUS
<1> HIDE DEF u
<1>2. (\A i \in 1..Len(s) : s[i] # NoName) /\ (\A i \in 1..Len(t) : t[i] # NoName)
  BY DEF ToSet
<1>3. ASSUME NEW i \in 1..Len(u) PROVE u[i] # NoName
  <2>1. CASE i <= Len(s)
    BY <1>1, <1>2, <2>1
  <2>2. CASE ~(i <= Len(s))
    <3>1. i - Len(s) \in 1..Len(t)
      BY <1>1, <2>2
    <3>2. QED BY <1>1, <1>2, <2>2, <3>1
  <2>3. QED BY <2>1, <2>2
<1>4. NoName \notin ToSet(u)
  BY <1>3 DEF ToSet
<1>5. s # <<>> => u # <<>>
  <2>1. s # <<>> => Len(s) # 0
    OBVIOUS
  <2>2. u = <<>> => Len(u) = 0
    OBVIOUS
  <2>3. QED BY <1>1, <2>1, <2>2
<1>6. QED BY <1>1, <1>4, <1>5 DEF u

LEMMA JoinedIs ==
  ASSUME FileRead, NEW k \in 1..(Len(file) + 1)
  PROVE  Joined[k] = IF k > Len(file) THEN [words |-> <<>>, next |-> k]
                     ELSE IF file[k].cont
                     THEN [words |-> file[k].words \o Joined[k + 1].words, next |-> Joined[k + 1].next]
                     ELSE [words |-> file[k].words, next |-> k + 1]
<1> DEFINE N == Len(file)
           V == [words : Seq(Words), next : Nat]
           final == {j \in 1..(N + 1) : j > N \/ ~file[j].cont}
           base == [j \in 1..(N + 1) |-> IF j > N THEN [words |-> <<>>, next |-> j]
                                         ELSE [words |-> file[j].words, next |-> j + 1]]
           step == [j \in 1..(N + 1) |->
                      [r \in V |-> [words |-> file[j].words \o r.words, next |-> r.next]]]
           next == [j \in 1..(N + 1) |-> j + 1]
           B(f) == [j \in 1..(N + 1) |->
                      IF j > N THEN [words |-> <<>>, next |-> j]
                      ELSE IF file[j].cont
                      THEN [words |-> file[j].words \o f[j + 1].words, next |-> f[j + 1].next]
                      ELSE [words |-> file[j].words, next |-> j + 1]]
<1>1. N \in Nat
  BY DEF FileRead
<1>2. ASSUME NEW j \in 1..(N + 1), j \in final PROVE base[j] \in V
  <2>1. CASE j > N
    <3>1. base[j] = [words |-> <<>>, next |-> j]
      BY <2>1
    <3>2. <<>> \in Seq(Words) /\ j \in Nat
      BY <1>1
    <3>3. QED BY <3>1, <3>2
  <2>2. CASE ~(j > N)
    <3>1. base[j] = [words |-> file[j].words, next |-> j + 1]
      BY <2>2
    <3>2. file[j].words \in Seq(Words) /\ j + 1 \in Nat
      BY <1>1, <2>2, LinesAre
    <3>3. QED BY <3>1, <3>2
  <2>3. QED BY <2>1, <2>2
<1>3. ASSUME NEW j \in 1..(N + 1), j \notin final
      PROVE  next[j] \in (j + 1)..(N + 1) /\ step[j] \in [V -> V] /\ j \in 1..N /\ file[j].cont
  <2>1. j \in 1..N /\ file[j].cont
    BY <1>1, <1>3
  <2>2. next[j] \in (j + 1)..(N + 1)
    BY <1>1, <2>1
  <2>3. file[j].words \in Seq(Words)
    BY <2>1, LinesAre
  <2>4. ASSUME NEW r \in V PROVE [words |-> file[j].words \o r.words, next |-> r.next] \in V
    BY <2>3
  <2>5. step[j] = [r \in V |-> [words |-> file[j].words \o r.words, next |-> r.next]]
    OBVIOUS
  <2> HIDE DEF V, step
  <2>6. step[j] \in [V -> V]
    BY <2>4, <2>5
  <2>7. QED BY <2>1, <2>2, <2>6
<1> HIDE DEF base, step, next, final, V
<1>4. PICK f \in [1..(N + 1) -> V] : Recurs(f, N, final, base, step, next)
  BY <1>1, <1>2, <1>3, RecursExists
<1>5. ASSUME NEW j \in 1..(N + 1) PROVE f[j] = B(f)[j]
  <2>1. f[j] = IF j \in final THEN base[j] ELSE step[j][f[next[j]]]
    BY <1>4 DEF Recurs
  <2>2. CASE j \in final
    BY <2>1, <2>2 DEF final, base
  <2>3. CASE j \notin final
    <3>1. j \in 1..N /\ file[j].cont /\ next[j] = j + 1 /\ j + 1 \in 1..(N + 1) /\ ~(j > N)
      BY <1>1, <1>3, <2>3 DEF next
    <3>2. f[j + 1] \in V
      BY <3>1
    <3>3. f[j] = [words |-> file[j].words \o f[j + 1].words, next |-> f[j + 1].next]
      BY <2>1, <2>3, <3>1, <3>2 DEF step
    <3>4. QED BY <3>1, <3>3
  <2>4. QED BY <2>2, <2>3
<1>6. f = B(f)
  <2>1. f = [j \in 1..(N + 1) |-> f[j]]
    OBVIOUS
  <2>2. B(f) = [j \in 1..(N + 1) |-> B(f)[j]]
    OBVIOUS
  <2> HIDE DEF B
  <2>3. QED BY <1>5, <2>1, <2>2
<1>7. Joined = CHOOSE g : g = B(g)
  BY DEF Joined
<1>8. Joined = B(Joined)
  <2> HIDE DEF B
  <2>1. QED BY <1>6, <1>7
<1>9. QED BY <1>8

\* A line with those that continue it has words, none of them the empty one, and
\* ends before the next place.
JoinTrue(k) ==
  /\ Joined[k].words \in Seq(Words) /\ NoName \notin ToSet(Joined[k].words)
  /\ Joined[k].next \in 1..(Len(file) + 1)
  /\ k <= Len(file) =>
       Joined[k].next > k /\ (file[k].words # <<>> => Joined[k].words # <<>>)

LEMMA JoinedTrue ==
  ASSUME FileRead, NEW k \in 1..(Len(file) + 1)
  PROVE  JoinTrue(k)
<1> DEFINE N == Len(file)
           P == {j \in 1..(N + 1) : JoinTrue(j)}
<1>0. N \in Nat
  BY DEF FileRead
<1>1. ASSUME NEW i \in 1..(N + 1), \A j \in (i + 1)..(N + 1) : j \in P PROVE i \in P
  <2>1. Joined[i] = IF i > N THEN [words |-> <<>>, next |-> i]
                    ELSE IF file[i].cont
                    THEN [words |-> file[i].words \o Joined[i + 1].words, next |-> Joined[i + 1].next]
                    ELSE [words |-> file[i].words, next |-> i + 1]
    BY JoinedIs
  <2>2. CASE i > N
    <3>1. <<>> \in Seq(Words) /\ NoName \notin ToSet(<<>>)
      BY DEF ToSet
    <3>2. Joined[i].words = <<>> /\ Joined[i].next = i
      BY <2>1, <2>2
    <3>3. i \in 1..(Len(file) + 1) /\ ~(i <= Len(file))
      BY <1>0, <2>2
    <3>4. /\ Joined[i].words \in Seq(Words) /\ NoName \notin ToSet(Joined[i].words)
          /\ Joined[i].next \in 1..(Len(file) + 1)
      BY <3>1, <3>2, <3>3
    <3>5. JoinTrue(i)
      BY <3>3, <3>4 DEF JoinTrue
    <3>6. QED BY <3>5
  <2>3. CASE ~(i > N)
    <3>1. i \in 1..N /\ i + 1 \in (i + 1)..(N + 1) /\ i + 1 \in 1..(N + 1)
      BY <1>0, <2>3
    <3>2. file[i].words \in Seq(Words) /\ NoName \notin ToSet(file[i].words)
      BY <3>1, LinesAre
    <3>3. CASE file[i].cont
      <4>1. JoinTrue(i + 1)
        BY <1>1, <3>1
      <4>2. /\ Joined[i].words = file[i].words \o Joined[i + 1].words
            /\ Joined[i].next = Joined[i + 1].next
        <5>1. Joined[i] = [words |-> file[i].words \o Joined[i + 1].words, next |-> Joined[i + 1].next]
          BY <2>1, <2>3, <3>3, Zenon
        <5> DEFINE ws == file[i].words \o Joined[i + 1].words
                   n == Joined[i + 1].next
        <5>2. Joined[i] = [words |-> ws, next |-> n]
          BY <5>1
        <5> HIDE DEF ws, n
        <5>3. Joined[i].words = ws /\ Joined[i].next = n
          BY <5>2
        <5>4. QED BY <5>3 DEF ws, n
      <4>3. Joined[i + 1].words \in Seq(Words) /\ NoName \notin ToSet(Joined[i + 1].words)
        BY <4>1 DEF JoinTrue
      <4>4. /\ Joined[i].words \in Seq(Words) /\ NoName \notin ToSet(Joined[i].words)
            /\ (file[i].words # <<>> => Joined[i].words # <<>>)
        BY <3>2, <4>2, <4>3, JoinsTwo
      <4>5. Joined[i + 1].next \in 1..(N + 1) /\ Joined[i + 1].next > i
        <5>1. Joined[i + 1].next \in 1..(N + 1) /\ (i + 1 <= N => Joined[i + 1].next > i + 1)
          BY <4>1 DEF JoinTrue
        <5>2. CASE i + 1 <= N
          BY <1>0, <3>1, <5>1, <5>2
        <5>3. CASE ~(i + 1 <= N)
          <6>1. i + 1 > N /\ i + 1 = N + 1
            BY <1>0, <3>1, <5>3
          <6>2. Joined[i + 1] = [words |-> <<>>, next |-> i + 1]
            BY <3>1, <6>1, JoinedIs
          <6>3. Joined[i + 1].next = i + 1
            BY <6>2
          <6>4. QED BY <3>1, <5>1, <6>3
        <5>4. QED BY <5>2, <5>3
      <4>6. QED BY <4>2, <4>4, <4>5 DEF JoinTrue
    <3>4. CASE ~file[i].cont
      <4>1. Joined[i].words = file[i].words /\ Joined[i].next = i + 1
        BY <2>1, <2>3, <3>4
      <4>2. /\ Joined[i].next \in 1..(Len(file) + 1) /\ Joined[i].next > i
        BY <1>0, <3>1, <4>1
      <4>3. /\ Joined[i].words \in Seq(Words) /\ NoName \notin ToSet(Joined[i].words)
            /\ (file[i].words # <<>> => Joined[i].words # <<>>)
        BY <3>2, <4>1
      <4>4. JoinTrue(i)
        BY <4>2, <4>3 DEF JoinTrue
      <4>5. QED BY <4>4
    <3>5. QED BY <3>3, <3>4
  <2>4. QED BY <2>2, <2>3
<1> HIDE DEF P
<1>2. 1..(N + 1) \subseteq P
  BY <1>0, <1>1, FromTheEnd
<1>3. QED BY <1>2 DEF P

\* A line that is read.
LineTrue(l, i) ==
  /\ l \in LogicalLine /\ l.words # <<>> /\ NoName \notin ToSet(l.words)
  /\ l.next \in (i + 1)..(Len(file) + 1)

LEMMA OneLineIs ==
  ASSUME FileRead, NEW i \in 1..(Len(file) + 1), ~AtEnd(i)
  PROVE  LineTrue(OneLine(i), i) /\ OneLine(i).next \in 1..(Len(file) + 1)
<1> DEFINE f == FirstFrom(i)
           l == OneLine(i)
<1>1. /\ Len(file) \in Nat /\ f \in i..(Len(file) + 1) /\ f <= Len(file)
      /\ f \in 1..Len(file) /\ file[f].words # <<>>
  BY FirstFromIs DEF AtEnd
<1>2. l = [indent |-> file[f].indent, words |-> Joined[f].words, next |-> Joined[f].next]
  BY DEF OneLine
<1> HIDE DEF f
<1>3. f \in 1..(Len(file) + 1) /\ f >= i
  BY <1>1
<1>4. JoinTrue(f)
  BY <1>3, JoinedTrue
<1>5. file[f].indent \in BOOLEAN
  BY <1>1, LinesAre
<1>6. /\ l.words \in Seq(Words) /\ l.words # <<>> /\ NoName \notin ToSet(l.words)
      /\ l.next \in 1..(Len(file) + 1) /\ l.next > f /\ l.indent \in BOOLEAN
  BY <1>1, <1>2, <1>4, <1>5 DEF JoinTrue
<1>7. l.next \in Nat /\ l.next \in (i + 1)..(Len(file) + 1)
  BY <1>1, <1>3, <1>6
<1>8. l \in LogicalLine
  BY <1>2, <1>5, <1>6, <1>7 DEF LogicalLine
<1> HIDE DEF l
<1>9. LineTrue(l, i) /\ l.next \in 1..(Len(file) + 1)
  BY <1>6, <1>7, <1>8 DEF LineTrue
<1>10. QED BY <1>9 DEF l

\* The logical lines from a place on.
LinesFrom ==
  CHOOSE rest : rest = [i \in 1..(Len(file) + 1) |->
                          IF AtEnd(i) THEN <<>> ELSE <<OneLine(i)>> \o rest[OneLine(i).next]]

LEMMA LinesFromIs ==
  ASSUME FileRead, NEW i \in 1..(Len(file) + 1)
  PROVE  LinesFrom[i] = IF AtEnd(i) THEN <<>> ELSE <<OneLine(i)>> \o LinesFrom[OneLine(i).next]
<1> DEFINE N == Len(file)
           I == 1..(N + 1)
           V == Seq(LogicalLine)
           final == {j \in I : AtEnd(j)}
           base == [j \in I |-> <<>>]
           step == [j \in I |-> [s \in V |-> <<OneLine(j)>> \o s]]
           next == [j \in I |-> OneLine(j).next]
           B(f) == [j \in I |-> IF AtEnd(j) THEN <<>> ELSE <<OneLine(j)>> \o f[OneLine(j).next]]
<1>1. N \in Nat
  BY DEF FileRead
<1>2. ASSUME NEW j \in I PROVE base[j] \in V
  OBVIOUS
<1>3. ASSUME NEW j \in I, j \notin final
      PROVE  next[j] \in (j + 1)..(N + 1) /\ step[j] \in [V -> V] /\ next[j] \in I
  <2>1. LineTrue(OneLine(j), j) /\ OneLine(j).next \in 1..(Len(file) + 1)
    BY <1>3, OneLineIs
  <2>2. next[j] = OneLine(j).next
    OBVIOUS
  <2>3. OneLine(j) \in LogicalLine
    BY <2>1 DEF LineTrue
  <2>4. ASSUME NEW s \in V PROVE <<OneLine(j)>> \o s \in V
    BY <2>3
  <2>5. step[j] = [s \in V |-> <<OneLine(j)>> \o s]
    OBVIOUS
  <2> HIDE DEF V, step, next
  <2>6. step[j] \in [V -> V]
    BY <2>4, <2>5
  <2>7. QED BY <2>1, <2>2, <2>6 DEF LineTrue
<1> HIDE DEF base, step, next, final, V
<1>4. PICK f \in [1..(N + 1) -> V] : Recurs(f, N, final, base, step, next)
  <2>1. \A j \in 1..(N + 1) : j \in final => base[j] \in V
    BY <1>2
  <2>2. \A j \in 1..(N + 1) : j \notin final => next[j] \in (j + 1)..(N + 1) /\ step[j] \in [V -> V]
    BY <1>3
  <2>3. QED BY <1>1, <2>1, <2>2, RecursExists
<1>5. ASSUME NEW j \in I PROVE f[j] = B(f)[j]
  <2>1. f[j] = IF j \in final THEN base[j] ELSE step[j][f[next[j]]]
    BY <1>4 DEF Recurs
  <2>2. CASE j \in final
    BY <2>1, <2>2 DEF final, base
  <2>3. CASE j \notin final
    <3>1. next[j] = OneLine(j).next /\ next[j] \in I
      BY <1>3, <2>3 DEF next
    <3>2. f[next[j]] \in V
      BY <3>1
    <3>3. step[j] = [s \in V |-> <<OneLine(j)>> \o s]
      BY DEF step
    <3>4. f[j] = <<OneLine(j)>> \o f[OneLine(j).next]
      BY <2>1, <2>3, <3>1, <3>2, <3>3
    <3>5. ~AtEnd(j)
      BY <2>3 DEF final
    <3>6. QED BY <3>4, <3>5
  <2>4. QED BY <2>2, <2>3
<1>6. f = B(f)
  <2>1. f = [j \in I |-> f[j]]
    OBVIOUS
  <2>2. B(f) = [j \in I |-> B(f)[j]]
    OBVIOUS
  <2> HIDE DEF B
  <2>3. QED BY <1>5, <2>1, <2>2
<1>7. LinesFrom = CHOOSE g : g = B(g)
  BY DEF LinesFrom
<1>8. LinesFrom = B(LinesFrom)
  <2> HIDE DEF B
  <2>1. QED BY <1>6, <1>7
<1>9. QED BY <1>8

LEMMA AllLines == LogicalLines = LinesFrom[1]
  BY DEF LogicalLines, LinesFrom

\* The lines from a place are lines, of which the first is the one there.
LEMMA LinesFromAre ==
  ASSUME FileRead, NEW i \in 1..(Len(file) + 1)
  PROVE  /\ LinesFrom[i] \in Seq(LogicalLine)
         /\ \A k \in 1..Len(LinesFrom[i]) :
              LinesFrom[i][k].words # <<>> /\ NoName \notin ToSet(LinesFrom[i][k].words)
<1> DEFINE N == Len(file)
           Ok(j) == /\ LinesFrom[j] \in Seq(LogicalLine)
                    /\ \A k \in 1..Len(LinesFrom[j]) :
                         LinesFrom[j][k].words # <<>> /\ NoName \notin ToSet(LinesFrom[j][k].words)
           P == {j \in 1..(N + 1) : Ok(j)}
<1>0. N \in Nat
  BY DEF FileRead
<1>1. ASSUME NEW j \in 1..(N + 1), \A k \in (j + 1)..(N + 1) : k \in P PROVE j \in P
  <2>0. SUFFICES Ok(j)
    BY DEF P
  <2>1. CASE AtEnd(j)
    <3>1. LinesFrom[j] = <<>>
      BY <2>1, LinesFromIs
    <3>2. QED BY <3>1
  <2>2. CASE ~AtEnd(j)
    <3> DEFINE l == OneLine(j)
               r == LinesFrom[l.next]
    <3>1. LinesFrom[j] = <<l>> \o r
      BY <2>2, LinesFromIs
    <3>2. l \in LogicalLine /\ l.words # <<>> /\ NoName \notin ToSet(l.words) /\ l.next \in (j + 1)..(N + 1)
      BY <2>2, OneLineIs DEF LineTrue
    <3>3. Ok(l.next)
      BY <1>1, <3>2
    <3> HIDE DEF l
    <3>4. r \in Seq(LogicalLine) /\ \A k \in 1..Len(r) : r[k].words # <<>> /\ NoName \notin ToSet(r[k].words)
      BY <3>3
    <3> HIDE DEF r
    <3>5. /\ <<l>> \o r \in Seq(LogicalLine) /\ Len(<<l>> \o r) = Len(r) + 1 /\ Len(r) \in Nat
          /\ (<<l>> \o r)[1] = l
          /\ \A k \in 1..Len(r) : (<<l>> \o r)[k + 1] = r[k]
      BY <3>2, <3>4
    <3>6. \A k \in 1..(Len(r) + 1) : k = 1 \/ (k - 1 \in 1..Len(r) /\ (k - 1) + 1 = k)
      BY <3>5
    <3>7. \A k \in 1..Len(LinesFrom[j]) : LinesFrom[j][k] = l \/ \E m \in 1..Len(r) : LinesFrom[j][k] = r[m]
      BY <3>1, <3>5, <3>6
    <3>8. \A k \in 1..Len(LinesFrom[j]) :
            LinesFrom[j][k].words # <<>> /\ NoName \notin ToSet(LinesFrom[j][k].words)
      BY <3>2, <3>4, <3>7
    <3>9. LinesFrom[j] \in Seq(LogicalLine)
      BY <3>1, <3>5
    <3>10. QED BY <3>8, <3>9
  <2>3. QED BY <2>1, <2>2
<1> HIDE DEF P
<1>2. 1..(N + 1) \subseteq P
  BY <1>0, <1>1, FromTheEnd
<1>3. QED BY <1>2 DEF P

\* One line less: what is behind the first.
LEMMA LinesBehind ==
  ASSUME FileRead, NEW i \in 1..(Len(file) + 1), ~AtEnd(i)
  PROVE  LET n == OneLine(i).next IN
         /\ n \in (i + 1)..(Len(file) + 1) /\ n \in 1..(Len(file) + 1)
         /\ Len(LinesFrom[n]) \in Nat /\ Len(LinesFrom[i]) = Len(LinesFrom[n]) + 1
         /\ LinesFrom[i][1] = OneLine(i)
         /\ \A k \in 1..Len(LinesFrom[n]) : LinesFrom[i][k + 1] = LinesFrom[n][k]
<1> DEFINE l == OneLine(i)
           r == LinesFrom[l.next]
<1>1. l \in LogicalLine /\ l.next \in (i + 1)..(Len(file) + 1) /\ l.next \in 1..(Len(file) + 1)
  BY OneLineIs DEF LineTrue
<1>2. LinesFrom[i] = <<l>> \o r
  BY LinesFromIs
<1>3. r \in Seq(LogicalLine)
  BY <1>1, LinesFromAre
<1> HIDE DEF l, r
<1>4. /\ Len(<<l>> \o r) = Len(r) + 1 /\ Len(r) \in Nat
      /\ (<<l>> \o r)[1] = l
      /\ \A k \in 1..Len(r) : (<<l>> \o r)[k + 1] = r[k]
  BY <1>1, <1>3
<1>5. QED BY <1>1, <1>2, <1>4 DEF l, r

\* What is behind the first j of the lines from a place are the lines from another.
LinesAfter(i, m, j) ==
  /\ m \in 1..(Len(file) + 1) /\ j \in Nat
  /\ Len(LinesFrom[i]) \in Nat /\ Len(LinesFrom[m]) \in Nat
  /\ Len(LinesFrom[i]) = Len(LinesFrom[m]) + j
  /\ \A k \in 1..Len(LinesFrom[m]) : LinesFrom[i][k + j] = LinesFrom[m][k]

LEMMA AfterItself ==
  ASSUME FileRead, NEW i \in 1..(Len(file) + 1)
  PROVE  LinesAfter(i, i, 0)
<1>1. Len(LinesFrom[i]) \in Nat
  BY LinesFromAre
<1> DEFINE s == LinesFrom[i]
<1> HIDE DEF s
<1>2. Len(s) \in Nat /\ Len(s) = Len(s) + 0 /\ \A k \in 1..Len(s) : s[k + 0] = s[k]
  BY <1>1 DEF s
<1>3. QED BY <1>2 DEF LinesAfter, s

LEMMA AfterNext ==
  ASSUME FileRead, NEW i \in 1..(Len(file) + 1), NEW m, NEW j, LinesAfter(i, m, j), ~AtEnd(m)
  PROVE  /\ LineTrue(OneLine(m), m)
         /\ j + 1 \in 1..Len(LinesFrom[i]) /\ LinesFrom[i][j + 1] = OneLine(m)
         /\ LinesAfter(i, OneLine(m).next, j + 1)
<1> DEFINE n == OneLine(m).next
           s == LinesFrom[i]
           t == LinesFrom[m]
           u == LinesFrom[n]
<1>0. m \in 1..(Len(file) + 1)
  BY DEF LinesAfter
<1>1. LineTrue(OneLine(m), m)
  BY <1>0, OneLineIs
<1>2. /\ n \in 1..(Len(file) + 1) /\ Len(u) \in Nat /\ Len(t) = Len(u) + 1
      /\ t[1] = OneLine(m) /\ \A k \in 1..Len(u) : t[k + 1] = u[k]
  BY <1>0, LinesBehind
<1>3. j \in Nat /\ Len(s) \in Nat /\ Len(t) \in Nat /\ Len(s) = Len(t) + j /\ \A k \in 1..Len(t) : s[k + j] = t[k]
  BY DEF LinesAfter
<1> HIDE DEF n, s, t, u
<1>4. 1 \in 1..Len(t) /\ 1 + j = j + 1
  BY <1>2, <1>3
<1>5. s[j + 1] = OneLine(m) /\ j + 1 \in 1..Len(s)
  <2>1. s[1 + j] = t[1]
    BY <1>3, <1>4
  <2>2. s[j + 1] = t[1]
    BY <1>4, <2>1, Zenon
  <2>3. QED BY <1>2, <1>3, <2>2
<1>6. ASSUME NEW k \in 1..Len(u) PROVE s[k + (j + 1)] = u[k]
  <2>1. k + 1 \in 1..Len(t) /\ (k + 1) + j = k + (j + 1)
    BY <1>2, <1>3
  <2>2. s[(k + 1) + j] = t[k + 1] /\ t[k + 1] = u[k]
    BY <1>2, <1>3, <2>1
  <2>3. s[k + (j + 1)] = s[(k + 1) + j]
    BY <2>1
  <2>4. QED BY <2>2, <2>3, Zenon
<1>7. Len(s) = Len(u) + (j + 1) /\ j + 1 \in Nat
  BY <1>2, <1>3
<1>8. LinesAfter(i, n, j + 1)
  BY <1>2, <1>3, <1>6, <1>7 DEF LinesAfter, s, u
<1>9. QED BY <1>1, <1>5, <1>8 DEF n, s

LEMMA AfterEnd ==
  ASSUME FileRead, NEW i \in 1..(Len(file) + 1), NEW m, NEW j, LinesAfter(i, m, j), AtEnd(m)
  PROVE  Len(LinesFrom[i]) = j
<1>1. m \in 1..(Len(file) + 1) /\ j \in Nat /\ Len(LinesFrom[i]) = Len(LinesFrom[m]) + j
  BY DEF LinesAfter
<1>2. LinesFrom[m] = <<>>
  BY <1>1, LinesFromIs
<1>3. Len(LinesFrom[m]) = 0
  BY <1>2
<1>4. QED BY <1>1, <1>3

\* The line that opens a section.
Opens(l, section) == ~l.indent /\ section \in ToSet(l.words)

FindSection(section) ==
  CHOOSE find : find =
    [i \in 1..(Len(file) + 1) |->
       IF AtEnd(i) THEN 0
       ELSE IF ~OneLine(i).indent /\ section \in ToSet(OneLine(i).words) THEN OneLine(i).next
       ELSE find[OneLine(i).next]]

LEMMA FindSectionIs ==
  ASSUME FileRead, NEW section, NEW i \in 1..(Len(file) + 1)
  PROVE  FindSection(section)[i] =
           IF AtEnd(i) THEN 0
           ELSE IF ~OneLine(i).indent /\ section \in ToSet(OneLine(i).words) THEN OneLine(i).next
           ELSE FindSection(section)[OneLine(i).next]
<1> DEFINE N == Len(file)
           I == 1..(N + 1)
           V == Nat
           final == {j \in I : AtEnd(j) \/ Opens(OneLine(j), section)}
           base == [j \in I |-> IF AtEnd(j) THEN 0 ELSE OneLine(j).next]
           step == [j \in I |-> [s \in V |-> s]]
           next == [j \in I |-> OneLine(j).next]
           B(f) == [j \in I |-> IF AtEnd(j) THEN 0
                                ELSE IF ~OneLine(j).indent /\ section \in ToSet(OneLine(j).words)
                                THEN OneLine(j).next
                                ELSE f[OneLine(j).next]]
<1>1. N \in Nat
  BY DEF FileRead
<1>2. ASSUME NEW j \in I PROVE base[j] \in V
  <2>1. CASE AtEnd(j)
    BY <2>1
  <2>2. CASE ~AtEnd(j)
    <3>1. OneLine(j).next \in I
      BY <2>2, OneLineIs
    <3>2. OneLine(j).next \in Nat /\ base[j] = OneLine(j).next
      BY <1>1, <2>2, <3>1
    <3>3. QED BY <3>2
  <2>3. QED BY <2>1, <2>2
<1>3. ASSUME NEW j \in I, j \notin final
      PROVE  next[j] \in (j + 1)..(N + 1) /\ step[j] \in [V -> V] /\ next[j] \in I
  <2>1. LineTrue(OneLine(j), j) /\ OneLine(j).next \in 1..(Len(file) + 1)
    BY <1>3, OneLineIs
  <2>2. next[j] = OneLine(j).next /\ step[j] \in [V -> V]
    OBVIOUS
  <2> HIDE DEF V, step, next
  <2>3. QED BY <2>1, <2>2 DEF LineTrue
<1> HIDE DEF base, step, next, final, V
<1>4. PICK f \in [1..(N + 1) -> V] : Recurs(f, N, final, base, step, next)
  <2>1. \A j \in 1..(N + 1) : j \in final => base[j] \in V
    BY <1>2
  <2>2. \A j \in 1..(N + 1) : j \notin final => next[j] \in (j + 1)..(N + 1) /\ step[j] \in [V -> V]
    BY <1>3
  <2>3. QED BY <1>1, <2>1, <2>2, RecursExists
<1>5. ASSUME NEW j \in I PROVE f[j] = B(f)[j]
  <2>1. f[j] = IF j \in final THEN base[j] ELSE step[j][f[next[j]]]
    BY <1>4 DEF Recurs
  <2>2. CASE j \in final
    <3>1. f[j] = IF AtEnd(j) THEN 0 ELSE OneLine(j).next
      BY <2>1, <2>2 DEF base
    <3>2. AtEnd(j) \/ (~OneLine(j).indent /\ section \in ToSet(OneLine(j).words))
      BY <2>2 DEF final, Opens
    <3>3. QED BY <3>1, <3>2, Zenon
  <2>3. CASE j \notin final
    <3>1. next[j] = OneLine(j).next /\ next[j] \in I
      BY <1>3, <2>3 DEF next
    <3>2. f[next[j]] \in V
      BY <3>1
    <3>3. step[j] = [s \in V |-> s]
      BY DEF step
    <3>4. f[j] = f[OneLine(j).next]
      BY <2>1, <2>3, <3>1, <3>2, <3>3
    <3>5. ~AtEnd(j) /\ ~(~OneLine(j).indent /\ section \in ToSet(OneLine(j).words))
      BY <2>3 DEF final, Opens
    <3>6. QED BY <3>4, <3>5, Zenon
  <2>4. QED BY <2>2, <2>3
<1>6. f = B(f)
  <2>1. f = [j \in I |-> f[j]]
    OBVIOUS
  <2>2. B(f) = [j \in I |-> B(f)[j]]
    OBVIOUS
  <2> HIDE DEF B
  <2>3. QED BY <1>5, <2>1, <2>2
<1>7. FindSection(section) = CHOOSE g : g = B(g)
  BY DEF FindSection
<1>8. FindSection(section) = B(FindSection(section))
  <2> HIDE DEF B
  <2>1. QED BY <1>6, <1>7
<1> DEFINE F == FindSection(section)
<1> HIDE DEF F
<1>9. F[i] = B(F)[i]
  BY <1>8, Zenon DEF F
<1>10. QED BY <1>9, Zenon DEF F

\* What the search finds: the place behind the first line that opens the section.
Found(section, i, e) ==
  \/ e = 0 /\ \A k \in 1..Len(LinesFrom[i]) : ~Opens(LinesFrom[i][k], section)
  \/ \E f \in 1..Len(LinesFrom[i]) :
       /\ Opens(LinesFrom[i][f], section)
       /\ \A k \in 1..(f - 1) : ~Opens(LinesFrom[i][k], section)
       /\ LinesAfter(i, e, f)

LEMMA FoundNext ==
  ASSUME FileRead, NEW section, NEW i \in 1..(Len(file) + 1), NEW e, ~AtEnd(i),
         ~Opens(OneLine(i), section), Found(section, OneLine(i).next, e)
  PROVE  Found(section, i, e)
<1> DEFINE n == OneLine(i).next
           s == LinesFrom[i]
           u == LinesFrom[n]
<1>1. /\ n \in 1..(Len(file) + 1) /\ Len(u) \in Nat /\ Len(s) = Len(u) + 1
      /\ s[1] = OneLine(i) /\ \A k \in 1..Len(u) : s[k + 1] = u[k]
  BY LinesBehind
<1> HIDE DEF n
<1>2. CASE e = 0 /\ \A k \in 1..Len(u) : ~Opens(u[k], section)
  <2> HIDE DEF s, u
  <2>1. ASSUME NEW k \in 1..Len(s) PROVE ~Opens(s[k], section)
    <3>1. CASE k = 1
      BY <1>1, <3>1
    <3>2. CASE k # 1
      <4>1. k - 1 \in 1..Len(u) /\ (k - 1) + 1 = k
        BY <1>1, <3>2
      <4>2. s[(k - 1) + 1] = u[k - 1]
        BY <1>1, <4>1
      <4>3. s[k] = u[k - 1]
        BY <4>1, <4>2
      <4>4. QED BY <1>2, <4>1, <4>3
    <3>3. QED BY <3>1, <3>2
  <2>2. QED BY <1>2, <2>1 DEF Found, s
<1>3. CASE \E f \in 1..Len(u) :
             /\ Opens(u[f], section)
             /\ \A k \in 1..(f - 1) : ~Opens(u[k], section)
             /\ LinesAfter(n, e, f)
  <2>1. PICK f \in 1..Len(u) :
             /\ Opens(u[f], section)
             /\ \A k \in 1..(f - 1) : ~Opens(u[k], section)
             /\ LinesAfter(n, e, f)
    BY <1>3
  <2> DEFINE v == LinesFrom[e]
  <2>2. /\ e \in 1..(Len(file) + 1) /\ Len(v) \in Nat /\ Len(u) = Len(v) + f
        /\ \A k \in 1..Len(v) : u[k + f] = v[k]
    BY <2>1 DEF LinesAfter
  <2> HIDE DEF s, u, v
  <2>3. f + 1 \in 1..Len(s) /\ f + 1 \in Nat
    BY <1>1, <2>1
  <2>4. Opens(s[f + 1], section)
    <3>1. s[f + 1] = u[f]
      BY <1>1
    <3>2. QED BY <2>1, <3>1
  <2>5. ASSUME NEW k \in 1..((f + 1) - 1) PROVE ~Opens(s[k], section)
    <3>1. CASE k = 1
      BY <1>1, <3>1
    <3>2. CASE k # 1
      <4>1. k - 1 \in 1..Len(u) /\ k - 1 \in 1..(f - 1) /\ (k - 1) + 1 = k
        BY <1>1, <2>1, <3>2
      <4>2. s[(k - 1) + 1] = u[k - 1]
        BY <1>1, <4>1
      <4>3. s[k] = u[k - 1]
        BY <4>1, <4>2
      <4>4. QED BY <2>1, <4>1, <4>3
    <3>3. QED BY <3>1, <3>2
  <2>6. ASSUME NEW k \in 1..Len(v) PROVE s[k + (f + 1)] = v[k]
    <3>1. k + f \in 1..Len(u) /\ (k + f) + 1 = k + (f + 1)
      BY <1>1, <2>2
    <3>2. s[(k + f) + 1] = u[k + f] /\ u[k + f] = v[k]
      BY <1>1, <2>2, <3>1
    <3>3. s[k + (f + 1)] = s[(k + f) + 1]
      BY <3>1
    <3>4. QED BY <3>2, <3>3, Zenon
  <2>7. Len(s) \in Nat /\ Len(s) = Len(v) + (f + 1)
    BY <1>1, <2>2
  <2>8. LinesAfter(i, e, f + 1)
    BY <2>2, <2>3, <2>6, <2>7 DEF LinesAfter, s, v
  <2>9. QED BY <2>3, <2>4, <2>5, <2>8 DEF Found, s
<1>4. QED BY <1>2, <1>3 DEF Found, n

LEMMA FindFinds ==
  ASSUME FileRead, NEW section, NEW i \in 1..(Len(file) + 1)
  PROVE  Found(section, i, FindSection(section)[i])
<1> DEFINE N == Len(file)
           Ok(j) == Found(section, j, FindSection(section)[j])
           P == {j \in 1..(N + 1) : Ok(j)}
<1>0. N \in Nat
  BY DEF FileRead
<1>1. ASSUME NEW j \in 1..(N + 1), \A k \in (j + 1)..(N + 1) : k \in P PROVE j \in P
  <2>0. SUFFICES Ok(j)
    BY DEF P
  <2>1. FindSection(section)[j] =
           IF AtEnd(j) THEN 0
           ELSE IF ~OneLine(j).indent /\ section \in ToSet(OneLine(j).words) THEN OneLine(j).next
           ELSE FindSection(section)[OneLine(j).next]
    BY FindSectionIs
  <2>2. CASE AtEnd(j)
    <3>1. FindSection(section)[j] = 0
      BY <2>1, <2>2
    <3>2. LinesFrom[j] = <<>>
      BY <2>2, LinesFromIs
    <3>3. \A k \in 1..Len(LinesFrom[j]) : FALSE
      BY <3>2
    <3>4. QED BY <3>1, <3>3 DEF Found
  <2>3. CASE ~AtEnd(j) /\ Opens(OneLine(j), section)
    <3>1. FindSection(section)[j] = OneLine(j).next
      BY <2>1, <2>3 DEF Opens
    <3>2. LinesAfter(j, j, 0)
      BY AfterItself
    <3>3. /\ 0 + 1 \in 1..Len(LinesFrom[j]) /\ LinesFrom[j][0 + 1] = OneLine(j)
          /\ LinesAfter(j, OneLine(j).next, 0 + 1)
      BY <2>3, <3>2, AfterNext
    <3>4. 1 \in 1..Len(LinesFrom[j]) /\ LinesFrom[j][1] = OneLine(j) /\ LinesAfter(j, OneLine(j).next, 1)
      <4>1. 0 + 1 = 1
        OBVIOUS
      <4>2. QED BY <3>3, <4>1, Zenon
    <3>5. \A k \in 1..(1 - 1) : FALSE
      OBVIOUS
    <3>6. QED BY <2>3, <3>1, <3>4, <3>5 DEF Found
  <2>4. CASE ~AtEnd(j) /\ ~Opens(OneLine(j), section)
    <3>1. FindSection(section)[j] = FindSection(section)[OneLine(j).next]
      BY <2>1, <2>4 DEF Opens
    <3>2. OneLine(j).next \in (j + 1)..(N + 1)
      BY <2>4, OneLineIs DEF LineTrue
    <3>3. Ok(OneLine(j).next)
      BY <1>1, <3>2
    <3>4. QED BY <2>4, <3>1, <3>3, FoundNext
  <2>5. QED BY <2>2, <2>3, <2>4
<1> HIDE DEF P
<1>2. 1..(N + 1) \subseteq P
  BY <1>0, <1>1, FromTheEnd
<1>3. QED BY <1>2 DEF P

LEMMA SectionFound ==
  ASSUME FileRead, NEW section
  PROVE  Found(section, 1, SectionEnd(section))
<1>1. SectionEnd(section) = FindSection(section)[1]
  BY DEF SectionEnd, FindSection
<1>2. 1 \in 1..(Len(file) + 1)
  BY DEF FileRead
<1>3. QED BY <1>1, <1>2, FindFinds

\* The lines of a section that are read: j of them from line f.
DefsOf(f, j) == [k \in 1..j |-> LinesFrom[1][f + k]]

LEMMA DefsOfAre ==
  ASSUME FileRead, NEW f \in Nat, NEW j \in Nat, f + j <= Len(LinesFrom[1])
  PROVE  /\ DefsOf(f, j) \in Seq(LogicalLine) /\ Len(DefsOf(f, j)) = j
         /\ \A k \in 1..j : /\ DefsOf(f, j)[k] = LinesFrom[1][f + k]
                            /\ DefsOf(f, j)[k].words # <<>> /\ NoName \notin ToSet(DefsOf(f, j)[k].words)
<1> DEFINE l == LinesFrom[1]
           d == DefsOf(f, j)
<1>0. 1 \in 1..(Len(file) + 1)
  BY DEF FileRead
<1>1. /\ l \in Seq(LogicalLine)
      /\ \A k \in 1..Len(l) : l[k].words # <<>> /\ NoName \notin ToSet(l[k].words)
  BY <1>0, LinesFromAre
<1>2. d = [k \in 1..j |-> l[f + k]]
  BY DEF DefsOf
<1>2a. f + j <= Len(l)
  OBVIOUS
<1> HIDE DEF l, d
<1>3. ASSUME NEW k \in 1..j PROVE f + k \in 1..Len(l) /\ d[k] = l[f + k] /\ l[f + k] \in LogicalLine
  <2>1. f + k \in 1..Len(l)
    BY <1>1, <1>2a
  <2>2. QED BY <1>1, <1>2, <2>1
<1>4. d \in [1..j -> LogicalLine]
  BY <1>2, <1>3
<1>5. d \in Seq(LogicalLine) /\ Len(d) = j
  BY <1>4
<1>6. \A k \in 1..j : d[k] = l[f + k] /\ d[k].words # <<>> /\ NoName \notin ToSet(d[k].words)
  BY <1>1, <1>3
<1>7. QED BY <1>5, <1>6 DEF l, d

LEMMA DefinitionsAre ==
  ASSUME FileRead, NEW section, NEW f \in 1..Len(LinesFrom[1]), NEW j \in Nat,
         Opens(LinesFrom[1][f], section),
         \A k \in 1..(f - 1) : ~Opens(LinesFrom[1][k], section),
         f + j <= Len(LinesFrom[1]), \A k \in 1..j : LinesFrom[1][f + k].indent,
         f + j = Len(LinesFrom[1]) \/ ~LinesFrom[1][f + j + 1].indent
  PROVE  Definitions(section) = DefsOf(f, j)
<1> DEFINE l == LinesFrom[1]
           named == {i \in 1..Len(l): ~l[i].indent /\ section \in ToSet(l[i].words)}
           first == CHOOSE i \in named: \A m \in named: i <= m
           body == {i \in (first + 1)..Len(l): \A m \in (first + 1)..i: l[m].indent}
<1>0. 1 \in 1..(Len(file) + 1)
  BY DEF FileRead
<1>0a. Len(l) \in Nat
  BY <1>0, LinesFromAre
<1>1. Definitions(section) = [k \in 1..Cardinality(body) |-> l[first + k]]
  BY AllLines DEF Definitions
<1>2. \A i \in 1..Len(l) : i \in named <=> Opens(l[i], section)
  BY DEF Opens
<1>3. f \in named /\ (\A i \in named : ~(i \in 1..(f - 1)))
  BY <1>2
<1>4. first = f
  <2>1. named \subseteq 1..Len(l)
    OBVIOUS
  <2> HIDE DEF named
  <2>2. \A m \in named : f <= m
    BY <1>0a, <1>3, <2>1
  <2>3. ASSUME NEW i \in named, \A m \in named : i <= m PROVE i = f
    <3>1. i <= f /\ f <= i
      BY <1>3, <2>2, <2>3
    <3>2. i \in Nat /\ f \in Nat
      BY <1>3, <2>1
    <3>3. QED BY <3>1, <3>2
  <2>4. \E i \in named : \A m \in named : i <= m
    BY <1>3, <2>2
  <2> DEFINE Q(i) == \A m \in named : i <= m
  <2>5. first \in named /\ Q(first)
    <3> HIDE DEF Q
    <3>1. first = CHOOSE i \in named : Q(i)
      BY DEF Q
    <3>2. \E i \in named : Q(i)
      BY <2>4 DEF Q
    <3> HIDE DEF first
    <3>3. QED BY <3>1, <3>2
  <2> HIDE DEF first
  <2>6. QED BY <2>3, <2>5
<1>5. body = (f + 1)..(f + j)
  <2> DEFINE b == {i \in (f + 1)..Len(l): \A m \in (f + 1)..i: l[m].indent}
  <2>1. body = b
    BY <1>4
  <2>2. ASSUME NEW i \in (f + 1)..(f + j) PROVE i \in b
    <3>1. i \in (f + 1)..Len(l)
      BY <1>0a, <2>2
    <3>2. ASSUME NEW m \in (f + 1)..i PROVE l[m].indent
      <4>1. m - f \in 1..j /\ f + (m - f) = m
        BY <2>2, <3>2
      <4>2. l[f + (m - f)].indent
        BY <4>1
      <4>3. QED BY <4>1, <4>2
    <3>3. QED BY <3>1, <3>2
  <2>3. ASSUME NEW i \in b PROVE i \in (f + 1)..(f + j)
    <3>1. i \in (f + 1)..Len(l) /\ \A m \in (f + 1)..i : l[m].indent
      OBVIOUS
    <3> HIDE DEF b, l
    <3>2. CASE i > f + j
      <4>1. f + j # Len(l) /\ f + j + 1 \in (f + 1)..i
        BY <1>0a, <3>1, <3>2
      <4>2. ~l[f + j + 1].indent
        BY <4>1 DEF l
      <4>3. QED BY <3>1, <4>1, <4>2
    <3>3. CASE ~(i > f + j)
      BY <3>1, <3>3
    <3>4. QED BY <3>2, <3>3
  <2> HIDE DEF b
  <2>4. b \subseteq Int
    BY DEF b
  <2>5. b = (f + 1)..(f + j)
    BY <2>2, <2>3
  <2>6. QED BY <2>1, <2>5
<1>6. Cardinality(body) = j
  <2>1. f + 1 \in Int /\ f + j \in Int
    OBVIOUS
  <2>2. Cardinality((f + 1)..(f + j)) = IF f + 1 > f + j THEN 0 ELSE (f + j) - (f + 1) + 1
    BY <2>1, FS_Interval
  <2>3. (IF f + 1 > f + j THEN 0 ELSE (f + j) - (f + 1) + 1) = j
    OBVIOUS
  <2> HIDE DEF body
  <2>4. QED BY <1>5, <2>2, <2>3, Zenon
<1> HIDE DEF named, first, body
<1>7. QED BY <1>1, <1>4, <1>6 DEF DefsOf

\* A definition that has a name which there is already.
Again(d, old, i) ==
  \/ d[i].words[1] \in DOMAIN old
  \/ \E j \in 1..(i - 1) : d[j].words[1] = d[i].words[1]

\* The tree that the definitions d make of an older one, and the name that is kept.
Named(d, n) == \E i \in 1..Len(d) : d[i].words[1] = n
HasLast(v, d, n) ==
  \E i \in 1..Len(d) : /\ d[i].words[1] = n /\ v = ValuesOf(d[i].words)
                       /\ \A j \in 1..Len(d) : j > i => d[j].words[1] # n
HasFirst(v, d, n) ==
  \E i \in 1..Len(d) : /\ d[i].words[1] = n /\ v = ValuesOf(d[i].words)
                       /\ \A j \in 1..Len(d) : j < i => d[j].words[1] # n
ValueIs(v, d, old, allow, n) ==
  IF allow
  THEN \/ HasLast(v, d, n)
       \/ v = old[n] /\ \A i \in 1..Len(d) : d[i].words[1] # n
  ELSE IF n \in DOMAIN old THEN v = old[n] ELSE HasFirst(v, d, n)
TreeIs(tree, d, old, allow) ==
  /\ \A n : n \in DOMAIN tree <=> n \in DOMAIN old \/ Named(d, n)
  /\ \A n \in DOMAIN tree : ValueIs(tree[n], d, old, allow, n)
BadIs(bad, d, old, allow) ==
  \/ bad = NoName /\ (allow \/ \A i \in 1..Len(d) : ~Again(d, old, i))
  \/ /\ ~allow
     /\ \E i \in 1..Len(d) : /\ Again(d, old, i) /\ \A j \in 1..(i - 1) : ~Again(d, old, j)
                             /\ bad = d[i].words[1] /\ bad # NoName

Longer(d, e, x) ==
  /\ Len(d) \in Nat /\ Len(e) = Len(d) + 1 /\ e[Len(e)] = x
  /\ \A k \in 1..Len(d) : e[k] = d[k]

LEMMA LongerHas ==
  ASSUME NEW d, NEW e, NEW x, Longer(d, e, x)
  PROVE  /\ Len(d) \in Nat /\ Len(e) = Len(d) + 1 /\ Len(e) \in 1..Len(e)
         /\ e[Len(e)] = x
         /\ \A k \in 1..Len(d) : k \in 1..Len(e) /\ k # Len(e) /\ k < Len(e) /\ e[k] = d[k]
         /\ \A k \in 1..Len(e) : k = Len(e) \/ k \in 1..Len(d)
  BY DEF Longer

LEMMA NamesGrow ==
  ASSUME NEW d, NEW e, NEW x, Longer(d, e, x), NEW n
  PROVE  Named(e, n) <=> n = x.words[1] \/ Named(d, n)
<1>1. ASSUME NEW i \in 1..Len(e), e[i].words[1] = n
      PROVE  n = x.words[1] \/ \E k \in 1..Len(d) : d[k].words[1] = n
  <2>1. CASE i = Len(e)
    BY <1>1, <2>1, LongerHas
  <2>2. CASE i # Len(e)
    <3>1. i \in 1..Len(d) /\ e[i] = d[i]
      BY <1>1, <2>2, LongerHas
    <3>2. QED BY <1>1, <3>1
  <2>3. QED BY <2>1, <2>2
<1>2. n = x.words[1] => \E i \in 1..Len(e) : e[i].words[1] = n
  BY LongerHas
<1>3. ASSUME NEW i \in 1..Len(d), d[i].words[1] = n PROVE \E k \in 1..Len(e) : e[k].words[1] = n
  BY <1>3, LongerHas
<1>4. QED BY <1>1, <1>2, <1>3 DEF Named

LEMMA AgainStays ==
  ASSUME NEW d, NEW e, NEW x, NEW old, Longer(d, e, x), NEW i \in 1..Len(d)
  PROVE  Again(e, old, i) <=> Again(d, old, i)
<1>1. e[i] = d[i]
  BY LongerHas
<1>2. \A j \in 1..(i - 1) : e[j] = d[j]
  <2>1. \A j \in 1..(i - 1) : j \in 1..Len(d)
    BY LongerHas
  <2>2. QED BY <2>1, LongerHas
<1>3. QED BY <1>1, <1>2 DEF Again

LEMMA AgainLast ==
  ASSUME NEW d, NEW e, NEW x, NEW old, Longer(d, e, x)
  PROVE  Again(e, old, Len(e)) <=>
           x.words[1] \in DOMAIN old \/ \E i \in 1..Len(d) : d[i].words[1] = x.words[1]
<1>1. Len(e) - 1 = Len(d) /\ e[Len(e)] = x
  BY LongerHas
<1>2. \A j \in 1..Len(d) : e[j] = d[j]
  BY LongerHas
<1>3. QED BY <1>1, <1>2 DEF Again

LEMMA TreeGrows ==
  ASSUME NEW d, NEW e, NEW x, Longer(d, e, x), NEW old, NEW allow \in BOOLEAN,
         NEW tree, TreeIs(tree, d, old, allow)
  PROVE  TreeIs(IF x.words[1] \in DOMAIN tree /\ ~allow THEN tree
                ELSE Define(tree, x.words[1], ValuesOf(x.words)), e, old, allow)
<1> DEFINE name == x.words[1]
           new == Define(tree, name, ValuesOf(x.words))
<1>1. /\ \A n : n \in DOMAIN tree <=> n \in DOMAIN old \/ Named(d, n)
      /\ \A n \in DOMAIN tree : ValueIs(tree[n], d, old, allow, n)
  BY DEF TreeIs
<1>2. \A n : Named(e, n) <=> n = name \/ Named(d, n)
  BY NamesGrow
<1>3. CASE name \in DOMAIN tree /\ ~allow
  <2>1. ASSUME NEW n PROVE n \in DOMAIN tree <=> n \in DOMAIN old \/ Named(e, n)
    BY <1>1, <1>2, <1>3
  <2>2. ASSUME NEW n \in DOMAIN tree PROVE ValueIs(tree[n], e, old, allow, n)
    <3>1. ValueIs(tree[n], d, old, allow, n)
      BY <1>1
    <3>2. CASE n \in DOMAIN old
      BY <1>3, <3>1, <3>2 DEF ValueIs
    <3>3. CASE n \notin DOMAIN old
      <4>1. HasFirst(tree[n], d, n)
        BY <1>3, <3>1, <3>3 DEF ValueIs
      <4>2. PICK i \in 1..Len(d) : /\ d[i].words[1] = n /\ tree[n] = ValuesOf(d[i].words)
                                   /\ \A j \in 1..Len(d) : j < i => d[j].words[1] # n
        BY <4>1 DEF HasFirst
      <4>3. i \in 1..Len(e) /\ e[i] = d[i]
        BY LongerHas
      <4>4. ASSUME NEW j \in 1..Len(e), j < i PROVE e[j].words[1] # n
        <5>1. j \in 1..Len(d) /\ e[j] = d[j]
          BY <4>4, LongerHas
        <5>2. QED BY <4>2, <4>4, <5>1
      <4>5. HasFirst(tree[n], e, n)
        BY <4>2, <4>3, <4>4 DEF HasFirst
      <4>6. QED BY <1>3, <3>3, <4>5 DEF ValueIs
    <3>4. QED BY <3>2, <3>3
  <2> HIDE DEF new
  <2>3. TreeIs(tree, e, old, allow)
    BY <2>1, <2>2 DEF TreeIs
  <2>4. QED BY <1>3, <2>3 DEF new
<1>4. CASE ~(name \in DOMAIN tree /\ ~allow)
  <2>0. new = [n \in DOMAIN tree \cup {name} |-> IF n = name THEN ValuesOf(x.words) ELSE tree[n]]
    BY DEF Define
  <2>1. /\ \A n : n \in DOMAIN new <=> n \in DOMAIN tree \/ n = name
        /\ new[name] = ValuesOf(x.words)
        /\ \A n \in DOMAIN tree : n # name => new[n] = tree[n]
    BY <2>0
  <2> HIDE DEF new
  <2>2. ASSUME NEW n PROVE n \in DOMAIN new <=> n \in DOMAIN old \/ Named(e, n)
    BY <1>1, <1>2, <2>1
  <2>3. ValueIs(new[name], e, old, allow, name)
    <3> DEFINE m == Len(e)
    <3>1. /\ m \in 1..m /\ e[m] = x /\ m \in Nat
          /\ \A k \in 1..Len(d) : e[k] = d[k] /\ k < m
          /\ \A k \in 1..m : k = m \/ k \in 1..Len(d)
      BY LongerHas
    <3>2. m \in 1..Len(e) /\ e[m].words[1] = name /\ new[name] = ValuesOf(e[m].words)
      BY <2>1, <3>1
    <3>3. CASE allow
      <4>1. \A j \in 1..Len(e) : j > m => e[j].words[1] # name
        BY <3>1
      <4>2. HasLast(new[name], e, name)
        BY <3>2, <4>1 DEF HasLast
      <4>3. QED BY <3>3, <4>2 DEF ValueIs
    <3>4. CASE ~allow
      <4>1. name \notin DOMAIN old /\ ~Named(d, name)
        BY <1>1, <1>4, <3>4
      <4>2. ASSUME NEW j \in 1..Len(e), j < m PROVE e[j].words[1] # name
        <5>1. j \in 1..Len(d) /\ e[j] = d[j]
          BY <3>1, <4>2
        <5>2. QED BY <4>1, <5>1 DEF Named
      <4>3. HasFirst(new[name], e, name)
        BY <3>2, <4>2 DEF HasFirst
      <4>4. QED BY <3>4, <4>1, <4>3 DEF ValueIs
    <3>5. QED BY <3>3, <3>4
  <2>4. ASSUME NEW n \in DOMAIN tree, n # name PROVE ValueIs(tree[n], e, old, allow, n)
    <3>1. ValueIs(tree[n], d, old, allow, n)
      BY <1>1
    <3>2. CASE allow
      <4>1. CASE HasLast(tree[n], d, n)
        <5>1. PICK i \in 1..Len(d) : /\ d[i].words[1] = n /\ tree[n] = ValuesOf(d[i].words)
                                     /\ \A j \in 1..Len(d) : j > i => d[j].words[1] # n
          BY <4>1 DEF HasLast
        <5>2. i \in 1..Len(e) /\ e[i] = d[i]
          BY LongerHas
        <5>3. ASSUME NEW j \in 1..Len(e), j > i PROVE e[j].words[1] # n
          <6>1. CASE j = Len(e)
            BY <2>4, <6>1, LongerHas
          <6>2. CASE j # Len(e)
            <7>1. j \in 1..Len(d) /\ e[j] = d[j]
              BY <5>3, <6>2, LongerHas
            <7>2. QED BY <5>1, <5>3, <7>1
          <6>3. QED BY <6>1, <6>2
        <5>4. HasLast(tree[n], e, n)
          BY <5>1, <5>2, <5>3 DEF HasLast
        <5>5. QED BY <3>2, <5>4 DEF ValueIs
      <4>2. CASE ~HasLast(tree[n], d, n)
        <5>1. tree[n] = old[n] /\ ~Named(d, n)
          BY <3>1, <3>2, <4>2 DEF ValueIs, Named
        <5>2. ~Named(e, n)
          BY <1>2, <2>4, <5>1
        <5>3. QED BY <3>2, <5>1, <5>2 DEF ValueIs, Named
      <4>3. QED BY <4>1, <4>2
    <3>3. CASE ~allow
      <4>1. CASE n \in DOMAIN old
        BY <3>1, <3>3, <4>1 DEF ValueIs
      <4>2. CASE n \notin DOMAIN old
        <5>1. HasFirst(tree[n], d, n)
          BY <3>1, <3>3, <4>2 DEF ValueIs
        <5>2. PICK i \in 1..Len(d) : /\ d[i].words[1] = n /\ tree[n] = ValuesOf(d[i].words)
                                     /\ \A j \in 1..Len(d) : j < i => d[j].words[1] # n
          BY <5>1 DEF HasFirst
        <5>3. i \in 1..Len(e) /\ e[i] = d[i]
          BY LongerHas
        <5>4. ASSUME NEW j \in 1..Len(e), j < i PROVE e[j].words[1] # n
          <6>1. j \in 1..Len(d) /\ e[j] = d[j]
            BY <5>4, LongerHas
          <6>2. QED BY <5>2, <5>4, <6>1
        <5>5. HasFirst(tree[n], e, n)
          BY <5>2, <5>3, <5>4 DEF HasFirst
        <5>6. QED BY <3>3, <4>2, <5>5 DEF ValueIs
      <4>3. QED BY <4>1, <4>2
    <3>4. QED BY <3>2, <3>3
  <2>5. ASSUME NEW n \in DOMAIN new PROVE ValueIs(new[n], e, old, allow, n)
    <3>1. CASE n = name
      BY <2>3, <3>1
    <3>2. CASE n # name
      <4>1. n \in DOMAIN tree /\ new[n] = tree[n]
        BY <2>1, <2>5, <3>2
      <4>2. QED BY <2>4, <3>2, <4>1
    <3>3. QED BY <3>1, <3>2
  <2>6. TreeIs(new, e, old, allow)
    BY <2>2, <2>5 DEF TreeIs
  <2>7. QED BY <1>4, <2>6 DEF new
<1>5. QED BY <1>3, <1>4

LEMMA BadGrows ==
  ASSUME NEW d, NEW e, NEW x, Longer(d, e, x), NEW old, NEW allow \in BOOLEAN,
         NEW tree, TreeIs(tree, d, old, allow), NEW bad, BadIs(bad, d, old, allow),
         x.words[1] # NoName
  PROVE  BadIs(IF x.words[1] \in DOMAIN tree /\ ~allow THEN Remember(bad, x.words[1]) ELSE bad,
               e, old, allow)
<1> DEFINE name == x.words[1]
           m == Len(e)
<1>1. name \in DOMAIN tree <=> Again(e, old, m)
  <2>1. name \in DOMAIN tree <=> name \in DOMAIN old \/ \E i \in 1..Len(d) : d[i].words[1] = name
    BY DEF TreeIs, Named
  <2>2. QED BY <2>1, AgainLast
<1>2. \A i \in 1..Len(d) : Again(e, old, i) <=> Again(d, old, i)
  BY AgainStays
<1>3. /\ m \in 1..m /\ e[m] = x /\ m \in Nat /\ Len(d) \in Nat /\ m = Len(d) + 1
      /\ \A k \in 1..Len(d) : e[k] = d[k] /\ k < m /\ k \in 1..m
      /\ \A k \in 1..m : k = m \/ k \in 1..Len(d)
  BY LongerHas
<1>4. CASE allow
  <2>1. bad = NoName
    BY <1>4 DEF BadIs
  <2>2. QED BY <1>4, <2>1 DEF BadIs
<1>5. CASE ~allow /\ \E i \in 1..Len(d) : /\ Again(d, old, i) /\ \A j \in 1..(i - 1) : ~Again(d, old, j)
                                          /\ bad = d[i].words[1] /\ bad # NoName
  <2>1. PICK i \in 1..Len(d) : /\ Again(d, old, i) /\ \A j \in 1..(i - 1) : ~Again(d, old, j)
                               /\ bad = d[i].words[1] /\ bad # NoName
    BY <1>5
  <2>2. i \in 1..m /\ Again(e, old, i) /\ bad = e[i].words[1]
    BY <1>2, <1>3, <2>1
  <2>3. ASSUME NEW j \in 1..(i - 1) PROVE ~Again(e, old, j)
    <3>1. j \in 1..Len(d)
      BY <1>3
    <3>2. QED BY <1>2, <2>1, <3>1
  <2>4. BadIs(bad, e, old, allow)
    BY <1>5, <2>1, <2>2, <2>3 DEF BadIs
  <2>5. Remember(bad, name) = bad
    BY <2>1 DEF Remember
  <2>6. QED BY <2>4, <2>5
<1>6. CASE ~allow /\ bad = NoName /\ \A i \in 1..Len(d) : ~Again(d, old, i)
  <2>1. \A i \in 1..Len(d) : ~Again(e, old, i)
    BY <1>2, <1>6
  <2>2. CASE name \in DOMAIN tree
    <3>1. Again(e, old, m)
      BY <1>1, <2>2
    <3>2. \A j \in 1..(m - 1) : ~Again(e, old, j)
      <4>1. m - 1 = Len(d)
        BY <1>3
      <4>2. QED BY <2>1, <4>1
    <3>3. Remember(bad, name) = name
      BY <1>6 DEF Remember
    <3>4. BadIs(name, e, old, allow)
      BY <1>3, <1>6, <3>1, <3>2 DEF BadIs
    <3>5. QED BY <1>6, <2>2, <3>3, <3>4
  <2>3. CASE name \notin DOMAIN tree
    <3>1. ~Again(e, old, m)
      BY <1>1, <2>3
    <3>2. \A i \in 1..m : ~Again(e, old, i)
      BY <1>3, <2>1, <3>1
    <3>3. BadIs(bad, e, old, allow)
      BY <1>6, <3>2 DEF BadIs
    <3>4. QED BY <2>3, <3>3
  <2>4. QED BY <2>2, <2>3
<1>7. QED BY <1>4, <1>5, <1>6 DEF BadIs

LEMMA ReadAsConfig ==
  ASSUME ReadAs(Definitions(asked.section), IF asked.destroy THEN <<>> ELSE asked.before)
  PROVE  ConfigIsRead
  BY DEF ConfigIsRead

LEMMA DescribesConfig ==
  ASSUME NEW d, NEW old, Len(d) \in Nat, asked.allow \in BOOLEAN,
         TreeIs(cfg.tree, d, old, asked.allow), BadIs(cfg.bad, d, old, asked.allow)
  PROVE  ReadAs(d, old)
<1> DEFINE allow == asked.allow
           Defs(n) == {i \in 1..Len(d): d[i].words[1] = n}
           New(n) == {i \in Defs(n): IF allow THEN \A j \in Defs(n): j <= i
                                     ELSE n \notin DOMAIN old /\ \A j \in Defs(n): i <= j}
           Anew(i) == \/ d[i].words[1] \in DOMAIN old
                      \/ \E j \in 1..(i - 1): d[j].words[1] = d[i].words[1]
<1>1. DOMAIN cfg.tree = DOMAIN old \cup {d[i].words[1]: i \in 1..Len(d)}
  <2>1. \A n : n \in DOMAIN cfg.tree <=> n \in DOMAIN old \/ \E i \in 1..Len(d) : d[i].words[1] = n
    BY DEF TreeIs, Named
  <2>2. QED BY <2>1
<1>2. ASSUME NEW n \in DOMAIN cfg.tree
      PROVE  cfg.tree[n] = (IF New(n) = {} THEN old[n]
                            ELSE ValuesOf(d[CHOOSE i \in New(n): TRUE].words))
  <2> DEFINE v == cfg.tree[n]
  <2>0. ValueIs(v, d, old, allow, n)
    BY DEF TreeIs
  <2> HIDE DEF v
  <2>1. ASSUME NEW i \in 1..Len(d), New(n) = {i}, v = ValuesOf(d[i].words)
        PROVE  v = (IF New(n) = {} THEN old[n] ELSE ValuesOf(d[CHOOSE k \in New(n): TRUE].words))
    <3> DEFINE S == New(n)
    <3>1. S = {i}
      BY <2>1
    <3> HIDE DEF S
    <3>2. S # {} /\ (CHOOSE k \in S : TRUE) = i
      BY <3>1
    <3> DEFINE c == CHOOSE k \in S : TRUE
    <3>2a. S # {} /\ c = i
      BY <3>2
    <3> HIDE DEF c
    <3>2b. ValuesOf(d[c].words) = v
      BY <2>1, <3>2a
    <3>3. v = (IF S = {} THEN old[n] ELSE ValuesOf(d[c].words))
      BY <3>2a, <3>2b
    <3>4. QED BY <3>3 DEF S, c
  <2>2. CASE allow
    <3>1. CASE HasLast(v, d, n)
      <4>1. PICK i \in 1..Len(d) : /\ d[i].words[1] = n /\ v = ValuesOf(d[i].words)
                                   /\ \A j \in 1..Len(d) : j > i => d[j].words[1] # n
        BY <3>1 DEF HasLast
      <4>2. i \in Defs(n) /\ \A j \in Defs(n) : j <= i
        BY <4>1
      <4>3. \A k \in Defs(n) : (\A j \in Defs(n) : j <= k) => k = i
        BY <4>2
      <4>4. New(n) = {i}
        BY <2>2, <4>2, <4>3
      <4>5. QED BY <2>1, <4>1, <4>4 DEF v
    <3>2. CASE ~HasLast(v, d, n)
      <4>1. v = old[n] /\ \A i \in 1..Len(d) : d[i].words[1] # n
        BY <2>0, <2>2, <3>2 DEF ValueIs
      <4>2. New(n) = {}
        BY <4>1
      <4>3. QED BY <4>1, <4>2 DEF v
    <3>3. QED BY <3>1, <3>2
  <2>3. CASE ~allow /\ n \in DOMAIN old
    <3>1. v = old[n]
      BY <2>0, <2>3 DEF ValueIs
    <3>2. New(n) = {}
      BY <2>3
    <3>3. QED BY <3>1, <3>2 DEF v
  <2>4. CASE ~allow /\ n \notin DOMAIN old
    <3>1. HasFirst(v, d, n)
      BY <2>0, <2>4 DEF ValueIs
    <3>2. PICK i \in 1..Len(d) : /\ d[i].words[1] = n /\ v = ValuesOf(d[i].words)
                                 /\ \A j \in 1..Len(d) : j < i => d[j].words[1] # n
      BY <3>1 DEF HasFirst
    <3>3. i \in Defs(n) /\ \A j \in Defs(n) : i <= j
      BY <3>2
    <3>4. \A k \in Defs(n) : (\A j \in Defs(n) : k <= j) => k = i
      BY <3>3
    <3>5. New(n) = {i}
      BY <2>4, <3>3, <3>4
    <3>6. QED BY <2>1, <3>2, <3>5 DEF v
  <2>5. QED BY <2>2, <2>3, <2>4
<1>3. \A i : Anew(i) <=> Again(d, old, i)
  BY DEF Again
<1>4. cfg.bad = (IF allow \/ \A i \in 1..Len(d): ~Anew(i) THEN NoName
                 ELSE d[CHOOSE i \in 1..Len(d): Anew(i) /\ \A j \in 1..(i - 1): ~Anew(j)].words[1])
  <2> DEFINE Foremost(i) == Anew(i) /\ \A j \in 1..(i - 1): ~Anew(j)
  <2>1. CASE cfg.bad = NoName /\ (allow \/ \A i \in 1..Len(d) : ~Again(d, old, i))
    <3> HIDE DEF Anew, allow
    <3>1. allow \/ \A i \in 1..Len(d): ~Anew(i)
      BY <1>3, <2>1
    <3>2. QED BY <2>1, <3>1
  <2>2. CASE /\ ~allow
             /\ \E i \in 1..Len(d) : /\ Again(d, old, i) /\ \A j \in 1..(i - 1) : ~Again(d, old, j)
                                     /\ cfg.bad = d[i].words[1] /\ cfg.bad # NoName
    <3>1. PICK i \in 1..Len(d) : /\ Again(d, old, i) /\ \A j \in 1..(i - 1) : ~Again(d, old, j)
                                 /\ cfg.bad = d[i].words[1] /\ cfg.bad # NoName
      BY <2>2
    <3> HIDE DEF Anew
    <3>2. Foremost(i) /\ Anew(i)
      BY <1>3, <3>1
    <3>3. \A k \in 1..Len(d) : Foremost(k) => k = i
      BY <1>3, <3>1, <3>2
    <3> HIDE DEF Foremost
    <3>4. (CHOOSE k \in 1..Len(d) : Foremost(k)) = i
      BY <3>2, <3>3
    <3>5. ~(allow \/ \A k \in 1..Len(d): ~Anew(k))
      BY <2>2, <3>2
    <3>6. cfg.bad = (IF allow \/ \A k \in 1..Len(d): ~Anew(k) THEN NoName
                     ELSE d[CHOOSE k \in 1..Len(d) : Foremost(k)].words[1])
      <4> HIDE DEF allow
      <4>1. QED BY <3>1, <3>4, <3>5
    <3>7. QED BY <3>6 DEF Foremost
  <2>3. QED BY <2>1, <2>2 DEF BadIs
<1>5. QED BY <1>1, <1>2, <1>4, Zenon DEF ReadAs

\* The lines depend on the file alone, which is not written.
FirstIn(fl, i) ==
  LET kept == {k \in i..Len(fl):
                 ~(IF fl[k].words = <<>> THEN ~fl[k].cont ELSE Head(fl[k].words) = Comment)}
  IN IF kept = {} THEN Len(fl) + 1 ELSE CHOOSE k \in kept: \A j \in kept: k <= j
JoinedIn(fl) ==
  LET join[k \in 1..(Len(fl) + 1)] ==
          IF k > Len(fl) THEN [words |-> <<>>, next |-> k]
          ELSE IF fl[k].cont
          THEN [words |-> fl[k].words \o join[k + 1].words, next |-> join[k + 1].next]
          ELSE [words |-> fl[k].words, next |-> k + 1]
  IN join
LineIn(fl, i) ==
  LET first == FirstIn(fl, i) IN
  [indent |-> fl[first].indent, words |-> JoinedIn(fl)[first].words,
   next |-> JoinedIn(fl)[first].next]
LinesIn(fl) ==
  CHOOSE rest : rest = [i \in 1..(Len(fl) + 1) |->
                          IF FirstIn(fl, i) > Len(fl) THEN <<>>
                          ELSE <<LineIn(fl, i)>> \o rest[LineIn(fl, i).next]]

LEMMA LinesStay == file' = file => LinesFrom' = LinesFrom
<1>1. LinesFrom = LinesIn(file)
  BY Zenon DEF LinesFrom, LinesIn, AtEnd, OneLine, LineIn, FirstFrom, FirstIn, Joined, JoinedIn, IsSkipped
<1>2. LinesFrom' = LinesIn(file')
  BY Zenon DEF LinesFrom, LinesIn, AtEnd, OneLine, LineIn, FirstFrom, FirstIn, Joined, JoinedIn, IsSkipped
<1>3. QED BY <1>1, <1>2

LEMMA ValuesAreWords ==
  ASSUME NEW s \in Seq(Words), s # <<>>
  PROVE  ValuesOf(s) \in Seq(Words)
<1> DEFINE comments == {k \in 2..Len(s): s[k] = Comment}
           end == IF comments = {} THEN Len(s)
                  ELSE (CHOOSE k \in comments: \A j \in comments: k <= j) - 1
<1>0. Len(s) \in Nat /\ Len(s) >= 1
  <2>1. Len(s) \in Nat /\ Len(s) # 0
    OBVIOUS
  <2>2. QED BY <2>1
<1>1. end \in 1..Len(s)
  <2>1. CASE comments = {}
    <3>1. end = Len(s)
      BY <2>1
    <3> HIDE DEF end
    <3>2. QED BY <1>0, <3>1
  <2>2. CASE comments # {}
    <3> DEFINE c == CHOOSE k \in comments: \A j \in comments: k <= j
    <3>1. end = c - 1
      BY <2>2
    <3>2. comments \subseteq Nat /\ comments \subseteq 2..Len(s)
      BY <1>0
    <3> HIDE DEF comments, end
    <3>3. \E k \in comments : \A j \in comments : k <= j
      BY <2>2, <3>2, FirstNumber
    <3>4. c \in comments
      BY <3>3
    <3> HIDE DEF c
    <3>5. c \in 2..Len(s)
      BY <3>2, <3>4
    <3>6. QED BY <1>0, <3>1, <3>5
  <2>3. QED BY <2>1, <2>2
<1>2. ValuesOf(s) = SubSeq(s, 2, end)
  BY DEF ValuesOf
<1> HIDE DEF end
<1>3. 1 <= 2 /\ \A k \in 2..end : k \in 1..Len(s)
  BY <1>0, <1>1
<1>4. SubSeq(s, 2, end) \in Seq(Words)
  BY <1>0, <1>1, <1>3, SubSeqProperties
<1>5. QED BY <1>2, <1>4

\* What has been read of the section that was asked for: j definitions from line f.
OldTree(a) == IF a.destroy THEN <<>> ELSE a.before

MadeOf(S, tree, bad, a, f, j) ==
  LET d == [k \in 1..j |-> S[1][f + k]]
  IN TreeIs(tree, d, OldTree(a), a.allow) /\ BadIs(bad, d, OldTree(a), a.allow)

InSection(S, a, f, j) ==
  /\ f \in 1..Len(S[1]) /\ j \in Nat /\ Len(S[1]) \in Nat /\ f + j <= Len(S[1])
  /\ Opens(S[1][f], a.section) /\ \A k \in 1..(f - 1) : ~Opens(S[1][k], a.section)
  /\ \A k \in 1..j : S[1][f + k].indent

ReadTo(S, N, m, tree, bad, a, f, j) ==
  /\ InSection(S, a, f, j) /\ MadeOf(S, tree, bad, a, f, j)
  /\ m \in 1..(N + 1) /\ Len(S[m]) \in Nat /\ Len(S[1]) = Len(S[m]) + (f + j)
  /\ \A k \in 1..Len(S[m]) : S[1][k + (f + j)] = S[m][k]

ReadAll(S, tree, bad, a, f, j) ==
  /\ InSection(S, a, f, j) /\ MadeOf(S, tree, bad, a, f, j)
  /\ f + j = Len(S[1]) \/ ~S[1][f + j + 1].indent

\* The inductive invariant of the configuration.
CfgTyped ==
  /\ FileRead
  /\ cfg = [loaded |-> cfg.loaded, tree |-> cfg.tree, at |-> cfg.at, bad |-> cfg.bad, rc |-> cfg.rc]
  /\ values = [param |-> values.param, shown |-> values.shown, over |-> values.over]
  /\ asked.allow \in BOOLEAN
  /\ reading.line \in Nat
  /\ DOMAIN cfg.at = DOMAIN cfg.tree
  /\ \A n \in DOMAIN cfg.tree : cfg.tree[n] \in Seq(Words) /\ cfg.at[n] \in 0..Len(cfg.tree[n])

CfgReading ==
  ~Idle => /\ values = NoValues
           /\ \E f, j \in Nat : ReadTo(LinesFrom, Len(file), reading.line, cfg.tree, cfg.bad, asked, f, j)

CfgRead ==
  Idle /\ cfg.loaded /\ checked = NoName =>
    \E f, j \in Nat : ReadAll(LinesFrom, cfg.tree, cfg.bad, asked, f, j)

\* A loop shows what is behind the cursor of one list.
ShowsList(tree, at, vals, n) == n \in DOMAIN tree /\ vals = SubSeq(tree[n], 1, at[n])

CfgLoop ==
  ~values.over =>
    /\ Idle /\ cfg.loaded
    /\ IF Prefixed[values.param] \in DOMAIN cfg.tree
       THEN \/ cfg.tree[Prefixed[values.param]] = <<>>
            \/ ShowsList(cfg.tree, cfg.at, values.shown, Prefixed[values.param])
       ELSE ShowsList(cfg.tree, cfg.at, values.shown, values.param)

CfgInv == CfgTyped /\ CfgReading /\ CfgRead /\ CfgLoop /\ ValuesAreShown

LEMMA CfgInvTrue == CfgInv => ConfigIsTrue
<1>1. SUFFICES ASSUME CfgInv PROVE ConfigIsRead
  BY DEF CfgInv, ConfigIsTrue
<1>2. CASE ~(Idle /\ cfg.loaded /\ cfg.rc = "0" /\ checked = NoName)
  BY <1>2 DEF ConfigIsRead
<1>3. CASE Idle /\ cfg.loaded /\ cfg.rc = "0" /\ checked = NoName
  <2>1. FileRead /\ asked.allow \in BOOLEAN
    BY <1>1 DEF CfgInv, CfgTyped
  <2>2. PICK f, j \in Nat : ReadAll(LinesFrom, cfg.tree, cfg.bad, asked, f, j)
    BY <1>1, <1>3 DEF CfgInv, CfgRead
  <2>3. InSection(LinesFrom, asked, f, j) /\ MadeOf(LinesFrom, cfg.tree, cfg.bad, asked, f, j)
    BY <2>2 DEF ReadAll
  <2>4. Definitions(asked.section) = DefsOf(f, j)
    <3>1. /\ f \in 1..Len(LinesFrom[1]) /\ j \in Nat /\ f + j <= Len(LinesFrom[1])
          /\ Opens(LinesFrom[1][f], asked.section)
          /\ \A k \in 1..(f - 1) : ~Opens(LinesFrom[1][k], asked.section)
          /\ \A k \in 1..j : LinesFrom[1][f + k].indent
      BY <2>3 DEF InSection
    <3>2. f + j = Len(LinesFrom[1]) \/ ~LinesFrom[1][f + j + 1].indent
      BY <2>2 DEF ReadAll
    <3>3. QED BY <2>1, <3>1, <3>2, DefinitionsAre
  <2>5. /\ TreeIs(cfg.tree, DefsOf(f, j), OldTree(asked), asked.allow)
        /\ BadIs(cfg.bad, DefsOf(f, j), OldTree(asked), asked.allow)
    BY <2>3 DEF MadeOf, DefsOf
  <2>6. Len(DefsOf(f, j)) \in Nat
    <3>1. f + j <= Len(LinesFrom[1])
      BY <2>3 DEF InSection
    <3>2. Len(DefsOf(f, j)) = j
      BY <2>1, <3>1, DefsOfAre
    <3>3. QED BY <3>2
  <2>7. ReadAs(DefsOf(f, j), OldTree(asked))
    BY <2>1, <2>5, <2>6, DescribesConfig
  <2>8. ReadAs(Definitions(asked.section), IF asked.destroy THEN <<>> ELSE asked.before)
    BY <2>4, <2>7 DEF OldTree
  <2>9. QED BY <2>8, ReadAsConfig
<1>4. QED BY <1>2, <1>3

\* What is shown grows by the next value.
LEMMA ShowsOne ==
  ASSUME NEW t \in Seq(Words), t # <<>>
  PROVE  <<t[1]>> = SubSeq(t, 1, 1) /\ 1 \in 0..Len(t)
<1>1. Len(t) \in Nat /\ Len(t) # 0
  OBVIOUS
<1>2. 1 \in 1..Len(t) /\ 1 \in 1..Len(t) /\ 1 \in 0..Len(t)
  BY <1>1
<1>3. SubSeq(t, 1, 1) = SubSeq(t, 1, 1 - 1) \o <<t[1]>>
  BY <1>2, SubSeqRecursiveSecond
<1>4. SubSeq(t, 1, 1 - 1) = <<>>
  <2>1. 1 - 1 \in Int /\ 1 \in Int /\ 1 - 1 < 1
    OBVIOUS
  <2>2. QED BY <2>1, SubSeqEmpty
<1>5. t[1] \in Words
  BY <1>2
<1>6. <<>> \o <<t[1]>> = <<t[1]>>
  BY <1>5
<1>7. QED BY <1>2, <1>3, <1>4, <1>6

LEMMA ShowsNext ==
  ASSUME NEW t \in Seq(Words), NEW a \in 0..Len(t), a < Len(t)
  PROVE  Append(SubSeq(t, 1, a), t[a + 1]) = SubSeq(t, 1, a + 1) /\ a + 1 \in 0..Len(t)
<1>1. Len(t) \in Nat /\ a \in Nat /\ a + 1 \in 1..Len(t) /\ 1 \in 1..Len(t) /\ (a + 1) - 1 = a
      /\ a + 1 \in 0..Len(t)
  OBVIOUS
<1>2. SubSeq(t, 1, a + 1) = SubSeq(t, 1, (a + 1) - 1) \o <<t[a + 1]>>
  BY <1>1, SubSeqRecursiveSecond
<1>3. SubSeq(t, 1, a) \in Seq(Words) /\ t[a + 1] \in Words
  <2>1. \A i \in 1..a : t[i] \in Words
    BY <1>1
  <2>2. 1 \in Int /\ a \in Int
    BY <1>1
  <2>3. SubSeq(t, 1, a) \in Seq(Words)
    BY <2>1, <2>2, SubSeqProperties
  <2>4. QED BY <1>1, <2>3
<1>4. Append(SubSeq(t, 1, a), t[a + 1]) = SubSeq(t, 1, a) \o <<t[a + 1]>>
  BY <1>3, AppendIsConcat
<1>5. QED BY <1>1, <1>2, <1>4

\* What a step leaves alone.
LEMMA CfgReadsOn ==
  ASSUME CfgTyped, CfgReading, CfgRead, file' = file, cfg'.tree = cfg.tree,
         cfg'.loaded = cfg.loaded, asked' = asked, reading' = reading, Idle,
         checked' = NoName => checked = NoName /\ cfg'.bad = cfg.bad
  PROVE  CfgReading' /\ CfgRead'
<1>1. LinesFrom' = LinesFrom
  BY LinesStay
<1>2. Idle'
  BY DEF Idle
<1>3. CfgReading'
  BY <1>2 DEF CfgReading
<1>4. ASSUME cfg'.loaded, checked' = NoName
      PROVE  \E f, j \in Nat : ReadAll(LinesFrom', cfg'.tree, cfg'.bad, asked', f, j)
  <2>1. PICK f, j \in Nat : ReadAll(LinesFrom, cfg.tree, cfg.bad, asked, f, j)
    BY <1>4 DEF CfgRead
  <2>2. ReadAll(LinesFrom', cfg'.tree, cfg'.bad, asked', f, j)
    <3>1. cfg'.bad = cfg.bad
      BY <1>4
    <3>2. QED BY <1>1, <2>1, <3>1
  <2>3. QED BY <2>2
<1>5. CfgRead'
  BY <1>4 DEF CfgRead
<1>6. QED BY <1>3, <1>5

LEMMA CfgOpens ==
  ASSUME CfgInv, NEW section, NEW allow \in BOOLEAN, NEW destroy \in BOOLEAN,
         OpenConfig(section, allow, destroy)
  PROVE  CfgInv'
<1> USE DEF CfgInv
<1>0. CfgTyped
  OBVIOUS
<1>1. /\ Idle /\ file' = file /\ values' = NoValues /\ checked' = checked
      /\ asked' = [opens |-> asked.opens + 1, section |-> section, allow |-> allow,
                   destroy |-> destroy, before |-> cfg.tree]
  BY DEF OpenConfig
<1>2. LinesFrom' = LinesFrom
  BY <1>1, LinesStay
<1>3. values' = [param |-> values'.param, shown |-> values'.shown, over |-> values'.over]
      /\ values'.over /\ values'.param = NoName
  BY <1>1 DEF NoValues
<1>4. CfgLoop' /\ ValuesAreShown'
  BY <1>3 DEF CfgLoop, ValuesAreShown
<1>5. FileRead' /\ asked'.allow \in BOOLEAN
  BY <1>0, <1>1 DEF FileRead, CfgTyped
<1>6. ASSUME NEW b, NEW r, cfg' = [cfg EXCEPT !.loaded = FALSE, !.bad = b, !.rc = r],
             reading' = reading
      PROVE  CfgInv'
  <2>1. cfg' = [loaded |-> FALSE, tree |-> cfg.tree, at |-> cfg.at, bad |-> b, rc |-> r]
    BY <1>0, <1>6 DEF CfgTyped
  <2>2. /\ cfg' = [loaded |-> cfg'.loaded, tree |-> cfg'.tree, at |-> cfg'.at, bad |-> cfg'.bad, rc |-> cfg'.rc]
        /\ ~cfg'.loaded /\ cfg'.tree = cfg.tree /\ cfg'.at = cfg.at
    BY <2>1
  <2>3. CfgTyped'
    BY <1>0, <1>3, <1>5, <1>6, <2>2 DEF CfgTyped
  <2>4. Idle'
    BY <1>1, <1>6 DEF Idle
  <2>5. QED BY <1>4, <2>2, <2>3, <2>4 DEF CfgReading, CfgRead
<1>7. ASSUME SectionEnd(section) # 0,
             cfg' = [cfg EXCEPT !.loaded = TRUE, !.bad = NoName, !.rc = "0",
                                !.tree = IF destroy THEN <<>> ELSE @,
                                !.at = IF destroy THEN <<>> ELSE @],
             reading' = [line |-> SectionEnd(section)]
      PROVE  CfgInv'
  <2> DEFINE t == IF destroy THEN <<>> ELSE cfg.tree
             a == IF destroy THEN <<>> ELSE cfg.at
             e == SectionEnd(section)
             S == LinesFrom
  <2>1. cfg' = [loaded |-> TRUE, tree |-> t, at |-> a, bad |-> NoName, rc |-> "0"]
    BY <1>0, <1>7 DEF CfgTyped
  <2>2. DOMAIN a = DOMAIN t /\ \A n \in DOMAIN t : t[n] \in Seq(Words) /\ a[n] \in 0..Len(t[n])
    BY <1>0 DEF CfgTyped
  <2>3. OldTree(asked') = t
    BY <1>1 DEF OldTree
  <2> HIDE DEF t, a
  <2>4. /\ cfg' = [loaded |-> cfg'.loaded, tree |-> cfg'.tree, at |-> cfg'.at, bad |-> cfg'.bad, rc |-> cfg'.rc]
        /\ cfg'.loaded /\ cfg'.tree = t /\ cfg'.at = a /\ cfg'.bad = NoName
    BY <2>1
  <2>5. Found(section, 1, e)
    BY <1>0, SectionFound DEF CfgTyped
  <2> HIDE DEF e
  <2>6. PICK f \in 1..Len(S[1]) :
          /\ Opens(S[1][f], section)
          /\ \A k \in 1..(f - 1) : ~Opens(S[1][k], section)
          /\ LinesAfter(1, e, f)
    BY <1>7, <2>5 DEF Found, e
  <2>7. /\ e \in 1..(Len(file) + 1) /\ f \in Nat /\ Len(S[1]) \in Nat /\ Len(S[e]) \in Nat
        /\ Len(S[1]) = Len(S[e]) + f /\ \A k \in 1..Len(S[e]) : S[1][k + f] = S[e][k]
    BY <2>6 DEF LinesAfter
  <2> HIDE DEF S
  <2>8. InSection(S, asked', f, 0)
    <3>1. asked'.section = section
      BY <1>1
    <3>2. f + 0 <= Len(S[1]) /\ \A k \in 1..0 : FALSE
      BY <2>6, <2>7
    <3>3. QED BY <2>6, <2>7, <3>1, <3>2 DEF InSection
  <2>9. MadeOf(S, t, NoName, asked', f, 0)
    <3> DEFINE d == [k \in 1..0 |-> S[1][f + k]]
    <3>1. Len(d) = 0
      OBVIOUS
    <3> HIDE DEF d
    <3>2. \A i \in 1..Len(d) : FALSE
      BY <3>1
    <3>3. TreeIs(t, d, t, asked'.allow)
      BY <1>5, <3>2 DEF TreeIs, ValueIs, Named
    <3>4. BadIs(NoName, d, t, asked'.allow)
      BY <3>2 DEF BadIs
    <3>5. QED BY <2>3, <3>3, <3>4 DEF MadeOf, d
  <2>10. ReadTo(S, Len(file), e, t, NoName, asked', f, 0)
    <3>1. f + 0 = f
      BY <2>7
    <3>2. Len(S[1]) = Len(S[e]) + (f + 0) /\ \A k \in 1..Len(S[e]) : S[1][k + (f + 0)] = S[e][k]
      BY <2>7, <3>1
    <3>3. QED BY <2>7, <2>8, <2>9, <3>2 DEF ReadTo
  <2>11. reading'.line = e /\ e \in Nat /\ e # 0
    BY <1>7, <2>7 DEF e
  <2>12. ~Idle'
    BY <2>11 DEF Idle
  <2>13. \E g, j \in Nat : ReadTo(LinesFrom', Len(file'), reading'.line, cfg'.tree, cfg'.bad, asked', g, j)
    <3>1. ReadTo(LinesFrom', Len(file'), reading'.line, cfg'.tree, cfg'.bad, asked', f, 0)
      BY <1>1, <1>2, <2>4, <2>10, <2>11 DEF S
    <3>2. QED BY <2>7, <3>1
  <2>14. CfgReading' /\ CfgRead'
    BY <1>1, <2>12, <2>13 DEF CfgReading, CfgRead
  <2>15. CfgTyped'
    BY <1>3, <1>5, <2>2, <2>4, <2>11 DEF CfgTyped
  <2>16. QED BY <1>4, <2>14, <2>15
<1>8. QED BY <1>6, <1>7 DEF OpenConfig

LEMMA CfgReadsParam == ASSUME CfgInv, ReadParam PROVE CfgInv'
<1> USE DEF CfgInv
<1> DEFINE m == reading.line
           x == OneLine(m)
           name == Head(x.words)
           vals == ValuesOf(x.words)
           drop == name \in DOMAIN cfg.tree /\ ~asked.allow
           t == IF drop THEN cfg.tree ELSE Define(cfg.tree, name, vals)
           a == IF drop THEN cfg.at ELSE Define(cfg.at, name, 0)
           b == IF drop THEN Remember(cfg.bad, name) ELSE cfg.bad
           S == LinesFrom
<1>0. CfgTyped /\ FileRead
  BY DEF CfgTyped
<1>1. /\ ~Idle /\ IsParam(m) /\ file' = file /\ asked' = asked /\ values' = values
      /\ cfg' = Insert(name, vals) /\ reading' = [line |-> x.next]
  BY DEF ReadParam
<1>2. ~AtEnd(m) /\ x.indent
  BY <1>1 DEF IsParam
<1>3. values = NoValues
  BY <1>1 DEF CfgReading
<1>4. PICK f, j \in Nat : ReadTo(S, Len(file), m, cfg.tree, cfg.bad, asked, f, j)
  BY <1>1 DEF CfgReading
<1>5. InSection(S, asked, f, j) /\ MadeOf(S, cfg.tree, cfg.bad, asked, f, j)
  BY <1>4 DEF ReadTo
<1>6. LinesAfter(1, m, f + j)
  <2>1. /\ m \in 1..(Len(file) + 1) /\ Len(S[m]) \in Nat /\ Len(S[1]) = Len(S[m]) + (f + j)
        /\ \A k \in 1..Len(S[m]) : S[1][k + (f + j)] = S[m][k]
    BY <1>4 DEF ReadTo
  <2>2. Len(S[1]) \in Nat
    BY <1>5 DEF InSection
  <2>3. f + j \in Nat
    OBVIOUS
  <2> HIDE DEF m
  <2>4. QED BY <2>1, <2>2, <2>3 DEF LinesAfter
<1>7. /\ LineTrue(x, m) /\ f + j + 1 \in 1..Len(S[1]) /\ S[1][f + j + 1] = x
      /\ LinesAfter(1, x.next, f + j + 1)
  <2>1. 1 \in 1..(Len(file) + 1)
    BY <1>0 DEF FileRead
  <2>2. QED BY <1>0, <1>2, <1>6, <2>1, AfterNext
<1>8. /\ x \in LogicalLine /\ x.words # <<>> /\ NoName \notin ToSet(x.words)
  BY <1>7 DEF LineTrue
<1>9. name = x.words[1] /\ name # NoName /\ vals \in Seq(Words)
  <2>1. x.words \in Seq(Words)
    BY <1>8 DEF LogicalLine
  <2> DEFINE ws == x.words
  <2> HIDE DEF x
  <2>2. ws \in Seq(Words) /\ ws # <<>> /\ NoName \notin ToSet(ws)
    BY <1>8, <2>1
  <2> HIDE DEF ws
  <2>3. Len(ws) \in Nat /\ Len(ws) # 0 /\ Head(ws) = ws[1]
    BY <2>2
  <2>4. 1 \in 1..Len(ws)
    BY <2>3
  <2>5. ws[1] # NoName
    BY <2>2, <2>4 DEF ToSet
  <2>6. ValuesOf(ws) \in Seq(Words)
    BY <2>2, ValuesAreWords
  <2>7. QED BY <2>3, <2>5, <2>6 DEF ws
<1> HIDE DEF x, S, m
<1>10. LinesFrom' = S
  BY <1>1, LinesStay DEF S
<1>11. /\ cfg' = [loaded |-> cfg'.loaded, tree |-> cfg'.tree, at |-> cfg'.at, bad |-> cfg'.bad, rc |-> cfg'.rc]
       /\ cfg'.tree = t /\ cfg'.at = a /\ cfg'.bad = b
  <2> HIDE DEF name, vals
  <2>0. cfg = [loaded |-> cfg.loaded, tree |-> cfg.tree, at |-> cfg.at, bad |-> cfg.bad, rc |-> cfg.rc]
    BY <1>0 DEF CfgTyped
  <2>1. CASE drop
    <3>1. cfg' = [cfg EXCEPT !.bad = Remember(@, name), !.rc = "DUPLICATED"]
      BY <1>1, <2>1 DEF Insert
    <3>2. cfg' = [loaded |-> cfg.loaded, tree |-> cfg.tree, at |-> cfg.at,
                  bad |-> Remember(cfg.bad, name), rc |-> "DUPLICATED"]
      BY <2>0, <3>1
    <3>3. cfg'.tree = cfg.tree /\ cfg'.at = cfg.at /\ cfg'.bad = Remember(cfg.bad, name)
          /\ cfg' = [loaded |-> cfg'.loaded, tree |-> cfg'.tree, at |-> cfg'.at, bad |-> cfg'.bad, rc |-> cfg'.rc]
      BY <3>2
    <3>4. QED BY <2>1, <3>3
  <2>2. CASE ~drop
    <3>1. cfg' = [cfg EXCEPT !.tree = Define(@, name, vals), !.at = Define(@, name, 0), !.rc = "0"]
      BY <1>1, <2>2 DEF Insert
    <3>2. cfg' = [loaded |-> cfg.loaded, tree |-> Define(cfg.tree, name, vals),
                  at |-> Define(cfg.at, name, 0), bad |-> cfg.bad, rc |-> "0"]
      BY <2>0, <3>1
    <3>3. cfg'.tree = Define(cfg.tree, name, vals) /\ cfg'.at = Define(cfg.at, name, 0) /\ cfg'.bad = cfg.bad
          /\ cfg' = [loaded |-> cfg'.loaded, tree |-> cfg'.tree, at |-> cfg'.at, bad |-> cfg'.bad, rc |-> cfg'.rc]
      BY <3>2
    <3>4. QED BY <2>2, <3>3
  <2>3. QED BY <2>1, <2>2
<1>12. DOMAIN a = DOMAIN t /\ \A n \in DOMAIN t : t[n] \in Seq(Words) /\ a[n] \in 0..Len(t[n])
  <2>0. DOMAIN cfg.at = DOMAIN cfg.tree
        /\ \A n \in DOMAIN cfg.tree : cfg.tree[n] \in Seq(Words) /\ cfg.at[n] \in 0..Len(cfg.tree[n])
    BY <1>0 DEF CfgTyped
  <2> HIDE DEF name, vals
  <2>1. CASE drop
    BY <2>0, <2>1
  <2>2. CASE ~drop
    <3>1. /\ t = [n \in DOMAIN cfg.tree \cup {name} |-> IF n = name THEN vals ELSE cfg.tree[n]]
          /\ a = [n \in DOMAIN cfg.at \cup {name} |-> IF n = name THEN 0 ELSE cfg.at[n]]
      BY <2>2 DEF Define
    <3> HIDE DEF t, a
    <3>2. /\ DOMAIN a = DOMAIN t /\ t[name] = vals /\ a[name] = 0
          /\ \A n \in DOMAIN t : n = name \/ (n \in DOMAIN cfg.tree /\ t[n] = cfg.tree[n] /\ a[n] = cfg.at[n])
      BY <2>0, <3>1
    <3>3. 0 \in 0..Len(vals)
      BY <1>9
    <3>4. QED BY <1>9, <2>0, <3>2, <3>3
  <2>3. QED BY <2>1, <2>2
<1> DEFINE d == [k \in 1..j |-> S[1][f + k]]
           e == [k \in 1..(j + 1) |-> S[1][f + k]]
<1>13. f + j <= Len(S[1]) /\ f \in Nat /\ Len(S[1]) \in Nat
  BY <1>5 DEF InSection
<1>14. Longer(d, e, x)
  <2>1. Len(d) = j /\ Len(e) = j + 1
    OBVIOUS
  <2>2. e[j + 1] = x
    <3>1. e[j + 1] = S[1][f + (j + 1)] /\ f + (j + 1) = f + j + 1
      OBVIOUS
    <3>2. QED BY <1>7, <3>1
  <2>3. \A k \in 1..j : e[k] = d[k]
    OBVIOUS
  <2> HIDE DEF d, e
  <2>4. QED BY <2>1, <2>2, <2>3 DEF Longer
<1>15. /\ TreeIs(cfg.tree, d, OldTree(asked), asked.allow)
       /\ BadIs(cfg.bad, d, OldTree(asked), asked.allow)
  BY <1>5 DEF MadeOf
<1>16. asked.allow \in BOOLEAN
  BY <1>0 DEF CfgTyped
<1>17. MadeOf(S, t, b, asked, f, j + 1)
  <2> HIDE DEF d, e, vals
  <2>1. TreeIs(IF x.words[1] \in DOMAIN cfg.tree /\ ~asked.allow THEN cfg.tree
               ELSE Define(cfg.tree, x.words[1], ValuesOf(x.words)), e, OldTree(asked), asked.allow)
    BY <1>14, <1>15, <1>16, TreeGrows
  <2>2. BadIs(IF x.words[1] \in DOMAIN cfg.tree /\ ~asked.allow THEN Remember(cfg.bad, x.words[1]) ELSE cfg.bad,
              e, OldTree(asked), asked.allow)
    BY <1>9, <1>14, <1>15, <1>16, BadGrows
  <2> HIDE DEF name
  <2>3. TreeIs(t, e, OldTree(asked), asked.allow)
    BY <1>9, <2>1 DEF vals
  <2>4. BadIs(b, e, OldTree(asked), asked.allow)
    BY <1>9, <2>2
  <2>5. QED BY <2>3, <2>4 DEF MadeOf, e
<1> HIDE DEF t, a, b, d, e
<1>18. InSection(S, asked, f, j + 1)
  <2>1. f + (j + 1) <= Len(S[1])
    BY <1>7, <1>13
  <2>2. ASSUME NEW k \in 1..(j + 1) PROVE S[1][f + k].indent
    <3>1. CASE k = j + 1
      <4>1. f + k = f + j + 1
        BY <3>1
      <4>2. S[1][f + k] = x
        BY <1>7, <4>1
      <4>3. QED BY <1>2, <4>2
    <3>2. CASE k # j + 1
      <4>1. k \in 1..j
        BY <3>2
      <4>2. QED BY <1>5, <4>1 DEF InSection
    <3>3. QED BY <3>1, <3>2
  <2>3. j + 1 \in Nat
    OBVIOUS
  <2>4. QED BY <1>5, <2>1, <2>2, <2>3 DEF InSection
<1>19. ReadTo(S, Len(file), x.next, t, b, asked, f, j + 1)
  <2> DEFINE n == x.next
  <2>1. /\ n \in 1..(Len(file) + 1) /\ Len(S[n]) \in Nat /\ Len(S[1]) = Len(S[n]) + (f + j + 1)
        /\ \A k \in 1..Len(S[n]) : S[1][k + (f + j + 1)] = S[n][k]
    BY <1>7 DEF LinesAfter, S
  <2>2. f + (j + 1) = f + j + 1
    OBVIOUS
  <2> HIDE DEF n
  <2>3. /\ Len(S[1]) = Len(S[n]) + (f + (j + 1))
        /\ \A k \in 1..Len(S[n]) : S[1][k + (f + (j + 1))] = S[n][k]
    BY <2>1, <2>2
  <2>4. ReadTo(S, Len(file), n, t, b, asked, f, j + 1)
    BY <1>17, <1>18, <2>1, <2>3 DEF ReadTo
  <2>5. QED BY <2>4 DEF n
<1>20. reading'.line = x.next /\ x.next \in Nat /\ x.next # 0
  <2>1. x.next \in 1..(Len(file) + 1) /\ Len(file) \in Nat
    BY <1>0, <1>7 DEF LinesAfter, FileRead
  <2>2. QED BY <1>1, <2>1
<1>21. \E g, i \in Nat : ReadTo(LinesFrom', Len(file'), reading'.line, cfg'.tree, cfg'.bad, asked', g, i)
  <2>1. ReadTo(LinesFrom', Len(file'), reading'.line, cfg'.tree, cfg'.bad, asked', f, j + 1)
    BY <1>1, <1>10, <1>11, <1>19, <1>20
  <2>2. j + 1 \in Nat
    OBVIOUS
  <2>3. QED BY <2>1, <2>2
<1>22. ~Idle'
  BY <1>20 DEF Idle
<1>23. CfgReading' /\ CfgRead'
  BY <1>1, <1>3, <1>21, <1>22 DEF CfgReading, CfgRead, NoValues
<1>24. CfgLoop' /\ ValuesAreShown'
  <2>1. values'.over /\ values'.param = NoName
    BY <1>1, <1>3 DEF NoValues
  <2>2. QED BY <2>1 DEF CfgLoop, ValuesAreShown
<1>25. CfgTyped'
  <2>1. FileRead' /\ reading'.line \in Nat /\ asked'.allow \in BOOLEAN
    BY <1>0, <1>1, <1>16, <1>20 DEF FileRead
  <2>2. values' = [param |-> values'.param, shown |-> values'.shown, over |-> values'.over]
    BY <1>0, <1>1 DEF CfgTyped
  <2>3. QED BY <1>11, <1>12, <2>1, <2>2 DEF CfgTyped
<1>26. QED BY <1>23, <1>24, <1>25

LEMMA CfgEndsSection == ASSUME CfgInv, SectionEnds PROVE CfgInv'
<1> USE DEF CfgInv
<1> DEFINE m == reading.line
           S == LinesFrom
<1>0. CfgTyped /\ FileRead
  BY DEF CfgTyped
<1>1. /\ ~Idle /\ ~IsParam(m) /\ file' = file /\ asked' = asked /\ values' = values
      /\ cfg' = [cfg EXCEPT !.rc = "0"] /\ reading' = [line |-> 0] /\ checked' = checked
  BY DEF SectionEnds
<1>2. LinesFrom' = S
  BY <1>1, LinesStay
<1>3. cfg' = [loaded |-> cfg.loaded, tree |-> cfg.tree, at |-> cfg.at, bad |-> cfg.bad, rc |-> "0"]
  BY <1>0, <1>1 DEF CfgTyped
<1>4. /\ cfg' = [loaded |-> cfg'.loaded, tree |-> cfg'.tree, at |-> cfg'.at, bad |-> cfg'.bad, rc |-> cfg'.rc]
      /\ cfg'.tree = cfg.tree /\ cfg'.at = cfg.at /\ cfg'.bad = cfg.bad
  BY <1>3
<1>5. values = NoValues
  BY <1>1 DEF CfgReading
<1>6. PICK f, j \in Nat : ReadTo(S, Len(file), m, cfg.tree, cfg.bad, asked, f, j)
  BY <1>1 DEF CfgReading
<1>7. InSection(S, asked, f, j) /\ MadeOf(S, cfg.tree, cfg.bad, asked, f, j)
  BY <1>6 DEF ReadTo
<1>8. LinesAfter(1, m, f + j)
  <2>1. /\ m \in 1..(Len(file) + 1) /\ Len(S[m]) \in Nat /\ Len(S[1]) = Len(S[m]) + (f + j)
        /\ \A k \in 1..Len(S[m]) : S[1][k + (f + j)] = S[m][k]
    BY <1>6 DEF ReadTo
  <2>2. Len(S[1]) \in Nat
    BY <1>7 DEF InSection
  <2>3. f + j \in Nat
    OBVIOUS
  <2> HIDE DEF m
  <2>4. QED BY <2>1, <2>2, <2>3 DEF LinesAfter
<1>9. f + j = Len(S[1]) \/ ~S[1][f + j + 1].indent
  <2>0. 1 \in 1..(Len(file) + 1)
    BY <1>0 DEF FileRead
  <2>1. CASE AtEnd(m)
    BY <1>0, <1>8, <2>0, <2>1, AfterEnd
  <2>2. CASE ~AtEnd(m)
    <3>1. S[1][f + j + 1] = OneLine(m)
      BY <1>0, <1>8, <2>0, <2>2, AfterNext
    <3>2. ~OneLine(m).indent
      BY <1>1, <2>2 DEF IsParam
    <3>3. QED BY <3>1, <3>2
  <2>3. QED BY <2>1, <2>2
<1> HIDE DEF S, m
<1>10. ReadAll(S, cfg.tree, cfg.bad, asked, f, j)
  BY <1>7, <1>9 DEF ReadAll
<1>11. ReadAll(LinesFrom', cfg'.tree, cfg'.bad, asked', f, j)
  BY <1>1, <1>2, <1>4, <1>10
<1>12. Idle' /\ reading'.line \in Nat
  BY <1>1 DEF Idle
<1>13. CfgReading' /\ CfgRead'
  BY <1>11, <1>12 DEF CfgReading, CfgRead
<1>14. CfgLoop' /\ ValuesAreShown'
  <2>1. values'.over /\ values'.param = NoName
    BY <1>1, <1>5 DEF NoValues
  <2>2. QED BY <2>1 DEF CfgLoop, ValuesAreShown
<1>15. CfgTyped'
  <2>1. FileRead' /\ asked'.allow \in BOOLEAN
    BY <1>0, <1>1 DEF FileRead, CfgTyped
  <2>2. values' = [param |-> values'.param, shown |-> values'.shown, over |-> values'.over]
    BY <1>0, <1>1 DEF CfgTyped
  <2>3. QED BY <1>0, <1>4, <1>12, <2>1, <2>2 DEF CfgTyped
<1>16. QED BY <1>13, <1>14, <1>15

LEMMA CfgFields ==
  ASSUME NEW l, NEW t, NEW a, NEW b, NEW r,
         cfg' = [loaded |-> l, tree |-> t, at |-> a, bad |-> b, rc |-> r]
  PROVE  /\ cfg' = [loaded |-> cfg'.loaded, tree |-> cfg'.tree, at |-> cfg'.at, bad |-> cfg'.bad, rc |-> cfg'.rc]
         /\ cfg'.loaded = l /\ cfg'.tree = t /\ cfg'.at = a /\ cfg'.bad = b /\ cfg'.rc = r
  OBVIOUS

\* The cursor of a list is moved.
LEMMA CursorMoves ==
  ASSUME CfgTyped, NEW n \in DOMAIN cfg.tree, NEW i \in 0..Len(cfg.tree[n]),
         cfg' = [loaded |-> cfg.loaded, tree |-> cfg.tree, at |-> [cfg.at EXCEPT ![n] = i],
                 bad |-> cfg.bad, rc |-> cfg.rc]
  PROVE  /\ cfg' = [loaded |-> cfg'.loaded, tree |-> cfg'.tree, at |-> cfg'.at, bad |-> cfg'.bad, rc |-> cfg'.rc]
         /\ cfg'.loaded = cfg.loaded /\ cfg'.tree = cfg.tree /\ cfg'.bad = cfg.bad
         /\ DOMAIN cfg'.at = DOMAIN cfg.at /\ cfg'.at[n] = i
         /\ \A k \in DOMAIN cfg'.tree : cfg'.tree[k] \in Seq(Words) /\ cfg'.at[k] \in 0..Len(cfg'.tree[k])
<1> DEFINE a == [cfg.at EXCEPT ![n] = i]
<1>1. DOMAIN cfg.at = DOMAIN cfg.tree
      /\ \A k \in DOMAIN cfg.tree : cfg.tree[k] \in Seq(Words) /\ cfg.at[k] \in 0..Len(cfg.tree[k])
  BY DEF CfgTyped
<1>3. DOMAIN a = DOMAIN cfg.at /\ a[n] = i /\ \A k \in DOMAIN cfg.at : k # n => a[k] = cfg.at[k]
  BY <1>1
<1>4. /\ cfg' = [loaded |-> cfg'.loaded, tree |-> cfg'.tree, at |-> cfg'.at, bad |-> cfg'.bad, rc |-> cfg'.rc]
      /\ cfg'.loaded = cfg.loaded /\ cfg'.tree = cfg.tree /\ cfg'.bad = cfg.bad /\ cfg'.at = a
  BY CfgFields, Zenon
<1> HIDE DEF a
<1>5. ASSUME NEW k \in DOMAIN cfg.tree PROVE cfg.tree[k] \in Seq(Words) /\ a[k] \in 0..Len(cfg.tree[k])
  BY <1>1, <1>3
<1>6. QED BY <1>3, <1>4, <1>5

LEMMA CursorField ==
  ASSUME CfgTyped, NEW n, NEW i, cfg' = [cfg EXCEPT !.at[n] = i]
  PROVE  cfg' = [loaded |-> cfg.loaded, tree |-> cfg.tree, at |-> [cfg.at EXCEPT ![n] = i],
                 bad |-> cfg.bad, rc |-> cfg.rc]
  BY DEF CfgTyped

LEMMA CfgFirst == ASSUME CfgInv, NEW p, GetFirstValue(p) PROVE CfgInv'
<1> USE DEF CfgInv
<1> DEFINE n == ListOfFirst(p)
           own == Prefixed[p]
<1>0. CfgTyped
  OBVIOUS
<1>1. Idle /\ file' = file /\ reading' = reading /\ asked' = asked /\ checked' = checked
  BY DEF GetFirstValue
<1>2. Idle' /\ reading'.line \in Nat /\ FileRead' /\ asked'.allow \in BOOLEAN
  BY <1>0, <1>1 DEF Idle, FileRead, CfgTyped
<1>3. CASE Exists(n) /\ cfg.tree[n] # <<>>
  <2>1. /\ cfg' = [cfg EXCEPT !.at[n] = 1]
        /\ values' = [param |-> p, shown |-> <<cfg.tree[n][1]>>, over |-> FALSE]
    BY <1>3 DEF GetFirstValue
  <2>2. cfg.loaded /\ n \in DOMAIN cfg.tree
    BY <1>3 DEF Exists
  <2>3. cfg.tree[n] \in Seq(Words)
    BY <1>0, <2>2 DEF CfgTyped
  <2>4. n = own \/ (n = p /\ (own \in DOMAIN cfg.tree => cfg.tree[own] = <<>>))
    BY <2>2 DEF ListOfFirst, Exists
  <2> DEFINE t == cfg.tree[n]
  <2> HIDE DEF n, own
  <2>5. <<t[1]>> = SubSeq(t, 1, 1) /\ 1 \in 0..Len(t)
    BY <1>3, <2>3, ShowsOne
  <2>6. /\ cfg' = [loaded |-> cfg'.loaded, tree |-> cfg'.tree, at |-> cfg'.at, bad |-> cfg'.bad, rc |-> cfg'.rc]
        /\ cfg'.loaded = cfg.loaded /\ cfg'.tree = cfg.tree /\ cfg'.bad = cfg.bad
        /\ DOMAIN cfg'.at = DOMAIN cfg.at /\ cfg'.at[n] = 1
        /\ \A k \in DOMAIN cfg'.tree : cfg'.tree[k] \in Seq(Words) /\ cfg'.at[k] \in 0..Len(cfg'.tree[k])
    <3>1. cfg' = [loaded |-> cfg.loaded, tree |-> cfg.tree, at |-> [cfg.at EXCEPT ![n] = 1],
                  bad |-> cfg.bad, rc |-> cfg.rc]
      BY <1>0, <2>1, CursorField
    <3>2. QED BY <1>0, <2>2, <2>5, <3>1, CursorMoves
  <2>7. /\ values' = [param |-> values'.param, shown |-> values'.shown, over |-> values'.over]
        /\ values'.param = p /\ values'.shown = <<t[1]>> /\ ~values'.over
    BY <2>1
  <2>8. CfgTyped'
    BY <1>0, <1>2, <2>6, <2>7 DEF CfgTyped
  <2>9. CfgReading' /\ CfgRead'
    BY <1>0, <1>1, <2>6, CfgReadsOn
  <2>10. ShowsList(cfg'.tree, cfg'.at, values'.shown, n)
    BY <2>2, <2>5, <2>6, <2>7 DEF ShowsList
  <2>11. CfgLoop'
    <3>1. CASE n = own
      <4>1. own \in DOMAIN cfg'.tree /\ ShowsList(cfg'.tree, cfg'.at, values'.shown, own)
        BY <2>2, <2>6, <2>10, <3>1
      <4>2. QED BY <1>2, <2>2, <2>6, <2>7, <4>1 DEF CfgLoop, own
    <3>2. CASE n = p /\ (own \in DOMAIN cfg.tree => cfg.tree[own] = <<>>)
      <4>1. own \in DOMAIN cfg'.tree => cfg'.tree[own] = <<>>
        BY <2>6, <3>2
      <4>2. ShowsList(cfg'.tree, cfg'.at, values'.shown, p)
        BY <2>10, <3>2
      <4>3. QED BY <1>2, <2>2, <2>6, <2>7, <4>1, <4>2 DEF CfgLoop, own
    <3>3. QED BY <2>4, <3>1, <3>2
  <2>12. ValuesAreShown'
    BY <2>7 DEF ValuesAreShown
  <2>13. QED BY <2>8, <2>9, <2>11, <2>12
<1>4. CASE ~(Exists(n) /\ cfg.tree[n] # <<>>)
  <2>1. /\ cfg' = cfg
        /\ values' = [param |-> p, shown |-> <<>>, over |-> TRUE]
    BY <1>4 DEF GetFirstValue
  <2>2. /\ values' = [param |-> values'.param, shown |-> values'.shown, over |-> values'.over]
        /\ values'.param = p /\ values'.shown = <<>> /\ values'.over
    BY <2>1
  <2>3. CfgTyped'
    BY <1>0, <1>2, <2>1, <2>2 DEF CfgTyped
  <2>4. CfgReading' /\ CfgRead'
    BY <1>0, <1>1, <2>1, CfgReadsOn
  <2>5. CfgLoop'
    BY <2>2 DEF CfgLoop
  <2>6. cfg.loaded => /\ own \in DOMAIN cfg.tree => cfg.tree[own] = <<>>
                      /\ p \in DOMAIN cfg.tree => own \in DOMAIN cfg.tree \/ cfg.tree[p] = <<>>
    BY <1>4 DEF ListOfFirst, Exists
  <2> HIDE DEF own
  <2>7. ValuesAreShown'
    BY <2>1, <2>2, <2>6 DEF ValuesAreShown, own
  <2>8. QED BY <2>3, <2>4, <2>5, <2>7
<1>5. QED BY <1>3, <1>4

LEMMA CfgNextValue == ASSUME CfgInv, GetNextValue PROVE CfgInv'
<1> USE DEF CfgInv
<1> DEFINE p == values.param
           n == ListOfNext(p)
           own == Prefixed[p]
<1>0. CfgTyped
  OBVIOUS
<1>1. ~values.over /\ file' = file /\ reading' = reading /\ asked' = asked /\ checked' = checked
  BY DEF GetNextValue
<1>2. /\ Idle /\ cfg.loaded
      /\ IF own \in DOMAIN cfg.tree
         THEN \/ cfg.tree[own] = <<>> \/ ShowsList(cfg.tree, cfg.at, values.shown, own)
         ELSE ShowsList(cfg.tree, cfg.at, values.shown, p)
  BY <1>1 DEF CfgLoop
<1>3. Idle' /\ reading'.line \in Nat /\ FileRead' /\ asked'.allow \in BOOLEAN
  BY <1>0, <1>1, <1>2 DEF Idle, FileRead, CfgTyped
<1>4. n = IF own \in DOMAIN cfg.tree THEN own ELSE p
  BY <1>2 DEF ListOfNext, Exists
<1>5. n \in DOMAIN cfg.tree /\ (cfg.tree[n] = <<>> \/ ShowsList(cfg.tree, cfg.at, values.shown, n))
  <2> HIDE DEF n, own, p
  <2>1. QED BY <1>2, <1>4 DEF ShowsList
<1>6. Exists(n)
  BY <1>2, <1>5 DEF Exists
<1> DEFINE t == cfg.tree[n]
           i == cfg.at[n]
<1>7. t \in Seq(Words) /\ i \in 0..Len(t)
  <2> HIDE DEF n
  <2>1. QED BY <1>0, <1>5 DEF CfgTyped
<1>8. values = [param |-> values.param, shown |-> values.shown, over |-> values.over]
  BY <1>0 DEF CfgTyped
<1>9. CASE i < Len(t)
  <2>1. /\ cfg' = [cfg EXCEPT !.at[n] = @ + 1]
        /\ values' = [values EXCEPT !.shown = Append(@, cfg.tree[n][cfg.at[n] + 1])]
    BY <1>6, <1>9 DEF GetNextValue
  <2>2. cfg' = [cfg EXCEPT !.at[n] = i + 1]
    BY <2>1
  <2>3. values' = [param |-> values.param, shown |-> Append(values.shown, t[i + 1]), over |-> values.over]
    BY <1>8, <2>1
  <2>4. Append(SubSeq(t, 1, i), t[i + 1]) = SubSeq(t, 1, i + 1) /\ i + 1 \in 0..Len(t)
    <3> HIDE DEF t, i
    <3>1. QED BY <1>7, <1>9, ShowsNext
  <2>5. cfg.tree[n] # <<>>
    <3>1. Len(t) # 0
      BY <1>7, <1>9
    <3> HIDE DEF n
    <3>2. QED BY <3>1
  <2>6. /\ cfg' = [loaded |-> cfg'.loaded, tree |-> cfg'.tree, at |-> cfg'.at, bad |-> cfg'.bad, rc |-> cfg'.rc]
        /\ cfg'.loaded = cfg.loaded /\ cfg'.tree = cfg.tree /\ cfg'.bad = cfg.bad
        /\ DOMAIN cfg'.at = DOMAIN cfg.at /\ cfg'.at[n] = i + 1
        /\ \A k \in DOMAIN cfg'.tree : cfg'.tree[k] \in Seq(Words) /\ cfg'.at[k] \in 0..Len(cfg'.tree[k])
    <3> HIDE DEF n
    <3>1. cfg' = [loaded |-> cfg.loaded, tree |-> cfg.tree, at |-> [cfg.at EXCEPT ![n] = i + 1],
                  bad |-> cfg.bad, rc |-> cfg.rc]
      BY <1>0, <2>2, CursorField
    <3>2. QED BY <1>0, <1>5, <2>4, <3>1, CursorMoves
  <2> HIDE DEF n, own
  <2>7. /\ values' = [param |-> values'.param, shown |-> values'.shown, over |-> values'.over]
        /\ values'.param = values.param /\ values'.shown = Append(values.shown, t[i + 1])
        /\ ~values'.over
    BY <1>1, <2>3
  <2>8. CfgTyped'
    BY <1>0, <1>3, <2>6, <2>7 DEF CfgTyped
  <2>9. CfgReading' /\ CfgRead'
    BY <1>0, <1>1, <1>2, <2>6, CfgReadsOn
  <2>10. ShowsList(cfg'.tree, cfg'.at, values'.shown, n)
    <3>1. values.shown = SubSeq(t, 1, i)
      BY <1>5, <2>5 DEF ShowsList
    <3>2. values'.shown = SubSeq(t, 1, i + 1)
      BY <2>4, <2>7, <3>1
    <3>3. n \in DOMAIN cfg'.tree /\ cfg'.tree[n] = t /\ cfg'.at[n] = i + 1
      BY <1>5, <2>6
    <3>4. QED BY <3>2, <3>3 DEF ShowsList
  <2>11. CfgLoop'
    <3>1. CASE own \in DOMAIN cfg.tree
      <4>1. own \in DOMAIN cfg'.tree /\ ShowsList(cfg'.tree, cfg'.at, values'.shown, own)
        BY <1>4, <2>6, <2>10, <3>1
      <4>2. QED BY <1>2, <1>3, <2>6, <2>7, <4>1 DEF CfgLoop, own
    <3>2. CASE own \notin DOMAIN cfg.tree
      <4>1. own \notin DOMAIN cfg'.tree /\ ShowsList(cfg'.tree, cfg'.at, values'.shown, p)
        BY <1>4, <2>6, <2>10, <3>2
      <4>2. QED BY <1>2, <1>3, <2>6, <2>7, <4>1 DEF CfgLoop, own
    <3>3. QED BY <3>1, <3>2
  <2>12. ValuesAreShown'
    BY <2>7 DEF ValuesAreShown
  <2>13. QED BY <2>8, <2>9, <2>11, <2>12
<1>10. CASE ~(i < Len(t))
  <2>1. cfg' = cfg /\ values' = [values EXCEPT !.over = TRUE]
    BY <1>6, <1>10 DEF GetNextValue
  <2>2. values' = [param |-> values.param, shown |-> values.shown, over |-> TRUE]
    BY <1>8, <2>1
  <2>3. /\ values' = [param |-> values'.param, shown |-> values'.shown, over |-> values'.over]
        /\ values'.param = values.param /\ values'.shown = values.shown /\ values'.over
    BY <2>2
  <2>4. i = Len(t) /\ SubSeq(t, 1, Len(t)) = t
    <3> HIDE DEF t, i
    <3>1. Len(t) \in Nat
      BY <1>7
    <3>2. QED BY <1>7, <1>10, <3>1, SubSeqFull
  <2> HIDE DEF n, own
  <2>5. CfgTyped'
    BY <1>0, <1>3, <2>1, <2>3 DEF CfgTyped
  <2>6. CfgReading' /\ CfgRead'
    BY <1>0, <1>1, <1>2, <2>1, CfgReadsOn
  <2>7. CfgLoop'
    BY <2>3 DEF CfgLoop
  <2>8. cfg.tree[n] = <<>> \/ values.shown = cfg.tree[n]
    <3>1. CASE cfg.tree[n] = <<>>
      BY <3>1
    <3>2. CASE ShowsList(cfg.tree, cfg.at, values.shown, n)
      <4>1. values.shown = SubSeq(t, 1, i)
        BY <3>2 DEF ShowsList
      <4>2. QED BY <2>4, <4>1
    <3>3. QED BY <1>5, <3>1, <3>2
  <2>9. own \in DOMAIN cfg.tree => cfg.tree[own] = <<>> \/ values.shown = cfg.tree[own]
    BY <1>4, <2>8
  <2>10. own \notin DOMAIN cfg.tree => p \in DOMAIN cfg.tree /\ values.shown = cfg.tree[p]
    <3>1. SUFFICES ASSUME own \notin DOMAIN cfg.tree PROVE p \in DOMAIN cfg.tree /\ values.shown = cfg.tree[p]
      OBVIOUS
    <3>2. n = p
      BY <1>4, <3>1
    <3>3. ShowsList(cfg.tree, cfg.at, values.shown, p)
      BY <1>2, <3>1
    <3>4. values.shown = SubSeq(t, 1, i)
      BY <3>2, <3>3 DEF ShowsList
    <3>5. QED BY <1>5, <2>4, <3>2, <3>4
  <2>11. ValuesAreShown'
    BY <2>1, <2>3, <2>9, <2>10 DEF ValuesAreShown, own
  <2>12. QED BY <2>5, <2>6, <2>7, <2>11
<1>11. QED BY <1>9, <1>10

LEMMA CfgChecks == ASSUME CfgInv, NEW required, CheckAll(required) PROVE CfgInv'
<1> USE DEF CfgInv
<1>0. CfgTyped
  OBVIOUS
<1>1. /\ Idle /\ values.over /\ checked = NoName /\ file' = file /\ reading' = reading
      /\ asked' = asked /\ values' = values
  BY DEF CheckAll
<1>2. cfg' = cfg \/ \E b : cfg' = [cfg EXCEPT !.bad = b]
  <2> DEFINE missing == SelectSeq(required, LAMBDA p: p \notin DOMAIN cfg.tree)
             bad == SelectSeq(required, LAMBDA p: BadValues(p))
  <2>1. \/ cfg' = [cfg EXCEPT !.bad = Head(missing)]
        \/ cfg' = [cfg EXCEPT !.bad = Remember(cfg.bad, Head(bad))]
        \/ cfg' = cfg
    BY DEF CheckAll
  <2> HIDE DEF missing, bad
  <2>2. QED BY <2>1
<1>3. checked' # NoName
  BY DEF CheckAll, NoName
<1>4. /\ cfg' = [loaded |-> cfg'.loaded, tree |-> cfg'.tree, at |-> cfg'.at, bad |-> cfg'.bad, rc |-> cfg'.rc]
      /\ cfg'.loaded = cfg.loaded /\ cfg'.tree = cfg.tree /\ cfg'.at = cfg.at
  <2>0. cfg = [loaded |-> cfg.loaded, tree |-> cfg.tree, at |-> cfg.at, bad |-> cfg.bad, rc |-> cfg.rc]
    BY <1>0 DEF CfgTyped
  <2>1. CASE cfg' = cfg
    BY <2>0, <2>1
  <2>2. ASSUME NEW b, cfg' = [cfg EXCEPT !.bad = b]
        PROVE  /\ cfg' = [loaded |-> cfg'.loaded, tree |-> cfg'.tree, at |-> cfg'.at, bad |-> cfg'.bad, rc |-> cfg'.rc]
               /\ cfg'.loaded = cfg.loaded /\ cfg'.tree = cfg.tree /\ cfg'.at = cfg.at
    <3>1. cfg' = [loaded |-> cfg.loaded, tree |-> cfg.tree, at |-> cfg.at, bad |-> b, rc |-> cfg.rc]
      BY <2>0, <2>2
    <3>2. QED BY <3>1
  <2>3. QED BY <1>2, <2>1, <2>2
<1>5. CfgReading' /\ CfgRead'
  BY <1>0, <1>1, <1>3, <1>4, CfgReadsOn
<1>6. CfgTyped'
  <2>1. FileRead' /\ asked'.allow \in BOOLEAN /\ reading'.line \in Nat
    BY <1>0, <1>1 DEF FileRead, CfgTyped
  <2>2. QED BY <1>0, <1>1, <1>4, <2>1 DEF CfgTyped
<1>7. CfgLoop'
  BY <1>1 DEF CfgLoop
<1>8. ValuesAreShown'
  BY <1>1, <1>4 DEF ValuesAreShown
<1>9. QED BY <1>5, <1>6, <1>7, <1>8

LEMMA CfgRests == ASSUME CfgInv, UNCHANGED configVars PROVE CfgInv'
<1> USE DEF CfgInv
<1>1. /\ file' = file /\ cfg' = cfg /\ reading' = reading /\ asked' = asked /\ values' = values
      /\ checked' = checked
  BY DEF configVars
<1>2. LinesFrom' = LinesFrom
  BY <1>1, LinesStay
<1>3. CfgTyped'
  BY <1>1 DEF CfgTyped, FileRead
<1>4. CfgReading' /\ CfgRead'
  <2>1. Idle' <=> Idle
    BY <1>1 DEF Idle
  <2>2. CfgReading'
    BY <1>1, <1>2, <2>1 DEF CfgReading
  <2>3. CfgRead'
    BY <1>1, <1>2, <2>1 DEF CfgRead
  <2>4. QED BY <2>2, <2>3
<1>5. CfgLoop' /\ ValuesAreShown'
  <2>1. Idle' <=> Idle
    BY <1>1 DEF Idle
  <2>2. CfgLoop'
    BY <1>1, <2>1 DEF CfgLoop
  <2>3. ValuesAreShown'
    BY <1>1 DEF ValuesAreShown
  <2>4. QED BY <2>2, <2>3
<1>6. QED BY <1>3, <1>4, <1>5

LEMMA CfgInitInv == ConfigInit => CfgInv
<1> SUFFICES ASSUME ConfigInit PROVE CfgInv
  OBVIOUS
<1>1. FileRead
  <2>1. PICK n \in 0..MaxLines : file \in [1..n -> Lines]
    BY DEF ConfigInit
  <2>2. n \in Nat
    BY ConfigAssumption
  <2>3. QED BY <2>1, <2>2 DEF FileRead
<1>2. /\ cfg = [loaded |-> FALSE, tree |-> <<>>, at |-> <<>>, bad |-> NoName, rc |-> "0"]
      /\ reading = [line |-> 0] /\ asked.allow = FALSE /\ values = NoValues
  BY DEF ConfigInit
<1>3. /\ cfg = [loaded |-> cfg.loaded, tree |-> cfg.tree, at |-> cfg.at, bad |-> cfg.bad, rc |-> cfg.rc]
      /\ ~cfg.loaded /\ cfg.tree = <<>> /\ cfg.at = <<>>
  BY <1>2
<1>4. /\ values = [param |-> values.param, shown |-> values.shown, over |-> values.over]
      /\ values.over /\ values.param = NoName
  BY <1>2 DEF NoValues
<1>5. Idle /\ reading.line \in Nat
  BY <1>2 DEF Idle
<1>6. DOMAIN cfg.at = DOMAIN cfg.tree /\ \A n \in DOMAIN cfg.tree : FALSE
  BY <1>3
<1>7. CfgTyped
  BY <1>1, <1>2, <1>3, <1>4, <1>5, <1>6 DEF CfgTyped
<1>8. CfgReading /\ CfgRead
  BY <1>3, <1>5 DEF CfgReading, CfgRead
<1>9. CfgLoop /\ ValuesAreShown
  BY <1>4 DEF CfgLoop, ValuesAreShown
<1>10. QED BY <1>7, <1>8, <1>9 DEF CfgInv

LEMMA CfgStep == CfgInv /\ [ConfigNext]_configVars => CfgInv'
  BY CfgOpens, CfgReadsParam, CfgEndsSection, CfgFirst, CfgNextValue, CfgChecks, CfgRests DEF ConfigNext
=============================================================================
