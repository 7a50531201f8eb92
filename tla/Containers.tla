----------------------------- MODULE Containers -----------------------------
(***************************************************************************)
(* The containers that the C libraries of the repository share: the linked *)
(* list of misc_fn/linklist.c, the growing array of dynarray/dynarray.c    *)
(* and the memory counter of dynarray/memalloc.c under it.                 *)
(*                                                                         *)
(* A list keeps the cursor of its one iteration inside itself, and the     *)
(* functions that add or remove an element move that cursor.  The caller   *)
(* is a loop                                                               *)
(*     for (p = first(list); p != NULL; p = next(list))                    *)
(* whose body may remove any element, and may append elements that it was  *)
(* not given.  Outside of a loop any function may be called; in a loop an  *)
(* element that comes in at the head is not meant to be given, and is left *)
(* out.                                                                    *)
(***************************************************************************)
EXTENDS Integers, Sequences, FiniteSets, SequencesExt, Functions

CONSTANTS
    Data,           \* the pointers that are put in the list, all different
    ArrayKeys,      \* the values that are put in the array
    MaxAllocatable, \* the three numbers given to the creation of the array
    Growth,
    InitialSize,
    MaxOps          \* operations on the array in a behaviour (bound)

ASSUME ContainersAssumption ==
    /\ ArrayKeys \subseteq Int
    /\ {MaxAllocatable, Growth, InitialSize} \subseteq Nat \ {0}

VARIABLES
    list,    \* its elements and the cursor; cursor 0 is the NULL pointer
    loop,    \* the caller's loop: whether it runs, what it was given, and whether
             \* its body removed an element that is far from the cursor
    array,   \* the fields of DYN_ARRAY_OBJ_T that matter
    search,  \* the last answer of dynarray_bsearch
    memory,  \* s_memory_allocated, and the blocks that are really allocated
    ops

listVars == <<list, loop>>
arrayVars == <<array, search, memory, ops>>

-----------------------------------------------------------------------------
(* The linked list *)

NewList == [elems |-> <<>>, cursor |-> 0]

\* An element that comes into an empty list resets the cursor.  At the head
\* it moves the place, not the node, that the cursor points to.
Added(l, d, atHead) ==
    IF l.elems = <<>> THEN [elems |-> <<d>>, cursor |-> 0]
    ELSE IF atHead
    THEN [elems |-> <<d>> \o l.elems,
          cursor |-> IF l.cursor = 0 THEN 0 ELSE l.cursor + 1]
    ELSE [l EXCEPT !.elems = Append(@, d)]

\* Mutant of Removed: the cursor does not move.
MutRemoved(l, k) == [l EXCEPT !.elems = RemoveAt(@, k)]

\* The node k leaves the list: the cursor goes to the node before it, or is
\* reset when there is none.
Removed(l, k) == [elems |-> RemoveAt(l.elems, k), cursor |-> k - 1]

First(l) == IF l.elems = <<>> THEN l ELSE [l EXCEPT !.cursor = 1]

\* A reset cursor starts the list again; the last element has no next one.
Next1(l) ==
    IF l.cursor = 0 THEN First(l)
    ELSE IF l.cursor = Len(l.elems) THEN l ELSE [l EXCEPT !.cursor = @ + 1]

NextIsNull(l) == l.elems = <<>> \/ (l.cursor # 0 /\ l.cursor = Len(l.elems))

InsertAtHead(d) ==
    /\ ~loop.runs /\ d \notin ToSet(list.elems)
    /\ list' = Added(list, d, TRUE)
    /\ UNCHANGED loop

AppendAtTail(d) ==
    /\ d \notin ToSet(list.elems) \cup ToSet(loop.given)
    /\ list' = Added(list, d, FALSE)
    /\ UNCHANGED loop

\* What a loop has not given is what lies behind the cursor, before and after
\* the element at the cursor or the next one is removed.  A removal in front of
\* them takes the loop back, and one behind them takes it forward.
FarFromCursor(k) == loop.runs /\ k \notin {list.cursor, list.cursor + 1}

Removes(k) ==
    /\ list' = Removed(list, k)
    /\ loop' = [loop EXCEPT !.astray = @ \/ FarFromCursor(k)]

RemoveElement(d) ==
    \E k \in 1..Len(list.elems): list.elems[k] = d /\ Removes(k)

PopFirst == list.elems # <<>> /\ Removes(1)

LoopBegins ==
    /\ ~loop.runs
    /\ list' = First(list)
    /\ loop' = [runs |-> list.elems # <<>>, astray |-> FALSE,
                given |-> IF list.elems = <<>> THEN <<>> ELSE <<Head(list.elems)>>]

LoopGoesOn ==
    /\ loop.runs
    /\ IF NextIsNull(list)
       THEN /\ loop' = [loop EXCEPT !.runs = FALSE]
            /\ UNCHANGED list
       ELSE /\ list' = Next1(list)
            /\ loop' = [loop EXCEPT !.given = Append(@, list'.elems[list'.cursor])]

ListInit ==
    /\ list = NewList
    /\ loop = [runs |-> FALSE, astray |-> FALSE, given |-> <<>>]

ListNext ==
    \/ \E d \in Data: InsertAtHead(d) \/ AppendAtTail(d) \/ RemoveElement(d)
    \/ PopFirst \/ LoopBegins \/ LoopGoesOn

-----------------------------------------------------------------------------
(* The growing array; its memory is counted in elements *)

NoArray == [state |-> "none", elems |-> <<>>, allocated |-> 0, cursor |-> 0]

NoSearch == [done |-> FALSE, key |-> 0, found |-> 0, before |-> 0, after |-> 0]

\* mem_realloc counts the difference between the new block and the old one.
Counted1(m, new, old) == [counted |-> m.counted + new - old, live |-> m.live + new - old]

Step == /\ ops < MaxOps
        /\ ops' = ops + 1

\* Growing stops at the maximum, also when a smaller step would fit.
CanGrow(a, n) == a.allocated + n <= MaxAllocatable

Grown(a, n) == [a EXCEPT !.allocated = @ + n]

CreateArray ==
    /\ array.state # "live" /\ Step
    /\ IF CanGrow(NoArray, InitialSize)
       THEN /\ array' = [Grown(NoArray, InitialSize) EXCEPT !.state = "live"]
            /\ memory' = Counted1(memory, InitialSize, 0)
       ELSE UNCHANGED <<array, memory>>
    /\ search' = NoSearch

\* The array grows when it is full; the element is refused when it cannot, or
\* when the system has no memory.
AddNewElement(k) ==
    /\ array.state = "live" /\ Step
    /\ \/ /\ Len(array.elems) < array.allocated
          /\ array' = [array EXCEPT !.elems = Append(@, k)]
          /\ UNCHANGED memory
       \/ /\ Len(array.elems) = array.allocated
          /\ CanGrow(array, Growth)
          /\ array' = [Grown(array, Growth) EXCEPT !.elems = Append(@, k)]
          /\ memory' = Counted1(memory, array.allocated + Growth, array.allocated)
       \/ /\ Len(array.elems) = array.allocated
          /\ UNCHANGED <<array, memory>>
    /\ search' = NoSearch

GetFirst ==
    /\ array.state = "live" /\ Step
    /\ array' = [array EXCEPT !.cursor = IF array.elems = <<>> THEN 0 ELSE 1]
    /\ UNCHANGED <<search, memory>>

GetNext ==
    /\ array.state = "live" /\ Step
    /\ array.cursor < Len(array.elems)
    /\ array' = [array EXCEPT !.cursor = @ + 1]
    /\ UNCHANGED <<search, memory>>

EmptyArray ==
    /\ array.state = "live" /\ Step
    /\ array' = [array EXCEPT !.elems = <<>>, !.cursor = 0]
    /\ search' = NoSearch
    /\ UNCHANGED memory

\* The block of the elements is freed; the object itself stays, marked dead.
FreeArray ==
    /\ array.state = "live" /\ Step
    /\ array' = [NoArray EXCEPT !.state = "freed", !.cursor = array.cursor]
    /\ memory' = Counted1(memory, 0, array.allocated)
    /\ search' = NoSearch

Ordered(s) == \A i \in 1..(Len(s) - 1): s[i] <= s[i + 1]

\* The elements are put in order; qsort may exchange those that are equal.
Sort ==
    /\ array.state = "live" /\ Step
    /\ \E order \in Bijection(DOMAIN array.elems, DOMAIN array.elems):
         LET sorted == [i \in 1..Len(array.elems) |-> array.elems[order[i]]] IN
         /\ Ordered(sorted)
         /\ array' = [array EXCEPT !.elems = sorted]
    /\ search' = NoSearch
    /\ UNCHANGED memory

\* The C library's bsearch over the places range[1]..range[2]: the place of
\* the last element that it compares with the key.
Middle(range) == (range[1] + range[2]) \div 2

Probe(s, key) ==
    LET go[range \in (1..Len(s)) \X (1..Len(s))] ==
            LET mid == Middle(range) IN
            IF key < s[mid] /\ range[1] < mid THEN go[<<range[1], mid - 1>>]
            ELSE IF s[mid] < key /\ mid < range[2] THEN go[<<mid + 1, range[2]>>]
            ELSE mid
    IN go[<<1, Len(s)>>]

\* The neighbours of the key, from the last element compared.
Neighbours(s, key) ==
    LET at == Probe(s, key)
        up == IF at < Len(s) THEN at + 1 ELSE 0
        Gives(found, before, after) ==
            [done |-> TRUE, key |-> key, found |-> found, before |-> before, after |-> after]
    IN IF s = <<>> THEN Gives(0, 0, 0)
       ELSE IF s[at] = key THEN Gives(at, at - 1, up)
       ELSE IF key < s[at] THEN Gives(0, at - 1, at)
       ELSE Gives(0, at, up)

\* Callers sort the array before they search it.
Search(key) ==
    /\ array.state = "live" /\ Ordered(array.elems) /\ Step
    /\ search' = Neighbours(array.elems, key)
    /\ UNCHANGED <<array, memory>>

ArrayInit ==
    /\ array = NoArray
    /\ search = NoSearch
    /\ memory = [counted |-> 0, live |-> 0]
    /\ ops = 0

ArrayNext ==
    \/ \E k \in ArrayKeys: AddNewElement(k) \/ Search(k)
    \/ CreateArray \/ GetFirst \/ GetNext \/ EmptyArray \/ FreeArray \/ Sort

-----------------------------------------------------------------------------
(* Properties *)

ContainersTypeOK ==
    /\ ToSet(list.elems) \subseteq Data /\ IsInjective(list.elems)
    /\ list.cursor \in 0..Len(list.elems)
    /\ loop.runs \in BOOLEAN /\ loop.astray \in BOOLEAN /\ ToSet(loop.given) \subseteq Data
    /\ array.state \in {"none", "live", "freed"}
    /\ ToSet(array.elems) \subseteq ArrayKeys
    /\ array.cursor \in Nat /\ ops \in 0..MaxOps

\* A loop over a list gives each element once and leaves out none, although
\* the list grows meanwhile and its body removes elements at the cursor, which
\* may be anywhere after other removals, and next to it (linklist.c).
LoopGivesAll ==
    ~loop.astray =>
        /\ IsInjective(loop.given)
        /\ loop.runs /\ NextIsNull(list) => ToSet(list.elems) \subseteq ToSet(loop.given)

\* The places that the binary search gives are those of the key or of the
\* two elements it would come between (dynarray.c).
NeighboursAreTrue ==
    search.done =>
        LET s == array.elems
            below == Cardinality({i \in 1..Len(s): s[i] < search.key}) IN
        IF search.key \in ToSet(s)
        THEN /\ search.found # 0 /\ s[search.found] = search.key
             /\ search.before = search.found - 1
             /\ search.after = (search.found + 1) % (Len(s) + 1)
        ELSE /\ search.found = 0
             /\ search.before = below
             /\ search.after = (IF s = <<>> THEN 0 ELSE (below + 1) % (Len(s) + 1))

\* The array stays inside its block and its maximum, and the memory counter
\* is the memory that is allocated (dynarray.c, memalloc.c).
MemoryIsTrue ==
    /\ Len(array.elems) <= array.allocated
    /\ array.allocated <= MaxAllocatable
    /\ memory.counted = memory.live
    /\ memory.live = array.allocated

ContainersAreTrue == LoopGivesAll /\ NeighboursAreTrue /\ MemoryIsTrue
=============================================================================
